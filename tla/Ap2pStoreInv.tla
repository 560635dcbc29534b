---------------------------- MODULE Ap2pStoreInv ----------------------------
(***************************************************************************)
(* The inductive invariant of Ap2pStore: what its safety properties rest   *)
(* on.                                                                     *)
(***************************************************************************)
EXTENDS Ap2pStore

\* A process at statement i of program g.
Running ==
  [prog : DOMAIN Programs, at : Nat \ {0},
   phase : {"next", "again", "create", "defaults", "read", "write", "send"},
   wrote : SUBSET Nat, nameless : BOOLEAN]

StoreTypes ==
  /\ proc \in [Procs -> {Idle, Loop} \cup Running]
  /\ \A p \in Procs :
       /\ proc[p] \in Running => proc[p].at <= Len(Programs[proc[p].prog])
       /\ proc[p].phase = "send" => proc[p].prog \in Senders
  /\ leaked \subseteq Procs
  /\ disturbed \in BOOLEAN

\* Of a process that tells a peer about connections, what it has gone past is committed.
WrittenSoFar(x) ==
  x \in Running /\ x.prog \in Senders \ {"send", "message"} =>
    \A i \in 1 .. Len(Programs[x.prog]) :
      IsWrite(Programs[x.prog][i]) /\ (i < x.at \/ x.phase = "send") => i \in x.wrote

\* What is read or written is there, and nothing that writes is taken for a read: State
\* has no row before it is made.
TablesThere ==
  /\ keys # {} => "State" \in made
  /\ \A p \in Procs :
       /\ proc[p].phase \in {"read", "write"} => Now(p).uses \subseteq made
       /\ proc[p].phase = "read" => ~IsWrite(Now(p))
       /\ proc[p].phase = "defaults" => "State" \in made

\* The process that has made State and not its defaults, if undisturbed, has no one to
\* meet: nobody runs, nobody has left a lock, and no default is there.
MakerAlone ==
  \A p \in Procs : proc[p].phase = "defaults" /\ ~disturbed =>
    /\ keys \cap DefaultKeys = {}
    /\ leaked \subseteq {p}
    /\ \A q \in Others(p) : proc[q].at = 0

StoreInv ==
  /\ StoreTypes
  /\ \A p \in Procs : WrittenSoFar(proc[p])
  /\ TablesThere
  /\ MakerAlone
  /\ DefaultsWhole

=============================================================================
