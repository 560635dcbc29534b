-------------------------- MODULE Ap2pStoreProofs --------------------------
(***************************************************************************)
(* What holds of a node's database file under any number of processes.     *)
(***************************************************************************)
EXTENDS Ap2pStoreInv, TLAPS

-----------------------------------------------------------------------------
(* The programs. *)

StmtFacts(g, s) ==
  /\ s.kind \in {"read", "get", "write", "set", "returning"}
  /\ s.kind = "set" => s.uses = {"State"}
  /\ s.kind = "returning" => g \in {"send", "message"}
  /\ s.key = "self_name" /\ IsWrite(s) => g \notin Senders

LEMMA Statements ==
  ASSUME NEW g \in DOMAIN Programs
  PROVE  /\ Len(Programs[g]) \in Nat \ {0}
         /\ \A i \in 1 .. Len(Programs[g]) : StmtFacts(g, Programs[g][i])
<1> USE DEF Programs, StmtFacts, ReadConns, WriteConns, Stmt, State, IsWrite, Senders
<1>1. CASE g = "request"  BY <1>1
<1>2. CASE g = "accept"  BY <1>2
<1>3. CASE g = "reject"  BY <1>3
<1>4. CASE g = "send"  BY <1>4
<1>5. CASE g = "select"  BY <1>5
<1>6. CASE g = "set"  BY <1>6
<1>7. CASE g = "get"  BY <1>7
<1>8. CASE g = "conns"  BY <1>8
<1>9. CASE g = "msgs"  BY <1>9
<1>10. CASE g = "listen"  BY <1>10
<1>11. CASE g = "offer"  BY <1>11
<1>12. CASE g = "reply"  BY <1>12
<1>13. CASE g = "message"  BY <1>13
<1>14. CASE g = "received"  BY <1>14
<1> QED
  BY <1>1, <1>2, <1>3, <1>4, <1>5, <1>6, <1>7, <1>8, <1>9, <1>10, <1>11, <1>12, <1>13,
     <1>14

-----------------------------------------------------------------------------
(* Where a process can be. *)

LEMMA AtRest ==
  /\ Idle.at = 0 /\ Idle.phase = "idle"
  /\ Loop.at = 0 /\ Loop.phase = "loop"
  /\ Idle \notin Running /\ Loop \notin Running
BY DEF Idle, Loop, Running

LEMMA RunningFields ==
  ASSUME NEW x \in Running
  PROVE  /\ x.prog \in DOMAIN Programs /\ x.at \in Nat \ {0}
         /\ x.phase \in {"next", "again", "create", "defaults", "read", "write", "send"}
         /\ x.wrote \in SUBSET Nat /\ x.nameless \in BOOLEAN
BY DEF Running

\* A process that is in no phase of a program runs none.
LEMMA WhoRuns ==
  ASSUME StoreTypes, NEW p \in Procs
  PROVE  /\ proc[p].at \in Nat
         /\ proc[p].at > 0 <=> proc[p] \in Running
         /\ proc[p] \in Running =>
              /\ proc[p].prog \in DOMAIN Programs
              /\ proc[p].at \in 1 .. Len(Programs[proc[p].prog])
              /\ Len(Programs[proc[p].prog]) \in Nat
         /\ proc[p] \notin Running => proc[p].phase \in {"idle", "loop"}
         /\ proc[p].phase \in {"next", "again", "create", "defaults", "read", "write",
                               "send"}
              => proc[p] \in Running
<1>1. CASE proc[p] \in {Idle, Loop}  BY <1>1, AtRest
<1>2. CASE proc[p] \in Running
  <2>1. PICK x \in Running : x = proc[p]  BY <1>2
  <2>2. x.prog \in DOMAIN Programs /\ x.at \in Nat \ {0}  BY RunningFields
  <2>3. x.at <= Len(Programs[x.prog])  BY <2>1 DEF StoreTypes
  <2>4. Len(Programs[x.prog]) \in Nat  BY <2>2, Statements
  <2> QED  BY <1>2, <2>1, <2>2, <2>3, <2>4
<1> QED  BY <1>1, <1>2 DEF StoreTypes

LEMMA NowFacts ==
  ASSUME StoreTypes, NEW p \in Procs, proc[p] \in Running
  PROVE  StmtFacts(proc[p].prog, Now(p))
BY WhoRuns, Statements DEF Now

\* x is proc[p] in another phase.
LEMMA Rephased ==
  ASSUME NEW x \in Running, NEW y, NEW ph, y = [x EXCEPT !.phase = ph],
         ph \in {"next", "again", "create", "defaults", "read", "write", "send"}
  PROVE  /\ y \in Running /\ y.phase = ph
         /\ y.prog = x.prog /\ y.at = x.at /\ y.wrote = x.wrote /\ y.nameless = x.nameless
BY DEF Running

\* What a process is after a statement: at rest, at the next one, or about to send.
GoesOn(p, v, wrote) ==
  \/ v \in {Idle, Loop}
  \/ /\ v \in Running /\ v.prog = proc[p].prog /\ v.wrote = wrote
     /\ \/ v.phase = "next" /\ v.at = proc[p].at + 1
        \/ /\ v.phase = "send" /\ v.prog \in Senders
           /\ v.at = proc[p].at /\ v.at = Len(Programs[v.prog])
     /\ v.at <= Len(Programs[v.prog])

LEMMA RestGoesOn ==
  ASSUME NEW p, NEW ok, NEW v, NEW wrote, v = Rest(p, ok)
  PROVE  GoesOn(p, v, wrote)
BY DEF Rest, GoesOn

LEMMA OnwardGoesOn ==
  ASSUME StoreTypes, NEW p \in Procs, proc[p] \in Running, NEW wrote \in SUBSET Nat,
         NEW nameless \in BOOLEAN, NEW v, v = Onward(p, wrote, nameless)
  PROVE  GoesOn(p, v, wrote)
<1>1. PICK x \in Running : x = proc[p]  OBVIOUS
<1>2. PICK q : q = [x EXCEPT !.wrote = wrote, !.nameless = nameless]  OBVIOUS
<1>3. /\ q \in Running /\ q.prog = x.prog /\ q.at = x.at /\ q.wrote = wrote
      /\ q.phase = x.phase
  BY <1>2 DEF Running
<1>4. /\ x.prog \in DOMAIN Programs /\ x.at \in 1 .. Len(Programs[x.prog])
      /\ Len(Programs[x.prog]) \in Nat
  BY <1>1, WhoRuns
<1>5. v = IF q.at < Len(Programs[q.prog])
          THEN [q EXCEPT !.at = @ + 1, !.phase = "next"]
          ELSE IF q.prog \notin Senders THEN Rest(p, TRUE)
          ELSE IF nameless THEN Idle
          ELSE [q EXCEPT !.phase = "send"]
  BY <1>1, <1>2 DEF Onward
<1>6. CASE q.at < Len(Programs[q.prog])
  <2>1. PICK k : k = q.at + 1  OBVIOUS
  <2>2. v = [q EXCEPT !.at = k, !.phase = "next"]  BY <1>5, <1>6, <2>1
  <2>3. k \in Nat \ {0} /\ k <= Len(Programs[q.prog])  BY <1>3, <1>4, <1>6, <2>1
  <2>4. v \in Running /\ v.prog = q.prog /\ v.at = k /\ v.wrote = wrote /\ v.phase = "next"
    BY <1>3, <2>2, <2>3 DEF Running
  <2> QED  BY <1>1, <1>3, <2>1, <2>3, <2>4 DEF GoesOn
<1>7. CASE ~(q.at < Len(Programs[q.prog])) /\ v = [q EXCEPT !.phase = "send"]
            /\ q.prog \in Senders
  <2>1. q.at = Len(Programs[q.prog])  BY <1>3, <1>4, <1>7
  <2>2. v \in Running /\ v.prog = q.prog /\ v.at = q.at /\ v.wrote = q.wrote
        /\ v.phase = "send"
    BY <1>3, <1>7, Rephased
  <2> QED  BY <1>1, <1>3, <1>4, <1>7, <2>1, <2>2 DEF GoesOn
<1>8. CASE v \in {Idle, Loop}  BY <1>8, AtRest DEF GoesOn
<1> QED  BY <1>5, <1>6, <1>7, <1>8 DEF Rest

LEMMA FailureGoesOn ==
  ASSUME StoreTypes, NEW p \in Procs, proc[p] \in Running, NEW v, v = AfterFailure(p)
  PROVE  /\ GoesOn(p, v, proc[p].wrote)
         /\ v \in Running => Now(p).key = "self_name"
<1>1. proc[p].wrote \in SUBSET Nat /\ TRUE \in BOOLEAN  BY RunningFields
<1>2. CASE Now(p).key = "self_name"
  BY <1>1, <1>2, OnwardGoesOn DEF AfterFailure
<1>3. CASE Now(p).key # "self_name"
  BY <1>3, RestGoesOn, AtRest DEF AfterFailure, Rest
<1> QED  BY <1>2, <1>3

-----------------------------------------------------------------------------
(* What a step does to the process that takes it.                          *)

\* v may be where p is after the step.
Placed(p, v) ==
  /\ proc' = [proc EXCEPT ![p] = v]
  /\ v \in {Idle, Loop} \cup Running
  /\ v \in Running => v.at <= Len(Programs[v.prog])
  /\ v.phase = "send" => v.prog \in Senders
  /\ WrittenSoFar(v)
  /\ v.phase \in {"read", "write"} => Programs[v.prog][v.at].uses \subseteq made'
  /\ v.phase = "read" => ~IsWrite(Programs[v.prog][v.at])
  /\ v.phase = "defaults" => "State" \in made'

LEMMA RestPlaced ==
  ASSUME NEW p, NEW v \in {Idle, Loop}, proc' = [proc EXCEPT ![p] = v]
  PROVE  Placed(p, v)
BY AtRest DEF Placed, WrittenSoFar

\* In another phase of the same statement.
LEMMA RephasedPlaced ==
  ASSUME StoreInv, NEW p \in Procs, proc[p] \in Running,
         NEW ph \in {"next", "again", "create", "defaults", "read", "write"},
         proc[p].phase # "send",
         proc' = [proc EXCEPT ![p] = [proc[p] EXCEPT !.phase = ph]],
         ph \in {"read", "write"} => Now(p).uses \subseteq made',
         ph = "read" => ~IsWrite(Now(p)), ph = "defaults" => "State" \in made'
  PROVE  \E v : Placed(p, v) /\ v \in Running /\ v.phase = ph
<1>1. PICK x \in Running : x = proc[p]  OBVIOUS
<1>2. PICK v : v = [x EXCEPT !.phase = ph]  OBVIOUS
<1>3. /\ v \in Running /\ v.phase = ph
      /\ v.prog = x.prog /\ v.at = x.at /\ v.wrote = x.wrote
  BY <1>2, Rephased
<1>4. proc' = [proc EXCEPT ![p] = v]  BY <1>1, <1>2
<1>5. x.at <= Len(Programs[x.prog])  BY <1>1 DEF StoreInv, StoreTypes
<1>6. WrittenSoFar(v)
  BY <1>1, <1>3 DEF StoreInv, WrittenSoFar
<1>7. Programs[v.prog][v.at] = Now(p)  BY <1>1, <1>3 DEF Now
<1> QED  BY <1>3, <1>4, <1>5, <1>6, <1>7 DEF Placed

\* On to the next statement: a write has been committed, or nobody asks that of it.
LEMMA OnPlaced ==
  ASSUME StoreInv, NEW p \in Procs, proc[p] \in Running, proc[p].phase # "send",
         NEW v, NEW wrote, GoesOn(p, v, wrote), proc[p].wrote \subseteq wrote,
         proc' = [proc EXCEPT ![p] = v],
         \/ proc[p].at \in wrote
         \/ ~IsWrite(Now(p))
         \/ proc[p].prog \notin Senders \ {"send", "message"}
         \/ v \notin Running
  PROVE  Placed(p, v)
<1>1. CASE v \in {Idle, Loop}  BY <1>1, RestPlaced
<1>2. CASE v \in Running
  <2>1. PICK x \in Running : x = proc[p]  OBVIOUS
  <2>2. /\ v.prog = x.prog /\ v.wrote = wrote /\ v.at <= Len(Programs[v.prog])
        /\ \/ v.phase = "next" /\ v.at = x.at + 1
           \/ /\ v.phase = "send" /\ v.prog \in Senders
              /\ v.at = x.at /\ v.at = Len(Programs[v.prog])
    BY <1>2, <2>1, AtRest DEF GoesOn
  <2>3. x.at \in Nat /\ Len(Programs[x.prog]) \in Nat
    BY <2>1, WhoRuns DEF StoreInv
  <2>4. WrittenSoFar(v)
    <3> SUFFICES ASSUME x.prog \in Senders \ {"send", "message"},
                        NEW i \in 1 .. Len(Programs[x.prog]), IsWrite(Programs[x.prog][i]),
                        i < v.at \/ v.phase = "send"
                 PROVE  i \in wrote
      BY <2>2 DEF WrittenSoFar
    <3>1. i < x.at \/ i = x.at  BY <2>2, <2>3
    <3>2. CASE i < x.at
      BY <2>1, <3>2 DEF StoreInv, WrittenSoFar
    <3>3. CASE i = x.at
      BY <1>2, <2>1, <3>3 DEF Now
    <3> QED  BY <3>1, <3>2, <3>3
  <2> QED  BY <1>2, <2>2, <2>4 DEF Placed
<1> QED  BY <1>1, <1>2 DEF GoesOn

\* A statement that fails without a word is none that tells a peer about connections.
LEMMA FailurePlaced ==
  ASSUME StoreInv, NEW p \in Procs, proc[p] \in Running, proc[p].phase # "send",
         proc' = [proc EXCEPT ![p] = AfterFailure(p)]
  PROVE  Placed(p, AfterFailure(p))
<1>0. StoreTypes  BY DEF StoreInv
<1>1. PICK v : v = AfterFailure(p)  OBVIOUS
<1>2. /\ GoesOn(p, v, proc[p].wrote)
      /\ v \in Running => Now(p).key = "self_name"
  BY <1>0, <1>1, FailureGoesOn
<1>3. v \in Running => ~IsWrite(Now(p)) \/ proc[p].prog \notin Senders
  BY <1>0, <1>2, NowFacts DEF StmtFacts
<1>4. Placed(p, v)  BY <1>1, <1>2, <1>3, OnPlaced
<1> QED  BY <1>1, <1>4

\* What a step adds, and who comes to make the defaults by it.
StepEffect(p) ==
  /\ proc[p] \in Running
  /\ made \subseteq made' /\ keys \subseteq keys' /\ leaked' \subseteq leaked \cup {p}
  /\ keys' # {} => "State" \in made'
  /\ "State" \in made' \ made =>
       \E v : proc' = [proc EXCEPT ![p] = v] /\ v.phase = "defaults"
  /\ \E v : /\ Placed(p, v)
            /\ v.phase = "defaults" => /\ "State" \notin made /\ keys' = keys
                                       /\ ~Shared(p) /\ leaked' = leaked

LEMMA TableStep ==
  ASSUME StoreInv, NEW p \in Procs, TableMissing(p) \/ CreateTable(p) \/ InsertDefaults(p)
  PROVE  StepEffect(p)
<1>0. /\ proc[p] \in Running /\ proc[p].phase # "send"
      /\ leaked' = leaked
      /\ keys # {} => "State" \in made
  BY WhoRuns DEF TableMissing, CreateTable, InsertDefaults, StoreInv, TablesThere
<1>1. CASE TableMissing(p)
  <2>1. \E v : Placed(p, v) /\ v \in Running /\ v.phase = "create"
    BY <1>0, <1>1, RephasedPlaced DEF TableMissing, Move
  <2> QED  BY <1>0, <1>1, <2>1 DEF TableMissing, StepEffect
<1>2. CASE CreateTable(p)
  <2>0. made' = made \cup {Now(p).creates} /\ keys' = keys /\ ~Shared(p)
        /\ Now(p).creates \notin made
    BY <1>2 DEF CreateTable
  <2>1. CASE Now(p).creates = "State"
    <3>1. proc' = [proc EXCEPT ![p] = [proc[p] EXCEPT !.phase = "defaults"]]
      BY <1>2, <2>1 DEF CreateTable, Move
    <3>2. PICK v : Placed(p, v) /\ v \in Running /\ v.phase = "defaults"
      BY <1>0, <2>0, <2>1, <3>1, RephasedPlaced
    <3> QED  BY <1>0, <2>0, <2>1, <3>2 DEF StepEffect, Placed
  <2>2. CASE Now(p).creates # "State"
    <3>1. proc' = [proc EXCEPT ![p] = [proc[p] EXCEPT !.phase = "again"]]
      BY <1>2, <2>2 DEF CreateTable, Move
    <3>2. PICK v : Placed(p, v) /\ v \in Running /\ v.phase = "again"
      BY <1>0, <3>1, RephasedPlaced
    <3> QED  BY <1>0, <2>0, <2>2, <3>2 DEF StepEffect
  <2> QED  BY <2>1, <2>2
<1>3. CASE InsertDefaults(p)
  <2>1. \E v : Placed(p, v) /\ v \in Running /\ v.phase = "again"
    BY <1>0, <1>3, RephasedPlaced DEF InsertDefaults, Move
  <2>2. "State" \in made  BY <1>3 DEF InsertDefaults, StoreInv, TablesThere
  <2> QED  BY <1>0, <1>3, <2>1, <2>2 DEF InsertDefaults, StepEffect
<1> QED  BY <1>1, <1>2, <1>3

\* Nobody who goes on to a statement, or ends, is to make the defaults.
LEMMA OnwardEffect ==
  ASSUME StoreInv, NEW p \in Procs, proc[p] \in Running, NEW v, NEW wrote,
         Placed(p, v), GoesOn(p, v, wrote), made' = made, keys \subseteq keys',
         keys' # {} => "State" \in made, leaked' \subseteq leaked \cup {p}
  PROVE  StepEffect(p)
BY AtRest DEF GoesOn, StepEffect

LEMMA StatementStep ==
  ASSUME StoreInv, NEW p \in Procs,
         Begin(p) \/ EndRead(p) \/ NotFound(p) \/ Commit(p) \/ CommitFails(p) \/ Fails(p)
  PROVE  StepEffect(p)
<1>0. /\ StoreTypes /\ proc[p] \in Running /\ proc[p].phase # "send"
      /\ keys # {} => "State" \in made
      /\ made' = made /\ leaked' \subseteq leaked \cup {p}
  BY WhoRuns DEF Begin, EndRead, NotFound, Commit, CommitFails, Fails, StoreInv, TablesThere
<1>1. /\ proc[p].wrote \in SUBSET Nat /\ proc[p].nameless \in BOOLEAN
      /\ proc[p].at \in Nat
      /\ StmtFacts(proc[p].prog, Now(p))
  BY <1>0, RunningFields, NowFacts
<1>2. CASE Begin(p)
  <2>1. PICK ph \in {"read", "write"} :
          /\ proc' = [proc EXCEPT ![p] = [proc[p] EXCEPT !.phase = ph]]
          /\ ph = "read" => ~IsWrite(Now(p))
    BY <1>2 DEF Begin, Move, IsWrite
  <2>2. Now(p).uses \subseteq made'  BY <1>0, <1>2 DEF Begin
  <2>3. /\ ph \in {"next", "again", "create", "defaults", "read", "write"}
        /\ ph # "defaults"
    OBVIOUS
  <2>4. \E v : Placed(p, v) /\ v \in Running /\ v.phase = ph
    BY ONLY <1>0, <2>1, <2>2, <2>3, RephasedPlaced, StoreInv, p \in Procs
  <2> QED  BY <1>0, <1>2, <2>1, <2>4 DEF Begin, StepEffect
<1>3. ASSUME proc' = [proc EXCEPT ![p] = AfterFailure(p)], keys' = keys
      PROVE  StepEffect(p)
  <2>1. PICK v : v = AfterFailure(p)  OBVIOUS
  <2>2. Placed(p, v)  BY <1>0, <1>3, <2>1, FailurePlaced
  <2>3. GoesOn(p, v, proc[p].wrote)  BY <1>0, <2>1, FailureGoesOn
  <2> QED  BY <1>0, <1>3, <2>2, <2>3, OnwardEffect
<1>4. CASE NotFound(p) \/ Fails(p)
  BY <1>3, <1>4 DEF NotFound, Fails, Move
<1>5. ASSUME proc' = [proc EXCEPT ![p] = Onward(p, proc[p].wrote, proc[p].nameless)],
             ~IsWrite(Now(p)) \/ proc[p].prog \in {"send", "message"}, keys' = keys
      PROVE  StepEffect(p)
  <2>1. PICK v : v = Onward(p, proc[p].wrote, proc[p].nameless)  OBVIOUS
  <2>2. GoesOn(p, v, proc[p].wrote)  BY <1>0, <1>1, <2>1, OnwardGoesOn
  <2>3. Placed(p, v)  BY <1>0, <1>5, <2>1, <2>2, OnPlaced
  <2> QED  BY <1>0, <1>5, <2>2, <2>3, OnwardEffect
<1>6. CASE EndRead(p)
  <2>1. ~IsWrite(Now(p))
    BY <1>6 DEF EndRead, StoreInv, TablesThere
  <2> QED  BY <1>5, <1>6, <2>1 DEF EndRead, Move
<1>7. CASE CommitFails(p)
  <2>1. CASE Now(p).kind = "returning"
    BY <1>1, <1>5, <1>7, <2>1 DEF CommitFails, Move, StmtFacts
  <2>2. CASE Now(p).kind # "returning"
    BY <1>3, <1>7, <2>2 DEF CommitFails, Move
  <2> QED  BY <2>1, <2>2
<1>8. CASE Commit(p)
  <2>1. PICK w \in SUBSET Nat : w = proc[p].wrote \cup {proc[p].at}
    BY <1>1
  <2>2. PICK v : v = Onward(p, w, proc[p].nameless)  OBVIOUS
  <2>3. GoesOn(p, v, w)  BY <1>0, <1>1, <2>2, OnwardGoesOn
  <2>4. proc' = [proc EXCEPT ![p] = v]  BY <1>8, <2>1, <2>2 DEF Commit, Move
  <2>5. Placed(p, v)  BY <1>0, <2>1, <2>3, <2>4, OnPlaced
  <2>6. keys \subseteq keys'  BY <1>8 DEF Commit
  <2>7. keys' # {} => "State" \in made
    <3>1. CASE Now(p).kind = "set"
      BY <1>1, <1>8, <3>1 DEF Commit, StmtFacts, StoreInv, TablesThere
    <3>2. CASE Now(p).kind # "set"
      BY <1>0, <1>8, <3>2 DEF Commit
    <3> QED  BY <3>1, <3>2
  <2> QED  BY <1>0, <2>3, <2>5, <2>6, <2>7, OnwardEffect
<1> QED  BY <1>2, <1>4, <1>6, <1>7, <1>8

LEMMA SendStep ==
  ASSUME StoreInv, NEW p \in Procs, Send(p)
  PROVE  StepEffect(p)
<1>1. /\ proc[p] \in Running /\ made' = made /\ keys' = keys /\ leaked' = leaked
      /\ keys # {} => "State" \in made
  BY WhoRuns DEF Send, StoreInv, TablesThere
<1>2. PICK v \in {Idle, Loop} : v = Rest(p, TRUE)  BY DEF Rest
<1>3. Placed(p, v)  BY <1>2, RestPlaced DEF Send, Move
<1> QED  BY <1>1, <1>3, AtRest DEF StepEffect

LEMMA StepsEffect ==
  ASSUME StoreInv, NEW p \in Procs, Step(p)
  PROVE  StepEffect(p)
BY TableStep, StatementStep, SendStep DEF Step

-----------------------------------------------------------------------------
(* The invariant.                                                          *)

LEMMA StartPlaced ==
  ASSUME StoreInv, NEW p \in Procs, NEW g \in DOMAIN Programs, Start(p, g)
  PROVE  \E v : Placed(p, v) /\ v \in Running /\ v.phase = "next"
<1>1. PICK v : v = [Idle EXCEPT !.prog = g, !.at = 1, !.phase = "next"]  OBVIOUS
<1>2. v = [prog |-> g, at |-> 1, phase |-> "next", wrote |-> {}, nameless |-> FALSE]
  BY <1>1 DEF Idle
<1>3. v \in Running /\ v.phase = "next" /\ v.prog = g /\ v.at = 1
  BY <1>2 DEF Running
<1>4. Len(Programs[g]) \in Nat \ {0}  BY Statements
<1>5. proc' = [proc EXCEPT ![p] = v]  BY <1>1 DEF Start, Move
<1>6. WrittenSoFar(v)  BY <1>3, <1>4 DEF WrittenSoFar
<1>7. v.at <= Len(Programs[v.prog])  BY <1>3, <1>4
<1> QED  BY <1>3, <1>5, <1>6, <1>7 DEF Placed

\* Types, what is written and the tables, of a step that moves one process.
LEMMA PlacedKeeps ==
  ASSUME StoreInv, NEW p \in Procs, NEW v, Placed(p, v), leaked' \subseteq Procs,
         disturbed' \in BOOLEAN, made \subseteq made', keys' # {} => "State" \in made'
  PROVE  /\ StoreTypes'
         /\ \A q \in Procs : WrittenSoFar(proc[q])'
         /\ TablesThere'
<1>0. proc \in [Procs -> {Idle, Loop} \cup Running]  BY DEF StoreInv, StoreTypes
<1>1. proc'[p] = v /\ \A q \in Procs : q # p => proc'[q] = proc[q]
  BY <1>0 DEF Placed
<1>2. proc' \in [Procs -> {Idle, Loop} \cup Running]  BY <1>0 DEF Placed
<1>3. StoreTypes'
  BY <1>1, <1>2 DEF StoreTypes, StoreInv, Placed
<1>4. ASSUME NEW q \in Procs PROVE WrittenSoFar(proc[q])'
  BY <1>1 DEF Placed, StoreInv, WrittenSoFar
<1>5. TablesThere'
  BY <1>1 DEF Placed, StoreInv, TablesThere, Now
<1> QED  BY <1>3, <1>4, <1>5

\* An undisturbed step of Next: nobody else runs while the defaults are to be made.
LEMMA WatchMeans ==
  ASSUME StoreTypes', Watch, ~disturbed', NEW p \in Procs, proc'[p].phase = "defaults"
  PROVE  ~disturbed /\ \A q \in Others(p) : proc'[q].at = 0
<1>1. \A q \in Procs : proc'[q].at \in Nat
  <2> SUFFICES ASSUME NEW q \in Procs PROVE proc'[q].at \in Nat  OBVIOUS
  <2>1. proc'[q] \in {Idle, Loop} \cup Running  BY DEF StoreTypes
  <2> QED  BY <2>1, AtRest, RunningFields
<1>2. ~(disturbed \/ \E q \in Procs : /\ proc'[q].phase = "defaults"
                                    /\ \E r \in Others(q) : proc'[r].at > 0)
  BY DEF Watch
<1> QED  BY <1>1, <1>2 DEF Others

LEMMA DefaultsAreMade ==
  ASSUME StoreInv, NEW p \in Procs, proc[p].phase = "defaults", ~disturbed, Step(p)
  PROVE  DefaultKeys \subseteq keys'
<1>1. /\ keys \cap DefaultKeys = {} /\ leaked \subseteq {p}
      /\ \A q \in Others(p) : proc[q].at = 0
  BY DEF StoreInv, MakerAlone
<1>2. \A q \in Others(p) : proc[q].phase \in {"idle", "loop"} /\ q \notin leaked
  <2> SUFFICES ASSUME NEW q \in Others(p)
               PROVE  proc[q].phase \in {"idle", "loop"} /\ q \notin leaked
    OBVIOUS
  <2>1. q \in Procs /\ q # p  BY DEF Others
  <2> QED  BY <1>1, <2>1, WhoRuns DEF StoreInv
<1>3. ~Shared(p) /\ ~Writing(p)  BY <1>2 DEF Shared, Shares, Writing
<1>4. InsertDefaults(p)
  BY <1>1, <1>3
     DEF Step, TableMissing, CreateTable, Begin, EndRead, NotFound, Commit, CommitFails,
         Fails, Send
<1> QED  BY <1>4 DEF InsertDefaults

LEMMA StepKeeps ==
  ASSUME StoreInv, NEW p \in Procs, Step(p), Watch
  PROVE  StoreInv'
<1>0. StoreTypes /\ proc \in [Procs -> {Idle, Loop} \cup Running]
  BY DEF StoreInv, StoreTypes
<1>1. StepEffect(p)  BY StepsEffect
<1>2. PICK v : /\ Placed(p, v)
               /\ v.phase = "defaults" => /\ "State" \notin made /\ keys' = keys
                                          /\ ~Shared(p) /\ leaked' = leaked
  BY <1>1 DEF StepEffect
<1>3. proc'[p] = v /\ \A q \in Procs : q # p => proc'[q] = proc[q]
  BY <1>0, <1>2 DEF Placed
<1>4. /\ StoreTypes'
      /\ \A q \in Procs : WrittenSoFar(proc[q])'
      /\ TablesThere'
  <2>1. leaked' \subseteq Procs  BY <1>1 DEF StepEffect, StoreInv, StoreTypes
  <2>2. disturbed' \in BOOLEAN  BY DEF Watch
  <2> QED  BY <1>1, <1>2, <2>1, <2>2, PlacedKeeps DEF StepEffect
<1>5. MakerAlone'
  <2> SUFFICES ASSUME NEW q \in Procs, proc'[q].phase = "defaults", ~disturbed'
               PROVE  /\ keys' \cap DefaultKeys = {}
                      /\ leaked' \subseteq {q}
                      /\ \A r \in Others(q) : proc'[r].at = 0
    BY DEF MakerAlone, Others
  <2>1. ~disturbed /\ \A r \in Others(q) : proc'[r].at = 0  BY <1>4, WatchMeans
  <2>2. CASE q = p
    <3>1. keys' = {}  BY <1>2, <1>3, <2>2 DEF StoreInv, TablesThere
    <3>2. \A r \in Others(p) : r \notin leaked  BY <1>2, <1>3, <2>2 DEF Shared, Shares
    <3>3. leaked' \subseteq {p}
      BY <1>2, <1>3, <2>2, <3>2 DEF StoreInv, StoreTypes, Others
    <3> QED  BY <2>1, <2>2, <3>1, <3>3
  <2>3. CASE q # p
    <3>1. proc[q].phase = "defaults"  BY <1>3, <2>3
    <3>2. proc[p].at = 0  BY <2>1, <2>3, <3>1 DEF StoreInv, MakerAlone, Others
    <3> QED  BY <1>0, <1>1, <3>2, WhoRuns DEF StepEffect
  <2> QED  BY <2>2, <2>3
<1>6. DefaultsWhole'
  <2> SUFFICES ASSUME "State" \in made', ~disturbed',
                      \A q \in Procs : proc'[q].phase # "defaults"
               PROVE  DefaultKeys \subseteq keys'
    BY DEF DefaultsWhole
  <2>1. ~disturbed  BY DEF Watch
  <2>2. CASE "State" \in made
    <3>1. CASE DefaultKeys \subseteq keys  BY <1>1, <3>1 DEF StepEffect
    <3>2. ASSUME NEW q \in Procs, proc[q].phase = "defaults"
          PROVE  DefaultKeys \subseteq keys'
      BY <1>3, <2>1, <3>2, DefaultsAreMade
    <3> QED  BY <2>1, <2>2, <3>1, <3>2 DEF StoreInv, DefaultsWhole
  <2>3. CASE "State" \notin made
    BY <1>0, <1>1, <2>3 DEF StepEffect
  <2> QED  BY <2>2, <2>3
<1> QED  BY <1>4, <1>5, <1>6 DEF StoreInv

LEMMA StartKeeps ==
  ASSUME StoreInv, NEW p \in Procs, NEW g \in DOMAIN Programs, Start(p, g), Watch
  PROVE  StoreInv'
<1>0. StoreTypes /\ proc \in [Procs -> {Idle, Loop} \cup Running]
  BY DEF StoreInv, StoreTypes
<1>1. /\ made' = made /\ keys' = keys /\ leaked' = leaked /\ proc[p] \in {Idle, Loop}
  BY DEF Start
<1>2. PICK v : Placed(p, v) /\ v \in Running /\ v.phase = "next"  BY StartPlaced
<1>3. proc'[p] = v /\ \A q \in Procs : q # p => proc'[q] = proc[q]
  BY <1>0, <1>2 DEF Placed
<1>4. /\ StoreTypes'
      /\ \A q \in Procs : WrittenSoFar(proc[q])'
      /\ TablesThere'
  BY <1>1, <1>2, PlacedKeeps DEF Watch, StoreInv, StoreTypes, TablesThere
<1>5. MakerAlone'
  <2> SUFFICES ASSUME NEW q \in Procs, proc'[q].phase = "defaults", ~disturbed'
               PROVE  FALSE
    BY DEF MakerAlone
  <2>1. q # p /\ \A r \in Others(q) : proc'[r].at = 0
    BY <1>2, <1>3, <1>4, WatchMeans
  <2> QED  BY <1>2, <1>3, <2>1, RunningFields DEF Others
<1>6. DefaultsWhole'
  <2>1. ASSUME NEW q \in Procs, proc[q].phase = "defaults"
        PROVE  proc'[q].phase = "defaults"
    BY <1>1, <1>3, <2>1, AtRest
  <2> QED  BY <1>1, <2>1 DEF DefaultsWhole, StoreInv, Watch
<1> QED  BY <1>4, <1>5, <1>6 DEF StoreInv

LEMMA EndKeeps ==
  ASSUME StoreInv, NEW p \in Procs, End(p)
  PROVE  StoreInv'
<1>0. StoreTypes /\ proc \in [Procs -> {Idle, Loop} \cup Running]
  BY DEF StoreInv, StoreTypes
<1>1. /\ made' = made /\ keys' = keys /\ leaked' = leaked \ {p}
      /\ proc' = [proc EXCEPT ![p] = Idle]
      /\ disturbed' = (disturbed \/ proc[p].phase = "defaults")
  BY DEF End, Move
<1>2. Placed(p, Idle)  BY <1>1, RestPlaced
<1>3. proc'[p] = Idle /\ \A q \in Procs : q # p => proc'[q] = proc[q]
  BY <1>0, <1>1
<1>4. /\ StoreTypes'
      /\ \A q \in Procs : WrittenSoFar(proc[q])'
      /\ TablesThere'
  BY <1>1, <1>2, PlacedKeeps DEF StoreInv, StoreTypes, TablesThere
<1>5. MakerAlone'
  BY <1>1, <1>3, AtRest DEF MakerAlone, StoreInv, Others
<1>6. DefaultsWhole'
  BY <1>1, <1>3 DEF DefaultsWhole, StoreInv
<1> QED  BY <1>4, <1>5, <1>6 DEF StoreInv

LEMMA StoreInvInit == Init => StoreInv
<1> SUFFICES ASSUME Init PROVE StoreInv  OBVIOUS
<1>1. \A p \in Procs : proc[p] = Idle  BY DEF Init
<1> QED
  BY <1>1, AtRest
     DEF Init, StoreInv, StoreTypes, WrittenSoFar, TablesThere, MakerAlone, DefaultsWhole

LEMMA StoreInvNext ==
  ASSUME StoreInv, [Next]_vars
  PROVE  StoreInv'
<1>1. CASE UNCHANGED vars
  BY <1>1 DEF vars, StoreInv, StoreTypes, WrittenSoFar, TablesThere, MakerAlone, Others,
              DefaultsWhole, Now
<1>2. CASE Next  BY <1>2, StartKeeps, StepKeeps, EndKeeps DEF Next
<1> QED  BY <1>1, <1>2

\* Tables, processes and what they have written, however many commands and whatever they
\* run.
THEOREM StoreInvHolds == Spec => []StoreInv
<1>1. StoreInv /\ [Next]_vars => StoreInv'  BY StoreInvNext
<1> QED  BY <1>1, StoreInvInit, PTL DEF Spec

\* Defaults of State are lost to a process that comes between, or a kill, and to nothing
\* else.
THEOREM DefaultsAreWhole == Spec => []DefaultsWhole
<1>1. StoreInv => DefaultsWhole  BY DEF StoreInv
<1> QED  BY <1>1, StoreInvHolds, PTL

\* What a peer is told of a connection has been committed, whatever locks are met.
THEOREM HandshakeWasWritten == Spec => []HandshakeIsWritten
<1>1. StoreInv => HandshakeIsWritten
  <2> SUFFICES ASSUME StoreInv, NEW p \in Procs, proc[p].prog \notin {"send", "message"},
                      proc[p].phase = "send",
                      NEW i \in 1 .. Len(Programs[proc[p].prog]),
                      IsWrite(Programs[proc[p].prog][i])
               PROVE  i \in proc[p].wrote
    BY DEF HandshakeIsWritten, WrittenBeforeSent
  <2>1. proc[p] \in Running  BY WhoRuns DEF StoreInv
  <2>2. proc[p].prog \in Senders  BY DEF StoreInv, StoreTypes
  <2> QED  BY <2>1, <2>2 DEF StoreInv, WrittenSoFar
<1> QED  BY <1>1, StoreInvHolds, PTL
=============================================================================
