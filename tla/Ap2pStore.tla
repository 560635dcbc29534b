------------------------------ MODULE Ap2pStore ------------------------------
(***************************************************************************)
(* The database file of one node, under the processes that share it:       *)
(* tables made on first use (prepare_sql_statement, create_*_table), the   *)
(* default rows of State, and SQLite's locks.  No process waits for a      *)
(* lock: no busy timeout is set, so a statement that meets one fails.      *)
(*                                                                         *)
(* A statement is prepared, which may create a table; then it reads under  *)
(* a shared lock, or writes under a reserved one and commits once nobody   *)
(* else has a shared lock.                                                 *)
(***************************************************************************)
EXTENDS Naturals, Sequences

CONSTANTS
  Commands,  \* processes that each run one program and end
  Daemon,    \* the listener
  Started    \* the programs users start

VARIABLES
  made,      \* the tables of the file
  keys,      \* the keys that have a row in State
  proc,      \* proc[p]: where process p is in its program
  leaked,    \* the processes that left a SELECT on a row, and its lock, behind
  disturbed  \* ghost: the process that created State was not alone, or was killed

vars == <<made, keys, proc, leaked, disturbed>>

Procs == Commands \cup {Daemon}

DefaultKeys == {"selected_conn", "listen_addr", "self_addr", "self_port", "self_name"}

-----------------------------------------------------------------------------
(* The statements of each function, in the order it runs them. *)

\* One prepare_sql_statement and what follows it: the tables the SQL names, and the
\* one the caller would have created.
Stmt(kind, uses, creates) ==
  [kind |-> kind, uses |-> uses, creates |-> creates, key |-> "none"]
State(kind, key) ==
  [kind |-> kind, uses |-> {"State"}, creates |-> "State", key |-> key]

ReadConns  == Stmt("read", {"Connections"}, "Connections")
WriteConns == Stmt("write", {"Connections"}, "Connections")

\* The commands, then the listener's start and its handlers.
Programs ==
  [request  |-> <<WriteConns, State("get", "self_name"), State("get", "self_addr"),
                  State("get", "self_port")>>,
   accept   |-> <<ReadConns, State("get", "self_name"), WriteConns>>,
   reject   |-> <<ReadConns, WriteConns>>,
   send     |-> <<Stmt("returning", {"Messages", "State"}, "Messages"),
                  Stmt("read", {"Connections", "State"}, "Connections")>>,
   select   |-> <<State("set", "selected_conn")>>,
   set      |-> <<State("set", "self_name")>>,
   get      |-> <<State("get", "self_name")>>,
   conns    |-> <<ReadConns>>,
   msgs     |-> <<Stmt("read", {"Messages"}, "Messages")>>,
   listen   |-> <<State("get", "self_port"), State("get", "listen_addr")>>,
   offer    |-> <<WriteConns>>,
   reply    |-> <<WriteConns>>,
   message  |-> <<Stmt("read", {"Connections"}, "Messages"),
                  Stmt("returning", {"Connections", "Messages"}, "Messages")>>,
   received |-> <<Stmt("write", {"Connections", "Messages"}, "Connections")>>]

Handlers == {"offer", "reply", "message", "received"}
Senders  == {"request", "accept", "reject", "send", "offer", "message"}
Listings == {"conns", "msgs"}

\* A process between programs: a command not started, a listener off or in its loop.
Idle == [prog |-> "none", at |-> 0, phase |-> "idle", wrote |-> {}, nameless |-> FALSE]
Loop == [Idle EXCEPT !.phase = "loop"]

Now(p) == Programs[proc[p].prog][proc[p].at]

\* Where p goes when its program ends, by an error or not.
Rest(p, ok) ==
  IF p = Daemon /\ (ok \/ proc[p].prog \in Handlers) THEN Loop ELSE Idle

\* Where p goes after a statement; nameless: self_name has come back NULL, which is
\* seen only when the parcel is built, by a process that then crashes.
Onward(p, wrote, nameless) ==
  LET q == [proc[p] EXCEPT !.wrote = wrote, !.nameless = nameless] IN
  IF q.at < Len(Programs[q.prog]) THEN [q EXCEPT !.at = @ + 1, !.phase = "next"]
  ELSE IF q.prog \notin Senders THEN Rest(p, TRUE)
  ELSE IF nameless THEN Idle
  ELSE [q EXCEPT !.phase = "send"]

\* Where p goes when its statement fails: out, but for state_get of self_name, whose
\* NULL is not looked at (388, 511).
AfterFailure(p) ==
  IF Now(p).key = "self_name" THEN Onward(p, proc[p].wrote, TRUE) ELSE Rest(p, FALSE)

-----------------------------------------------------------------------------
(* Locks. *)

Shares(p)  == proc[p].phase \in {"read", "write"} \/ p \in leaked
Others(p)  == Procs \ {p}
\* Somebody else is in a transaction that writes.
Writing(p) == \E q \in Others(p) : proc[q].phase \in {"write", "create", "defaults"}
\* Somebody else has a lock that a commit must wait for.
Shared(p)  == \E q \in Others(p) : Shares(q)

Move(p, q) == proc' = [proc EXCEPT ![p] = q]

\* Keeps the ghost: a process between the two statements of create_state_table is not the
\* only one at work.
Watch ==
  disturbed' = (disturbed \/ \E p \in Procs : /\ proc'[p].phase = "defaults"
                                             /\ \E q \in Others(p) : proc'[q].at > 0)

Init ==
  /\ made = {} /\ keys = {} /\ leaked = {}
  /\ proc = [p \in Procs |-> Idle]
  /\ disturbed = FALSE

Start(p, g) ==
  /\ \/ p \in Commands /\ proc[p] = Idle /\ g \in Started
     \/ p = Daemon /\ proc[p] = Idle /\ g = "listen"
     \/ p = Daemon /\ proc[p] = Loop /\ g \in Handlers
  /\ Move(p, [Idle EXCEPT !.prog = g, !.at = 1, !.phase = "next"])
  /\ UNCHANGED <<made, keys, leaked>>

\* "no such table": create the one the caller names.
TableMissing(p) ==
  /\ proc[p].phase = "next"
  /\ ~(Now(p).uses \subseteq made)
  /\ Move(p, [proc[p] EXCEPT !.phase = "create"])
  /\ UNCHANGED <<made, keys, leaked>>

CreateTable(p) ==
  /\ proc[p].phase = "create"
  /\ Now(p).creates \notin made
  /\ ~Shared(p)
  /\ made' = made \cup {Now(p).creates}
  /\ Move(p, [proc[p] EXCEPT !.phase =
                IF Now(p).creates = "State" THEN "defaults" ELSE "again"])
  /\ UNCHANGED <<keys, leaked>>

\* Variant: the defaults left out.
DefaultsForgotten(p) ==
  /\ proc[p].phase = "defaults"
  /\ Move(p, [proc[p] EXCEPT !.phase = "again"])
  /\ UNCHANGED <<made, keys, leaked>>

\* One INSERT of all default rows, in a transaction after that of the CREATE.
InsertDefaults(p) ==
  /\ proc[p].phase = "defaults"
  /\ keys \cap DefaultKeys = {}
  /\ ~Shared(p)
  /\ keys' = keys \cup DefaultKeys
  /\ Move(p, [proc[p] EXCEPT !.phase = "again"])
  /\ UNCHANGED <<made, leaked>>

\* The statement is prepared, takes its lock and is stepped.
Begin(p) ==
  /\ proc[p].phase \in {"next", "again"}
  /\ Now(p).uses \subseteq made
  /\ \/ Now(p).kind \in {"read", "get"} /\ Move(p, [proc[p] EXCEPT !.phase = "read"])
     \/ /\ Now(p).kind \in {"write", "set", "returning"}
        /\ ~\E q \in Others(p) : proc[q].phase = "write"
        /\ Move(p, [proc[p] EXCEPT !.phase = "write"])
  /\ UNCHANGED <<made, keys, leaked>>

\* The SELECT is done and finalized.
EndRead(p) ==
  /\ proc[p].phase = "read"
  /\ Now(p).kind = "get" => Now(p).key \in keys
  /\ Move(p, Onward(p, proc[p].wrote, proc[p].nameless))
  /\ UNCHANGED <<made, keys, leaked>>

\* It finds no row, or one in the wrong status.  The listener leaves a row of the wrong
\* status with the statement still on it (921).
NotFound(p) ==
  /\ proc[p].phase = "read"
  /\ Now(p).kind = "get" => Now(p).key \notin keys
  /\ proc[p].prog \notin Listings
  /\ Move(p, AfterFailure(p))
  /\ leaked' \in {leaked} \cup (IF proc[p].prog = "message" THEN {leaked \cup {p}} ELSE {})
  /\ UNCHANGED <<made, keys>>

Commit(p) ==
  /\ proc[p].phase = "write"
  /\ ~Shared(p)
  /\ Move(p, Onward(p, proc[p].wrote \cup {proc[p].at}, proc[p].nameless))
  /\ keys' = IF Now(p).kind = "set" THEN keys \cup {Now(p).key} ELSE keys
  /\ UNCHANGED <<made, leaked>>

\* Variant: no write looks at its result.
CommitFailsUnseen(p) ==
  /\ proc[p].phase = "write"
  /\ Shared(p)
  /\ Move(p, Onward(p, proc[p].wrote, proc[p].nameless))
  /\ UNCHANGED <<made, keys, leaked>>

\* The commit meets a shared lock and is rolled back: by sqlite3_step, which says so, or, of
\* an INSERT ... RETURNING, by sqlite3_finalize, to which nobody listens (597, 980).
CommitFails(p) ==
  /\ proc[p].phase = "write"
  /\ Shared(p)
  /\ Move(p, IF Now(p).kind = "returning"
             THEN Onward(p, proc[p].wrote, proc[p].nameless) ELSE AfterFailure(p))
  /\ UNCHANGED <<made, keys, leaked>>

\* Variant: a statement that meets a lock is tried again.
FailsNotBusy(p) ==
  /\ \/ proc[p].phase = "create" /\ Now(p).creates \in made
     \/ proc[p].phase = "defaults" /\ keys \cap DefaultKeys # {}
     \/ proc[p].phase = "again" /\ ~(Now(p).uses \subseteq made)
     \/ proc[p].phase = "write" /\ Now(p).kind \in {"write", "returning"}
  /\ Move(p, AfterFailure(p))
  /\ UNCHANGED <<made, keys, leaked>>

\* A statement fails and says so: the table it would create is there, or is not the one it
\* lacks; a default is there; a UNIQUE column has the value; somebody else writes.
Fails(p) ==
  /\ \/ proc[p].phase = "create" /\ (Now(p).creates \in made \/ Shared(p) \/ Writing(p))
     \/ proc[p].phase = "defaults"
        /\ (keys \cap DefaultKeys # {} \/ Shared(p) \/ Writing(p))
     \/ proc[p].phase = "again" /\ ~(Now(p).uses \subseteq made)
     \/ proc[p].phase = "write" /\ Now(p).kind \in {"write", "returning"}
     \/ proc[p].phase \in {"next", "again"} /\ Writing(p)
  /\ Move(p, AfterFailure(p))
  /\ UNCHANGED <<made, keys, leaked>>

\* send_parcel, whatever comes of it.
Send(p) ==
  /\ proc[p].phase = "send"
  /\ Move(p, Rest(p, TRUE))
  /\ UNCHANGED <<made, keys, leaked>>

\* Killed, or closed with Enter: its locks go with it.
End(p) ==
  /\ proc[p] # Idle
  /\ Move(p, Idle)
  /\ leaked' = leaked \ {p}
  /\ disturbed' = (disturbed \/ proc[p].phase = "defaults")
  /\ UNCHANGED <<made, keys>>

Step(p) ==
  \/ TableMissing(p) \/ CreateTable(p) \/ InsertDefaults(p) \/ Begin(p) \/ EndRead(p)
  \/ NotFound(p) \/ Commit(p) \/ CommitFails(p) \/ Fails(p) \/ Send(p)

Next ==
  \E p \in Procs : \/ (\E g \in DOMAIN Programs : Start(p, g) /\ Watch)
                  \/ (Step(p) /\ Watch)
                  \/ End(p)

Spec == Init /\ [][Next]_vars

\* A process that runs keeps running; what users start or stop is not fair.
FairSpec == Spec /\ \A p \in Procs : WF_vars(Step(p) /\ Watch)

-----------------------------------------------------------------------------
(* Properties. *)

IsWrite(s) == s.kind \in {"write", "set", "returning"}

\* The State table has all its defaults, unless between its CREATE and the INSERT of its
\* defaults another process was at work, or the creator was killed: they are lost in no
\* other way, whatever locks and table names the statements meet.
DefaultsWhole ==
  "State" \in made =>
    \/ DefaultKeys \subseteq keys
    \/ \E p \in Procs : proc[p].phase = "defaults"
    \/ disturbed

\* What a process tells a peer is in its own database: when the parcel is about to be sent,
\* every statement that was to write has been committed.
WrittenBeforeSent(p) ==
  proc[p].phase = "send" =>
    \A i \in 1 .. Len(Programs[proc[p].prog]) :
      IsWrite(Programs[proc[p].prog][i]) => i \in proc[p].wrote

\* It holds of the handshake: no connection is requested, decided on or acknowledged whose
\* row is not there, whichever locks are met.
HandshakeIsWritten ==
  \A p \in Procs : proc[p].prog \notin {"send", "message"} => WrittenBeforeSent(p)

\* It should hold of messages too: one that could not be sent is in the table, "message is
\* pending" (643), and one that is acknowledged is in the receiver's.
MessageIsWritten ==
  \A p \in Procs : proc[p].prog \in {"send", "message"} => WrittenBeforeSent(p)

\* No process waits for another: every command ends, and every handler returns to the loop.
EveryoneEnds ==
  \A p \in Procs : proc[p].at > 0 ~> proc[p].at = 0

=============================================================================
