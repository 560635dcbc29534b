-------------------------------- MODULE Ap2p --------------------------------
(***************************************************************************)
(* The whole of a node: the handshake of Ap2pConn and the messages of      *)
(* Ap2pMsg over one Connections table, one listener and one set of         *)
(* commands.  Rows change status while messages are under way, and the     *)
(* lock a refused message leaves behind keeps `conn request` and           *)
(* `conn decide` from writing.                                             *)
(***************************************************************************)
EXTENDS Ap2pNode

CONSTANTS MaxRequests, Bodies, NoConn, Unset, MaxNum, MaxSends

ASSUME Ap2pAssumption ==
  /\ MaxRequests \in Nat
  /\ NoConn \notin ConnIds /\ Null \notin ConnIds
  /\ Unset \subseteq {NoConn, Null}
  /\ MaxNum \in Nat
  /\ MaxSends \in [Nodes -> Nat]

VARIABLES msgs, sel, held

C == INSTANCE Ap2pConn
M == INSTANCE Ap2pMsg WITH Tables <- {}

vars == <<nodeVars, msgs, sel, held>>

Init ==
  /\ NodeInit
  /\ msgs = [n \in Nodes |-> {}]
  /\ sel \in [Nodes -> Unset]
  /\ held = [n \in Nodes |-> FALSE]

\* Variant: nobody asks whether the step was DONE, and the peer is told.
DecideUnchecked(n, k) ==
  /\ held[n]
  /\ cmd[n][k].pc = "decide"
  /\ LET d == cmd[n][k] IN
     \E new \in Ids :
       cmd' = [cmd EXCEPT ![n][k] =
         Sending(IF d.accept THEN Parcel("CONN_ACC", n, d.peer, d.id, new)
                 ELSE Parcel("CONN_REJ", n, d.peer, d.id, Null))]
  /\ UNCHANGED <<conns, net, lst>>

\* The UPDATE of a decision meets the lock of the node's own listener: the step is
\* not DONE, and the command ends with the row as it was.
DecideBlocked(n, k) ==
  /\ held[n]
  /\ cmd[n][k].pc = "decide"
  /\ cmd' = [cmd EXCEPT ![n][k] = Idle]
  /\ UNCHANGED <<conns, net, lst>>

\* The handshake's commands: while the lock is held only those steps that do not
\* write.  The INSERT of a request then fails, and the command with it.
ConnCommand(n, k) ==
  \/ ~held[n] /\ \E p \in Nodes : C!Request(n, k, p)
  \/ \E c \in ConnIds, acc \in BOOLEAN : C!DecideSelect(n, k, c, acc)
  \/ ~held[n] /\ (C!DecideReject(n, k) \/ C!DecideAccept(n, k))
  \/ C!DecideCollide(n, k)
  \/ DecideBlocked(n, k)

\* Sending and ending are shared: M!Command and M!Listener have them.
Command(n, k) == M!Command(n, k) \/ (ConnCommand(n, k) /\ UNCHANGED <<msgs, sel, held>>)

Listener(n) == M!Listener(n) \/ (C!Handle(n) /\ UNCHANGED <<msgs, sel, held>>)

Next == \E n \in Nodes : Listener(n) \/ \E k \in Slots : Command(n, k)

Spec == Init /\ [][Next]_vars

-----------------------------------------------------------------------------
(* The handshake, of which messages are no part.                           *)

\* A process at work on a message.
OfMessages(s) ==
  s.pc \in {"lookup", "store"} \/ (s.pc = "send" /\ s.parcel.kind \notin ConnKinds)

connNet == {m \in net : m.kind \in ConnKinds}
connLst == [n \in Nodes |-> IF OfMessages(lst[n]) THEN Loop ELSE lst[n]]
connCmd == [n \in Nodes |-> [k \in Slots |->
             IF OfMessages(cmd[n][k]) THEN Idle ELSE cmd[n][k]]]

Handshake ==
  INSTANCE Ap2pConn WITH net <- connNet, lst <- connLst, cmd <- connCmd,
                         Faults <- Faults \cup {"sql"}

\* Messages take no part in the handshake: what Ap2pConn allows is all that happens to
\* connections, though messages share its table, its processes and the network.  A lock
\* a listener keeps (921) is to the handshake a statement that fails and says so.
\* It is Handshake!Spec with the tuple of its variables written out, which TLC is quicker
\* to check a step for.
HandshakeStep == UNCHANGED <<conns, connNet, connLst, connCmd>> \/ Handshake!Next

ImplementsHandshake == Handshake!Init /\ [][HandshakeStep]_vars

-----------------------------------------------------------------------------

\* Row d of p is the one the request behind row c of n has made there.
Made(n, c, p, d) ==
  /\ Asked(n, c) /\ Offered(p, d)
  /\ conns[n][c].peer = p /\ conns[p][d].peer = n
  /\ conns[n][c].peer_id = conns[p][d].self_id

\* Rows c of n and d of p are the ends of one connection, whatever their status.
Ends(n, c, p, d) == Made(n, c, p, d) \/ Made(p, d, n, c)

\* The user asked for the connection of row c of n has accepted it, some time.
Consented(n, c) ==
  \/ Offered(n, c) /\ conns[n][c].peer_id # Null
  \/ \E p \in Nodes, d \in ConnIds : Made(n, c, p, d) /\ conns[p][d].peer_id # Null

\* No message without consent: of the users at the two ends of the row that p's listener
\* has stored a message on, one has asked and the other accepted (libap2p.c 921).
ConsentGiven ==
  \A p \in Nodes : \A q \in msgs[p] :
    ~q.out => q.conn \in ConnIds /\ Consented(p, q.conn)

\* And none from elsewhere: the user at the other end of that connection wrote it on it.
\* The row of the writer may be missing only if its listener keeps the lock of a refused
\* message (libap2p.c 921, 597).
StoredByConsent ==
  /\ ConsentGiven
  /\ \A p \in Nodes : \A q \in msgs[p] :
       ~q.out => \E n \in Nodes, c \in ConnIds :
                   /\ Ends(n, c, p, q.conn)
                   /\ \/ \E r \in msgs[n] : /\ r.out /\ r.conn = c
                                            /\ r.num = q.num /\ r.body = q.body
                      \/ held[n]

\* A message about to be sent is in the sender's table, on the connection it is sent on, so
\* that it is pending when sending fails: "could not send message ...; message is pending"
\* (643).  Only a lock of the node's own listener can have kept it out.
UnsentIsPending ==
  \A n \in Nodes, k \in Slots :
    cmd[n][k].pc = "send" /\ cmd[n][k].parcel.kind = "MSG_SEND" =>
      LET m == cmd[n][k].parcel IN
      \/ held[n]
      \/ \E r \in msgs[n] : /\ r.out /\ r.num = m.num /\ r.body = m.body
                            /\ r.conn \in ConnIds /\ IsRow(n, r.conn)
                            /\ conns[n][r.conn].peer = m.dst
                            /\ conns[n][r.conn].self_id = m.id

\* A message shown as received (102) is stored at the other end of its connection, though
\* that connection's rows may since have changed, or been reopened by a late CONN_ACK.
ReceivedAtOtherEnd ==
  \A n \in Nodes : \A r \in msgs[n] :
    r.out /\ r.received =>
      \E p \in Nodes, d \in ConnIds :
        /\ r.conn \in ConnIds /\ Ends(n, r.conn, p, d)
        /\ \E q \in msgs[p] : /\ q.conn = d /\ q.num = r.num
                              /\ q.body = r.body /\ ~q.out

=============================================================================
