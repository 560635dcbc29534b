------------------------------ MODULE Ap2pInv ------------------------------
(***************************************************************************)
(* The inductive invariant of Ap2p: what the messages rest on while rows   *)
(* change status, of nodes that run one command at a time.  It names rows  *)
(* by their ids, which stay, and never by their status, which does not.    *)
(***************************************************************************)
EXTENDS Ap2p

-----------------------------------------------------------------------------
(* The rows. *)

\* Row c of n has both its ids: someone has asked for it and someone has accepted.
Joined(n, c) ==
  IsRow(n, c) /\ conns[n][c].peer_id # Null /\ conns[n][c].self_id # Null

\* What is sent on row c of n is for row d of p, whatever their status.
Meets(n, c, p, d) ==
  /\ Joined(n, c) /\ conns[n][c].peer = p
  /\ HasPeerId(p, d, conns[n][c].self_id)

\* Message num of connection c is in n's table, as its user wrote it.
Wrote(n, c, num, body) ==
  \E r \in msgs[n] : r.out /\ r.conn = c /\ r.num = num /\ r.body = body

\* The lock of n's own listener has kept message num out, and keeps out all others.
KeptOut(n, c, num) ==
  held[n] /\ ~\E r \in msgs[n] : r.out /\ r.conn = c /\ r.num = num

\* n's user has written the message, kept or not.
Written(n, c, num, body) == Wrote(n, c, num, body) \/ KeptOut(n, c, num)

\* p's listener has stored message num of connection d.
HasStored(p, d, num) == \E q \in msgs[p] : ~q.out /\ q.conn = d /\ q.num = num

-----------------------------------------------------------------------------
(* The parcels and the processes. *)

\* m says what the user of n has written, on a connection whose other end is m's.
PostedBy(n, m) ==
  \E c \in ConnIds : /\ Joined(n, c)
                     /\ conns[n][c].peer = m.dst /\ conns[n][c].self_id = m.id
                     /\ Written(n, c, m.num, m.body)

\* m answers for a message p has stored.
AnsweredBy(p, m) ==
  \E d \in ConnIds : /\ Joined(p, d)
                     /\ conns[p][d].peer = m.dst /\ conns[p][d].self_id = m.id
                     /\ HasStored(p, d, m.num)

ParcelTrue(m) ==
  /\ m.kind = "MSG_SEND" => \E n \in Nodes : PostedBy(n, m)
  /\ m.kind = "MSG_RCV" => \E p \in Nodes : AnsweredBy(p, m)

SendsMessage(s) == s.pc = "send" /\ s.parcel.kind \notin ConnKinds

\* A command of n in position s sends what is written, and between its statements
\* has its message on the connection selected, if one is.
CommandTrue(n, s) ==
  /\ SendsMessage(s) => s.parcel.kind = "MSG_SEND" /\ PostedBy(n, s.parcel)
  /\ s.pc = "lookup" /\ sel[n] # Null => Written(n, sel[n], s.num, s.body)

\* The listener of n in position s answers for what is stored, and between its
\* statements has a true parcel, and the row it is for.
ListenerTrue(n, s) ==
  /\ SendsMessage(s) => s.parcel.kind = "MSG_RCV" /\ AnsweredBy(n, s.parcel)
  /\ s.pc = "store" =>
       LET m == s.parcel IN
       /\ m.kind = "MSG_SEND" /\ m.dst = n
       /\ \E p \in Nodes : PostedBy(p, m)
       /\ \E d \in ConnIds : /\ HasPeerId(n, d, m.id) /\ Joined(n, d)
                             /\ conns[n][d].self_id = s.self_id
                             /\ conns[n][d].peer = s.peer

ParcelsAreTrue   == \A m \in net : ParcelTrue(m)
CommandsAreTrue  == \A n \in Nodes, k \in Slots : CommandTrue(n, cmd[n][k])
ListenersAreTrue == \A n \in Nodes : ListenerTrue(n, lst[n])

-----------------------------------------------------------------------------
(* The messages. *)

\* UNIQUE(conn_id, shared_msg_id).
NumsDiffer ==
  \A n \in Nodes : \A r, s \in msgs[n] :
    r.conn = s.conn /\ r.conn # Null /\ r.num = s.num => r = s

\* What p has stored was written at the other end, and what p shows as received is
\* stored there.
RowTrue(p, q) ==
  /\ ~q.out =>
       /\ q.conn \in ConnIds
       /\ \E n \in Nodes, c \in ConnIds :
            Meets(n, c, p, q.conn) /\ Written(n, c, q.num, q.body)
  /\ q.out /\ q.received =>
       /\ q.conn \in ConnIds
       /\ \E n \in Nodes, c \in ConnIds :
            /\ Meets(n, c, p, q.conn)
            /\ \E r \in msgs[n] : /\ r.conn = c /\ r.num = q.num
                                  /\ r.body = q.body /\ ~r.out

RowsAreTrue == \A p \in Nodes : \A q \in msgs[p] : RowTrue(p, q)

\* The values the network, the processes and the tables of messages range over.
AnyParcel == ConnParcel \cup M!MsgParcel

ListenerState ==
  {Off, Loop} \cup {Sending(m) : m \in AnyParcel}
    \cup {M!Storing(m, i, p) : m \in M!MsgSends, i \in Ids, p \in Nodes}
CommandState ==
  {Idle} \cup {Sending(m) : m \in AnyParcel}
    \cup {C!Deciding(c, i, p, acc) : c \in ConnIds, i \in Ids, p \in Nodes,
                                     acc \in BOOLEAN}
    \cup {M!LookingUp(k, b) : k \in M!Nums, b \in Bodies}

MsgTypes ==
  /\ net \subseteq AnyParcel
  /\ lst \in [Nodes -> ListenerState]
  /\ cmd \in [Nodes -> [Slots -> CommandState]]
  /\ msgs \in [Nodes -> SUBSET M!MsgRow]
  /\ sel \in [Nodes -> ConnIds \cup {NoConn, Null}]
  /\ held \in [Nodes -> BOOLEAN]

\* What StoredByConsent, UnsentIsPending and ReceivedAtOtherEnd rest on.
MsgInv ==
  /\ MsgTypes
  /\ ParcelsAreTrue
  /\ CommandsAreTrue
  /\ ListenersAreTrue
  /\ RowsAreTrue
  /\ NumsDiffer

\* What ConsentGiven rests on, whatever stops or dies: a listener that is about to store a
\* message has looked up a row with consent, and rows keep what they have.
ConsentInv ==
  /\ MsgTypes
  /\ \A n \in Nodes : lst[n].pc = "store" =>
       \E c \in ConnIds : HasPeerId(n, c, lst[n].parcel.id) /\ Consented(n, c)
  /\ ConsentGiven

=============================================================================
