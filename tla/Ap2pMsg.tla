------------------------------ MODULE Ap2pMsg ------------------------------
(***************************************************************************)
(* How a text message goes from one node to another (libap2p.c), once the  *)
(* handshake is over and the Connections tables stand still.               *)
(*                                                                         *)
(*   sender                                 receiver                       *)
(*   INSERT row, number MAX+1                                              *)
(*   SELECT the connection                                                 *)
(*        ---------- MSG_SEND(id, num, body) ------>                       *)
(*                                          SELECT the connection          *)
(*                                          INSERT row, received now       *)
(*        <---------- MSG_RCV(id, num) -------------                       *)
(*   UPDATE row, received                                                  *)
(*                                                                         *)
(* id is the self_id of the one that sends the parcel, the peer_id of the  *)
(* one that reads it.                                                      *)
(***************************************************************************)
EXTENDS Ap2pNode

CONSTANTS
  Tables,   \* the Connections tables the handshake may have left
  Bodies,   \* what users write
  NoConn,   \* the default of selected_conn, no connection's number
  Unset,    \* what selected_conn may be at first: the default, or Null if its row is lost
  MaxNum,   \* bounds the numbers of the messages of one connection
  MaxSends  \* MaxSends[n]: bounds the messages the user of n writes

ASSUME MsgAssumption ==
  /\ NoConn \notin ConnIds /\ Null \notin ConnIds
  /\ Unset \subseteq {NoConn, Null}
  /\ MaxNum \in Nat
  /\ MaxSends \in [Nodes -> Nat]
  /\ \A t \in Tables :
       /\ t \in [Nodes -> [ConnIds -> Row \cup {NoRow}]]
       /\ \A n \in Nodes : \A c, d \in ConnIds :
            /\ t[n][c] # NoRow /\ t[n][d] # NoRow
            /\ t[n][c].peer_id = t[n][d].peer_id /\ t[n][c].peer_id # Null
            => c = d

VARIABLES
  msgs,   \* msgs[n]: the Messages table of node n
  sel,    \* sel[n]: selected_conn in its State table, Null if it has no such row
  held    \* held[n]: its listener holds a shared lock it will not give back

msgVars == <<msgs, sel, held>>
vars == <<nodeVars, msgVars>>

-----------------------------------------------------------------------------
(* The Messages table. *)

Nums == 1 .. MaxNum   \* shared_msg_id

\* A row.  `received` says that time_recieved is not NULL.  `out` is a ghost: the
\* row is that of ap2p_send_message, not of the listener.
MsgRow == [conn : ConnIds \cup {NoConn, Null}, num : Nums, body : Bodies,
           received : BOOLEAN, out : BOOLEAN]

\* k is IFNULL(MAX(shared_msg_id), 0)+1 of the rows of connection c; NULL equals none.
NextNum(n, c, k) ==
  /\ \A r \in msgs[n] : r.conn = c /\ c # Null => r.num < k
  /\ k = 1 \/ \E r \in msgs[n] : r.conn = c /\ c # Null /\ r.num = k - 1

\* UNIQUE(conn_id, shared_msg_id) lets in a row with that pair; NULL is no value.
NumFree(n, c, k) == c = Null \/ ~\E r \in msgs[n] : r.conn = c /\ r.num = k

\* (SELECT conn_id FROM Connections WHERE peer_id=id)
ConnOf(n, id) ==
  IF \E c \in ConnIds : HasPeerId(n, c, id)
  THEN CHOOSE c \in ConnIds : HasPeerId(n, c, id)
  ELSE Null

\* A write of a command of n fails at its commit: another process holds a lock.
CommitFails(n) == held[n] \/ "commit" \in Faults

-----------------------------------------------------------------------------
(* Parcels and processes. *)

MsgSends ==
  [kind : {"MSG_SEND"}, dst : Nodes, id : Ids, num : Nums, body : Bodies]
MsgRcvs   == [kind : {"MSG_RCV"}, dst : Nodes, id : Ids, num : Nums]
MsgParcel == MsgSends \cup MsgRcvs

\* Variant: id and number packed in the wrong order.
MsgSendSwapped(p, i, k, b) ==
  [kind |-> "MSG_SEND", dst |-> p, id |-> k, num |-> i, body |-> b]

MsgSend(p, i, k, b) ==
  [kind |-> "MSG_SEND", dst |-> p, id |-> i, num |-> k, body |-> b]

MsgRcv(p, i, k) == [kind |-> "MSG_RCV", dst |-> p, id |-> i, num |-> k]

\* What the command keeps between its two statements, and the listener of the
\* parcel and of the connection's row between its two.
LookingUp(k, b)   == [pc |-> "lookup", num |-> k, body |-> b]
Storing(m, s, p)  == [pc |-> "store", parcel |-> m, self_id |-> s, peer |-> p]

Init ==
  /\ conns \in Tables
  /\ net = {}
  /\ lst \in [Nodes -> {Off, Loop}]
  /\ cmd = [n \in Nodes |-> [k \in Slots |-> Idle]]
  /\ msgs = [n \in Nodes |-> {}]
  /\ sel \in [Nodes -> Unset]
  /\ held = [n \in Nodes |-> FALSE]

-----------------------------------------------------------------------------
(* Commands. *)

\* `conn select`: ap2p_state_set, which takes any number.
SelectConn(n, k, c) ==
  /\ cmd[n][k] = Idle
  /\ ~held[n]
  /\ sel' = [sel EXCEPT ![n] = c]
  /\ UNCHANGED <<nodeVars, msgs, held>>

\* ap2p_send_message up to the first finalize.  RETURNING gives the number when
\* the INSERT is stepped; finalize commits, or rolls back, and either way the
\* command goes on.
SendInsert(n, k, b) ==
  /\ cmd[n][k] = Idle
  /\ Cardinality({r \in msgs[n] : r.out}) < MaxSends[n]
  /\ \E num \in Nums :
       LET row == [conn |-> sel[n], num |-> num, body |-> b,
                   received |-> FALSE, out |-> TRUE] IN
       /\ NextNum(n, sel[n], num)
       /\ \/ ~held[n] /\ msgs' = [msgs EXCEPT ![n] = @ \cup {row}]
          \/ CommitFails(n) /\ msgs' = msgs
       /\ cmd' = [cmd EXCEPT ![n][k] = LookingUp(num, b)]
  /\ UNCHANGED <<conns, net, lst, sel, held>>

\* Variant: the receiver's id in place of the sender's.
SendLookupPeerId(n, k) ==
  /\ cmd[n][k].pc = "lookup"
  /\ \E c \in ConnIds :
       /\ c = sel[n] /\ IsRow(n, c) /\ conns[n][c].status = "accepted"
       /\ cmd' = [cmd EXCEPT ![n][k] =
            Sending(MsgSend(conns[n][c].peer, conns[n][c].peer_id,
                            cmd[n][k].num, cmd[n][k].body))]
  /\ UNCHANGED <<conns, net, lst, msgVars>>

\* SELECT the connection, as selected by now, and build the parcel.
SendLookup(n, k) ==
  /\ cmd[n][k].pc = "lookup"
  /\ \E c \in ConnIds :
       /\ c = sel[n] /\ IsRow(n, c) /\ conns[n][c].status = "accepted"
       /\ cmd' = [cmd EXCEPT ![n][k] =
            Sending(MsgSend(conns[n][c].peer, conns[n][c].self_id,
                            cmd[n][k].num, cmd[n][k].body))]
  /\ UNCHANGED <<conns, net, lst, msgVars>>

\* No such connection, or one that is not accepted: the command ends with an error
\* and leaves the row it has inserted.
SendRefused(n, k) ==
  /\ cmd[n][k].pc = "lookup"
  /\ ~\E c \in ConnIds :
        c = sel[n] /\ IsRow(n, c) /\ conns[n][c].status = "accepted"
  /\ cmd' = [cmd EXCEPT ![n][k] = Idle]
  /\ UNCHANGED <<conns, net, lst, msgVars>>

-----------------------------------------------------------------------------
(* The listener. *)

\* MSG_SEND on an accepted connection: keep the row for the answer.
HandleSend(n, m) ==
  /\ Receive(n, "MSG_SEND", m)
  /\ \E c \in ConnIds :
       /\ HasPeerId(n, c, m.id) /\ conns[n][c].status = "accepted"
       /\ lst' = [lst EXCEPT ![n] = Storing(m, conns[n][c].self_id, conns[n][c].peer)]
  /\ UNCHANGED <<conns, cmd, msgVars>>

\* MSG_SEND on another connection: `continue` with the SELECT on its row, not
\* finalized, and its shared lock with it.
HandleSendRefused(n, m) ==
  /\ Receive(n, "MSG_SEND", m)
  /\ \E c \in ConnIds : HasPeerId(n, c, m.id) /\ conns[n][c].status # "accepted"
  /\ held' = [held EXCEPT ![n] = TRUE]
  /\ UNCHANGED <<conns, lst, cmd, msgs, sel>>

\* MSG_SEND with an id no row has.
HandleSendUnknown(n, m) ==
  /\ Receive(n, "MSG_SEND", m)
  /\ ConnOf(n, m.id) = Null
  /\ UNCHANGED <<conns, lst, cmd, msgVars>>

\* Variants of storing: no acknowledgement; one also of a number already there.
StoreSilent(n) ==
  /\ lst[n].pc = "store"
  /\ LET m == lst[n].parcel
         row == [conn |-> ConnOf(n, m.id), num |-> m.num, body |-> m.body,
                 received |-> TRUE, out |-> FALSE] IN
       /\ NumFree(n, row.conn, m.num)
       /\ msgs' = [msgs EXCEPT ![n] = @ \cup {row}]
  /\ lst' = [lst EXCEPT ![n] = Loop]
  /\ UNCHANGED <<conns, net, cmd, sel, held>>

StoreAny(n) ==
  /\ lst[n].pc = "store"
  /\ LET m == lst[n].parcel
         row == [conn |-> ConnOf(n, m.id), num |-> m.num, body |-> m.body,
                 received |-> TRUE, out |-> FALSE] IN
       msgs' = IF NumFree(n, row.conn, m.num)
               THEN [msgs EXCEPT ![n] = @ \cup {row}] ELSE msgs
  /\ lst' = [lst EXCEPT ![n] =
       Sending(MsgRcv(lst[n].peer, lst[n].self_id, lst[n].parcel.num))]
  /\ UNCHANGED <<conns, net, cmd, sel, held>>

\* INSERT the message, then acknowledge it.  The listener's own lock does not keep
\* it from committing; a reader in another process does, and is not noticed.
Store(n) ==
  /\ lst[n].pc = "store"
  /\ LET m == lst[n].parcel
         row == [conn |-> ConnOf(n, m.id), num |-> m.num, body |-> m.body,
                 received |-> TRUE, out |-> FALSE] IN
       /\ NumFree(n, row.conn, m.num)
       /\ \/ msgs' = [msgs EXCEPT ![n] = @ \cup {row}]
          \/ "commit" \in Faults /\ msgs' = msgs
  /\ lst' = [lst EXCEPT ![n] =
       Sending(MsgRcv(lst[n].peer, lst[n].self_id, lst[n].parcel.num))]
  /\ UNCHANGED <<conns, net, cmd, sel, held>>

\* The message is not stored: its number is taken, or the INSERT fails, or the
\* connection breaks before all of the content has come.
StoreFails(n) ==
  /\ lst[n].pc = "store"
  /\ \/ ~NumFree(n, ConnOf(n, lst[n].parcel.id), lst[n].parcel.num)
     \/ Faults \cap {"loss", "sql"} # {}
  /\ lst' = [lst EXCEPT ![n] = Loop]
  /\ UNCHANGED <<conns, net, cmd, msgVars>>

\* Variant: the connection left out of the WHERE.
HandleRcvAnyConn(n, m) ==
  /\ Receive(n, "MSG_RCV", m)
  /\ msgs' = [msgs EXCEPT ![n] =
       {IF r.num = m.num THEN [r EXCEPT !.received = TRUE] ELSE r : r \in msgs[n]}]
  /\ UNCHANGED <<conns, lst, cmd, sel, held>>

\* MSG_RCV: UPDATE ... SET time_recieved WHERE shared_msg_id and conn_id.
HandleRcv(n, m) ==
  /\ Receive(n, "MSG_RCV", m)
  /\ msgs' = [msgs EXCEPT ![n] =
       {IF r.num = m.num /\ r.conn = ConnOf(n, m.id) /\ r.conn # Null
        THEN [r EXCEPT !.received = TRUE] ELSE r : r \in msgs[n]}]
  /\ UNCHANGED <<conns, lst, cmd, sel, held>>

-----------------------------------------------------------------------------

Command(n, k) ==
  \/ \E c \in ConnIds : SelectConn(n, k, c)
  \/ \E b \in Bodies : SendInsert(n, k, b)
  \/ SendLookup(n, k)
  \/ SendRefused(n, k)
  \/ CommandSend(n, k) /\ UNCHANGED msgVars
  \/ CommandExit(n, k) /\ UNCHANGED msgVars

Handle(n) ==
  \E m \in net : \/ HandleSend(n, m)
                 \/ HandleSendRefused(n, m)
                 \/ HandleSendUnknown(n, m)
                 \/ HandleRcv(n, m)

\* A listener that ends gives its locks back.
Stop(n) ==
  /\ StopListening(n)
  /\ held' = [held EXCEPT ![n] = FALSE]
  /\ UNCHANGED <<msgs, sel>>

Listener(n) ==
  \/ Stop(n)
  \/ (StartListening(n) \/ ListenerSend(n) \/ DropParcel(n)) /\ UNCHANGED msgVars
  \/ Handle(n)
  \/ Store(n)
  \/ StoreFails(n)

Next == \E n \in Nodes : Listener(n) \/ \E k \in Slots : Command(n, k)

Spec == Init /\ [][Next]_vars

\* As in Ap2pConn: a running process runs on, users do as they please.
Fairness ==
  \A n \in Nodes :
    /\ WF_vars(ListenerSend(n) /\ UNCHANGED msgVars)
    /\ WF_vars(Handle(n) \/ Store(n) \/ StoreFails(n))
    /\ \A k \in Slots :
         /\ WF_vars(CommandSend(n, k) /\ UNCHANGED msgVars)
         /\ WF_vars(SendLookup(n, k) \/ SendRefused(n, k))

FairSpec == Spec /\ Fairness

-----------------------------------------------------------------------------
(* Vocabulary of the properties. *)

\* What n sends on its row c, p finds to belong to its row d.
Reaches(n, c, p, d) ==
  /\ IsRow(n, c) /\ IsRow(p, d)
  /\ conns[n][c].status = "accepted"
  /\ conns[n][c].peer = p
  /\ conns[n][c].self_id = conns[p][d].peer_id

\* Message row r of n, written on connection c, is stored at the other end.
StoredAtPeer(n, r) ==
  \E p \in Nodes, d \in ConnIds :
    /\ r.conn \in ConnIds /\ Reaches(n, r.conn, p, d)
    /\ \E q \in msgs[p] : /\ q.conn = d /\ q.num = r.num
                          /\ q.body = r.body /\ ~q.out

-----------------------------------------------------------------------------
(* Invariants. *)

ListenerState ==
  {Off, Loop} \cup {Sending(m) : m \in MsgParcel}
    \cup {Storing(m, i, p) : m \in MsgSends, i \in Ids, p \in Nodes}
CommandState ==
  {Idle} \cup {Sending(m) : m \in MsgParcel}
         \cup {LookingUp(k, b) : k \in Nums, b \in Bodies}

\* The values the tables, parcels and processes range over.
TypeOK ==
  /\ conns \in Tables
  /\ net \subseteq MsgParcel
  /\ lst \in [Nodes -> ListenerState]
  /\ cmd \in [Nodes -> [Slots -> CommandState]]
  /\ msgs \in [Nodes -> SUBSET MsgRow]
  /\ sel \in [Nodes -> ConnIds \cup {NoConn, Null}]
  /\ held \in [Nodes -> BOOLEAN]

\* "time_recieved determines msg status, if null, msg is pending" (102): a message
\* shown as received has arrived.  The row the MSG_RCV handler marks (1013) is found
\* by number, and must be the one whose parcel the peer has answered.
ReceivedIsTrue ==
  \A n \in Nodes : \A r \in msgs[n] : r.out /\ r.received => StoredAtPeer(n, r)

\* No message comes from nowhere or from elsewhere: what a listener has stored, the
\* user at the other end of that very connection has written.
StoredWasSent ==
  \A p \in Nodes : \A q \in msgs[p] :
    ~q.out => \E n \in Nodes, c \in ConnIds :
                /\ q.conn \in ConnIds /\ Reaches(n, c, p, q.conn)
                /\ \E r \in msgs[n] : /\ r.out /\ r.conn = c
                                      /\ r.num = q.num /\ r.body = q.body

-----------------------------------------------------------------------------
(* Liveness, of nodes that listen from the start and are never stopped. *)

\* A command of n is about to send message num of connection c.
Posting(n, c, num) ==
  \E k \in Slots :
    /\ cmd[n][k].pc = "send"
    /\ LET m == cmd[n][k].parcel IN
         IsRow(n, c) /\ m.num = num /\ m.id = conns[n][c].self_id /\ m.dst = conns[n][c].peer

\* n's user sees message num of connection c as received.
SeenReceived(n, c, num) ==
  \E r \in msgs[n] : r.conn = c /\ r.num = num /\ r.out /\ r.received

\* The peer's user has written a message under the same number.
NumTakenAtPeer(n, c, num) ==
  \E p \in Nodes, d \in ConnIds :
    /\ Reaches(n, c, p, d)
    /\ \E q \in msgs[p] : q.conn = d /\ q.num = num /\ q.out

\* Every message that is sent is in the end shown as received, unless its number
\* belongs to a message the peer has written: nothing else is lost.
SentIsReceived ==
  (\A n \in Nodes : Listening(n)) =>
    \A n \in Nodes, c \in ConnIds, num \in Nums :
      Posting(n, c, num) ~> SeenReceived(n, c, num) \/ NumTakenAtPeer(n, c, num)

=============================================================================
