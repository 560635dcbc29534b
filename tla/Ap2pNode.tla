------------------------------ MODULE Ap2pNode ------------------------------
(***************************************************************************)
(* What every part of ap2pmsg shares: a node's Connections table, the      *)
(* parcels between nodes, and the processes of a node.                     *)
(*                                                                         *)
(* A node is one ap2p_storage.db plus the processes that open it: at most  *)
(* one listener (`ap2pcli listen`, ap2p_listen) and the short-lived        *)
(* commands (`ap2pcli conn request`, ...), each an operating-system process *)
(* of its own.  They share no memory: what one process knows of another it *)
(* reads from the database.  Every SQL statement the code runs is its own  *)
(* autocommit transaction, so a step of this model is one SQL statement or *)
(* one send_parcel call, with the local computation around it.             *)
(***************************************************************************)
EXTENDS Naturals, FiniteSets

CONSTANTS
  Nodes,     \* the peers, each with its own database and address
  Slots,     \* the commands a node's user may have running at one time
  ConnIds,   \* rowids of a Connections table: bounds the rows of a node
  Ids,       \* the values generate_id() may return
  Null,      \* SQL NULL
  NoRow,     \* a rowid that no row uses
  Faults     \* which faults the environment produces

\* Parcels lost; processes killed; listeners stopped by their user; SQL statements
\* that fail and say so; commits that fail in sqlite3_finalize, which nobody asks.
FaultKinds == {"loss", "crash", "stop", "sql", "commit"}

ASSUME NodeAssumption ==
  /\ ConnIds \subseteq Nat
  /\ Null \notin Ids
  /\ Faults \subseteq FaultKinds

VARIABLES
  conns,  \* conns[n]: the Connections table of node n, a row by conn_id
  net,    \* parcels a peer's kernel has taken and its listener not yet read
  lst,    \* lst[n]: the listener of n, its position and the parcel it sends
  cmd     \* cmd[n][k]: the command running in slot k of node n

nodeVars == <<conns, net, lst, cmd>>

-----------------------------------------------------------------------------
(* The Connections table. *)

ConnStatus == {"rejected", "accepted", "pending", "self_review", "peer_review"}

\* A row.  `peer` is peer_addr with peer_port; `named` says that peer_name is
\* not NULL.  `by` is a ghost: which INSERT made the row, the one of
\* ap2p_request_connection or the one of the listener.
Row == [by : {"request", "listener"}, peer_id : Ids \cup {Null},
        self_id : Ids \cup {Null}, peer : Nodes, named : BOOLEAN,
        status : ConnStatus]

ASSUME RowAssumption == NoRow \notin Row

IsRow(n, c)   == conns[n][c] # NoRow
Asked(n, c)   == IsRow(n, c) /\ conns[n][c].by = "request"
Offered(n, c) == IsRow(n, c) /\ conns[n][c].by = "listener"

\* The rowid SQLite gives the next INSERT: rows are numbered upwards, and the
\* code deletes none.
FreshRow(n, c) ==
  /\ ~IsRow(n, c)
  /\ \A d \in ConnIds : ~IsRow(n, d) => c <= d

\* WHERE peer_id = id selects row c of node n.
HasPeerId(n, c, id) == IsRow(n, c) /\ conns[n][c].peer_id = id

\* Variant: the column without its UNIQUE constraint.
PeerIdUnchecked(n, c, id) == TRUE

\* The UNIQUE constraint on peer_id lets row c of node n take the value id.
PeerIdFree(n, c, id) == \A d \in ConnIds \ {c} : ~HasPeerId(n, d, id)

-----------------------------------------------------------------------------
(* Parcels.  `id` is the id field at offset 1 of every parcel; `new_id` is  *)
(* the second id of a CONN_ACC.  `dst` is the address send_parcel connects *)
(* to; `src` travels inside a CONN_REQ only (self_addr, self_port), and no  *)
(* other handler may read it.                                              *)

ConnKinds == {"CONN_REQ", "CONN_ACK", "CONN_REJ", "CONN_ACC"}

ConnParcel == [kind : ConnKinds, src : Nodes, dst : Nodes, id : Ids,
               new_id : Ids \cup {Null}]

\* Variant: the two ids packed in the wrong order.
ParcelSwapped(k, n, p, i, j) ==
  [kind |-> k, src |-> n, dst |-> p, id |-> j, new_id |-> i]

Parcel(k, n, p, i, j) ==
  [kind |-> k, src |-> n, dst |-> p, id |-> i, new_id |-> j]

-----------------------------------------------------------------------------
(* Processes. *)

Off  == [pc |-> "off"]
Loop == [pc |-> "loop"]     \* in the accept loop, no parcel in hand
Idle == [pc |-> "idle"]     \* no command in this slot

\* A process about to call send_parcel on m.
Sending(m) == [pc |-> "send", parcel |-> m]

Listening(n) == lst[n].pc # "off"

\* send_parcel: the parcel reaches the peer's kernel if the peer listens;
\* otherwise, or when the network fails, connect() or send() fails and the
\* caller only logs it.  Parcels travel on connections of their own, opened by
\* different processes, so they have no order among them.
SendParcel(m) ==
  \/ Listening(m.dst) /\ net' = net \cup {m}
  \/ (~Listening(m.dst) \/ "loss" \in Faults) /\ net' = net

NodeInit ==
  /\ conns = [n \in Nodes |-> [c \in ConnIds |-> NoRow]]
  /\ net = {}
  /\ lst \in [Nodes -> {Off, Loop}]
  /\ cmd = [n \in Nodes |-> [k \in Slots |-> Idle]]

\* ap2p_listen up to its loop: the socket is bound and listening.
StartListening(n) ==
  /\ lst[n] = Off
  /\ lst' = [lst EXCEPT ![n] = Loop]
  /\ UNCHANGED <<conns, net, cmd>>

\* The listener ends, by Enter at the head of the loop or killed anywhere; the
\* parcels its kernel still holds are lost with the listening socket.
StopListening(n) ==
  /\ \/ lst[n] = Loop /\ "stop" \in Faults
     \/ Listening(n) /\ "crash" \in Faults
  /\ lst' = [lst EXCEPT ![n] = Off]
  /\ net' = {m \in net : m.dst # n}
  /\ UNCHANGED <<conns, cmd>>

\* The listener accepts a connection, peeks at the kind and reads the parcel.
Receive(n, kind, m) ==
  /\ lst[n] = Loop
  /\ m \in net
  /\ m.dst = n
  /\ m.kind = kind
  /\ net' = net \ {m}

\* The listener replies, then goes round its loop whether or not it could.
ListenerSend(n) ==
  /\ lst[n].pc = "send"
  /\ SendParcel(lst[n].parcel)
  /\ lst' = [lst EXCEPT ![n] = Loop]
  /\ UNCHANGED <<conns, cmd>>

\* A parcel is read and has no effect: the connection broke before all of it
\* came, or an SQL statement failed and the handler went on with `continue`.
DropParcel(n) ==
  /\ lst[n] = Loop
  /\ Faults \cap {"loss", "sql"} # {}
  /\ \E m \in net : m.dst = n /\ net' = net \ {m}
  /\ UNCHANGED <<conns, lst, cmd>>

\* Variant: a command that is not sure of its parcel sends it again.
CommandRetry(n, k) ==
  /\ cmd[n][k].pc = "send"
  /\ SendParcel(cmd[n][k].parcel)
  /\ cmd' \in {cmd, [cmd EXCEPT ![n][k] = Idle]}
  /\ UNCHANGED <<conns, lst>>

\* A command sends its parcel, the last thing it does.
CommandSend(n, k) ==
  /\ cmd[n][k].pc = "send"
  /\ SendParcel(cmd[n][k].parcel)
  /\ cmd' = [cmd EXCEPT ![n][k] = Idle]
  /\ UNCHANGED <<conns, lst>>

\* A command ends before it is done: killed, or by one of its error exits.
CommandExit(n, k) ==
  /\ cmd[n][k] # Idle
  /\ Faults \cap {"crash", "sql"} # {}
  /\ cmd' = [cmd EXCEPT ![n][k] = Idle]
  /\ UNCHANGED <<conns, net, lst>>

=============================================================================
