--------------------------- MODULE Ap2pConnProofs ---------------------------
(***************************************************************************)
(* Theorems about Ap2pConn, for every value of its constants: that it is   *)
(* type-correct, that replies and offers have their requests and           *)
(* acceptances their consent, and, last, that a request is put to the      *)
(* peer's user at most once.                                               *)
(***************************************************************************)
EXTENDS Ap2pConnInv, TLAPS

-----------------------------------------------------------------------------
(* The states of a process, by the position it is at. *)

LEMMA ListenerSending ==
  ASSUME TypeOK, NEW n \in Nodes, lst[n].pc = "send"
  PROVE  lst[n].parcel \in ConnParcel /\ lst[n] = Sending(lst[n].parcel)
BY DEF TypeOK, ListenerState, Off, Loop, Sending

LEMMA CommandSending ==
  ASSUME TypeOK, NEW n \in Nodes, NEW k \in Slots, cmd[n][k].pc = "send"
  PROVE  cmd[n][k].parcel \in ConnParcel /\ cmd[n][k] = Sending(cmd[n][k].parcel)
BY DEF TypeOK, CommandState, Idle, Sending, Deciding

LEMMA CommandDeciding ==
  ASSUME TypeOK, NEW n \in Nodes, NEW k \in Slots, cmd[n][k].pc = "decide"
  PROVE  /\ cmd[n][k].conn \in ConnIds
         /\ cmd[n][k].id \in Ids
         /\ cmd[n][k].peer \in Nodes
         /\ cmd[n][k].accept \in BOOLEAN
BY DEF TypeOK, CommandState, Idle, Sending, Deciding

\* The values a process's state may take.
LEMMA States ==
  /\ Off \in ListenerState
  /\ Loop \in ListenerState
  /\ \A m \in ConnParcel : Sending(m) \in ListenerState
  /\ Idle \in CommandState
  /\ \A m \in ConnParcel : Sending(m) \in CommandState
  /\ \A c \in ConnIds, i \in Ids, p \in Nodes, acc \in BOOLEAN :
       Deciding(c, i, p, acc) \in CommandState
BY DEF ListenerState, CommandState

\* States at different positions differ.
LEMMA Positions ==
  /\ \A m : Off # Sending(m) /\ Loop # Sending(m) /\ Idle # Sending(m)
  /\ \A m, c, i, p, acc : Deciding(c, i, p, acc) # Sending(m)
  /\ \A m, q : Sending(m) = Sending(q) => m = q
  /\ \A m : Sending(m).pc = "send" /\ Sending(m).parcel = m
  /\ Idle.pc = "idle"
<1>1. \A m : Off # Sending(m) /\ Loop # Sending(m) /\ Idle # Sending(m)
  <2> TAKE m
  <2>1. Off.pc = "off" /\ Loop.pc = "loop" /\ Idle.pc = "idle"
    BY DEF Off, Loop, Idle
  <2>2. Sending(m).pc = "send"  BY DEF Sending
  <2> QED  BY <2>1, <2>2
<1>2. \A m, c, i, p, acc : Deciding(c, i, p, acc) # Sending(m)
  <2> TAKE m, c, i, p, acc
  <2>1. Deciding(c, i, p, acc).pc = "decide"  BY DEF Deciding
  <2>2. Sending(m).pc = "send"  BY DEF Sending
  <2> QED  BY <2>1, <2>2
<1>3. \A m, q : Sending(m) = Sending(q) => m = q
  <2> TAKE m, q
  <2>1. Sending(m).parcel = m /\ Sending(q).parcel = q  BY DEF Sending
  <2> QED  BY <2>1
<1> QED  BY <1>1, <1>2, <1>3 DEF Sending, Idle

\* A parcel made of well-typed fields is one.
LEMMA ParcelType ==
  ASSUME NEW k \in ConnKinds, NEW n \in Nodes, NEW p \in Nodes, NEW i \in Ids,
         NEW j \in Ids \cup {Null}
  PROVE  /\ Parcel(k, n, p, i, j) \in ConnParcel
         /\ Parcel(k, n, p, i, j).kind = k
         /\ Parcel(k, n, p, i, j).src = n
         /\ Parcel(k, n, p, i, j).dst = p
         /\ Parcel(k, n, p, i, j).id = i
         /\ Parcel(k, n, p, i, j).new_id = j
BY DEF Parcel, ConnParcel

-----------------------------------------------------------------------------
(* What one write changes, and what it leaves alone. *)

LEMMA RowWrite ==
  ASSUME TypeOK, NEW n \in Nodes, NEW c \in ConnIds, NEW r \in Row,
         conns' = [conns EXCEPT ![n][c] = r]
  PROVE  /\ conns' \in [Nodes -> [ConnIds -> Row \cup {NoRow}]]
         /\ conns'[n][c] = r
         /\ \A j \in Nodes, d \in ConnIds :
              j # n \/ d # c => conns'[j][d] = conns[j][d]
BY DEF TypeOK

LEMMA TableWrite ==
  ASSUME TypeOK, NEW n \in Nodes, NEW t \in [ConnIds -> Row \cup {NoRow}],
         conns' = [conns EXCEPT ![n] = t]
  PROVE  /\ conns' \in [Nodes -> [ConnIds -> Row \cup {NoRow}]]
         /\ \A d \in ConnIds : conns'[n][d] = t[d]
         /\ \A j \in Nodes, d \in ConnIds : j # n => conns'[j][d] = conns[j][d]
BY DEF TypeOK

\* What the updates do to a row.
LEMMA RowStatus ==
  ASSUME NEW r \in Row, NEW s \in ConnStatus, NEW x,
         x = [r EXCEPT !.status = s]
  PROVE  /\ x \in Row /\ x.status = s
         /\ x.by = r.by /\ x.peer = r.peer /\ x.peer_id = r.peer_id
BY DEF Row

LEMMA CmdWrite ==
  ASSUME TypeOK, NEW n \in Nodes, NEW k \in Slots, NEW v \in CommandState,
         cmd' = [cmd EXCEPT ![n][k] = v]
  PROVE  /\ cmd' \in [Nodes -> [Slots -> CommandState]]
         /\ cmd'[n][k] = v
         /\ \A j \in Nodes, l \in Slots :
              j # n \/ l # k => cmd'[j][l] = cmd[j][l]
BY DEF TypeOK

LEMMA LstWrite ==
  ASSUME TypeOK, NEW n \in Nodes, NEW v \in ListenerState,
         lst' = [lst EXCEPT ![n] = v]
  PROVE  /\ lst' \in [Nodes -> ListenerState]
         /\ lst'[n] = v
         /\ \A j \in Nodes : j # n => lst'[j] = lst[j]
BY DEF TypeOK

\* A command that changes state adds at most the parcel it is about to send.
LEMMA CmdOutgoing ==
  ASSUME TypeOK, NEW n \in Nodes, NEW k \in Slots, NEW v \in CommandState,
         cmd' = [cmd EXCEPT ![n][k] = v], net' \subseteq Outgoing, lst' = lst
  PROVE  \A m \in Outgoing' : m \in Outgoing \/ v = Sending(m)
<1>1. \A j \in Nodes, l \in Slots : cmd'[j][l] = v \/ cmd'[j][l] = cmd[j][l]
  BY CmdWrite
<1> QED  BY <1>1 DEF Outgoing

LEMMA LstOutgoing ==
  ASSUME TypeOK, NEW n \in Nodes, NEW v \in ListenerState,
         lst' = [lst EXCEPT ![n] = v], net' \subseteq Outgoing, cmd' = cmd
  PROVE  \A m \in Outgoing' : m \in Outgoing \/ v = Sending(m)
<1>1. \A j \in Nodes : lst'[j] = v \/ lst'[j] = lst[j]
  BY LstWrite
<1> QED  BY <1>1 DEF Outgoing

\* A command goes on to send q.
LEMMA CmdSends ==
  ASSUME TypeOK, NEW n \in Nodes, NEW k \in Slots, NEW q \in ConnParcel,
         cmd' = [cmd EXCEPT ![n][k] = Sending(q)], net' = net, lst' = lst
  PROVE  /\ cmd' \in [Nodes -> [Slots -> CommandState]]
         /\ \A m \in Outgoing' : m \in Outgoing \/ m = q
         /\ \A j \in Nodes, l \in Slots :
              cmd'[j][l] = cmd[j][l] \/ cmd'[j][l].pc # "decide"
<1>1. PICK v \in CommandState : v = Sending(q)  BY States
<1>2. cmd' = [cmd EXCEPT ![n][k] = v]  BY <1>1
<1>3. net' \subseteq Outgoing  BY DEF TypeOK, Outgoing
<1>4. \A m \in Outgoing' : m \in Outgoing \/ m = q
  <2>1. \A m \in Outgoing' : m \in Outgoing \/ v = Sending(m)
    BY <1>2, <1>3, CmdOutgoing
  <2> QED  BY <1>1, <2>1, Positions
<1>5. v.pc # "decide"  BY <1>1, Positions
<1>6. /\ cmd' \in [Nodes -> [Slots -> CommandState]]
      /\ cmd'[n][k] = v
      /\ \A j \in Nodes, l \in Slots :
           j # n \/ l # k => cmd'[j][l] = cmd[j][l]
  BY ONLY TypeOK, v \in CommandState, <1>2, CmdWrite
<1>7. \A j \in Nodes, l \in Slots :
        cmd'[j][l] = cmd[j][l] \/ cmd'[j][l].pc # "decide"
  BY <1>5, <1>6
<1> QED  BY <1>4, <1>6, <1>7

\* send_parcel puts nothing on the network but its parcel.
LEMMA SendParcelNet ==
  ASSUME TypeOK, NEW m \in Outgoing, SendParcel(m)
  PROVE  net' \subseteq Outgoing
BY DEF TypeOK, SendParcel, Outgoing

LEMMA NetOutgoing ==
  ASSUME TypeOK
  PROVE  net \subseteq Outgoing /\ net \subseteq ConnParcel
BY DEF TypeOK, Outgoing

-----------------------------------------------------------------------------
(* No step forgets a row's ids: requests and offers, once made, stay.      *)

RowKept(n, c) ==
  IsRow(n, c) =>
    /\ IsRow(n, c)'
    /\ conns'[n][c].by = conns[n][c].by
    /\ conns'[n][c].peer = conns[n][c].peer
    /\ Asked(n, c) => conns'[n][c].peer_id = conns[n][c].peer_id
    /\ Offered(n, c) => conns'[n][c].self_id = conns[n][c].self_id
    /\ conns[n][c].peer_id # Null => conns'[n][c].peer_id # Null
    /\ conns[n][c].self_id # Null => conns'[n][c].self_id # Null

RowsKept == \A n \in Nodes, c \in ConnIds : RowKept(n, c)

LEMMA RequestedKept ==
  ASSUME RowsKept, NEW n \in Nodes, NEW id, NEW p, Requested(n, id, p)
  PROVE  Requested(n, id, p)'
BY DEF RowsKept, RowKept, Requested, Asked

LEMMA OfferKept ==
  ASSUME RowsKept, NEW p \in Nodes, NEW c \in ConnIds, NEW id, NEW n,
         OfferOf(p, c, id, n)
  PROVE  OfferOf(p, c, id, n)'
BY DEF RowsKept, RowKept, OfferOf, Offered

LEMMA AcceptedOnceKept ==
  ASSUME RowsKept, NEW p \in Nodes, NEW id, NEW n, AcceptedOnce(p, id, n)
  PROVE  AcceptedOnce(p, id, n)'
<1>1. PICK d \in ConnIds : OfferOf(p, d, id, n) /\ conns[p][d].peer_id # Null
  BY DEF AcceptedOnce
<1>2. OfferOf(p, d, id, n)'  BY <1>1, OfferKept
<1>3. conns'[p][d].peer_id # Null
  BY <1>1 DEF RowsKept, RowKept, OfferOf, Offered
<1> QED  BY <1>2, <1>3 DEF AcceptedOnce

\* The rows a reply's receiver updates: just the request the reply names.
LEMMA ReplyRow ==
  ASSUME IInv, NEW m \in Outgoing, m.kind # "CONN_REQ",
         NEW c \in ConnIds, HasPeerId(m.dst, c, m.id)
  PROVE  Asked(m.dst, c) /\ conns[m.dst][c].peer = m.src
<1>1. m \in ConnParcel /\ m.dst \in Nodes /\ m.id \in Ids
  BY DEF Outgoing, ConnParcel
<1>2. m.id # Null  BY <1>1, NodeAssumption
<1>3. PICK d \in ConnIds : Asked(m.dst, d) /\ conns[m.dst][d].peer_id = m.id
                           /\ conns[m.dst][d].peer = m.src
  BY DEF IInv, ParcelsHaveRows, Requested
<1>4. c = d
  BY <1>1, <1>2, <1>3 DEF IInv, PeerIdsDiffer, HasPeerId, Asked
<1> QED  BY <1>3, <1>4

-----------------------------------------------------------------------------
(* What every step shares: the conjuncts of IInv that only speak of rows   *)
(* and parcels, given what the step does to each.                          *)

\* Steps that leave the rows alone.
LEMMA RowsUnchanged ==
  ASSUME IInv, conns' = conns
  PROVE  /\ RowsKept
         /\ AskedRows' /\ OfferedRows' /\ PeerIdsDiffer'
         /\ OffersHaveRequests' /\ AcceptedByPeer'
<1>1. RowsKept  BY DEF RowsKept, RowKept, IsRow
<1>2. AskedRows'
  BY DEF IInv, AskedRows, Asked, IsRow
<1>3. OfferedRows'
  BY DEF IInv, OfferedRows, Offered, IsRow
<1>4. PeerIdsDiffer'
  BY DEF IInv, PeerIdsDiffer, IsRow
<1>5. OffersHaveRequests'
  BY DEF IInv, OffersHaveRequests, Requested, Offered, Asked, IsRow
<1>6. AcceptedByPeer'
  BY DEF IInv, AcceptedByPeer, AcceptedOnce, OfferOf, Offered, Asked, IsRow
<1> QED  BY <1>1, <1>2, <1>3, <1>4, <1>5, <1>6

\* Steps that send no new parcel.
LEMMA ParcelsKept ==
  ASSUME IInv, RowsKept, \A m \in Outgoing' : m \in Outgoing
  PROVE  ParcelsHaveRows'
<1> SUFFICES ASSUME NEW m \in Outgoing'
             PROVE  /\ m.kind = "CONN_REQ" => Requested(m.src, m.id, m.dst)'
                    /\ m.kind # "CONN_REQ" => Requested(m.dst, m.id, m.src)'
                    /\ m.kind = "CONN_ACC" => m.new_id # Null /\ AcceptedOnce(m.src, m.id, m.dst)'
  BY DEF ParcelsHaveRows
<1>1. m \in Outgoing /\ m \in ConnParcel /\ m.src \in Nodes /\ m.dst \in Nodes
  BY DEF Outgoing, ConnParcel
<1>2. /\ m.kind = "CONN_REQ" => Requested(m.src, m.id, m.dst)
      /\ m.kind # "CONN_REQ" => Requested(m.dst, m.id, m.src)
      /\ m.kind = "CONN_ACC" => m.new_id # Null /\ AcceptedOnce(m.src, m.id, m.dst)
  BY <1>1 DEF IInv, ParcelsHaveRows
<1> QED  BY <1>1, <1>2, RequestedKept, AcceptedOnceKept

\* Steps that send q.
LEMMA ParcelAdded ==
  ASSUME IInv, RowsKept, NEW q \in ConnParcel,
         \A m \in Outgoing' : m \in Outgoing \/ m = q,
         q.kind = "CONN_REQ" => Requested(q.src, q.id, q.dst)',
         q.kind # "CONN_REQ" => Requested(q.dst, q.id, q.src)',
         q.kind = "CONN_ACC" => q.new_id # Null /\ AcceptedOnce(q.src, q.id, q.dst)'
  PROVE  ParcelsHaveRows'
<1> SUFFICES ASSUME NEW m \in Outgoing'
             PROVE  /\ m.kind = "CONN_REQ" => Requested(m.src, m.id, m.dst)'
                    /\ m.kind # "CONN_REQ" => Requested(m.dst, m.id, m.src)'
                    /\ m.kind = "CONN_ACC" => m.new_id # Null /\ AcceptedOnce(m.src, m.id, m.dst)'
  BY DEF ParcelsHaveRows
<1>1. CASE m = q  BY <1>1
<1>2. CASE m # q
  <2>1. m \in Outgoing /\ m \in ConnParcel /\ m.src \in Nodes /\ m.dst \in Nodes
    BY <1>2 DEF Outgoing, ConnParcel
  <2>2. /\ m.kind = "CONN_REQ" => Requested(m.src, m.id, m.dst)
        /\ m.kind # "CONN_REQ" => Requested(m.dst, m.id, m.src)
        /\ m.kind = "CONN_ACC" => m.new_id # Null /\ AcceptedOnce(m.src, m.id, m.dst)
    BY <2>1 DEF IInv, ParcelsHaveRows
  <2> QED  BY <2>1, <2>2, RequestedKept, AcceptedOnceKept
<1> QED  BY <1>1, <1>2

\* Commands that go on as they were, or stop deciding.
LEMMA DecidersKept ==
  ASSUME IInv, RowsKept,
         \A n \in Nodes, k \in Slots :
           cmd'[n][k] = cmd[n][k] \/ cmd'[n][k].pc # "decide"
  PROVE  DecidingOffers'
<1> SUFFICES ASSUME NEW n \in Nodes, NEW k \in Slots, cmd'[n][k].pc = "decide"
             PROVE  OfferOf(n, cmd[n][k].conn, cmd[n][k].id, cmd[n][k].peer)'
  BY DEF DecidingOffers
<1>1. cmd'[n][k] = cmd[n][k]  OBVIOUS
<1>2. PICK c \in ConnIds, i \in Ids, p \in Nodes :
        cmd[n][k].conn = c /\ cmd[n][k].id = i /\ cmd[n][k].peer = p
  BY <1>1, CommandDeciding DEF IInv
<1>3. OfferOf(n, c, i, p)
  BY <1>1, <1>2 DEF IInv, DecidingOffers
<1>4. OfferOf(n, c, i, p)'
  BY <1>3, OfferKept
<1> QED  BY <1>1, <1>2, <1>4 DEF OfferOf

\* Steps that write no row and put no parcel on its way.
QuietEffect ==
  /\ TypeOK'
  /\ conns' = conns
  /\ \A m \in Outgoing' : m \in Outgoing
  /\ \A n \in Nodes, k \in Slots :
       cmd'[n][k] = cmd[n][k] \/ cmd'[n][k].pc # "decide"

LEMMA QuietStep ==
  ASSUME IInv, QuietEffect
  PROVE  IInv'
BY RowsUnchanged, ParcelsKept, DecidersKept DEF IInv, QuietEffect

-----------------------------------------------------------------------------
(* The steps of the processes that write no row. *)

LEMMA StartListeningQuiet ==
  ASSUME IInv, NEW n \in Nodes, StartListening(n)
  PROVE  QuietEffect
<1>0. TypeOK  BY DEF IInv
<1>1. lst' = [lst EXCEPT ![n] = Loop] /\ net' = net /\ cmd' = cmd /\ conns' = conns
  BY DEF StartListening
<1>2. \A m \in Outgoing' : m \in Outgoing
  BY <1>0, <1>1, LstOutgoing, NetOutgoing, States, Positions
<1>3. TypeOK'  BY <1>0, <1>1, LstWrite, States DEF TypeOK
<1> QED  BY <1>1, <1>2, <1>3 DEF QuietEffect

LEMMA StopListeningQuiet ==
  ASSUME IInv, NEW n \in Nodes, StopListening(n)
  PROVE  QuietEffect
<1>0. TypeOK  BY DEF IInv
<1>1. lst' = [lst EXCEPT ![n] = Off] /\ net' \subseteq net /\ cmd' = cmd /\ conns' = conns
  BY DEF StopListening
<1>2. \A m \in Outgoing' : m \in Outgoing
  BY <1>0, <1>1, LstOutgoing, NetOutgoing, States, Positions
<1>3. TypeOK'  BY <1>0, <1>1, LstWrite, States DEF TypeOK
<1> QED  BY <1>1, <1>2, <1>3 DEF QuietEffect

LEMMA ListenerSendQuiet ==
  ASSUME IInv, NEW n \in Nodes, ListenerSend(n)
  PROVE  QuietEffect
<1>0. TypeOK  BY DEF IInv
<1>1. lst' = [lst EXCEPT ![n] = Loop] /\ cmd' = cmd /\ conns' = conns
  BY DEF ListenerSend
<1>2. lst[n].parcel \in Outgoing
  BY <1>0, ListenerSending DEF ListenerSend, Outgoing
<1>3. net' \subseteq Outgoing
  BY <1>0, <1>2, SendParcelNet DEF ListenerSend
<1>4. \A m \in Outgoing' : m \in Outgoing
  BY <1>0, <1>1, <1>3, LstOutgoing, States, Positions
<1>5. net' \subseteq ConnParcel  BY <1>3 DEF Outgoing
<1>6. TypeOK'  BY <1>0, <1>1, <1>5, LstWrite, States DEF TypeOK
<1> QED  BY <1>1, <1>4, <1>6 DEF QuietEffect

LEMMA DropParcelQuiet ==
  ASSUME IInv, NEW n \in Nodes, DropParcel(n)
  PROVE  QuietEffect
<1>1. lst' = lst /\ cmd' = cmd /\ conns' = conns /\ net' \subseteq net
  BY DEF DropParcel
<1>2. \A m \in Outgoing' : m \in Outgoing  BY <1>1 DEF Outgoing
<1>3. TypeOK'  BY <1>1 DEF IInv, TypeOK
<1> QED  BY <1>1, <1>2, <1>3 DEF QuietEffect

\* A command that ends, having sent its parcel or not.
LEMMA CommandEnds ==
  ASSUME IInv, NEW n \in Nodes, NEW k \in Slots, conns' = conns, lst' = lst,
         net' \subseteq Outgoing, cmd' = [cmd EXCEPT ![n][k] = Idle]
  PROVE  QuietEffect
<1>0. TypeOK  BY DEF IInv
<1>1. \A m \in Outgoing' : m \in Outgoing
  BY <1>0, CmdOutgoing, States, Positions
<1>2. \A j \in Nodes, l \in Slots :
        cmd'[j][l] = cmd[j][l] \/ cmd'[j][l] = Idle
  BY <1>0, CmdWrite, States
<1>3. \A j \in Nodes, l \in Slots :
        cmd'[j][l] = cmd[j][l] \/ cmd'[j][l].pc # "decide"
  BY <1>2 DEF Idle
<1>4. net' \subseteq ConnParcel  BY DEF Outgoing
<1>5. TypeOK'  BY <1>0, <1>4, CmdWrite, States DEF TypeOK
<1> QED  BY <1>1, <1>3, <1>5 DEF QuietEffect

LEMMA CommandSendQuiet ==
  ASSUME IInv, NEW n \in Nodes, NEW k \in Slots, CommandSend(n, k)
  PROVE  QuietEffect
<1>0. TypeOK  BY DEF IInv
<1>1. cmd[n][k].parcel \in Outgoing
  BY <1>0, CommandSending DEF CommandSend, Outgoing
<1>2. net' \subseteq Outgoing
  BY <1>0, <1>1, SendParcelNet DEF CommandSend
<1> QED  BY <1>2, CommandEnds DEF CommandSend

LEMMA CommandExitQuiet ==
  ASSUME IInv, NEW n \in Nodes, NEW k \in Slots,
         CommandExit(n, k) \/ DecideCollide(n, k)
  PROVE  QuietEffect
BY CommandEnds, NetOutgoing DEF IInv, CommandExit, DecideCollide

LEMMA DecideSelectStep ==
  ASSUME IInv, NEW n \in Nodes, NEW k \in Slots, NEW c \in ConnIds,
         NEW acc \in BOOLEAN, DecideSelect(n, k, c, acc)
  PROVE  IInv'
<1>0. TypeOK  BY DEF IInv
<1> DEFINE r == conns[n][c]
           v == Deciding(c, r.self_id, r.peer, acc)
<1>1. /\ cmd' = [cmd EXCEPT ![n][k] = v]
      /\ conns' = conns /\ net' = net /\ lst' = lst
      /\ IsRow(n, c) /\ r.status = "self_review"
  BY DEF DecideSelect
<1>2. r \in Row  BY <1>0, <1>1 DEF TypeOK, IsRow
<1>3. Offered(n, c)
  BY <1>1, <1>2 DEF IInv, AskedRows, Asked, Offered, Row
<1>4. r.self_id \in Ids /\ r.peer \in Nodes
  BY <1>2, <1>3 DEF IInv, OfferedRows, Row
<1>5. v \in CommandState  BY <1>4, States
<1>6. /\ v.pc = "decide" /\ v.conn = c /\ v.id = r.self_id /\ v.peer = r.peer
  BY DEF Deciding
<1> HIDE DEF v
<1>7. \A m : v # Sending(m)  BY <1>6, Positions
<1>8. \A m \in Outgoing' : m \in Outgoing
  BY <1>0, <1>1, <1>5, <1>7, CmdOutgoing, NetOutgoing
<1>9. RowsKept  BY <1>1, RowsUnchanged
<1>10. DecidingOffers'
  <2> SUFFICES ASSUME NEW j \in Nodes, NEW l \in Slots, cmd'[j][l].pc = "decide"
               PROVE  OfferOf(j, cmd[j][l].conn, cmd[j][l].id, cmd[j][l].peer)'
    BY DEF DecidingOffers
  <2>1. CASE j = n /\ l = k
    <3>1. cmd'[j][l] = v  BY <1>0, <1>1, <1>5, <2>1, CmdWrite
    <3>2. OfferOf(n, c, r.self_id, r.peer)  BY <1>3 DEF OfferOf
    <3> QED  BY <1>1, <1>6, <2>1, <3>1, <3>2 DEF OfferOf, Offered, IsRow
  <2>2. CASE j # n \/ l # k
    <3>1. cmd'[j][l] = cmd[j][l]  BY <1>0, <1>1, <1>5, <2>2, CmdWrite
    <3>2. OfferOf(j, cmd[j][l].conn, cmd[j][l].id, cmd[j][l].peer)
      BY <3>1 DEF IInv, DecidingOffers
    <3> QED  BY <1>1, <3>1, <3>2 DEF OfferOf, Offered, IsRow
  <2> QED  BY <2>1, <2>2
<1>11. TypeOK'
  BY <1>0, <1>1, <1>5, CmdWrite DEF TypeOK
<1> QED  BY <1>1, <1>8, <1>9, <1>10, <1>11, RowsUnchanged, ParcelsKept DEF IInv

-----------------------------------------------------------------------------
(* The three kinds of row writes: a new row, a reply, a decision.          *)

\* What each of them establishes.
RowsInv ==
  /\ RowsKept
  /\ AskedRows' /\ OfferedRows' /\ PeerIdsDiffer'
  /\ OffersHaveRequests' /\ AcceptedByPeer'

\* An accepted row of a requester that a step leaves alone.
LEMMA AcceptedStays ==
  ASSUME IInv, RowsKept, NEW n \in Nodes, NEW c \in ConnIds,
         Asked(n, c), conns[n][c].status = "accepted", conns'[n][c] = conns[n][c]
  PROVE  AcceptedOnce(conns[n][c].peer, conns[n][c].peer_id, n)'
<1>0. conns[n][c] \in Row  BY DEF IInv, TypeOK, Asked, IsRow
<1>1. PICK p \in Nodes, id \in Ids \cup {Null} :
        p = conns[n][c].peer /\ id = conns[n][c].peer_id
  BY <1>0 DEF Row
<1>2. AcceptedOnce(p, id, n)  BY <1>1 DEF IInv, AcceptedByPeer
<1>3. AcceptedOnce(p, id, n)'  BY <1>2, AcceptedOnceKept
<1> QED  BY <1>1, <1>3

\* An offer that keeps its ids keeps its request.
LEMMA OfferHasRequest ==
  ASSUME IInv, RowsKept, NEW n \in Nodes, NEW c \in ConnIds, Offered(n, c),
         conns'[n][c].self_id = conns[n][c].self_id,
         conns'[n][c].peer = conns[n][c].peer
  PROVE  Requested(conns[n][c].peer, conns[n][c].self_id, n)'
<1>0. conns[n][c] \in Row  BY DEF IInv, TypeOK, Offered, IsRow
<1>1. PICK p \in Nodes, id \in Ids \cup {Null} :
        p = conns[n][c].peer /\ id = conns[n][c].self_id
  BY <1>0 DEF Row
<1>2. Requested(p, id, n)  BY <1>1 DEF IInv, OffersHaveRequests
<1>3. Requested(p, id, n)'  BY <1>2, RequestedKept
<1> QED  BY <1>1, <1>3

LEMMA NewRow ==
  ASSUME IInv, NEW n \in Nodes, NEW c \in ConnIds, NEW r \in Row, ~IsRow(n, c),
         conns' = [conns EXCEPT ![n][c] = r],
         r.peer_id # Null => PeerIdFree(n, c, r.peer_id),
         r.by = "request" => r.peer_id # Null /\ r.status = "pending",
         r.by = "listener" =>
           /\ r.self_id # Null /\ r.named /\ r.status = "self_review"
           /\ Requested(r.peer, r.self_id, n)
  PROVE  RowsInv
<1>0. TypeOK  BY DEF IInv
<1>1. /\ conns'[n][c] = r
      /\ \A j \in Nodes, d \in ConnIds :
           j # n \/ d # c => conns'[j][d] = conns[j][d]
  BY <1>0, RowWrite
<1>2. RowsKept
  BY <1>1 DEF RowsKept, RowKept, IsRow
<1>3. r # NoRow /\ r.peer \in Nodes  BY RowAssumption DEF Row
<1>4. AskedRows'
  BY <1>1, <1>3 DEF IInv, AskedRows, Asked, IsRow
<1>5. OfferedRows'
  BY <1>1, <1>3 DEF IInv, OfferedRows, Offered, IsRow
<1>6. PeerIdsDiffer'
  BY <1>1, <1>3 DEF IInv, PeerIdsDiffer, PeerIdFree, HasPeerId, IsRow
<1>7. OffersHaveRequests'
  <2> SUFFICES ASSUME NEW j \in Nodes, NEW d \in ConnIds, Offered(j, d)'
               PROVE  Requested(conns[j][d].peer, conns[j][d].self_id, j)'
    BY DEF OffersHaveRequests
  <2>1. CASE j = n /\ d = c
    <3>1. r.by = "listener"  BY <1>1, <2>1 DEF Offered
    <3>2. Requested(r.peer, r.self_id, n)'
      BY <1>2, <1>3, <3>1, RequestedKept
    <3> QED  BY <1>1, <2>1, <3>2
  <2>2. CASE j # n \/ d # c
    <3>1. conns'[j][d] = conns[j][d] /\ Offered(j, d)
      BY <1>1, <2>2 DEF Offered, IsRow
    <3> QED  BY <1>2, <3>1, OfferHasRequest
  <2> QED  BY <2>1, <2>2
<1>8. AcceptedByPeer'
  <2> SUFFICES ASSUME NEW j \in Nodes, NEW d \in ConnIds, Asked(j, d)',
                      conns'[j][d].status = "accepted"
               PROVE  AcceptedOnce(conns[j][d].peer, conns[j][d].peer_id, j)'
    BY DEF AcceptedByPeer
  <2>1. j # n \/ d # c  BY <1>1 DEF Asked
  <2>2. conns'[j][d] = conns[j][d] /\ Asked(j, d)
    BY <1>1, <2>1 DEF Asked, IsRow
  <2> QED  BY <1>2, <2>2, AcceptedStays
<1> QED  BY <1>2, <1>4, <1>5, <1>6, <1>7, <1>8 DEF RowsInv

\* A reply m updates rows of its receiver by the peer_id it carries.
LEMMA ReplyRows ==
  ASSUME IInv, NEW m \in Outgoing, NEW n \in Nodes, m.dst = n, m.kind # "CONN_REQ",
         \A j \in Nodes, d \in ConnIds :
           j # n \/ ~HasPeerId(n, d, m.id) => conns'[j][d] = conns[j][d],
         \A d \in ConnIds : HasPeerId(n, d, m.id) =>
           /\ conns'[n][d] \in Row
           /\ conns'[n][d].by = conns[n][d].by
           /\ conns'[n][d].peer = conns[n][d].peer
           /\ conns'[n][d].peer_id = conns[n][d].peer_id
           /\ conns[n][d].self_id # Null => conns'[n][d].self_id # Null
           /\ conns'[n][d].status # "self_review"
           /\ conns'[n][d].status = "accepted" =>
                /\ m.kind = "CONN_ACC"
                /\ conns'[n][d].named
                /\ conns'[n][d].self_id # Null
  PROVE  RowsInv
<1>0. m \in ConnParcel /\ m.src \in Nodes /\ m.id \in Ids
  BY DEF Outgoing, ConnParcel
<1>1. \A d \in ConnIds : HasPeerId(n, d, m.id) =>
        Asked(n, d) /\ conns[n][d].peer = m.src
  BY ReplyRow
<1>2. \A j \in Nodes, d \in ConnIds : IsRow(j, d)' <=> IsRow(j, d)
  BY <1>0, RowAssumption DEF IsRow, HasPeerId
<1>3. RowsKept
  BY <1>0, <1>1, <1>2 DEF RowsKept, RowKept, Asked, Offered
<1>4. AskedRows'
  BY <1>0, <1>1, <1>2 DEF IInv, AskedRows, Asked
<1>5. OfferedRows'
  BY <1>0, <1>1, <1>2 DEF IInv, OfferedRows, Asked, Offered
<1>6. PeerIdsDiffer'
  <2>1. \A j \in Nodes, d \in ConnIds :
          IsRow(j, d) => conns'[j][d].peer_id = conns[j][d].peer_id
    BY <1>0
  <2> QED  BY <1>2, <2>1 DEF IInv, PeerIdsDiffer
<1>7. OffersHaveRequests'
  <2> SUFFICES ASSUME NEW j \in Nodes, NEW d \in ConnIds, Offered(j, d)'
               PROVE  Requested(conns[j][d].peer, conns[j][d].self_id, j)'
    BY DEF OffersHaveRequests
  <2>1. conns'[j][d] = conns[j][d] /\ Offered(j, d)
    BY <1>0, <1>1, <1>2 DEF Offered, Asked
  <2> QED  BY <1>3, <2>1, OfferHasRequest
<1>8. AcceptedByPeer'
  <2> SUFFICES ASSUME NEW j \in Nodes, NEW d \in ConnIds, Asked(j, d)',
                      conns'[j][d].status = "accepted"
               PROVE  AcceptedOnce(conns[j][d].peer, conns[j][d].peer_id, j)'
    BY DEF AcceptedByPeer
  <2>1. CASE j = n /\ HasPeerId(n, d, m.id)
    <3>1. AcceptedOnce(m.src, m.id, n)
      BY <2>1 DEF IInv, ParcelsHaveRows
    <3>2. AcceptedOnce(m.src, m.id, n)'
      BY <1>0, <1>3, <3>1, AcceptedOnceKept
    <3>3. conns'[j][d].peer = m.src /\ conns'[j][d].peer_id = m.id
      BY <1>1, <2>1 DEF HasPeerId
    <3> QED  BY <2>1, <3>2, <3>3
  <2>2. CASE j # n \/ ~HasPeerId(n, d, m.id)
    <3>1. conns'[j][d] = conns[j][d] /\ Asked(j, d)
      BY <1>2, <2>2 DEF Asked
    <3> QED  BY <1>3, <3>1, AcceptedStays
  <2> QED  BY <2>1, <2>2
<1> QED  BY <1>3, <1>4, <1>5, <1>6, <1>7, <1>8 DEF RowsInv

\* A decision writes the status of an offered row, and perhaps its peer_id.
LEMMA DecisionRow ==
  ASSUME IInv, NEW n \in Nodes, NEW c \in ConnIds, NEW r \in Row, Offered(n, c),
         conns' = [conns EXCEPT ![n][c] = r],
         r.by = conns[n][c].by, r.peer = conns[n][c].peer,
         r.self_id = conns[n][c].self_id, r.named = conns[n][c].named,
         r.status \in {"accepted", "rejected"},
         r.status = "accepted" => r.peer_id # Null,
         \/ r.peer_id = conns[n][c].peer_id
         \/ r.peer_id # Null /\ PeerIdFree(n, c, r.peer_id)
  PROVE  RowsInv
<1>0. TypeOK  BY DEF IInv
<1>1. /\ conns'[n][c] = r
      /\ \A j \in Nodes, d \in ConnIds :
           j # n \/ d # c => conns'[j][d] = conns[j][d]
  BY <1>0, RowWrite
<1>2. \A j \in Nodes, d \in ConnIds : IsRow(j, d)' <=> IsRow(j, d)
  BY <1>1, RowAssumption DEF IsRow, Offered
<1>3. RowsKept
  BY <1>1, <1>2 DEF RowsKept, RowKept, Offered, Asked
<1>4. AskedRows'
  BY <1>1, <1>2 DEF IInv, AskedRows, Asked, Offered
<1>5. OfferedRows'
  BY <1>1, <1>2 DEF IInv, OfferedRows, Offered
<1>6. PeerIdsDiffer'
  BY <1>1, <1>2 DEF IInv, PeerIdsDiffer, PeerIdFree, HasPeerId, Offered
<1>7. OffersHaveRequests'
  <2> SUFFICES ASSUME NEW j \in Nodes, NEW d \in ConnIds, Offered(j, d)'
               PROVE  Requested(conns[j][d].peer, conns[j][d].self_id, j)'
    BY DEF OffersHaveRequests
  <2>1. /\ conns'[j][d].peer = conns[j][d].peer
        /\ conns'[j][d].self_id = conns[j][d].self_id
        /\ Offered(j, d)
    BY <1>1, <1>2 DEF Offered
  <2> QED  BY <1>3, <2>1, OfferHasRequest
<1>8. AcceptedByPeer'
  <2> SUFFICES ASSUME NEW j \in Nodes, NEW d \in ConnIds, Asked(j, d)',
                      conns'[j][d].status = "accepted"
               PROVE  AcceptedOnce(conns[j][d].peer, conns[j][d].peer_id, j)'
    BY DEF AcceptedByPeer
  <2>1. conns'[j][d] = conns[j][d] /\ Asked(j, d)
    BY <1>1, <1>2 DEF Asked, Offered
  <2> QED  BY <1>3, <2>1, AcceptedStays
<1> QED  BY <1>3, <1>4, <1>5, <1>6, <1>7, <1>8 DEF RowsInv

-----------------------------------------------------------------------------
(* The steps that write rows. *)

LEMMA RequestStep ==
  ASSUME IInv, NEW n \in Nodes, NEW k \in Slots, NEW p \in Nodes,
         Request(n, k, p)
  PROVE  IInv'
<1>0. TypeOK  BY DEF IInv
<1> DEFINE R(id) == [by |-> "request", peer_id |-> id, self_id |-> Null,
                     peer |-> p, named |-> FALSE, status |-> "pending"]
           Q(id) == Parcel("CONN_REQ", n, p, id, Null)
<1>1. PICK c \in ConnIds, id \in Ids :
        /\ FreshRow(n, c) /\ PeerIdFree(n, c, id)
        /\ conns' = [conns EXCEPT ![n][c] = R(id)]
        /\ cmd' = [cmd EXCEPT ![n][k] = Sending(Q(id))]
  BY DEF Request
<1>2. net' = net /\ lst' = lst  BY DEF Request
<1>3. /\ R(id) \in Row
      /\ R(id).by = "request" /\ R(id).peer_id = id /\ R(id).peer = p
      /\ R(id).status = "pending"
  BY DEF Row, ConnStatus
<1>4. /\ Q(id) \in ConnParcel
      /\ Q(id).kind = "CONN_REQ" /\ Q(id).src = n /\ Q(id).dst = p /\ Q(id).id = id
  BY ParcelType DEF ConnKinds
<1> HIDE DEF R, Q
<1>5. RowsInv
  BY <1>1, <1>3, NewRow, NodeAssumption DEF FreshRow
<1>6. conns'[n][c] = R(id)  BY <1>0, <1>1, <1>3, RowWrite
<1>7. Requested(n, id, p)'
  BY <1>3, <1>6, RowAssumption DEF Requested, Asked, IsRow
<1>8. PICK q \in ConnParcel : q = Q(id)  BY <1>4
<1>9. /\ cmd' \in [Nodes -> [Slots -> CommandState]]
      /\ \A m \in Outgoing' : m \in Outgoing \/ m = q
      /\ \A j \in Nodes, l \in Slots :
           cmd'[j][l] = cmd[j][l] \/ cmd'[j][l].pc # "decide"
  BY <1>0, <1>1, <1>2, <1>8, CmdSends
<1>10. q.kind = "CONN_REQ" /\ q.src = n /\ q.dst = p /\ q.id = id
  BY <1>4, <1>8
<1>11. ParcelsHaveRows'
  BY <1>5, <1>7, <1>9, <1>10, ParcelAdded DEF RowsInv
<1>12. DecidingOffers'  BY <1>5, <1>9, DecidersKept DEF RowsInv
<1>13. TypeOK'
  BY <1>0, <1>1, <1>2, <1>3, <1>9, RowWrite DEF TypeOK
<1> QED  BY <1>5, <1>11, <1>12, <1>13 DEF IInv, RowsInv

\* A command decides: the row becomes r, and the peer will be sent q.
LEMMA DecideStep ==
  ASSUME IInv, NEW n \in Nodes, NEW k \in Slots, NEW r, NEW q \in ConnParcel,
         cmd[n][k].pc = "decide",
         NEW c \in ConnIds, cmd[n][k].conn = c,
         net' = net, lst' = lst,
         conns' = [conns EXCEPT ![n][c] = r],
         cmd' = [cmd EXCEPT ![n][k] = Sending(q)],
         r = [conns[n][c] EXCEPT !.peer_id = r.peer_id, !.status = r.status],
         \/ /\ r.status = "rejected"
            /\ r.peer_id = conns[n][c].peer_id
            /\ q.kind = "CONN_REJ"
         \/ /\ r.status = "accepted" /\ r.peer_id \in Ids
            /\ PeerIdFree(n, c, r.peer_id)
            /\ q.kind = "CONN_ACC" /\ q.new_id = r.peer_id,
         q.src = n, q.dst = cmd[n][k].peer, q.id = cmd[n][k].id
  PROVE  IInv'
<1>0. TypeOK  BY DEF IInv
<1>1. OfferOf(n, c, q.id, q.dst)
  BY DEF IInv, DecidingOffers
<1>2. Offered(n, c) /\ conns[n][c] \in Row
  BY <1>0, <1>1 DEF OfferOf, Offered, IsRow, TypeOK
<1>3. r \in Row /\ r.by = conns[n][c].by /\ r.peer = conns[n][c].peer
      /\ r.self_id = conns[n][c].self_id /\ r.named = conns[n][c].named
  BY <1>2 DEF Row, ConnStatus
<1>4. RowsInv
  BY <1>2, <1>3, DecisionRow, NodeAssumption
<1>5. Requested(q.dst, q.id, n)
  BY <1>1 DEF IInv, OffersHaveRequests, OfferOf
<1>6. q.dst \in Nodes /\ q.src \in Nodes  BY DEF ConnParcel
<1>7. Requested(q.dst, q.id, q.src)'
  BY <1>4, <1>5, <1>6, RequestedKept DEF RowsInv
<1>8. OfferOf(n, c, q.id, q.dst)'
  BY <1>1, <1>4, OfferKept DEF RowsInv
<1>9. q.kind = "CONN_ACC" => q.new_id # Null /\ AcceptedOnce(q.src, q.id, q.dst)'
  <2>1. conns'[n][c] = r  BY <1>0, <1>3, RowWrite
  <2> QED  BY <1>8, <2>1, NodeAssumption DEF AcceptedOnce
<1>10. /\ cmd' \in [Nodes -> [Slots -> CommandState]]
       /\ \A m \in Outgoing' : m \in Outgoing \/ m = q
       /\ \A j \in Nodes, l \in Slots :
            cmd'[j][l] = cmd[j][l] \/ cmd'[j][l].pc # "decide"
  BY <1>0, CmdSends
<1>11. ParcelsHaveRows'
  BY <1>4, <1>7, <1>9, <1>10, ParcelAdded DEF RowsInv
<1>12. DecidingOffers'  BY <1>4, <1>10, DecidersKept DEF RowsInv
<1>13. TypeOK'
  BY <1>0, <1>3, <1>10, RowWrite DEF TypeOK
<1> QED  BY <1>4, <1>11, <1>12, <1>13 DEF IInv, RowsInv

LEMMA DecideRejectStep ==
  ASSUME IInv, NEW n \in Nodes, NEW k \in Slots, DecideReject(n, k)
  PROVE  IInv'
<1>1. PICK c \in ConnIds, i \in Ids, p \in Nodes :
        cmd[n][k].conn = c /\ cmd[n][k].id = i /\ cmd[n][k].peer = p
  BY CommandDeciding DEF IInv, DecideReject
<1>2. PICK q \in ConnParcel : q = Parcel("CONN_REJ", n, p, i, Null)
  BY ParcelType DEF ConnKinds
<1>3. q.kind = "CONN_REJ" /\ q.src = n /\ q.dst = p /\ q.id = i
  BY <1>2, ParcelType DEF ConnKinds
<1>4. conns[n][c] \in Row
  BY <1>1 DEF IInv, DecidingOffers, OfferOf, Offered, IsRow, TypeOK, DecideReject
<1> DEFINE r == [conns[n][c] EXCEPT !.status = "rejected"]
<1>5. /\ conns' = [conns EXCEPT ![n][c] = r]
      /\ cmd' = [cmd EXCEPT ![n][k] = Sending(q)]
      /\ net' = net /\ lst' = lst /\ cmd[n][k].pc = "decide"
  BY <1>1, <1>2 DEF DecideReject, IInv, TypeOK
<1>6. /\ r.status = "rejected" /\ r.peer_id = conns[n][c].peer_id
      /\ r = [conns[n][c] EXCEPT !.peer_id = r.peer_id, !.status = r.status]
  BY <1>4 DEF Row
<1> HIDE DEF r
<1> QED  BY <1>1, <1>3, <1>5, <1>6, DecideStep

LEMMA DecideAcceptStep ==
  ASSUME IInv, NEW n \in Nodes, NEW k \in Slots, DecideAccept(n, k)
  PROVE  IInv'
<1>1. PICK c \in ConnIds, i \in Ids, p \in Nodes :
        cmd[n][k].conn = c /\ cmd[n][k].id = i /\ cmd[n][k].peer = p
  BY CommandDeciding DEF IInv, DecideAccept
<1>2. PICK new \in Ids :
        /\ PeerIdFree(n, c, new)
        /\ conns' = [conns EXCEPT ![n][c].peer_id = new,
                                  ![n][c].status = "accepted"]
        /\ cmd' = [cmd EXCEPT ![n][k] =
                     Sending(Parcel("CONN_ACC", n, p, i, new))]
  BY <1>1 DEF DecideAccept
<1>3. PICK q \in ConnParcel : q = Parcel("CONN_ACC", n, p, i, new)
  BY ParcelType DEF ConnKinds
<1>4. q.kind = "CONN_ACC" /\ q.src = n /\ q.dst = p /\ q.id = i /\ q.new_id = new
  BY <1>3, ParcelType DEF ConnKinds
<1>5. conns[n][c] \in Row
  BY <1>1 DEF IInv, DecidingOffers, OfferOf, Offered, IsRow, TypeOK, DecideAccept
<1> DEFINE r == [conns[n][c] EXCEPT !.peer_id = new, !.status = "accepted"]
<1>6. conns' = [conns EXCEPT ![n][c] = r]
  BY <1>2, <1>5 DEF IInv, TypeOK, Row
<1>7. /\ cmd' = [cmd EXCEPT ![n][k] = Sending(q)]
      /\ net' = net /\ lst' = lst /\ cmd[n][k].pc = "decide"
  BY <1>2, <1>3 DEF DecideAccept
<1>8. /\ r.status = "accepted" /\ r.peer_id = new
      /\ r = [conns[n][c] EXCEPT !.peer_id = r.peer_id, !.status = r.status]
  BY <1>5 DEF Row
<1>9. r.peer_id \in Ids /\ PeerIdFree(n, c, r.peer_id) /\ q.new_id = r.peer_id
  BY <1>2, <1>4, <1>8
<1> HIDE DEF r
<1> QED  BY <1>1, <1>4, <1>6, <1>7, <1>8, <1>9, DecideStep

LEMMA HandleReqStep ==
  ASSUME IInv, NEW n \in Nodes, NEW m \in net, HandleReq(n, m)
  PROVE  IInv'
<1>0. TypeOK /\ m \in Outgoing /\ m \in ConnParcel
  BY NetOutgoing DEF IInv
<1>1. /\ m.dst = n /\ m.kind = "CONN_REQ" /\ net' \subseteq net /\ cmd' = cmd
      /\ m.src \in Nodes /\ m.id \in Ids
  BY <1>0 DEF HandleReq, Receive, ConnParcel
<1> DEFINE r == [by |-> "listener", peer_id |-> Null, self_id |-> m.id,
                 peer |-> m.src, named |-> TRUE, status |-> "self_review"]
<1>2. PICK c \in ConnIds : FreshRow(n, c) /\ conns' = [conns EXCEPT ![n][c] = r]
  BY DEF HandleReq
<1>3. /\ r \in Row /\ r.by = "listener" /\ r.peer_id = Null
      /\ r.self_id = m.id /\ r.named /\ r.peer = m.src /\ r.status = "self_review"
  BY <1>1 DEF Row, ConnStatus
<1> HIDE DEF r
<1>4. PICK q \in ConnParcel : q = Parcel("CONN_ACK", n, m.src, m.id, Null)
  BY <1>1, ParcelType DEF ConnKinds
<1>5. q.kind = "CONN_ACK" /\ q.src = n /\ q.dst = m.src /\ q.id = m.id
  BY <1>1, <1>4, ParcelType DEF ConnKinds
<1>6. lst' = [lst EXCEPT ![n] = Sending(q)]  BY <1>4 DEF HandleReq
<1>7. Requested(m.src, m.id, n)
  BY <1>0, <1>1 DEF IInv, ParcelsHaveRows
<1>8. RowsInv
  BY <1>1, <1>2, <1>3, <1>7, NewRow, NodeAssumption DEF FreshRow
<1>9. Requested(m.src, m.id, n)'
  BY <1>1, <1>7, <1>8, RequestedKept DEF RowsInv
<1>10. \A x \in Outgoing' : x \in Outgoing \/ x = q
  BY <1>0, <1>1, <1>6, LstOutgoing, NetOutgoing, States, Positions
<1>11. ParcelsHaveRows'
  BY <1>5, <1>8, <1>9, <1>10, ParcelAdded DEF RowsInv
<1>12. DecidingOffers'  BY <1>1, <1>8, DecidersKept DEF RowsInv
<1>13. TypeOK'
  BY <1>0, <1>1, <1>2, <1>3, <1>6, RowWrite, LstWrite, States DEF TypeOK
<1> QED  BY <1>8, <1>11, <1>12, <1>13 DEF IInv, RowsInv

\* What a reply m does to the rows of its receiver n, and what it leaves alone.
ReplyEffect(n, m) ==
  /\ conns' \in [Nodes -> [ConnIds -> Row \cup {NoRow}]]
  /\ \A j \in Nodes, d \in ConnIds :
       j # n \/ ~HasPeerId(n, d, m.id) => conns'[j][d] = conns[j][d]
  /\ \A d \in ConnIds : HasPeerId(n, d, m.id) =>
       /\ conns[n][d] \in Row
       /\ \/ conns'[n][d] = [conns[n][d] EXCEPT !.status = "peer_review"]
          \/ conns'[n][d] = [conns[n][d] EXCEPT !.status = "rejected"]
          \/ /\ m.kind = "CONN_ACC"
             /\ conns'[n][d] = [conns[n][d] EXCEPT
                  !.self_id = m.new_id, !.named = TRUE, !.status = "accepted"]

LEMMA ReplyFacts ==
  ASSUME IInv, NEW n \in Nodes, NEW m \in net,
         HandleAck(n, m) \/ HandleRej(n, m) \/ HandleAcc(n, m)
  PROVE  /\ m \in Outgoing /\ m \in ConnParcel
         /\ m.dst = n /\ m.kind # "CONN_REQ" /\ m.id \in Ids
         /\ m.kind = "CONN_ACC" => m.new_id \in Ids
         /\ net' \subseteq net /\ cmd' = cmd /\ lst' = lst
         /\ ReplyEffect(n, m)
<1>0. TypeOK /\ m \in Outgoing /\ m \in ConnParcel
  BY NetOutgoing DEF IInv
<1>1. /\ m.dst = n /\ m.kind # "CONN_REQ" /\ m.id \in Ids
      /\ net' \subseteq net /\ cmd' = cmd /\ lst' = lst
  BY <1>0 DEF HandleAck, HandleRej, HandleAcc, Receive, ConnParcel
<1>2. m.kind = "CONN_ACC" => m.new_id \in Ids
  BY <1>0 DEF IInv, ParcelsHaveRows, ConnParcel
<1>3. ReplyEffect(n, m)
  <2>0. \A d \in ConnIds : HasPeerId(n, d, m.id) => conns[n][d] \in Row
    BY <1>0 DEF TypeOK, HasPeerId, IsRow
  <2>1. CASE HandleAck(n, m)
    <3>1. Acknowledged(n, m.id) \in [ConnIds -> Row \cup {NoRow}]
      <4>1. \A d \in ConnIds : HasPeerId(n, d, m.id) =>
              [conns[n][d] EXCEPT !.status = "peer_review"] \in Row
        BY <2>0 DEF Row, ConnStatus
      <4> QED  BY <1>0, <4>1 DEF Acknowledged, TypeOK
    <3>2. conns' = [conns EXCEPT ![n] = Acknowledged(n, m.id)]
      BY <2>1 DEF HandleAck
    <3> QED  BY <1>0, <2>0, <3>1, <3>2, TableWrite DEF Acknowledged, ReplyEffect
  <2>2. CASE HandleRej(n, m)
    <3>1. Refused(n, m.id) \in [ConnIds -> Row \cup {NoRow}]
      <4>1. \A d \in ConnIds : HasPeerId(n, d, m.id) =>
              [conns[n][d] EXCEPT !.status = "rejected"] \in Row
        BY <2>0 DEF Row, ConnStatus
      <4> QED  BY <1>0, <4>1 DEF Refused, TypeOK
    <3>2. conns' = [conns EXCEPT ![n] = Refused(n, m.id)]
      BY <2>2 DEF HandleRej
    <3> QED  BY <1>0, <2>0, <3>1, <3>2, TableWrite DEF Refused, ReplyEffect
  <2>3. CASE HandleAcc(n, m)
    <3>0. m.kind = "CONN_ACC"  BY <2>3 DEF HandleAcc, Receive
    <3>1. Granted(n, m.id, m.new_id) \in [ConnIds -> Row \cup {NoRow}]
      <4>1. \A d \in ConnIds : HasPeerId(n, d, m.id) =>
              [conns[n][d] EXCEPT !.self_id = m.new_id, !.named = TRUE,
                                  !.status = "accepted"] \in Row
        BY <1>2, <2>0, <3>0 DEF Row, ConnStatus
      <4> QED  BY <1>0, <4>1 DEF Granted, TypeOK
    <3>2. conns' = [conns EXCEPT ![n] = Granted(n, m.id, m.new_id)]
      BY <2>3 DEF HandleAcc
    <3> QED  BY <1>0, <2>0, <3>0, <3>1, <3>2, TableWrite DEF Granted, ReplyEffect
  <2> QED  BY <2>1, <2>2, <2>3
<1> QED  BY <1>0, <1>1, <1>2, <1>3

LEMMA HandleReplyStep ==
  ASSUME IInv, NEW n \in Nodes, NEW m \in net,
         HandleAck(n, m) \/ HandleRej(n, m) \/ HandleAcc(n, m)
  PROVE  IInv'
<1>0. TypeOK  BY DEF IInv
<1>1. /\ m \in Outgoing /\ m \in ConnParcel
      /\ m.dst = n /\ m.kind # "CONN_REQ" /\ m.id \in Ids
      /\ net' \subseteq net /\ cmd' = cmd /\ lst' = lst
  BY ReplyFacts
<1>2. m.kind = "CONN_ACC" => m.new_id \in Ids  BY ReplyFacts
<1>3. ReplyEffect(n, m)
  BY ReplyFacts
<1>4. \A d \in ConnIds : HasPeerId(n, d, m.id) =>
        /\ conns'[n][d] \in Row
        /\ conns'[n][d].by = conns[n][d].by
        /\ conns'[n][d].peer = conns[n][d].peer
        /\ conns'[n][d].peer_id = conns[n][d].peer_id
        /\ conns[n][d].self_id # Null => conns'[n][d].self_id # Null
        /\ conns'[n][d].status # "self_review"
        /\ conns'[n][d].status = "accepted" =>
             /\ m.kind = "CONN_ACC"
             /\ conns'[n][d].named
             /\ conns'[n][d].self_id # Null
  <2> SUFFICES ASSUME NEW d \in ConnIds, HasPeerId(n, d, m.id)
               PROVE  /\ conns'[n][d] \in Row
                      /\ conns'[n][d].by = conns[n][d].by
                      /\ conns'[n][d].peer = conns[n][d].peer
                      /\ conns'[n][d].peer_id = conns[n][d].peer_id
                      /\ conns[n][d].self_id # Null => conns'[n][d].self_id # Null
                      /\ conns'[n][d].status # "self_review"
                      /\ conns'[n][d].status = "accepted" =>
                           /\ m.kind = "CONN_ACC"
                           /\ conns'[n][d].named
                           /\ conns'[n][d].self_id # Null
    OBVIOUS
  <2>0. conns[n][d] \in Row  BY <1>3 DEF ReplyEffect
  <2>1. CASE conns'[n][d] = [conns[n][d] EXCEPT !.status = "peer_review"]
    BY <2>0, <2>1, RowStatus DEF ConnStatus
  <2>2. CASE conns'[n][d] = [conns[n][d] EXCEPT !.status = "rejected"]
    BY <2>0, <2>2, RowStatus DEF ConnStatus
  <2>3. CASE /\ m.kind = "CONN_ACC"
             /\ conns'[n][d] = [conns[n][d] EXCEPT
                  !.self_id = m.new_id, !.named = TRUE, !.status = "accepted"]
    BY <1>2, <2>0, <2>3, NodeAssumption DEF Row, ConnStatus
  <2> QED  BY <1>3, <2>1, <2>2, <2>3 DEF ReplyEffect
<1>5. RowsInv
  BY <1>0, <1>1, <1>3, <1>4, ReplyRows DEF ReplyEffect
<1>6. \A x \in Outgoing' : x \in Outgoing  BY <1>1 DEF Outgoing
<1>7. ParcelsHaveRows'  BY <1>5, <1>6, ParcelsKept DEF RowsInv
<1>8. DecidingOffers'  BY <1>1, <1>5, DecidersKept DEF RowsInv
<1>9. TypeOK'  BY <1>0, <1>1, <1>3 DEF TypeOK, ReplyEffect
<1> QED  BY <1>5, <1>7, <1>8, <1>9 DEF IInv, RowsInv

-----------------------------------------------------------------------------
(* The theorems. *)

LEMMA IInvInit == Init => IInv
<1> SUFFICES ASSUME Init PROVE IInv  OBVIOUS
<1> USE DEF Init, NodeInit
<1>1. \A n \in Nodes, c \in ConnIds : ~IsRow(n, c)  BY DEF IsRow
<1>2. \A n \in Nodes, k \in Slots : cmd[n][k] = Idle  OBVIOUS
<1>3. TypeOK  BY States DEF TypeOK
<1>4. Outgoing = {}
  <2>1. \A n \in Nodes : lst[n] = Off \/ lst[n] = Loop  OBVIOUS
  <2> QED  BY <1>2, <2>1, Positions DEF Outgoing
<1>5. DecidingOffers  BY <1>2, Positions DEF DecidingOffers
<1> QED
  BY <1>1, <1>3, <1>4, <1>5
  DEF IInv, AskedRows, OfferedRows, PeerIdsDiffer, OffersHaveRequests,
      ParcelsHaveRows, AcceptedByPeer, Asked, Offered

LEMMA IInvStutter == IInv /\ UNCHANGED vars => IInv'
<1> SUFFICES ASSUME IInv, UNCHANGED vars PROVE IInv'  OBVIOUS
<1> USE DEF vars, nodeVars
<1>1. TypeOK'  BY DEF IInv, TypeOK
<1>2. \A m \in Outgoing' : m \in Outgoing  BY DEF Outgoing
<1>3. \A n \in Nodes, k \in Slots : cmd'[n][k] = cmd[n][k]  OBVIOUS
<1> QED  BY <1>1, <1>2, <1>3, QuietStep DEF QuietEffect

\* No step of any process breaks the inductive invariant.
LEMMA IInvNext == IInv /\ Next => IInv'
<1> SUFFICES ASSUME IInv, NEW n \in Nodes,
                    Listener(n) \/ \E k \in Slots : Command(n, k)
             PROVE  IInv'
  BY DEF Next
<1>1. CASE Listener(n)
  <2>1. CASE Handle(n)
    BY <2>1, HandleReqStep, HandleReplyStep DEF Handle
  <2> QED
    BY <1>1, <2>1, StartListeningQuiet, StopListeningQuiet, ListenerSendQuiet,
       DropParcelQuiet, QuietStep DEF Listener
<1>2. ASSUME NEW k \in Slots, Command(n, k) PROVE IInv'
  BY <1>2, RequestStep, DecideSelectStep, DecideRejectStep, DecideAcceptStep,
     CommandSendQuiet, CommandExitQuiet, QuietStep DEF Command
<1> QED  BY <1>1, <1>2

\* However many commands every node runs at a time, and whatever parcels and
\* processes the environment loses, IInv holds.
THEOREM Inductive == Spec => []IInv
BY IInvInit, IInvNext, IInvStutter, PTL DEF Spec

LEMMA RepliesByInv == IInv => RepliesNameRequests
BY DEF IInv, ParcelsHaveRows, RepliesNameRequests

LEMMA ReadableByInv == IInv => RowsReadable
<1> SUFFICES ASSUME IInv, NEW n \in Nodes, NEW c \in ConnIds, IsRow(n, c)
             PROVE  LET r == conns[n][c] IN
                    /\ r.status \in {"accepted", "self_review"} =>
                         r.named /\ r.self_id # Null
                    /\ r.status = "accepted" => r.peer_id # Null
  BY DEF RowsReadable
<1>1. Asked(n, c) \/ Offered(n, c)
  BY DEF IInv, TypeOK, Row, Asked, Offered, IsRow
<1>2. CASE Asked(n, c)  BY <1>2 DEF IInv, AskedRows
<1>3. CASE Offered(n, c)  BY <1>3 DEF IInv, OfferedRows
<1> QED  BY <1>1, <1>2, <1>3

\* The tables, parcels and processes keep their types.
THEOREM TypeCorrect == Spec => []TypeOK
<1>1. IInv => TypeOK  BY DEF IInv
<1> QED  BY <1>1, Inductive, PTL

\* Every reply finds the request it answers (the handlers look a row up by the
\* id alone, libap2p.c 801, 827, 859).
THEOREM RepliesFindRequests == Spec => []RepliesNameRequests
<1> QED  BY RepliesByInv, Inductive, PTL

\* A row made for a CONN_REQ has that request behind it (755-756).
THEOREM OffersFindRequests == Spec => []OffersHaveRequests
<1>1. IInv => OffersHaveRequests  BY DEF IInv
<1> QED  BY <1>1, Inductive, PTL

\* No reader of a row meets a NULL it does not expect (270-272, 623).
THEOREM RowsAreReadable == Spec => []RowsReadable
<1> QED  BY ReadableByInv, Inductive, PTL

\* Nobody is connected to a peer whose user never accepted.
THEOREM ConnectedByConsent == Spec => []AcceptedByPeer
<1>1. IInv => AcceptedByPeer  BY DEF IInv
<1> QED  BY <1>1, Inductive, PTL

-----------------------------------------------------------------------------
(* A request is put to the peer's user at most once. *)

\* A step that puts no request up for review: its offers are those there were.
OffersOld ==
  \A j \in Nodes, d \in ConnIds : Offered(j, d)' =>
    /\ Offered(j, d)
    /\ conns'[j][d].self_id = conns[j][d].self_id
    /\ conns'[j][d].peer = conns[j][d].peer

\* A step that makes no request: requests only leave commands for the network.
ReqsMove ==
  /\ \A n \in Nodes, m \in ConnParcel :
       lst'[n] = Sending(m) => lst[n] = Sending(m) \/ m.kind # "CONN_REQ"
  /\ \A n \in Nodes, k \in Slots, m \in ConnParcel :
       cmd'[n][k] = Sending(m) => cmd[n][k] = Sending(m) \/ m.kind # "CONN_REQ"
  /\ \A m \in net' : m.kind = "CONN_REQ" =>
       \/ m \in net
       \/ m \in Outgoing /\ \A n \in Nodes, k \in Slots : cmd'[n][k] # Sending(m)

LEMMA OneOfferKept ==
  ASSUME OneOfferPerRequest, OffersOld
  PROVE  OneOfferPerRequest'
BY DEF OneOfferPerRequest, OffersOld

LEMMA ReqsMoved ==
  ASSUME ReqsMove, NEW m \in Outgoing', m.kind = "CONN_REQ"
  PROVE  m \in Outgoing
BY DEF ReqsMove, Outgoing

LEMMA ReqsInOnePlaceKept ==
  ASSUME OnceInv, ReqsMove
  PROVE  ReqsInOnePlace'
<1> SUFFICES ASSUME NEW n \in Nodes, NEW m \in Outgoing', m.kind = "CONN_REQ"
             PROVE  /\ lst'[n] # Sending(m)
                    /\ \A k \in Slots : cmd'[n][k] = Sending(m) =>
                         /\ m \notin net'
                         /\ \A j \in Nodes, l \in Slots :
                              cmd'[j][l] = Sending(m) => j = n /\ l = k
  BY DEF ReqsInOnePlace
<1>1. m \in Outgoing /\ m \in ConnParcel  BY ReqsMoved DEF Outgoing
<1>2. /\ lst[n] # Sending(m)
      /\ \A k \in Slots : cmd[n][k] = Sending(m) =>
           /\ m \notin net
           /\ \A j \in Nodes, l \in Slots : cmd[j][l] = Sending(m) => j = n /\ l = k
  BY <1>1 DEF OnceInv, ReqsInOnePlace
<1> QED  BY <1>1, <1>2 DEF ReqsMove

\* A step that makes neither a request nor an offer.
LEMMA OnceStep ==
  ASSUME OnceInv, IInv', OffersOld, ReqsMove
  PROVE  OnceInv'
<1>1. ReqsUnmade'
  <2> SUFFICES ASSUME NEW m \in Outgoing', m.kind = "CONN_REQ"
               PROVE  /\ m.new_id = Null
                      /\ \A d \in ConnIds : ~OfferOf(m.dst, d, m.id, m.src)'
    BY DEF ReqsUnmade
  <2>1. m \in Outgoing /\ m.dst \in Nodes  BY ReqsMoved DEF Outgoing, ConnParcel
  <2>2. /\ m.new_id = Null
        /\ \A d \in ConnIds : ~OfferOf(m.dst, d, m.id, m.src)
    BY <2>1 DEF OnceInv, ReqsUnmade
  <2> QED  BY <2>1, <2>2 DEF OffersOld, OfferOf
<1> QED  BY <1>1, ReqsInOnePlaceKept, OneOfferKept DEF OnceInv

-----------------------------------------------------------------------------
(* The steps that make neither. *)

LEMMA StillOffers ==
  ASSUME conns' = conns
  PROVE  OffersOld
BY DEF OffersOld, Offered, IsRow

LEMMA ListenerOnce ==
  ASSUME OnceInv, NEW n \in Nodes,
         StartListening(n) \/ StopListening(n) \/ ListenerSend(n) \/ DropParcel(n)
  PROVE  OffersOld /\ ReqsMove
<1>0. TypeOK  BY DEF OnceInv, IInv
<1>1. conns' = conns /\ cmd' = cmd
  BY DEF StartListening, StopListening, ListenerSend, DropParcel
<1>2. \A j \in Nodes : lst'[j] = lst[j] \/ lst'[j] \in {Off, Loop}
  BY <1>0 DEF TypeOK, StartListening, StopListening, ListenerSend, DropParcel
<1>3. \A m \in net' : m \in net \/ m.kind # "CONN_REQ"
  <2>1. CASE ListenerSend(n)
    <3>1. lst[n].parcel \in ConnParcel /\ lst[n] = Sending(lst[n].parcel)
      BY <1>0, <2>1, ListenerSending DEF ListenerSend
    <3>2. lst[n].parcel.kind # "CONN_REQ"
      BY <3>1 DEF OnceInv, ReqsInOnePlace, Outgoing
    <3> QED  BY <2>1, <3>2 DEF ListenerSend, SendParcel
  <2> QED  BY <2>1 DEF StartListening, StopListening, DropParcel
<1>4. \A m : Off # Sending(m) /\ Loop # Sending(m)  BY Positions
<1> QED  BY <1>1, <1>2, <1>3, <1>4, StillOffers DEF ReqsMove

LEMMA CommandEndsOnce ==
  ASSUME OnceInv, NEW n \in Nodes, NEW k \in Slots,
         CommandSend(n, k) \/ CommandExit(n, k) \/ DecideCollide(n, k)
  PROVE  OffersOld /\ ReqsMove
<1>0. TypeOK  BY DEF OnceInv, IInv
<1>1. conns' = conns /\ lst' = lst /\ cmd' = [cmd EXCEPT ![n][k] = Idle]
  BY DEF CommandSend, CommandExit, DecideCollide
<1>2. /\ cmd'[n][k] = Idle
      /\ \A j \in Nodes, l \in Slots : j # n \/ l # k => cmd'[j][l] = cmd[j][l]
  BY <1>0, <1>1, CmdWrite, States
<1>3. \A m : Idle # Sending(m)  BY Positions
<1>4. ASSUME NEW m \in net', m.kind = "CONN_REQ", m \notin net
      PROVE  m \in Outgoing /\ \A j \in Nodes, l \in Slots : cmd'[j][l] # Sending(m)
  <2>1. CommandSend(n, k)  BY <1>4 DEF CommandExit, DecideCollide
  <2>2. m = cmd[n][k].parcel  BY <1>4, <2>1 DEF CommandSend, SendParcel
  <2>3. m \in ConnParcel /\ cmd[n][k] = Sending(m)
    BY <1>0, <2>1, <2>2, CommandSending DEF CommandSend
  <2>4. m \in Outgoing  BY <2>3 DEF Outgoing
  <2>5. \A j \in Nodes, l \in Slots : cmd[j][l] = Sending(m) => j = n /\ l = k
    BY <1>4, <2>3, <2>4 DEF OnceInv, ReqsInOnePlace
  <2> QED  BY <1>2, <1>3, <2>4, <2>5
<1> QED  BY <1>1, <1>2, <1>3, <1>4, StillOffers DEF ReqsMove

LEMMA DecideSelectOnce ==
  ASSUME OnceInv, NEW n \in Nodes, NEW k \in Slots, NEW c \in ConnIds,
         NEW acc \in BOOLEAN, DecideSelect(n, k, c, acc)
  PROVE  OffersOld /\ ReqsMove
<1> DEFINE v == Deciding(c, conns[n][c].self_id, conns[n][c].peer, acc)
<1>1. conns' = conns /\ lst' = lst /\ net' = net /\ cmd' = [cmd EXCEPT ![n][k] = v]
  BY DEF DecideSelect
<1>2. \A m : v # Sending(m)  BY Positions
<1> HIDE DEF v
<1>3. \A j \in Nodes, l \in Slots : cmd'[j][l] = cmd[j][l] \/ cmd'[j][l] = v
  BY <1>1 DEF OnceInv, IInv, TypeOK
<1> QED  BY <1>1, <1>2, <1>3, StillOffers DEF ReqsMove

\* A decision leaves the ids of the row, and sends no request.
LEMMA DecideOnce ==
  ASSUME OnceInv, NEW n \in Nodes, NEW k \in Slots,
         DecideReject(n, k) \/ DecideAccept(n, k)
  PROVE  OffersOld /\ ReqsMove
<1>0. IInv /\ TypeOK  BY DEF OnceInv, IInv
<1>1. PICK c \in ConnIds, i \in Ids, p \in Nodes :
        /\ cmd[n][k].pc = "decide"
        /\ cmd[n][k].conn = c /\ cmd[n][k].id = i /\ cmd[n][k].peer = p
  BY <1>0, CommandDeciding DEF DecideReject, DecideAccept
<1>2. IsRow(n, c) /\ conns[n][c] \in Row
  BY <1>0, <1>1 DEF IInv, DecidingOffers, OfferOf, Offered, IsRow, TypeOK
<1>3. PICK q \in ConnParcel :
        q.kind # "CONN_REQ" /\ cmd' = [cmd EXCEPT ![n][k] = Sending(q)]
  <2>1. CASE DecideReject(n, k)
    <3>1. /\ Parcel("CONN_REJ", n, p, i, Null) \in ConnParcel
          /\ Parcel("CONN_REJ", n, p, i, Null).kind = "CONN_REJ"
      BY ParcelType DEF ConnKinds
    <3>2. cmd' = [cmd EXCEPT ![n][k] = Sending(Parcel("CONN_REJ", n, p, i, Null))]
      BY <1>1, <2>1 DEF DecideReject
    <3> QED  BY <3>1, <3>2
  <2>2. CASE DecideAccept(n, k)
    <3>1. PICK new \in Ids :
            cmd' = [cmd EXCEPT ![n][k] = Sending(Parcel("CONN_ACC", n, p, i, new))]
      BY <1>1, <2>2 DEF DecideAccept
    <3>2. /\ Parcel("CONN_ACC", n, p, i, new) \in ConnParcel
          /\ Parcel("CONN_ACC", n, p, i, new).kind = "CONN_ACC"
      BY ParcelType DEF ConnKinds
    <3> QED  BY <3>1, <3>2
  <2> QED  BY <2>1, <2>2
<1>4. net' = net /\ lst' = lst  BY DEF DecideReject, DecideAccept
<1>5. ReqsMove
  <2>1. \A j \in Nodes, l \in Slots : cmd'[j][l] = cmd[j][l] \/ cmd'[j][l] = Sending(q)
    BY <1>0, <1>3 DEF TypeOK
  <2> QED  BY <1>3, <1>4, <2>1, Positions DEF ReqsMove
<1>6. PICK r \in Row :
        /\ conns' = [conns EXCEPT ![n][c] = r]
        /\ r.by = conns[n][c].by /\ r.peer = conns[n][c].peer
        /\ r.self_id = conns[n][c].self_id
  <2>1. CASE DecideReject(n, k)
    <3>1. PICK r \in Row : r = [conns[n][c] EXCEPT !.status = "rejected"]
      BY <1>2 DEF Row, ConnStatus
    <3>2. conns' = [conns EXCEPT ![n][c] = r]
      BY <1>0, <1>1, <2>1, <3>1 DEF DecideReject, TypeOK
    <3>3. /\ r.by = conns[n][c].by /\ r.peer = conns[n][c].peer
          /\ r.self_id = conns[n][c].self_id
      BY <1>2, <3>1 DEF Row
    <3> QED  BY <3>2, <3>3
  <2>2. CASE DecideAccept(n, k)
    <3>0. PICK new \in Ids :
            conns' = [conns EXCEPT ![n][c].peer_id = new, ![n][c].status = "accepted"]
      BY <1>1, <2>2 DEF DecideAccept
    <3>1. PICK r \in Row :
            r = [conns[n][c] EXCEPT !.peer_id = new, !.status = "accepted"]
      BY <1>2 DEF Row, ConnStatus
    <3>2. conns' = [conns EXCEPT ![n][c] = r]
      BY <1>0, <1>2, <3>0, <3>1 DEF TypeOK, Row
    <3>3. /\ r.by = conns[n][c].by /\ r.peer = conns[n][c].peer
          /\ r.self_id = conns[n][c].self_id
      BY <1>2, <3>1 DEF Row
    <3> QED  BY <3>2, <3>3
  <2> QED  BY <2>1, <2>2
<1>7. /\ conns'[n][c] = r
      /\ \A j \in Nodes, d \in ConnIds : j # n \/ d # c => conns'[j][d] = conns[j][d]
  <2>1. conns' = [conns EXCEPT ![n][c] = r]  BY <1>6
  <2> QED  BY ONLY <1>0, <2>1, r \in Row, RowWrite
<1> QED  BY <1>2, <1>5, <1>6, <1>7 DEF OffersOld, Offered, IsRow

\* A reply writes rows its receiver asked for.
LEMMA ReplyOnce ==
  ASSUME OnceInv, NEW n \in Nodes, NEW m \in net,
         HandleAck(n, m) \/ HandleRej(n, m) \/ HandleAcc(n, m)
  PROVE  OffersOld /\ ReqsMove
<1>0. IInv  BY DEF OnceInv
<1>1. /\ m \in Outgoing /\ m.dst = n /\ m.kind # "CONN_REQ"
      /\ net' \subseteq net /\ cmd' = cmd /\ lst' = lst
      /\ ReplyEffect(n, m)
  BY <1>0, ReplyFacts
<1>2. \A d \in ConnIds : HasPeerId(n, d, m.id) => Asked(n, d)
  BY <1>0, <1>1, ReplyRow
<1>3. ASSUME NEW d \in ConnIds, HasPeerId(n, d, m.id)
      PROVE  conns'[n][d].by = conns[n][d].by
  <2>1. /\ conns[n][d] \in Row
        /\ \/ conns'[n][d] = [conns[n][d] EXCEPT !.status = "peer_review"]
           \/ conns'[n][d] = [conns[n][d] EXCEPT !.status = "rejected"]
           \/ conns'[n][d] = [conns[n][d] EXCEPT
                !.self_id = m.new_id, !.named = TRUE, !.status = "accepted"]
    BY <1>1, <1>3 DEF ReplyEffect
  <2>2. \A r \in Row :
          /\ [r EXCEPT !.status = "peer_review"].by = r.by
          /\ [r EXCEPT !.status = "rejected"].by = r.by
          /\ [r EXCEPT !.self_id = m.new_id, !.named = TRUE,
                       !.status = "accepted"].by = r.by
    BY DEF Row
  <2> QED  BY <2>1, <2>2
<1>4. OffersOld
  <2> SUFFICES ASSUME NEW j \in Nodes, NEW d \in ConnIds, Offered(j, d)'
               PROVE  Offered(j, d) /\ conns'[j][d] = conns[j][d]
    BY DEF OffersOld
  <2>1. CASE j = n /\ HasPeerId(n, d, m.id)
    BY <1>2, <1>3, <2>1 DEF Asked, Offered
  <2>2. CASE j # n \/ ~HasPeerId(n, d, m.id)
    BY <1>1, <2>2 DEF ReplyEffect, Offered, IsRow
  <2> QED  BY <2>1, <2>2
<1> QED  BY <1>1, <1>4 DEF ReqsMove

-----------------------------------------------------------------------------
(* The step that makes a request, and the one that makes an offer. *)

\* The id of a request is one no row of its node has, so no parcel and no offer
\* is about a request of that id.
LEMMA RequestOnce ==
  ASSUME OnceInv, NEW n \in Nodes, NEW k \in Slots, NEW p \in Nodes,
         Request(n, k, p)
  PROVE  OnceInv'
<1>0. IInv /\ TypeOK  BY DEF OnceInv, IInv
<1> DEFINE R(id) == [by |-> "request", peer_id |-> id, self_id |-> Null,
                     peer |-> p, named |-> FALSE, status |-> "pending"]
<1>1. PICK c \in ConnIds, id \in Ids :
        /\ FreshRow(n, c) /\ PeerIdFree(n, c, id)
        /\ conns' = [conns EXCEPT ![n][c] = R(id)]
        /\ cmd' = [cmd EXCEPT ![n][k] = Sending(Parcel("CONN_REQ", n, p, id, Null))]
  BY DEF Request
<1>2. R(id) \in Row /\ R(id).by = "request"  BY DEF Row, ConnStatus
<1> HIDE DEF R
<1>3. PICK r \in Row : r = R(id) /\ r.by = "request"  BY <1>2
<1>4. PICK q \in ConnParcel : q = Parcel("CONN_REQ", n, p, id, Null)
  BY ParcelType DEF ConnKinds
<1>5. /\ q.kind = "CONN_REQ" /\ q.src = n /\ q.dst = p /\ q.id = id
      /\ q.new_id = Null
  BY <1>4, ParcelType DEF ConnKinds
<1>6. net' = net /\ lst' = lst  BY DEF Request
<1>7. /\ conns'[n][c] = r
      /\ \A j \in Nodes, d \in ConnIds : j # n \/ d # c => conns'[j][d] = conns[j][d]
  <2>1. conns' = [conns EXCEPT ![n][c] = r]  BY <1>1, <1>3
  <2> QED  BY ONLY <1>0, <2>1, r \in Row, RowWrite
<1>8. OffersOld
  BY <1>3, <1>7 DEF OffersOld, Offered, IsRow
<1>9. ~Requested(n, id, p)
  BY <1>1 DEF FreshRow, PeerIdFree, HasPeerId, Requested, Asked
<1>10. q \notin Outgoing
  BY <1>0, <1>5, <1>9 DEF IInv, ParcelsHaveRows
<1>11. \A d \in ConnIds : ~OfferOf(p, d, id, n)
  BY <1>0, <1>9 DEF IInv, OffersHaveRequests, OfferOf
<1>12. /\ \A m \in Outgoing' : m \in Outgoing \/ m = q
       /\ cmd'[n][k] = Sending(q)
       /\ \A j \in Nodes, l \in Slots : j # n \/ l # k => cmd'[j][l] = cmd[j][l]
  <2>1. cmd' = [cmd EXCEPT ![n][k] = Sending(q)]  BY <1>1, <1>4
  <2> QED  BY <1>0, <1>6, <2>1, CmdSends DEF TypeOK
<1>13. ReqsInOnePlace'
  <2> SUFFICES ASSUME NEW j \in Nodes, NEW m \in Outgoing', m.kind = "CONN_REQ"
               PROVE  /\ lst'[j] # Sending(m)
                      /\ \A l \in Slots : cmd'[j][l] = Sending(m) =>
                           /\ m \notin net'
                           /\ \A i \in Nodes, h \in Slots :
                                cmd'[i][h] = Sending(m) => i = j /\ h = l
    BY DEF ReqsInOnePlace
  <2>1. CASE m = q
    <3>1. \A i \in Nodes, h \in Slots : cmd'[i][h] = Sending(q) => i = n /\ h = k
      BY <1>10, <1>12 DEF Outgoing
    <3>2. lst[j] # Sending(q) /\ q \notin net  BY <1>10 DEF Outgoing
    <3> QED  BY <1>6, <2>1, <3>1, <3>2
  <2>2. CASE m # q
    <3>1. m \in Outgoing  BY <1>12, <2>2
    <3>2. \A i \in Nodes, h \in Slots :
            cmd'[i][h] = Sending(m) => cmd[i][h] = Sending(m)
      BY <1>12, <2>2, Positions
    <3>3. /\ lst[j] # Sending(m)
          /\ \A l \in Slots : cmd[j][l] = Sending(m) =>
               /\ m \notin net
               /\ \A i \in Nodes, h \in Slots :
                    cmd[i][h] = Sending(m) => i = j /\ h = l
      BY <3>1 DEF OnceInv, ReqsInOnePlace
    <3> QED  BY <1>6, <3>2, <3>3
  <2> QED  BY <2>1, <2>2
<1>14. ReqsUnmade'
  <2> SUFFICES ASSUME NEW m \in Outgoing', m.kind = "CONN_REQ"
               PROVE  /\ m.new_id = Null
                      /\ \A d \in ConnIds : ~OfferOf(m.dst, d, m.id, m.src)'
    BY DEF ReqsUnmade
  <2>1. m.dst \in Nodes  BY DEF Outgoing, ConnParcel
  <2>2. /\ m.new_id = Null
        /\ \A d \in ConnIds : ~OfferOf(m.dst, d, m.id, m.src)
    BY <1>5, <1>11, <1>12 DEF OnceInv, ReqsUnmade
  <2> QED  BY <1>8, <2>1, <2>2 DEF OffersOld, OfferOf
<1>15. OneOfferPerRequest'  BY <1>8, OneOfferKept DEF OnceInv
<1>16. IInv'  BY <1>0, RequestStep
<1> QED  BY <1>13, <1>14, <1>15, <1>16 DEF OnceInv

\* The request of the new offer had none, and is nowhere on its way any more.
LEMMA HandleReqOnce ==
  ASSUME OnceInv, NEW n \in Nodes, NEW m \in net, HandleReq(n, m)
  PROVE  OnceInv'
<1>0. IInv /\ TypeOK /\ m \in Outgoing /\ m \in ConnParcel
  BY NetOutgoing DEF OnceInv, IInv
<1>1. /\ m.dst = n /\ m.kind = "CONN_REQ" /\ net' = net \ {m} /\ cmd' = cmd
      /\ m.src \in Nodes /\ m.id \in Ids
  BY <1>0 DEF HandleReq, Receive, ConnParcel
<1> DEFINE R == [by |-> "listener", peer_id |-> Null, self_id |-> m.id,
                 peer |-> m.src, named |-> TRUE, status |-> "self_review"]
<1>2. PICK c \in ConnIds : FreshRow(n, c) /\ conns' = [conns EXCEPT ![n][c] = R]
  BY DEF HandleReq
<1>3. R \in Row /\ R.self_id = m.id /\ R.peer = m.src
  BY <1>1 DEF Row, ConnStatus
<1> HIDE DEF R
<1>4. PICK q \in ConnParcel : q = Parcel("CONN_ACK", n, m.src, m.id, Null)
                              /\ q.kind = "CONN_ACK"
  BY <1>1, ParcelType DEF ConnKinds
<1>5. lst'[n] = Sending(q) /\ \A j \in Nodes : j # n => lst'[j] = lst[j]
  <2>1. lst' = [lst EXCEPT ![n] = Sending(q)]  BY <1>4 DEF HandleReq
  <2> QED  BY <1>0, <2>1 DEF TypeOK
<1>6. /\ conns'[n][c] = R
      /\ \A j \in Nodes, d \in ConnIds : j # n \/ d # c => conns'[j][d] = conns[j][d]
  <2>1. conns' = [conns EXCEPT ![n][c] = R]  BY <1>2
  <2> QED  BY ONLY <1>0, <1>3, <2>1, RowWrite
<1>7. ReqsMove
  BY <1>1, <1>4, <1>5, Positions DEF ReqsMove
\* What was on its way and still is, is not m.
<1>8. \A x \in Outgoing' : x.kind = "CONN_REQ" => x \in Outgoing /\ x # m
  <2> SUFFICES ASSUME NEW x \in Outgoing', x.kind = "CONN_REQ"
               PROVE  x \in Outgoing /\ x # m
    OBVIOUS
  <2>1. x \in Outgoing /\ x \in ConnParcel  BY <1>7, ReqsMoved DEF Outgoing
  <2>2. \A j \in Nodes : lst'[j] # Sending(x)
    <3>1. \A j \in Nodes : lst[j] # Sending(x)
      BY <2>1 DEF OnceInv, ReqsInOnePlace
    <3> QED  BY <1>4, <1>5, <3>1, Positions
  <2>3. \A j \in Nodes, l \in Slots : cmd'[j][l] # Sending(m)
    BY <1>0, <1>1 DEF OnceInv, ReqsInOnePlace
  <2> QED  BY <1>1, <2>1, <2>2, <2>3 DEF Outgoing
<1>9. ReqsUnmade'
  <2> SUFFICES ASSUME NEW x \in Outgoing', x.kind = "CONN_REQ"
               PROVE  /\ x.new_id = Null
                      /\ \A d \in ConnIds : ~OfferOf(x.dst, d, x.id, x.src)'
    BY DEF ReqsUnmade
  <2>1. /\ x \in Outgoing /\ x # m /\ x \in ConnParcel /\ x.dst \in Nodes
    BY <1>8 DEF Outgoing, ConnParcel
  <2>2. /\ x.new_id = Null /\ m.new_id = Null
        /\ \A d \in ConnIds : ~OfferOf(x.dst, d, x.id, x.src)
    BY <1>0, <1>1, <2>1 DEF OnceInv, ReqsUnmade
  <2>3. ~(x.dst = n /\ x.id = m.id /\ x.src = m.src)
    BY <1>0, <1>1, <2>1, <2>2 DEF ConnParcel
  <2>4. ASSUME NEW d \in ConnIds, OfferOf(x.dst, d, x.id, x.src)' PROVE FALSE
    <3>1. CASE x.dst = n /\ d = c
      BY <1>3, <1>6, <2>3, <2>4, <3>1 DEF OfferOf
    <3>2. CASE x.dst # n \/ d # c
      BY <1>6, <2>1, <2>2, <2>4, <3>2 DEF OfferOf, Offered, IsRow
    <3> QED  BY <3>1, <3>2
  <2> QED  BY <2>2, <2>4
<1>10. OneOfferPerRequest'
  <2>1. \A d \in ConnIds : ~OfferOf(n, d, m.id, m.src)
    BY <1>0, <1>1 DEF OnceInv, ReqsUnmade
  <2> SUFFICES ASSUME NEW p \in Nodes, NEW d \in ConnIds, NEW e \in ConnIds,
                      Offered(p, d)', Offered(p, e)',
                      conns'[p][d].self_id = conns'[p][e].self_id,
                      conns'[p][d].peer = conns'[p][e].peer
               PROVE  d = e
    BY DEF OneOfferPerRequest
  <2>2. ASSUME NEW f \in ConnIds, NEW g \in ConnIds, p = n, f = c, g # c,
               Offered(p, g)', conns'[p][f].self_id = conns'[p][g].self_id,
               conns'[p][f].peer = conns'[p][g].peer
        PROVE  FALSE
    <3>1. conns'[n][g] = conns[n][g]  BY <1>6, <2>2
    <3>2. OfferOf(n, g, m.id, m.src)
      BY <1>3, <1>6, <2>2, <3>1 DEF OfferOf, Offered, IsRow
    <3> QED  BY <2>1, <3>2
  <2>3. CASE p = n /\ (d = c \/ e = c)  BY <2>2, <2>3
  <2>4. CASE p # n \/ (d # c /\ e # c)
    BY <1>6, <2>4 DEF OnceInv, OneOfferPerRequest, Offered, IsRow
  <2> QED  BY <2>3, <2>4
<1>11. ReqsInOnePlace'  BY <1>7, ReqsInOnePlaceKept
<1>12. IInv'  BY <1>0, HandleReqStep
<1> QED  BY <1>9, <1>10, <1>11, <1>12 DEF OnceInv

-----------------------------------------------------------------------------
(* The theorems. *)

LEMMA OnceInit == Init => OnceInv
<1> SUFFICES ASSUME Init PROVE OnceInv  OBVIOUS
<1>1. \A n \in Nodes, c \in ConnIds : ~IsRow(n, c)  BY DEF Init, NodeInit, IsRow
<1>2. Outgoing = {}
  <2>1. net = {} /\ \A n \in Nodes, k \in Slots : cmd[n][k] = Idle
    BY DEF Init, NodeInit
  <2>2. \A n \in Nodes : lst[n] = Off \/ lst[n] = Loop  BY DEF Init, NodeInit
  <2> QED  BY <2>1, <2>2, Positions DEF Outgoing
<1> QED
  BY <1>1, <1>2, IInvInit
  DEF OnceInv, ReqsInOnePlace, ReqsUnmade, OneOfferPerRequest, Offered

LEMMA OnceStutter ==
  ASSUME OnceInv, UNCHANGED vars
  PROVE  OnceInv'
<1>1. IInv'  BY IInvStutter DEF OnceInv
<1>2. OffersOld /\ ReqsMove  BY StillOffers DEF ReqsMove, vars, nodeVars
<1> QED  BY <1>1, <1>2, OnceStep

LEMMA OnceNext ==
  ASSUME OnceInv, Next
  PROVE  OnceInv'
<1>0. IInv'  BY IInvNext DEF OnceInv
<1>1. PICK n \in Nodes : Listener(n) \/ \E k \in Slots : Command(n, k)
  BY DEF Next
<1>2. CASE Listener(n)
  <2>1. CASE Handle(n)
    BY <1>0, <2>1, HandleReqOnce, ReplyOnce, OnceStep DEF Handle
  <2> QED  BY <1>0, <1>2, <2>1, ListenerOnce, OnceStep DEF Listener
<1>3. ASSUME NEW k \in Slots, Command(n, k) PROVE OnceInv'
  BY <1>0, <1>3, RequestOnce, DecideSelectOnce, DecideOnce, CommandEndsOnce, OnceStep
  DEF Command
<1> QED  BY <1>1, <1>2, <1>3

\* However many commands run and whatever is lost, a CONN_REQ is in one place and has no
\* row at its receiver while it is on its way.
THEOREM OnceInductive == Spec => []OnceInv
<1>1. OnceInv /\ [Next]_vars => OnceInv'  BY OnceNext, OnceStutter
<1> QED  BY <1>1, OnceInit, PTL DEF Spec

\* A request is put to the peer's user at most once: no id is used again (71-83), and no
\* parcel is sent or read twice (420-428, 721-740).
THEOREM OfferedOnce == Spec => []OneOfferPerRequest
<1>1. OnceInv => OneOfferPerRequest  BY DEF OnceInv
<1> QED  BY <1>1, OnceInductive, PTL

=============================================================================
