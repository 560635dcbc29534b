---------------------------- MODULE Ap2pMsgProofs ----------------------------
(***************************************************************************)
(* What holds of messages on settled tables, when a node runs one command  *)
(* at a time and no commit fails unseen, for every value of the other      *)
(* constants; last, that Ap2pMsg then implements MsgDelivery.              *)
(***************************************************************************)
EXTENDS Ap2pMsgAbs, Ap2pMsgInv, TLAPS

OneCommand == \A j, k \in Slots : j = k

TablesSettled == \A t \in Tables : Settled(t)

-----------------------------------------------------------------------------
(* Where a process can be. *)

LEMMA Positions ==
  /\ Off.pc = "off" /\ Loop.pc = "loop" /\ Idle.pc = "idle"
  /\ \A m : Sending(m).pc = "send" /\ Sending(m).parcel = m
  /\ \A k, b : /\ LookingUp(k, b).pc = "lookup"
               /\ LookingUp(k, b).num = k /\ LookingUp(k, b).body = b
  /\ \A m, s, p : /\ Storing(m, s, p).pc = "store" /\ Storing(m, s, p).parcel = m
                  /\ Storing(m, s, p).self_id = s /\ Storing(m, s, p).peer = p
BY DEF Off, Loop, Idle, Sending, LookingUp, Storing

LEMMA CommandAt ==
  ASSUME TypeOK, NEW n \in Nodes, NEW k \in Slots
  PROVE  /\ cmd[n][k].pc = "send" => \E m \in MsgParcel : cmd[n][k] = Sending(m)
         /\ cmd[n][k].pc = "lookup" =>
              \E i \in Nums, b \in Bodies : cmd[n][k] = LookingUp(i, b)
<1>1. cmd[n][k] \in CommandState  BY DEF TypeOK
<1>2. CASE cmd[n][k] = Idle  BY <1>2, Positions
<1>3. CASE \E m \in MsgParcel : cmd[n][k] = Sending(m)  BY <1>3, Positions
<1>4. CASE \E i \in Nums, b \in Bodies : cmd[n][k] = LookingUp(i, b)  BY <1>4, Positions
<1> QED  BY <1>1, <1>2, <1>3, <1>4 DEF CommandState

LEMMA ListenerAt ==
  ASSUME TypeOK, NEW n \in Nodes
  PROVE  /\ lst[n].pc = "send" => \E m \in MsgParcel : lst[n] = Sending(m)
         /\ lst[n].pc = "store" =>
              \E m \in MsgSends, i \in Ids, p \in Nodes : lst[n] = Storing(m, i, p)
<1>1. lst[n] \in ListenerState  BY DEF TypeOK
<1>2. CASE lst[n] \in {Off, Loop}  BY <1>2, Positions
<1>3. CASE \E m \in MsgParcel : lst[n] = Sending(m)  BY <1>3, Positions
<1>4. CASE \E m \in MsgSends, i \in Ids, p \in Nodes : lst[n] = Storing(m, i, p)
  BY <1>4, Positions
<1> QED  BY <1>1, <1>2, <1>3, <1>4 DEF ListenerState

\* Parcels made of well-typed fields.
LEMMA ParcelTypes ==
  ASSUME NEW p \in Nodes, NEW i \in Ids, NEW k \in Nums, NEW b \in Bodies
  PROVE  /\ MsgSend(p, i, k, b) \in MsgParcel
         /\ MsgSend(p, i, k, b).kind = "MSG_SEND" /\ MsgSend(p, i, k, b).dst = p
         /\ MsgSend(p, i, k, b).id = i /\ MsgSend(p, i, k, b).num = k
         /\ MsgSend(p, i, k, b).body = b
         /\ MsgRcv(p, i, k) \in MsgParcel
         /\ MsgRcv(p, i, k).kind = "MSG_RCV" /\ MsgRcv(p, i, k).dst = p
         /\ MsgRcv(p, i, k).id = i /\ MsgRcv(p, i, k).num = k
BY DEF MsgSend, MsgRcv, MsgParcel, MsgSends, MsgRcvs

LEMMA ParcelFields ==
  ASSUME NEW m \in MsgParcel
  PROVE  /\ m.kind \in {"MSG_SEND", "MSG_RCV"}
         /\ m.dst \in Nodes /\ m.id \in Ids /\ m.num \in Nums
         /\ m.kind = "MSG_SEND" <=> m \in MsgSends
         /\ m \in MsgSends => m.body \in Bodies
<1>1. ASSUME m \in MsgSends
      PROVE  m.kind = "MSG_SEND" /\ m.dst \in Nodes /\ m.id \in Ids /\ m.num \in Nums
             /\ m.body \in Bodies
  BY <1>1 DEF MsgSends
<1>2. ASSUME m \in MsgRcvs
      PROVE  m.kind = "MSG_RCV" /\ m.dst \in Nodes /\ m.id \in Ids /\ m.num \in Nums
  BY <1>2 DEF MsgRcvs
<1> QED  BY <1>1, <1>2 DEF MsgParcel

-----------------------------------------------------------------------------
(* What a write to one process, or one table, leaves alone. *)

LEMMA CmdWrite ==
  ASSUME TypeOK, NEW n \in Nodes, NEW k \in Slots, NEW v \in CommandState,
         cmd' = [cmd EXCEPT ![n][k] = v]
  PROVE  /\ cmd' \in [Nodes -> [Slots -> CommandState]]
         /\ cmd'[n][k] = v
         /\ \A j \in Nodes, l \in Slots : j # n \/ l # k => cmd'[j][l] = cmd[j][l]
BY DEF TypeOK

LEMMA LstWrite ==
  ASSUME TypeOK, NEW n \in Nodes, NEW v \in ListenerState, lst' = [lst EXCEPT ![n] = v]
  PROVE  /\ lst' \in [Nodes -> ListenerState]
         /\ lst'[n] = v
         /\ \A j \in Nodes : j # n => lst'[j] = lst[j]
BY DEF TypeOK

LEMMA TablesTyped ==
  ASSUME TypeOK, NEW n \in Nodes, NEW c \in ConnIds, IsRow(n, c)
  PROVE  conns[n][c] \in Row
BY MsgAssumption DEF TypeOK, IsRow

\* WHERE peer_id = id finds one row at most.
LEMMA ConnOfRow ==
  ASSUME TypeOK, NEW n \in Nodes, NEW id \in Ids
  PROVE  /\ ConnOf(n, id) \in ConnIds \cup {Null}
         /\ \A c \in ConnIds : HasPeerId(n, c, id) => ConnOf(n, id) = c
         /\ ConnOf(n, id) # Null => HasPeerId(n, ConnOf(n, id), id)
<1>1. CASE \E c \in ConnIds : HasPeerId(n, c, id)
  <2>1. PICK c \in ConnIds : c = ConnOf(n, id) /\ HasPeerId(n, c, id)
    BY <1>1 DEF ConnOf
  <2>2. ASSUME NEW d \in ConnIds, HasPeerId(n, d, id)
        PROVE  d = c
    BY <2>1, <2>2, MsgAssumption, NodeAssumption DEF HasPeerId, IsRow, TypeOK
  <2> QED  BY <2>1, <2>2
<1>2. CASE ~\E c \in ConnIds : HasPeerId(n, c, id)
  BY <1>2 DEF ConnOf
<1> QED  BY <1>1, <1>2

-----------------------------------------------------------------------------
(* Tables only grow. *)

\* Two states of one row: all but time_recieved is the same.
Same(r, q) == r.conn = q.conn /\ r.num = q.num /\ r.body = q.body /\ r.out = q.out

\* No row is lost, nor its time_recieved.
Grows ==
  /\ conns' = conns
  /\ \A n \in Nodes : \A r \in msgs[n] :
       \E q \in msgs'[n] : Same(r, q) /\ (r.received => q.received)

LEMMA HasKept ==
  ASSUME Grows, NEW n \in Nodes, NEW c, NEW num, NEW body, Has(n, c, num, body)
  PROVE  Has(n, c, num, body)'
<1>1. PICK r \in msgs[n] : r.out /\ r.conn = c /\ r.num = num /\ r.body = body
  BY DEF Has
<1>2. PICK q \in msgs'[n] : Same(r, q)  BY DEF Grows
<1> QED  BY <1>1, <1>2 DEF Same, Has

LEMMA WroteKept ==
  ASSUME Grows, NEW m, Wrote(m)
  PROVE  Wrote(m)'
<1>1. PICK n \in Nodes, c \in ConnIds :
        /\ IsRow(n, c) /\ conns[n][c].status = "accepted"
        /\ conns[n][c].peer = m.dst /\ conns[n][c].self_id = m.id
        /\ Has(n, c, m.num, m.body)
  BY DEF Wrote
<1>2. Has(n, c, m.num, m.body)'  BY <1>1, HasKept
<1> QED  BY <1>1, <1>2 DEF Wrote, Grows, IsRow

LEMMA HasStoredKept ==
  ASSUME Grows, NEW m, HasStored(m)
  PROVE  HasStored(m)'
<1>1. PICK p \in Nodes, d \in ConnIds :
        /\ IsRow(p, d) /\ conns[p][d].status = "accepted"
        /\ conns[p][d].peer = m.dst /\ conns[p][d].self_id = m.id
        /\ \E q \in msgs[p] : ~q.out /\ q.conn = d /\ q.num = m.num
  BY DEF HasStored
<1>2. PICK q \in msgs[p] : ~q.out /\ q.conn = d /\ q.num = m.num  BY <1>1
<1>3. PICK s \in msgs'[p] : Same(q, s)  BY DEF Grows
<1>4. ~s.out /\ s.conn = d /\ s.num = m.num  BY <1>2, <1>3 DEF Same
<1> QED  BY <1>1, <1>4 DEF HasStored, Grows, IsRow

LEMMA TrueKept ==
  ASSUME Grows, NEW m, True(m)
  PROVE  True(m)'
BY WroteKept, HasStoredKept DEF True

\* A user at the other end wrote q, which is stored at p.
CameFrom(p, q) ==
  \E n \in Nodes, c \in ConnIds :
    /\ q.conn \in ConnIds /\ Reaches(n, c, p, q.conn)
    /\ Has(n, c, q.num, q.body)

LEMMA CameFromKept ==
  ASSUME Grows, NEW p \in Nodes, NEW q, CameFrom(p, q), NEW s, Same(q, s)
  PROVE  CameFrom(p, s)'
<1>1. PICK n \in Nodes, c \in ConnIds :
        /\ q.conn \in ConnIds /\ Reaches(n, c, p, q.conn)
        /\ Has(n, c, q.num, q.body)
  BY DEF CameFrom
<1>2. Has(n, c, q.num, q.body)'  BY <1>1, HasKept
<1>3. Reaches(n, c, p, q.conn)'  BY <1>1 DEF Reaches, Grows, IsRow
<1> QED  BY <1>1, <1>2, <1>3 DEF CameFrom, Same

LEMMA StoredAtPeerKept ==
  ASSUME Grows, NEW n \in Nodes, NEW r, StoredAtPeer(n, r), NEW s, Same(r, s)
  PROVE  StoredAtPeer(n, s)'
<1>1. PICK p \in Nodes, d \in ConnIds :
        /\ r.conn \in ConnIds /\ Reaches(n, r.conn, p, d)
        /\ \E q \in msgs[p] : q.conn = d /\ q.num = r.num /\ q.body = r.body /\ ~q.out
  BY DEF StoredAtPeer
<1>2. PICK q \in msgs[p] : q.conn = d /\ q.num = r.num /\ q.body = r.body /\ ~q.out
  BY <1>1
<1>3. PICK t \in msgs'[p] : Same(q, t)  BY DEF Grows
<1>4. t.conn = d /\ t.num = s.num /\ t.body = s.body /\ ~t.out
  BY <1>2, <1>3 DEF Same
<1>5. s.conn \in ConnIds /\ Reaches(n, s.conn, p, d)'
  BY <1>1 DEF Same, Reaches, Grows, IsRow
<1> QED  BY <1>4, <1>5 DEF StoredAtPeer

-----------------------------------------------------------------------------
(* Types. *)

LEMMA NetKept ==
  ASSUME TypeOK, NEW m \in MsgParcel, SendParcel(m)
  PROVE  net' \subseteq MsgParcel /\ net' \subseteq net \cup {m}
BY DEF TypeOK, SendParcel

\* The row that a parcel of MSG_SEND finds has an id to be answered by.
LEMMA AcceptedTyped ==
  ASSUME TypeOK, Settled(conns), NEW n \in Nodes, NEW c \in ConnIds,
         IsRow(n, c), conns[n][c].status = "accepted"
  PROVE  conns[n][c].self_id \in Ids /\ conns[n][c].peer \in Nodes
<1>1. conns[n][c] \in Row  BY TablesTyped
<1>2. conns[n][c].self_id # Null  BY DEF Settled, IsRow
<1> QED  BY <1>1, <1>2 DEF Row

\* One step of a command.
LEMMA CommandType ==
  ASSUME TypeOK, Settled(conns), NEW n \in Nodes, NEW k \in Slots, Command(n, k)
  PROVE  TypeOK'
<1>1. Idle \in CommandState  BY DEF CommandState
<1>2. ASSUME NEW c \in ConnIds, SelectConn(n, k, c)
      PROVE  TypeOK'
  BY <1>2 DEF SelectConn, nodeVars, TypeOK
<1>3. ASSUME NEW b \in Bodies, SendInsert(n, k, b)
      PROVE  TypeOK'
  <2>1. PICK num \in Nums :
          LET row == [conn |-> sel[n], num |-> num, body |-> b,
                      received |-> FALSE, out |-> TRUE] IN
          /\ msgs' = msgs \/ msgs' = [msgs EXCEPT ![n] = @ \cup {row}]
          /\ cmd' = [cmd EXCEPT ![n][k] = LookingUp(num, b)]
    BY <1>3 DEF SendInsert
  <2>2. LookingUp(num, b) \in CommandState  BY DEF CommandState
  <2>3. cmd' \in [Nodes -> [Slots -> CommandState]]  BY <2>1, <2>2, CmdWrite
  <2>4. [conn |-> sel[n], num |-> num, body |-> b, received |-> FALSE, out |-> TRUE]
          \in MsgRow
    BY DEF TypeOK, MsgRow
  <2>5. msgs' \in [Nodes -> SUBSET MsgRow]  BY <2>1, <2>4 DEF TypeOK
  <2> QED  BY <1>3, <2>3, <2>5 DEF SendInsert, TypeOK
<1>4. CASE SendLookup(n, k)
  <2>1. PICK c \in ConnIds :
          /\ IsRow(n, c) /\ conns[n][c].status = "accepted"
          /\ cmd' = [cmd EXCEPT ![n][k] =
               Sending(MsgSend(conns[n][c].peer, conns[n][c].self_id,
                               cmd[n][k].num, cmd[n][k].body))]
    BY <1>4 DEF SendLookup
  <2>2. PICK i \in Nums, b \in Bodies : cmd[n][k] = LookingUp(i, b)
    BY <1>4, CommandAt DEF SendLookup
  <2>3. cmd[n][k].num = i /\ cmd[n][k].body = b  BY <2>2, Positions
  <2>4. conns[n][c].self_id \in Ids /\ conns[n][c].peer \in Nodes
    BY <2>1, AcceptedTyped
  <2>5. MsgSend(conns[n][c].peer, conns[n][c].self_id, cmd[n][k].num, cmd[n][k].body)
          \in MsgParcel
    BY <2>3, <2>4, ParcelTypes
  <2>6. PICK q \in MsgParcel :
          q = MsgSend(conns[n][c].peer, conns[n][c].self_id, cmd[n][k].num, cmd[n][k].body)
    BY <2>5
  <2>7. Sending(q) \in CommandState  BY DEF CommandState
  <2>8. cmd' = [cmd EXCEPT ![n][k] = Sending(q)]  BY <2>1, <2>6
  <2>9. cmd' \in [Nodes -> [Slots -> CommandState]]  BY <2>7, <2>8, CmdWrite
  <2> QED  BY <1>4, <2>9 DEF SendLookup, TypeOK, msgVars
<1>5. CASE SendRefused(n, k)
  <2>1. cmd' \in [Nodes -> [Slots -> CommandState]]
    BY <1>1, <1>5, CmdWrite DEF SendRefused
  <2> QED  BY <1>5, <2>1 DEF SendRefused, TypeOK, msgVars
<1>6. CASE CommandSend(n, k) /\ UNCHANGED msgVars
  <2>1. PICK m \in MsgParcel : cmd[n][k] = Sending(m)
    BY <1>6, CommandAt DEF CommandSend
  <2>2. net' \subseteq MsgParcel  BY <1>6, <2>1, Positions, NetKept DEF CommandSend
  <2>3. cmd' \in [Nodes -> [Slots -> CommandState]]
    BY <1>1, <1>6, CmdWrite DEF CommandSend
  <2> QED  BY <1>6, <2>2, <2>3 DEF CommandSend, TypeOK, msgVars
<1>7. CASE CommandExit(n, k) /\ UNCHANGED msgVars
  <2>1. cmd' \in [Nodes -> [Slots -> CommandState]]
    BY <1>1, <1>7, CmdWrite DEF CommandExit
  <2> QED  BY <1>7, <2>1 DEF CommandExit, TypeOK, msgVars
<1> QED  BY <1>2, <1>3, <1>4, <1>5, <1>6, <1>7 DEF Command

\* One step of a listener.
LEMMA ListenerType ==
  ASSUME TypeOK, Settled(conns), NEW n \in Nodes, Listener(n)
  PROVE  TypeOK'
<1>1. Off \in ListenerState /\ Loop \in ListenerState  BY DEF ListenerState
<1>2. CASE Stop(n)
  <2>1. lst' \in [Nodes -> ListenerState]
    BY <1>1, <1>2, LstWrite DEF Stop, StopListening
  <2>2. held' \in [Nodes -> BOOLEAN] /\ net' \subseteq MsgParcel
    BY <1>2 DEF Stop, StopListening, TypeOK
  <2> QED  BY <1>2, <2>1, <2>2 DEF Stop, StopListening, TypeOK
<1>3. CASE StartListening(n) /\ UNCHANGED msgVars
  <2>1. lst' \in [Nodes -> ListenerState]
    BY <1>1, <1>3, LstWrite DEF StartListening
  <2> QED  BY <1>3, <2>1 DEF StartListening, TypeOK, msgVars
<1>4. CASE ListenerSend(n) /\ UNCHANGED msgVars
  <2>1. PICK m \in MsgParcel : lst[n] = Sending(m)
    BY <1>4, ListenerAt DEF ListenerSend
  <2>2. net' \subseteq MsgParcel  BY <1>4, <2>1, Positions, NetKept DEF ListenerSend
  <2>3. lst' \in [Nodes -> ListenerState]
    BY <1>1, <1>4, LstWrite DEF ListenerSend
  <2> QED  BY <1>4, <2>2, <2>3 DEF ListenerSend, TypeOK, msgVars
<1>5. CASE DropParcel(n) /\ UNCHANGED msgVars
  BY <1>5 DEF DropParcel, TypeOK, msgVars
<1>6. ASSUME NEW m \in net, HandleSend(n, m)
      PROVE  TypeOK'
  <2>1. PICK c \in ConnIds :
          /\ HasPeerId(n, c, m.id) /\ conns[n][c].status = "accepted"
          /\ lst' = [lst EXCEPT ![n] = Storing(m, conns[n][c].self_id, conns[n][c].peer)]
    BY <1>6 DEF HandleSend
  <2>2. conns[n][c].self_id \in Ids /\ conns[n][c].peer \in Nodes
    BY <2>1, AcceptedTyped DEF HasPeerId
  <2>3. m \in MsgSends  BY <1>6, ParcelFields DEF HandleSend, Receive, TypeOK
  <2>4. lst' \in [Nodes -> ListenerState]
    <3>1. Storing(m, conns[n][c].self_id, conns[n][c].peer) \in ListenerState
      BY <2>2, <2>3 DEF ListenerState
    <3> QED  BY <2>1, <3>1, LstWrite
  <2>5. net' \subseteq MsgParcel  BY <1>6 DEF HandleSend, Receive, TypeOK
  <2> QED  BY <1>6, <2>4, <2>5 DEF HandleSend, TypeOK, msgVars
<1>7. ASSUME NEW m \in net, HandleSendRefused(n, m)
      PROVE  TypeOK'
  BY <1>7 DEF HandleSendRefused, Receive, TypeOK
<1>8. ASSUME NEW m \in net, HandleSendUnknown(n, m)
      PROVE  TypeOK'
  BY <1>8 DEF HandleSendUnknown, Receive, TypeOK, msgVars
<1>9. ASSUME NEW m \in net, HandleRcv(n, m)
      PROVE  TypeOK'
  <2> DEFINE f(r) == IF r.num = m.num /\ r.conn = ConnOf(n, m.id) /\ r.conn # Null
                     THEN [r EXCEPT !.received = TRUE] ELSE r
  <2>1. \A r \in MsgRow : f(r) \in MsgRow  BY DEF MsgRow
  <2>2. msgs' = [msgs EXCEPT ![n] = {f(r) : r \in msgs[n]}]  BY <1>9 DEF HandleRcv
  <2> HIDE DEF f
  <2>3. msgs' \in [Nodes -> SUBSET MsgRow]  BY <2>1, <2>2 DEF TypeOK
  <2>4. net' \subseteq MsgParcel  BY <1>9 DEF HandleRcv, Receive, TypeOK
  <2> QED  BY <1>9, <2>3, <2>4 DEF HandleRcv, TypeOK
<1>10. CASE Store(n)
  <2>1. PICK m \in MsgSends, i \in Ids, p \in Nodes : lst[n] = Storing(m, i, p)
    BY <1>10, ListenerAt DEF Store
  <2>2. /\ lst[n].parcel = m /\ lst[n].self_id = i /\ lst[n].peer = p
        /\ m.id \in Ids /\ m.num \in Nums /\ m.body \in Bodies
    BY <2>1, Positions DEF MsgSends
  <2>3. lst' \in [Nodes -> ListenerState]
    <3>1. PICK q \in MsgParcel : q = MsgRcv(p, i, m.num)  BY <2>2, ParcelTypes
    <3>2. lst' = [lst EXCEPT ![n] = Sending(q)]  BY <1>10, <2>2, <3>1 DEF Store
    <3>3. Sending(q) \in ListenerState  BY DEF ListenerState
    <3> QED  BY <3>2, <3>3, LstWrite
  <2>4. msgs' \in [Nodes -> SUBSET MsgRow]
    <3> DEFINE row == [conn |-> ConnOf(n, m.id), num |-> m.num, body |-> m.body,
                       received |-> TRUE, out |-> FALSE]
    <3>1. row \in MsgRow  BY <2>2, ConnOfRow DEF MsgRow
    <3>2. msgs' = msgs \/ msgs' = [msgs EXCEPT ![n] = @ \cup {row}]
      BY <1>10, <2>2 DEF Store
    <3> QED  BY <3>1, <3>2 DEF TypeOK
  <2> QED  BY <1>10, <2>3, <2>4 DEF Store, TypeOK
<1>11. CASE StoreFails(n)
  <2>1. lst' \in [Nodes -> ListenerState]  BY <1>1, <1>11, LstWrite DEF StoreFails
  <2> QED  BY <1>11, <2>1 DEF StoreFails, TypeOK, msgVars
<1> QED  BY <1>2, <1>3, <1>4, <1>5, <1>6, <1>7, <1>8, <1>9, <1>10, <1>11
         DEF Listener, Handle

-----------------------------------------------------------------------------
(* What a step has to show to keep MsgInv. *)

LEMMA StepInv ==
  ASSUME MsgInv, TypeOK', Grows,
         held' = [n \in Nodes |-> FALSE],
         \A m \in Outgoing' : m \in Outgoing \/ True(m)',
         \A n \in Nodes, k \in Slots : Drafted(n, k)',
         \A n \in Nodes : Bound(n)',
         NumsDiffer',
         \A n \in Nodes : \A q \in msgs'[n] :
           \/ \E r \in msgs[n] : Same(r, q) /\ r.received = q.received
           \/ /\ ~q.out => CameFrom(n, q)'
              /\ q.out /\ q.received => StoredAtPeer(n, q)'
  PROVE  MsgInv'
<1>1. ParcelsAreTrue'
  BY TrueKept DEF MsgInv, ParcelsAreTrue
<1>2. StoredWasSent'
  <2>1. \A p \in Nodes : \A q \in msgs[p] : ~q.out => CameFrom(p, q)
    BY DEF MsgInv, StoredWasSent, CameFrom, Has
  <2>2. \A p \in Nodes : \A q \in msgs'[p] : ~q.out => CameFrom(p, q)'
    <3> SUFFICES ASSUME NEW p \in Nodes, NEW q \in msgs'[p], ~q.out
                 PROVE  CameFrom(p, q)'
      OBVIOUS
    <3>1. CASE \E r \in msgs[p] : Same(r, q)
      <4>1. PICK r \in msgs[p] : Same(r, q)  BY <3>1
      <4>2. CameFrom(p, r)  BY <2>1, <4>1 DEF Same
      <4> QED  BY <4>1, <4>2, CameFromKept
    <3> QED  BY <3>1
  <2> QED  BY <2>2 DEF StoredWasSent, CameFrom, Has
<1>3. ReceivedIsTrue'
  <2> SUFFICES ASSUME NEW n \in Nodes, NEW q \in msgs'[n], q.out, q.received
               PROVE  StoredAtPeer(n, q)'
    BY DEF ReceivedIsTrue
  <2>1. CASE \E r \in msgs[n] : Same(r, q) /\ r.received = q.received
    <3>1. PICK r \in msgs[n] : Same(r, q) /\ r.received = q.received  BY <2>1
    <3>2. StoredAtPeer(n, r)  BY <3>1 DEF Same, MsgInv, ReceivedIsTrue
    <3> QED  BY <3>1, <3>2, StoredAtPeerKept
  <2> QED  BY <2>1
<1> QED  BY <1>1, <1>2, <1>3 DEF MsgInv

\* A step that writes no message.
LEMMA QuietInv ==
  ASSUME MsgInv, TypeOK', conns' = conns, msgs' = msgs,
         held' = [n \in Nodes |-> FALSE],
         \A m \in Outgoing' : m \in Outgoing \/ True(m)',
         \A n \in Nodes, k \in Slots : Drafted(n, k)',
         \A n \in Nodes : Bound(n)'
  PROVE  MsgInv'
<1>1. Grows  BY DEF Grows, Same
<1>2. NumsDiffer'  BY DEF MsgInv, NumsDiffer
<1>3. \A n \in Nodes : \A q \in msgs'[n] :
        \E r \in msgs[n] : Same(r, q) /\ r.received = q.received
  BY DEF Same
<1> QED  BY <1>1, <1>2, <1>3, StepInv

\* What commands and listeners that the step leaves alone know stays true.
LEMMA DraftsKept ==
  ASSUME MsgInv, Grows, NEW n \in Nodes, NEW k \in Slots,
         (cmd'[n][k] = cmd[n][k] /\ sel'[n] = sel[n]) \/ cmd'[n][k].pc # "lookup"
  PROVE  Drafted(n, k)'
<1>1. CASE cmd'[n][k].pc # "lookup"  BY <1>1 DEF Drafted
<1>2. CASE cmd'[n][k] = cmd[n][k] /\ sel'[n] = sel[n] /\ cmd[n][k].pc = "lookup"
  <2>1. Has(n, sel[n], cmd[n][k].num, cmd[n][k].body)
    BY <1>2 DEF MsgInv, Drafted
  <2>2. \A c, i, b : Has(n, c, i, b) => Has(n, c, i, b)'  BY HasKept
  <2> QED  BY <1>2, <2>1, <2>2 DEF Drafted
<1> QED  BY <1>1, <1>2

LEMMA BoundKept ==
  ASSUME MsgInv, Grows, NEW n \in Nodes, lst'[n] = lst[n] \/ lst'[n].pc # "store"
  PROVE  Bound(n)'
<1>1. CASE lst'[n].pc # "store"  BY <1>1 DEF Bound
<1>2. CASE lst'[n] = lst[n] /\ lst[n].pc = "store"
  <2>1. Bound(n)  BY DEF MsgInv
  <2>2. PICK m : m = lst[n].parcel  OBVIOUS
  <2>3. Wrote(m)'  BY <1>2, <2>1, <2>2, WroteKept DEF Bound
  <2> QED  BY <1>2, <2>1, <2>2, <2>3 DEF Bound, Grows, HasPeerId, IsRow
<1> QED  BY <1>1, <1>2

\* Parcels in flight after a step in which at most one process took up a new one.
LEMMA OutgoingCmd ==
  ASSUME TypeOK, net' \subseteq Outgoing, lst' = lst,
         NEW n \in Nodes, NEW k \in Slots, NEW v \in CommandState,
         cmd' = [cmd EXCEPT ![n][k] = v]
  PROVE  \A m \in Outgoing' : m \in Outgoing \/ v = Sending(m)
<1>1. \A j \in Nodes, l \in Slots : cmd'[j][l] = cmd[j][l] \/ cmd'[j][l] = v
  BY CmdWrite
<1> QED  BY <1>1 DEF Outgoing

LEMMA OutgoingLst ==
  ASSUME TypeOK, net' \subseteq Outgoing, cmd' = cmd,
         NEW n \in Nodes, NEW v \in ListenerState, lst' = [lst EXCEPT ![n] = v]
  PROVE  \A m \in Outgoing' : m \in Outgoing \/ v = Sending(m)
<1>1. \A j \in Nodes : lst'[j] = lst[j] \/ lst'[j] = v
  BY LstWrite
<1> QED  BY <1>1 DEF Outgoing

LEMMA NetOutgoing ==
  ASSUME TypeOK
  PROVE  /\ net \subseteq Outgoing
         /\ \A n \in Nodes, m \in MsgParcel : lst[n] = Sending(m) => m \in Outgoing
         /\ \A n \in Nodes, k \in Slots, m \in MsgParcel :
              cmd[n][k] = Sending(m) => m \in Outgoing
BY DEF Outgoing

-----------------------------------------------------------------------------
(* Commands. *)

\* A command that writes no message, and is not before its second statement afterwards.
LEMMA CommandQuiet ==
  ASSUME MsgInv, TypeOK', UNCHANGED <<conns, lst, msgVars>>, net' \subseteq Outgoing,
         NEW n \in Nodes, NEW k \in Slots, NEW v \in CommandState,
         cmd' = [cmd EXCEPT ![n][k] = v], v.pc # "lookup",
         \A m : v = Sending(m) => True(m)
  PROVE  MsgInv'
<1>1. TypeOK /\ Grows  BY DEF MsgInv, Grows, Same, msgVars
<1>2. \A m \in Outgoing' : m \in Outgoing \/ True(m)'
  <2>1. \A m \in Outgoing' : m \in Outgoing \/ v = Sending(m)
    BY <1>1, OutgoingCmd
  <2> QED  BY <1>1, <2>1, TrueKept
<1>3. \A j \in Nodes, l \in Slots : Drafted(j, l)'
  <2> SUFFICES ASSUME NEW j \in Nodes, NEW l \in Slots  PROVE  Drafted(j, l)'
    OBVIOUS
  <2>1. cmd'[j][l] = cmd[j][l] \/ cmd'[j][l] = v  BY <1>1, CmdWrite
  <2> QED  BY <1>1, <2>1, DraftsKept DEF msgVars
<1>4. \A j \in Nodes : Bound(j)'  BY <1>1, BoundKept
<1>5. held' = [j \in Nodes |-> FALSE]  BY DEF MsgInv, msgVars
<1> QED  BY <1>2, <1>3, <1>4, <1>5, QuietInv DEF msgVars

\* A user who runs one command at a time selects no other connection meanwhile.
LEMMA SelectConnInv ==
  ASSUME MsgInv, TypeOK', OneCommand, NEW n \in Nodes, NEW k \in Slots,
         NEW c \in ConnIds, SelectConn(n, k, c)
  PROVE  MsgInv'
<1>1. TypeOK /\ Grows  BY DEF MsgInv, SelectConn, nodeVars, Grows, Same
<1>2. Outgoing' = Outgoing  BY DEF SelectConn, nodeVars, Outgoing
<1>3. \A j \in Nodes, l \in Slots : Drafted(j, l)'
  <2> SUFFICES ASSUME NEW j \in Nodes, NEW l \in Slots  PROVE  Drafted(j, l)'
    OBVIOUS
  <2>1. CASE j = n
    <3>1. l = k  BY DEF OneCommand
    <3> QED  BY <1>1, <2>1, <3>1, Positions, DraftsKept DEF SelectConn, nodeVars
  <2>2. CASE j # n
    <3>1. sel'[j] = sel[j] /\ cmd'[j][l] = cmd[j][l]
      BY <1>1, <2>2 DEF SelectConn, nodeVars, TypeOK
    <3> QED  BY <1>1, <3>1, DraftsKept
  <2> QED  BY <2>1, <2>2
<1>4. \A j \in Nodes : Bound(j)'  BY <1>1, BoundKept DEF SelectConn, nodeVars
<1>5. held' = [j \in Nodes |-> FALSE]  BY DEF MsgInv, SelectConn
<1> QED  BY <1>2, <1>3, <1>4, <1>5, QuietInv DEF SelectConn, nodeVars

\* The row a command inserts has a number of its own.
LEMMA SendInsertInv ==
  ASSUME MsgInv, TypeOK', "commit" \notin Faults, NEW n \in Nodes, NEW k \in Slots,
         NEW b \in Bodies, SendInsert(n, k, b)
  PROVE  MsgInv'
<1> DEFINE row(num) == [conn |-> sel[n], num |-> num, body |-> b,
                        received |-> FALSE, out |-> TRUE]
<1>1. PICK num \in Nums :
        /\ NextNum(n, sel[n], num)
        /\ msgs' = [msgs EXCEPT ![n] = @ \cup {row(num)}]
        /\ cmd' = [cmd EXCEPT ![n][k] = LookingUp(num, b)]
  BY DEF SendInsert, CommitFails, MsgInv
<1>2. PICK new : new = row(num)  OBVIOUS
<1>3. new.conn = sel[n] /\ new.num = num /\ new.body = b /\ new.out /\ ~new.received
  BY <1>2
<1> HIDE DEF row
<1>4. /\ msgs'[n] = msgs[n] \cup {new}
      /\ \A j \in Nodes : j # n => msgs'[j] = msgs[j]
  BY <1>1, <1>2 DEF MsgInv, TypeOK
<1>5. TypeOK /\ Grows /\ LookingUp(num, b) \in CommandState
  BY <1>4 DEF MsgInv, SendInsert, Grows, Same, CommandState
<1>6. \A m \in Outgoing' : m \in Outgoing \/ True(m)'
  <2> PICK v \in CommandState : v = LookingUp(num, b)  BY <1>5
  <2>0. net' \subseteq Outgoing /\ lst' = lst /\ cmd' = [cmd EXCEPT ![n][k] = v]
    BY <1>1, <1>5, NetOutgoing DEF SendInsert
  <2>1. \A m \in Outgoing' : m \in Outgoing \/ v = Sending(m)
    BY <1>5, <2>0, OutgoingCmd
  <2>2. \A m : v # Sending(m)  BY Positions
  <2> QED  BY <2>1, <2>2
<1>7. \A j \in Nodes, l \in Slots : Drafted(j, l)'
  <2> SUFFICES ASSUME NEW j \in Nodes, NEW l \in Slots  PROVE  Drafted(j, l)'
    OBVIOUS
  <2>1. CASE j = n /\ l = k
    <3>1. cmd'[n][k] = LookingUp(num, b)  BY <1>1, <1>5, CmdWrite
    <3>2. Has(n, sel[n], num, b)'
      BY <1>3, <1>4 DEF Has, SendInsert
    <3> QED  BY <2>1, <3>1, <3>2, Positions DEF Drafted, SendInsert
  <2>2. CASE j # n \/ l # k
    <3>1. cmd'[j][l] = cmd[j][l]  BY <1>1, <1>5, <2>2, CmdWrite
    <3> QED  BY <1>5, <3>1, DraftsKept DEF SendInsert
  <2> QED  BY <2>1, <2>2
<1>8. \A j \in Nodes : Bound(j)'  BY <1>5, BoundKept DEF SendInsert
<1>9. NumsDiffer'
  <2>1. \A r \in msgs[n] : r.conn = sel[n] /\ r.conn # Null => r.num # num
    <3>1. \A r \in msgs[n] : r.num \in Nat
      BY MsgAssumption DEF MsgInv, TypeOK, MsgRow, Nums
    <3> QED  BY <1>1, <3>1 DEF NextNum, Nums
  <2> QED  BY <1>3, <1>4, <2>1 DEF MsgInv, NumsDiffer
<1>10. \A j \in Nodes : \A q \in msgs'[j] :
         \/ \E r \in msgs[j] : Same(r, q) /\ r.received = q.received
         \/ q.out /\ ~q.received
  BY <1>3, <1>4 DEF Same
<1>11. held' = [j \in Nodes |-> FALSE]  BY DEF MsgInv, SendInsert
<1> QED  BY <1>5, <1>6, <1>7, <1>8, <1>9, <1>10, <1>11, StepInv

LEMMA SendLookupInv ==
  ASSUME MsgInv, TypeOK', Settled(conns), NEW n \in Nodes, NEW k \in Slots, SendLookup(n, k)
  PROVE  MsgInv'
<1>1. PICK c \in ConnIds :
        /\ c = sel[n] /\ IsRow(n, c) /\ conns[n][c].status = "accepted"
        /\ cmd' = [cmd EXCEPT ![n][k] =
             Sending(MsgSend(conns[n][c].peer, conns[n][c].self_id,
                             cmd[n][k].num, cmd[n][k].body))]
  BY DEF SendLookup
<1>2. PICK i \in Nums, b \in Bodies : cmd[n][k] = LookingUp(i, b)
  BY CommandAt DEF SendLookup, MsgInv
<1>3. cmd[n][k].num = i /\ cmd[n][k].body = b /\ cmd[n][k].pc = "lookup"
  BY <1>2, Positions
<1>4. conns[n][c].self_id \in Ids /\ conns[n][c].peer \in Nodes
  BY <1>1, AcceptedTyped DEF MsgInv
<1>5. PICK m \in MsgParcel : m = MsgSend(conns[n][c].peer, conns[n][c].self_id, i, b)
  BY <1>4, ParcelTypes
<1>6. /\ m.kind = "MSG_SEND" /\ m.dst = conns[n][c].peer /\ m.id = conns[n][c].self_id
      /\ m.num = i /\ m.body = b
  BY <1>4, <1>5, ParcelTypes
<1>7. Has(n, c, i, b)  BY <1>1, <1>3 DEF MsgInv, Drafted
<1>8. True(m)  BY <1>1, <1>6, <1>7 DEF True, Wrote
<1>9. Sending(m) \in CommandState /\ Sending(m).pc # "lookup"
  BY Positions DEF CommandState
<1>10. \A q : Sending(m) = Sending(q) => True(q)  BY <1>8, Positions
<1>11. cmd' = [cmd EXCEPT ![n][k] = Sending(m)]  BY <1>1, <1>3, <1>5
<1> QED  BY <1>9, <1>10, <1>11, CommandQuiet, NetOutgoing DEF SendLookup, MsgInv

LEMMA CommandInv ==
  ASSUME MsgInv, Settled(conns), OneCommand, "commit" \notin Faults,
         NEW n \in Nodes, NEW k \in Slots, Command(n, k)
  PROVE  MsgInv'
<1>1. TypeOK /\ TypeOK'  BY CommandType DEF MsgInv
<1>2. /\ Idle \in CommandState /\ Idle.pc # "lookup"
      /\ \A m : Idle = Sending(m) => True(m)
  BY Positions DEF CommandState
<1>3. ASSUME NEW c \in ConnIds, SelectConn(n, k, c)  PROVE MsgInv'
  BY <1>1, <1>3, SelectConnInv
<1>4. ASSUME NEW b \in Bodies, SendInsert(n, k, b)  PROVE MsgInv'
  BY <1>1, <1>4, SendInsertInv
<1>5. CASE SendLookup(n, k)  BY <1>1, <1>5, SendLookupInv
<1>6. CASE SendRefused(n, k)
  BY <1>1, <1>2, <1>6, CommandQuiet, NetOutgoing DEF SendRefused
<1>7. CASE CommandSend(n, k) /\ UNCHANGED msgVars
  <2>1. PICK m \in MsgParcel : cmd[n][k] = Sending(m)
    BY <1>1, <1>7, CommandAt DEF CommandSend
  <2>2. net' \subseteq Outgoing
    BY <1>1, <1>7, <2>1, Positions, NetKept, NetOutgoing DEF CommandSend
  <2> QED  BY <1>1, <1>2, <1>7, <2>2, CommandQuiet DEF CommandSend
<1>8. CASE CommandExit(n, k) /\ UNCHANGED msgVars
  BY <1>1, <1>2, <1>8, CommandQuiet, NetOutgoing DEF CommandExit
<1> QED  BY <1>3, <1>4, <1>5, <1>6, <1>7, <1>8 DEF Command

-----------------------------------------------------------------------------
(* Listeners. *)

\* A listener that writes no message.
LEMMA ListenerQuiet ==
  ASSUME MsgInv, TypeOK', UNCHANGED <<conns, cmd, msgs, sel>>, net' \subseteq Outgoing,
         held' = [j \in Nodes |-> FALSE],
         NEW n \in Nodes, NEW v \in ListenerState, lst' = [lst EXCEPT ![n] = v],
         \A m \in MsgParcel : v = Sending(m) => True(m),
         v.pc = "store" => Bound(n)'
  PROVE  MsgInv'
<1>1. TypeOK /\ Grows  BY DEF MsgInv, Grows, Same
<1>2. \A m \in Outgoing' : m \in Outgoing \/ True(m)'
  <2>1. \A m \in Outgoing' : m \in Outgoing \/ v = Sending(m)
    BY <1>1, OutgoingLst
  <2>2. Outgoing' \subseteq MsgParcel  BY DEF TypeOK, Outgoing
  <2> QED  BY <1>1, <2>1, <2>2, TrueKept
<1>3. \A j \in Nodes, l \in Slots : Drafted(j, l)'  BY <1>1, DraftsKept
<1>4. \A j \in Nodes : Bound(j)'
  <2> SUFFICES ASSUME NEW j \in Nodes  PROVE  Bound(j)'
    OBVIOUS
  <2>1. CASE j = n /\ v.pc = "store"  BY <2>1
  <2>2. CASE j = n /\ v.pc # "store"
    BY <1>1, <2>2, LstWrite, BoundKept
  <2>3. CASE j # n  BY <1>1, <2>3, LstWrite, BoundKept
  <2> QED  BY <2>1, <2>2, <2>3
<1> QED  BY <1>2, <1>3, <1>4, QuietInv

\* One that stays where it is.
LEMMA ListenerStays ==
  ASSUME MsgInv, TypeOK', UNCHANGED <<conns, lst, cmd, msgVars>>, net' \subseteq Outgoing
  PROVE  MsgInv'
<1>1. TypeOK /\ Grows /\ held' = [j \in Nodes |-> FALSE]
  BY DEF MsgInv, Grows, Same, msgVars
<1>2. \A m \in Outgoing' : m \in Outgoing  BY DEF Outgoing
<1>3. \A j \in Nodes, l \in Slots : Drafted(j, l)'  BY <1>1, DraftsKept DEF msgVars
<1>4. \A j \in Nodes : Bound(j)'  BY <1>1, BoundKept
<1> QED  BY <1>1, <1>2, <1>3, <1>4, QuietInv DEF msgVars

\* What a user wrote on an accepted row reaches a row that is accepted.
LEMMA WroteReaches ==
  ASSUME TypeOK, Settled(conns), NEW m \in MsgParcel, Wrote(m),
         NEW p \in Nodes, NEW d \in ConnIds, HasPeerId(p, d, m.id), m.dst = p
  PROVE  /\ conns[p][d].status = "accepted"
         /\ \E n \in Nodes, c \in ConnIds : Reaches(n, c, p, d) /\ Has(n, c, m.num, m.body)
<1>1. PICK n \in Nodes, c \in ConnIds :
        /\ IsRow(n, c) /\ conns[n][c].status = "accepted"
        /\ conns[n][c].peer = m.dst /\ conns[n][c].self_id = m.id
        /\ Has(n, c, m.num, m.body)
  BY DEF Wrote
<1>2. Reaches(n, c, p, d) /\ ReachesIn(conns, n, c, p, d)
  BY <1>1 DEF Reaches, ReachesIn, HasPeerId, IsRow
<1> QED  BY <1>1, <1>2 DEF Settled

LEMMA HandleSendInv ==
  ASSUME MsgInv, TypeOK', NEW n \in Nodes, NEW m \in net, HandleSend(n, m)
  PROVE  MsgInv'
<1>1. PICK c \in ConnIds :
        /\ HasPeerId(n, c, m.id) /\ conns[n][c].status = "accepted"
        /\ lst' = [lst EXCEPT ![n] = Storing(m, conns[n][c].self_id, conns[n][c].peer)]
  BY DEF HandleSend
<1> DEFINE v == Storing(m, conns[n][c].self_id, conns[n][c].peer)
<1>2. TypeOK /\ Grows  BY DEF MsgInv, HandleSend, Grows, Same, msgVars
<1>3. m \in Outgoing /\ net' \subseteq Outgoing /\ m.kind = "MSG_SEND" /\ m.dst = n
  BY <1>2, NetOutgoing DEF HandleSend, Receive
<1>4. Wrote(m) /\ Wrote(m)'
  BY <1>2, <1>3, WroteKept DEF MsgInv, ParcelsAreTrue, True
<1>5. /\ v.pc = "store" /\ v.parcel = m /\ v.peer = conns[n][c].peer
      /\ v.self_id = conns[n][c].self_id
  BY Positions
<1>6. lst'[n] = v  BY <1>1, <1>2 DEF TypeOK
<1> HIDE DEF v
<1>7. lst'[n].parcel = m  BY <1>5, <1>6
<1>8. Bound(n)'
  <2>1. conns' = conns  BY DEF HandleSend
  <2> QED  BY <1>1, <1>3, <1>4, <1>5, <1>6, <1>7, <2>1 DEF Bound, HasPeerId, IsRow
<1>9. v \in ListenerState  BY <1>2, <1>6 DEF TypeOK
<1>10. \A q : v # Sending(q)  BY <1>5, Positions
<1>11. lst' = [lst EXCEPT ![n] = v]  BY <1>1 DEF v
<1>12. UNCHANGED <<conns, cmd, msgs, sel>> /\ held' = [j \in Nodes |-> FALSE]
  BY DEF HandleSend, msgVars, MsgInv
<1> QED  BY <1>3, <1>8, <1>9, <1>10, <1>11, <1>12, ListenerQuiet

\* The listener stores what the user at the other end wrote, then says so.
LEMMA StoreInv ==
  ASSUME MsgInv, TypeOK', Settled(conns), "commit" \notin Faults,
         NEW n \in Nodes, Store(n)
  PROVE  MsgInv'
<1>1. TypeOK  BY DEF MsgInv
<1>2. PICK m \in MsgSends : m = lst[n].parcel
  <2>1. PICK m \in MsgSends, i \in Ids, p \in Nodes : lst[n] = Storing(m, i, p)
    BY <1>1, ListenerAt DEF Store
  <2> QED  BY <2>1, Positions
<1>3. m \in MsgParcel /\ m.id \in Ids  BY ParcelFields DEF MsgParcel
<1>4. m.dst = n /\ Wrote(m)  BY <1>2 DEF MsgInv, Bound, Store
<1>5. PICK d \in ConnIds :
        /\ HasPeerId(n, d, m.id) /\ conns[n][d].status = "accepted"
        /\ conns[n][d].self_id = lst[n].self_id /\ conns[n][d].peer = lst[n].peer
  BY <1>2 DEF MsgInv, Bound, Store
<1>6. ConnOf(n, m.id) = d /\ d # Null  BY <1>1, <1>3, <1>5, ConnOfRow, MsgAssumption
<1>7. PICK new : new = [conn |-> d, num |-> m.num, body |-> m.body,
                        received |-> TRUE, out |-> FALSE]
  OBVIOUS
<1>8. NumFree(n, d, m.num) /\ msgs' = [msgs EXCEPT ![n] = @ \cup {new}]
  BY <1>2, <1>6, <1>7 DEF Store
<1>9. new.conn = d /\ new.num = m.num /\ new.body = m.body /\ new.received /\ ~new.out
  BY <1>7
<1>10. /\ msgs'[n] = msgs[n] \cup {new}
       /\ \A j \in Nodes : j # n => msgs'[j] = msgs[j]
  BY <1>1, <1>8 DEF TypeOK
<1>11. Grows  BY <1>10 DEF Store, Grows, Same
<1>12. PICK a \in MsgParcel : /\ lst' = [lst EXCEPT ![n] = Sending(a)]
                              /\ a.kind = "MSG_RCV" /\ a.dst = conns[n][d].peer
                              /\ a.id = conns[n][d].self_id /\ a.num = m.num
  <2>1. conns[n][d].self_id \in Ids /\ conns[n][d].peer \in Nodes
    BY <1>1, <1>5, AcceptedTyped DEF HasPeerId
  <2>2. m.num \in Nums /\ m.body \in Bodies  BY DEF MsgSends
  <2>3. PICK a \in MsgParcel : a = MsgRcv(conns[n][d].peer, conns[n][d].self_id, m.num)
    BY <2>1, <2>2, ParcelTypes
  <2>4. lst' = [lst EXCEPT ![n] = Sending(a)]  BY <1>2, <1>5, <2>3 DEF Store
  <2>5. /\ a.kind = "MSG_RCV" /\ a.dst = conns[n][d].peer
        /\ a.id = conns[n][d].self_id /\ a.num = m.num
    BY <2>3 DEF MsgRcv
  <2> QED  BY <2>4, <2>5
<1>13. Sending(a) \in ListenerState  BY DEF ListenerState
<1>14. \A q \in Outgoing' : q \in Outgoing \/ True(q)'
  <2>1. True(a)'
    <3>1. conns' = conns  BY DEF Store
    <3>2. \E q \in msgs'[n] : ~q.out /\ q.conn = d /\ q.num = a.num
      BY <1>9, <1>10, <1>12
    <3> QED  BY <1>5, <1>12, <3>1, <3>2 DEF True, HasStored, HasPeerId, IsRow
  <2>2. net' \subseteq Outgoing /\ cmd' = cmd  BY <1>1, NetOutgoing DEF Store
  <2>3. \A q \in Outgoing' : q \in Outgoing \/ Sending(a) = Sending(q)
    BY <1>1, <1>12, <1>13, <2>2, OutgoingLst
  <2> QED  BY <2>1, <2>3, Positions
<1>15. \A j \in Nodes, l \in Slots : Drafted(j, l)'  BY <1>11, DraftsKept DEF Store
<1>16. \A j \in Nodes : Bound(j)'
  <2> SUFFICES ASSUME NEW j \in Nodes  PROVE  Bound(j)'
    OBVIOUS
  <2>1. lst'[j] = lst[j] \/ lst'[j] = Sending(a)  BY <1>1, <1>12, <1>13, LstWrite
  <2> QED  BY <1>11, <2>1, Positions, BoundKept
<1>17. NumsDiffer'
  <2>1. \A r \in msgs[n] : ~(r.conn = d /\ r.num = m.num)
    BY <1>6, <1>8 DEF NumFree
  <2> QED  BY <1>9, <1>10, <2>1 DEF MsgInv, NumsDiffer
<1>18. CameFrom(n, new)'
  <2>1. PICK p \in Nodes, c \in ConnIds : Reaches(p, c, n, d) /\ Has(p, c, m.num, m.body)
    BY <1>1, <1>3, <1>4, <1>5, WroteReaches
  <2>2. CameFrom(n, new)  BY <1>9, <2>1 DEF CameFrom
  <2> QED  BY <1>11, <2>2, CameFromKept DEF Same
<1>19. \A j \in Nodes : \A q \in msgs'[j] :
         \/ \E r \in msgs[j] : Same(r, q) /\ r.received = q.received
         \/ ~q.out /\ CameFrom(j, q)'
  BY <1>9, <1>10, <1>18 DEF Same
<1>20. held' = [j \in Nodes |-> FALSE]  BY DEF MsgInv, Store
<1> QED  BY <1>11, <1>14, <1>15, <1>16, <1>17, <1>19, <1>20, StepInv

\* The row that is acknowledged is the row whose message the peer has stored.
LEMMA HandleRcvInv ==
  ASSUME MsgInv, TypeOK', Settled(conns), NEW n \in Nodes, NEW m \in net, HandleRcv(n, m)
  PROVE  MsgInv'
<1> DEFINE Acked(r) == r.num = m.num /\ r.conn = ConnOf(n, m.id) /\ r.conn # Null
           f(r) == IF Acked(r) THEN [r EXCEPT !.received = TRUE] ELSE r
<1>1. TypeOK  BY DEF MsgInv
<1>2. /\ msgs'[n] = {f(r) : r \in msgs[n]}
      /\ \A j \in Nodes : j # n => msgs'[j] = msgs[j]
  BY <1>1 DEF HandleRcv, TypeOK
<1>3. \A r \in msgs[n] : /\ Same(r, f(r)) /\ (r.received => f(r).received)
                         /\ f(r).received # r.received => Acked(r)
                         /\ f(r) = r \/ f(r) = [r EXCEPT !.received = TRUE]
  <2> SUFFICES ASSUME NEW r \in msgs[n]
               PROVE  /\ Same(r, f(r)) /\ (r.received => f(r).received)
                      /\ f(r).received # r.received => Acked(r)
                      /\ f(r) = r \/ f(r) = [r EXCEPT !.received = TRUE]
    OBVIOUS
  <2> HIDE DEF Acked
  <2>1. r \in MsgRow  BY <1>1 DEF TypeOK
  <2>2. CASE Acked(r)
    <3>1. f(r) = [r EXCEPT !.received = TRUE]  BY <2>2
    <3> QED  BY <2>1, <2>2, <3>1 DEF MsgRow, Same
  <2>3. CASE ~Acked(r)  BY <2>3 DEF Same
  <2> QED  BY <2>2, <2>3
<1> HIDE DEF f, Acked
<1>4. Grows
  <2> SUFFICES ASSUME NEW j \in Nodes, NEW r \in msgs[j]
               PROVE  \E q \in msgs'[j] : Same(r, q) /\ (r.received => q.received)
    BY DEF Grows, HandleRcv
  <2>1. CASE j = n  BY <1>2, <1>3, <2>1
  <2>2. CASE j # n  BY <1>2, <2>2 DEF Same
  <2> QED  BY <2>1, <2>2
<1>5. /\ m \in MsgParcel /\ m \in Outgoing /\ net' \subseteq Outgoing
      /\ m.kind = "MSG_RCV" /\ m.dst = n /\ m.id \in Ids
  BY <1>1, NetOutgoing, ParcelFields DEF HandleRcv, Receive, TypeOK
<1>6. \A q \in Outgoing' : q \in Outgoing  BY <1>5 DEF HandleRcv, Outgoing
<1>7. NumsDiffer'
  <2>1. \A r, s \in msgs[n] : Same(f(r), f(s)) /\ f(r).conn # Null => f(r) = f(s)
    BY <1>3 DEF MsgInv, NumsDiffer, Same
  <2>2. \A r, s \in msgs[n] :
          f(r).conn = f(s).conn /\ f(r).conn # Null /\ f(r).num = f(s).num => f(r) = f(s)
    BY <1>3 DEF MsgInv, NumsDiffer, Same
  <2> QED  BY <1>2, <2>2 DEF MsgInv, NumsDiffer
<1>8. ASSUME NEW r \in msgs[n], r.out, Acked(r)
      PROVE  StoredAtPeer(n, r)
  <2>1. HasPeerId(n, r.conn, m.id) /\ r.conn \in ConnIds
    BY <1>1, <1>5, <1>8, ConnOfRow DEF Acked
  <2>2. HasStored(m)  BY <1>5 DEF MsgInv, ParcelsAreTrue, True
  <2>3. PICK p \in Nodes, d \in ConnIds :
          /\ IsRow(p, d) /\ conns[p][d].status = "accepted"
          /\ conns[p][d].peer = n /\ conns[p][d].self_id = m.id
          /\ \E q \in msgs[p] : ~q.out /\ q.conn = d /\ q.num = m.num
    BY <1>5, <2>2 DEF HasStored
  <2>4. PICK q \in msgs[p] : ~q.out /\ q.conn = d /\ q.num = m.num  BY <2>3
  <2>5. PICK n0 \in Nodes, c0 \in ConnIds :
          /\ Reaches(n0, c0, p, d)
          /\ \E s \in msgs[n0] : s.out /\ s.conn = c0 /\ s.num = q.num /\ s.body = q.body
    BY <2>4 DEF MsgInv, StoredWasSent
  <2>6. n0 = n /\ c0 = r.conn
    <3>1. ReachesIn(conns, n0, c0, p, d)  BY <2>5 DEF Reaches, ReachesIn, IsRow
    <3>2. ReachesIn(conns, p, d, n, r.conn)
      BY <2>1, <2>3 DEF ReachesIn, HasPeerId, IsRow
    <3> QED  BY <2>1, <3>1, <3>2 DEF Settled
  <2>7. q.body = r.body
    BY <1>8, <2>1, <2>4, <2>5, <2>6, MsgAssumption DEF MsgInv, NumsDiffer, Acked
  <2> QED  BY <1>8, <2>1, <2>4, <2>5, <2>6, <2>7 DEF StoredAtPeer, Acked
<1>9. \A j \in Nodes : \A q \in msgs'[j] :
         \/ \E r \in msgs[j] : Same(r, q) /\ r.received = q.received
         \/ /\ ~q.out => CameFrom(j, q)'
            /\ q.out /\ q.received => StoredAtPeer(j, q)'
  <2> SUFFICES ASSUME NEW q \in msgs'[n], NEW r \in msgs[n], q = f(r), Acked(r)
               PROVE  /\ ~q.out => CameFrom(n, q)'
                      /\ q.out => StoredAtPeer(n, q)'
    BY <1>2, <1>3 DEF Same
  <2>1. Same(r, q)  BY <1>3
  <2>2. ASSUME ~q.out  PROVE CameFrom(n, q)'
    <3>1. CameFrom(n, r)
      BY <2>1, <2>2 DEF MsgInv, StoredWasSent, CameFrom, Has, Same
    <3> QED  BY <1>4, <2>1, <3>1, CameFromKept
  <2>3. ASSUME q.out  PROVE StoredAtPeer(n, q)'
    BY <1>4, <1>8, <2>1, <2>3, StoredAtPeerKept DEF Same
  <2> QED  BY <2>2, <2>3
<1>10. \A j \in Nodes, l \in Slots : Drafted(j, l)'  BY <1>4, DraftsKept DEF HandleRcv
<1>11. \A j \in Nodes : Bound(j)'  BY <1>4, BoundKept DEF HandleRcv
<1>12. held' = [j \in Nodes |-> FALSE]  BY DEF MsgInv, HandleRcv
<1> QED  BY <1>4, <1>6, <1>7, <1>9, <1>10, <1>11, <1>12, StepInv

LEMMA ListenerInv ==
  ASSUME MsgInv, Settled(conns), "commit" \notin Faults, NEW n \in Nodes, Listener(n)
  PROVE  MsgInv'
<1>1. TypeOK /\ TypeOK'  BY ListenerType DEF MsgInv
<1>2. /\ Off \in ListenerState /\ Loop \in ListenerState
      /\ Off.pc # "store" /\ Loop.pc # "store"
      /\ \A m : Off # Sending(m) /\ Loop # Sending(m)
  BY Positions DEF ListenerState
<1>3. CASE Stop(n)
  <2>1. held' = [j \in Nodes |-> FALSE] /\ net' \subseteq Outgoing
    BY <1>1, <1>3, NetOutgoing DEF Stop, StopListening, MsgInv
  <2> QED  BY <1>1, <1>2, <1>3, <2>1, ListenerQuiet DEF Stop, StopListening
<1>4. CASE StartListening(n) /\ UNCHANGED msgVars
  BY <1>1, <1>2, <1>4, ListenerQuiet, NetOutgoing DEF StartListening, msgVars, MsgInv
<1>5. CASE ListenerSend(n) /\ UNCHANGED msgVars
  <2>1. PICK m \in MsgParcel : lst[n] = Sending(m)
    BY <1>1, <1>5, ListenerAt DEF ListenerSend
  <2>2. net' \subseteq Outgoing
    BY <1>1, <1>5, <2>1, Positions, NetKept, NetOutgoing DEF ListenerSend
  <2> QED  BY <1>1, <1>2, <1>5, <2>2, ListenerQuiet DEF ListenerSend, msgVars, MsgInv
<1>6. CASE DropParcel(n) /\ UNCHANGED msgVars
  BY <1>1, <1>6, ListenerStays, NetOutgoing DEF DropParcel
<1>7. ASSUME NEW m \in net, HandleSend(n, m)  PROVE MsgInv'
  BY <1>1, <1>7, HandleSendInv
<1>8. ASSUME NEW m \in net, HandleSendRefused(n, m)  PROVE MsgInv'
  <2>1. m \in Outgoing /\ m \in MsgParcel /\ m.dst = n /\ m.kind = "MSG_SEND"
    BY <1>1, <1>8, NetOutgoing DEF HandleSendRefused, Receive, TypeOK
  <2>2. Wrote(m)  BY <2>1 DEF MsgInv, ParcelsAreTrue, True
  <2> QED  BY <1>1, <1>8, <2>1, <2>2, WroteReaches DEF HandleSendRefused
<1>9. ASSUME NEW m \in net, HandleSendUnknown(n, m)  PROVE MsgInv'
  BY <1>1, <1>9, ListenerStays, NetOutgoing DEF HandleSendUnknown, Receive
<1>10. ASSUME NEW m \in net, HandleRcv(n, m)  PROVE MsgInv'
  BY <1>1, <1>10, HandleRcvInv
<1>11. CASE Store(n)  BY <1>1, <1>11, StoreInv
<1>12. CASE StoreFails(n)
  BY <1>1, <1>2, <1>12, ListenerQuiet, NetOutgoing DEF StoreFails, msgVars, MsgInv
<1> QED  BY <1>3, <1>4, <1>5, <1>6, <1>7, <1>8, <1>9, <1>10, <1>11, <1>12
         DEF Listener, Handle

-----------------------------------------------------------------------------
(* The theorems. *)

\* Initially no message is written, and no parcel on its way.
LEMMA InitInv ==
  ASSUME Init
  PROVE  MsgInv
<1>1. TypeOK
  BY MsgAssumption DEF Init, TypeOK, ListenerState, CommandState
<1>2. Outgoing = {}
  <2>1. \A n \in Nodes : lst[n] \in {Off, Loop}  BY DEF Init
  <2>2. \A n \in Nodes, k \in Slots : cmd[n][k] = Idle  BY DEF Init
  <2>3. \A m : Off # Sending(m) /\ Loop # Sending(m) /\ Idle # Sending(m)
    BY Positions
  <2> QED  BY <2>1, <2>2, <2>3 DEF Init, Outgoing
<1>3. \A n \in Nodes : lst[n].pc # "store"  BY Positions DEF Init
<1>4. \A n \in Nodes, k \in Slots : cmd[n][k].pc # "lookup"  BY Positions DEF Init
<1>5. \A n \in Nodes : msgs[n] = {}  BY DEF Init
<1>6. held = [n \in Nodes |-> FALSE]  BY DEF Init
<1> QED
  BY <1>1, <1>2, <1>3, <1>4, <1>5, <1>6
     DEF MsgInv, ParcelsAreTrue, Drafted, Bound, NumsDiffer, StoredWasSent, ReceivedIsTrue

\* Every value a statement writes has the type of its column, whatever parcels come and
\* whichever commands run side by side.
THEOREM MsgTypeCorrect ==
  ASSUME TablesSettled
  PROVE  Spec => []TypeOK
<1>1. Init => TypeOK  BY InitInv DEF MsgInv
<1>2. TypeOK /\ [Next]_vars => TypeOK'
  <2> SUFFICES ASSUME TypeOK, [Next]_vars  PROVE TypeOK'
    OBVIOUS
  <2>1. Settled(conns)  BY DEF TypeOK, TablesSettled
  <2>2. CASE Next  BY <2>1, <2>2, CommandType, ListenerType DEF Next
  <2>3. CASE UNCHANGED vars  BY <2>3 DEF vars, nodeVars, msgVars, TypeOK
  <2> QED  BY <2>2, <2>3
<1> QED  BY <1>1, <1>2, PTL DEF Spec

\* Three actions write rows of Messages, and none writes a connection.
LEMMA WhoWrites ==
  ASSUME Next
  PROVE  /\ conns' = conns
         /\ \/ msgs' = msgs
            \/ \E n \in Nodes, k \in Slots, b \in Bodies : SendInsert(n, k, b)
            \/ \E n \in Nodes : Store(n)
            \/ \E n \in Nodes, m \in net : HandleRcv(n, m)
<1>1. PICK n \in Nodes : Listener(n) \/ \E k \in Slots : Command(n, k)
  BY DEF Next
<1>2. CASE Listener(n)
  <2>1. CASE Handle(n)
    BY <2>1 DEF Handle, HandleSend, HandleSendRefused, HandleSendUnknown, HandleRcv, msgVars
  <2>2. CASE Store(n)  BY <2>2 DEF Store
  <2> QED
    BY <1>2, <2>1, <2>2
    DEF Listener, Stop, StopListening, StartListening, ListenerSend, DropParcel,
        StoreFails, msgVars
<1>3. ASSUME NEW k \in Slots, Command(n, k)
      PROVE  conns' = conns /\ (msgs' = msgs \/ \E b \in Bodies : SendInsert(n, k, b))
  <2>1. ASSUME NEW b \in Bodies, SendInsert(n, k, b)
        PROVE  conns' = conns
    BY <2>1 DEF SendInsert
  <2> QED
    BY <1>3, <2>1
    DEF Command, SelectConn, SendLookup, SendRefused, CommandSend, CommandExit,
        msgVars, nodeVars
<1> QED  BY <1>1, <1>2, <1>3

LEMMA MsgInvNext ==
  ASSUME Settled(conns), OneCommand, "commit" \notin Faults, MsgInv, [Next]_vars
  PROVE  MsgInv'
<1>2. CASE Next  BY <1>2, CommandInv, ListenerInv DEF Next
<1>3. CASE UNCHANGED vars
  <2>1. UNCHANGED <<conns, lst, cmd, msgVars>> /\ net' = net
    BY <1>3 DEF vars, nodeVars
  <2>2. TypeOK'  BY <2>1 DEF MsgInv, TypeOK, msgVars
  <2> QED  BY <2>1, <2>2, ListenerStays, NetOutgoing DEF MsgInv
<1> QED  BY <1>2, <1>3

\* No step makes a table settled: what is settled now was so all along, and MsgInv with it.
LEMMA SettledInvNext ==
  ASSUME OneCommand, "commit" \notin Faults, SettledInv, [Next]_vars
  PROVE  SettledInv'
<1>1. conns' = conns  BY WhoWrites DEF vars, nodeVars
<1>2. Settled(conns)' = Settled(conns)  BY <1>1 DEF Settled
<1> QED  BY <1>2, MsgInvNext DEF SettledInv

\* Of the tables the handshake may leave, the settled ones keep MsgInv, in every instance
\* in which no commit fails unseen and a node runs one command at a time.
THEOREM SettledInvHolds ==
  ASSUME OneCommand, "commit" \notin Faults
  PROVE  Spec => []SettledInv
<1>1. Init => SettledInv  BY InitInv DEF SettledInv
<1>2. SettledInv /\ [Next]_vars => SettledInv'  BY SettledInvNext
<1> QED  BY <1>1, <1>2, PTL DEF Spec

\* On settled tables, a node that runs one command at a time and whose commits do not
\* fail unseen keeps MsgInv: every parcel on its way is true.
THEOREM MsgInvHolds ==
  ASSUME TablesSettled, OneCommand, "commit" \notin Faults
  PROVE  Spec => []MsgInv
<1>1. Init => MsgInv  BY InitInv
<1>2. MsgInv /\ [Next]_vars => MsgInv'
  BY MsgInvNext DEF MsgInv, TypeOK, TablesSettled
<1> QED  BY <1>1, <1>2, PTL DEF Spec

\* What a listener has stored, the user at the other end of that connection wrote.
THEOREM StoredWasSentHolds ==
  ASSUME TablesSettled, OneCommand, "commit" \notin Faults
  PROVE  Spec => []StoredWasSent
<1>1. MsgInv => StoredWasSent  BY DEF MsgInv
<1> QED  BY <1>1, MsgInvHolds, PTL

\* A message shown as received is stored at the other end, under its number and with
\* its text.
THEOREM ReceivedIsTrueHolds ==
  ASSUME TablesSettled, OneCommand, "commit" \notin Faults
  PROVE  Spec => []ReceivedIsTrue
<1>1. MsgInv => ReceivedIsTrue  BY DEF MsgInv
<1> QED  BY <1>1, MsgInvHolds, PTL

-----------------------------------------------------------------------------
(* The refinement mapping, by rows rather than by CHOOSE.                  *)

\* What an end shows of row r.
Entry(r) == [body |-> r.body, mine |-> r.out, received |-> r.received]

\* Row r is message k of connection c.
Numbered(r, c, k) == r.conn = c /\ r.num = k

BoxShown ==
  /\ boxOf = [e \in RowEnds |-> [k \in Nums |-> boxOf[e][k]]]
  /\ \A n \in Nodes, c \in ConnIds, k \in Nums :
       /\ \A r \in msgs[n] : Numbered(r, c, k) => boxOf[<<n, c>>][k] = Entry(r)
       /\ (\A r \in msgs[n] : ~Numbered(r, c, k)) => boxOf[<<n, c>>][k] = Null

LEMMA BoxShownHolds == MsgInv => BoxShown
<1> SUFFICES ASSUME MsgInv PROVE BoxShown  OBVIOUS
<1>1. boxOf = [e \in RowEnds |-> [k \in Nums |-> boxOf[e][k]]]  BY DEF boxOf
<1>2. ASSUME NEW n \in Nodes, NEW c \in ConnIds, NEW k \in Nums
      PROVE  /\ \A r \in msgs[n] : Numbered(r, c, k) => boxOf[<<n, c>>][k] = Entry(r)
             /\ (\A r \in msgs[n] : ~Numbered(r, c, k)) => boxOf[<<n, c>>][k] = Null
  <2> DEFINE rows == {r \in msgs[n] : r.conn = c /\ r.num = k}
             x == CHOOSE r \in rows : TRUE
  <2>1. <<n, c>> \in RowEnds  BY DEF RowEnds
  <2>2. boxOf[<<n, c>>][k] = ShownAt(<<n, c>>, k)  BY <2>1 DEF boxOf
  <2>3. ShownAt(<<n, c>>, k) = IF rows = {} THEN Null ELSE Entry(x)
    BY DEF ShownAt, Entry
  <2>4. rows # {} => x \in rows  OBVIOUS
  <2>5. c # Null  BY MsgAssumption
  <2>6. \A r \in rows : x = r
    <3> HIDE DEF x
    <3> QED  BY <2>4, <2>5 DEF MsgInv, NumsDiffer
  <2> HIDE DEF x
  <2> QED  BY <2>2, <2>3, <2>6 DEF Numbered
<1> QED  BY <1>1, <1>2 DEF BoxShown

LEMMA BoxShownAfter == MsgInv' => BoxShown'
BY BoxShownHolds, PTL

LEMMA RowShown ==
  ASSUME BoxShown, NEW n \in Nodes, NEW c \in ConnIds, NEW k \in Nums,
         NEW r \in msgs[n], r.conn = c, r.num = k
  PROVE  boxOf[<<n, c>>][k] = Entry(r)
<1>1. Numbered(r, c, k)  BY DEF Numbered
<1> QED  BY <1>1 DEF BoxShown

\* On settled tables, UNIQUE(peer_id) leaves one other end.
LEMMA PeerShown ==
  ASSUME TypeOK, Settled(conns), NEW n \in Nodes, NEW c \in ConnIds,
         NEW p \in Nodes, NEW d \in ConnIds, Reaches(n, c, p, d)
  PROVE  peerOf[<<n, c>>] = <<p, d>>
<1>0. PICK x : x = <<n, c>>  OBVIOUS
<1> DEFINE others == {f \in RowEnds : Reaches(x[1], x[2], f[1], f[2])}
<1>1. x \in RowEnds /\ x[1] = n /\ x[2] = c /\ <<p, d>> \in others
  BY <1>0 DEF RowEnds
<1>2. conns[n][c].self_id # Null  BY DEF Settled, Reaches, IsRow
<1>3. ASSUME NEW q \in Nodes, NEW e \in ConnIds, Reaches(n, c, q, e)
      PROVE  q = p /\ e = d
  BY <1>2, <1>3, MsgAssumption DEF Reaches, IsRow, TypeOK
<1>4. \A f \in others : f = <<p, d>>
  BY <1>1, <1>3 DEF RowEnds
<1>5. peerOf[x] = IF others = {} THEN Null ELSE CHOOSE f \in others : TRUE
  BY <1>1 DEF peerOf
<1> QED  BY <1>0, <1>1, <1>4, <1>5

LEMMA PeersStay ==
  ASSUME conns' = conns
  PROVE  peerOf' = peerOf
BY DEF peerOf, Reaches, IsRow

-----------------------------------------------------------------------------
(* What a step does to the rows, and what that does to the mapping.        *)

\* The row of message k of connection c of n is as it was.
EntrySame(n, c, k) ==
  /\ \A r \in msgs[n] : Numbered(r, c, k) => r \in msgs'[n]
  /\ \A r \in msgs'[n] : Numbered(r, c, k) => r \in msgs[n]

LEMMA SameShown ==
  ASSUME BoxShown, BoxShown', NEW n \in Nodes, NEW c \in ConnIds, NEW k \in Nums,
         EntrySame(n, c, k)
  PROVE  boxOf'[<<n, c>>][k] = boxOf[<<n, c>>][k]
<1>1. CASE \E r \in msgs[n] : Numbered(r, c, k)
  BY <1>1 DEF BoxShown, EntrySame
<1>2. CASE \A r \in msgs[n] : ~Numbered(r, c, k)
  BY <1>2 DEF BoxShown, EntrySame
<1> QED  BY <1>1, <1>2

LEMMA NothingShown ==
  ASSUME BoxShown, BoxShown',
         \A n \in Nodes, c \in ConnIds, k \in Nums : EntrySame(n, c, k)
  PROVE  boxOf' = boxOf
<1>1. \A n \in Nodes, c \in ConnIds, k \in Nums :
        boxOf'[<<n, c>>][k] = boxOf[<<n, c>>][k]
  BY SameShown
<1>2. \A e \in RowEnds, k \in Nums : boxOf'[e][k] = boxOf[e][k]
  BY <1>1 DEF RowEnds
<1> QED  BY <1>2 DEF BoxShown

\* One message shown is another, or new.
LEMMA OneShown ==
  ASSUME BoxShown, BoxShown', NEW n \in Nodes, NEW c \in ConnIds, NEW k \in Nums,
         NEW v, boxOf'[<<n, c>>][k] = v,
         \A j \in Nodes, d \in ConnIds, i \in Nums :
           j # n \/ d # c \/ i # k => EntrySame(j, d, i)
  PROVE  boxOf' = [boxOf EXCEPT ![<<n, c>>][k] = v]
<1>1. \A j \in Nodes, d \in ConnIds, i \in Nums :
        j # n \/ d # c \/ i # k => boxOf'[<<j, d>>][i] = boxOf[<<j, d>>][i]
  BY SameShown
<1>2. PICK x : x = <<n, c>>  OBVIOUS
<1>3. x \in RowEnds  BY <1>2 DEF RowEnds
<1>4. \A e \in RowEnds, i \in Nums : e # x \/ i # k => boxOf'[e][i] = boxOf[e][i]
  BY <1>1, <1>2 DEF RowEnds
<1>5. /\ boxOf  = [e \in RowEnds |-> [i \in Nums |-> boxOf[e][i]]]
      /\ boxOf' = [e \in RowEnds |-> [i \in Nums |-> boxOf'[e][i]]]
  BY DEF BoxShown
<1>6. boxOf' = [boxOf EXCEPT ![x][k] = v]
  <2>1. boxOf[x] = [i \in Nums |-> boxOf[x][i]] /\ boxOf'[x] = [i \in Nums |-> boxOf'[x][i]]
    BY <1>3, <1>5
  <2>2. boxOf'[x] = [boxOf[x] EXCEPT ![k] = v]  BY <1>2, <1>3, <1>4, <2>1
  <2>3. \A e \in RowEnds : e # x => boxOf'[e] = boxOf[e]  BY <1>4, <1>5
  <2> QED  BY <1>3, <1>5, <2>2, <2>3
<1> QED  BY <1>2, <1>6

\* What an end shows of a row is a message, and not NULL.
LEMMA EntryType ==
  ASSUME NEW r \in MsgRow
  PROVE  Entry(r) # Null
<1>1. Entry(r) \in Delivery!Message  BY DEF Entry, MsgRow, Delivery!Message
<1> QED  BY <1>1, NullAssumption

-----------------------------------------------------------------------------
(* The steps. *)

\* What a listener has stored it stored as received (973).
ReadOnArrival == \A n \in Nodes : \A q \in msgs[n] : ~q.out => q.received

DeliveryStep == ReadOnArrival' /\ [Delivery!Next]_(Delivery!vars)

\* The rows are as they were.
LEMMA QuietDelivers ==
  ASSUME MsgInv, MsgInv', ReadOnArrival, conns' = conns, msgs' = msgs
  PROVE  DeliveryStep
<1>1. boxOf' = boxOf
  <2>1. \A n \in Nodes, c \in ConnIds, k \in Nums : EntrySame(n, c, k)
    BY DEF EntrySame
  <2> QED  BY <2>1, NothingShown, BoxShownHolds, BoxShownAfter
<1> QED  BY <1>1, PeersStay DEF DeliveryStep, ReadOnArrival, Delivery!vars

\* A message is written, on the connection selected or on none.
LEMMA SendInsertDelivers ==
  ASSUME MsgInv, MsgInv', ReadOnArrival, "commit" \notin Faults,
         NEW n \in Nodes, NEW k \in Slots, NEW b \in Bodies, SendInsert(n, k, b)
  PROVE  DeliveryStep
<1>0. TypeOK /\ TypeOK' /\ BoxShown /\ BoxShown'
  BY BoxShownHolds, BoxShownAfter DEF MsgInv
<1>w. PICK num \in Nums : \E new :
        /\ NextNum(n, sel[n], num)
        /\ new = [conn |-> sel[n], num |-> num, body |-> b,
                  received |-> FALSE, out |-> TRUE]
        /\ msgs' = [msgs EXCEPT ![n] = @ \cup {new}]
  BY DEF SendInsert, CommitFails, MsgInv
<1>1. PICK new :
        /\ NextNum(n, sel[n], num)
        /\ new = [conn |-> sel[n], num |-> num, body |-> b,
                  received |-> FALSE, out |-> TRUE]
        /\ msgs' = [msgs EXCEPT ![n] = @ \cup {new}]
  BY <1>w
<1>2. /\ new.conn = sel[n] /\ new.num = num /\ new.out
      /\ Entry(new) = [body |-> b, mine |-> TRUE, received |-> FALSE]
  BY <1>1 DEF Entry
<1>3. /\ msgs'[n] = msgs[n] \cup {new}
      /\ \A j \in Nodes : j # n => msgs'[j] = msgs[j]
  BY <1>0, <1>1 DEF TypeOK
<1>4. ReadOnArrival'  BY <1>2, <1>3 DEF ReadOnArrival
<1>5. peerOf' = peerOf  BY PeersStay DEF SendInsert
<1>6. \A j \in Nodes, d \in ConnIds, i \in Nums :
        j # n \/ d # sel[n] \/ i # num => EntrySame(j, d, i)
  BY <1>2, <1>3 DEF EntrySame, Numbered
<1>7. CASE sel[n] \in ConnIds
  <2>1. PICK c \in ConnIds : c = sel[n]  BY <1>7
  <2>2. PICK e \in RowEnds : e = <<n, c>>  BY DEF RowEnds
  <2>3. boxOf'[e][num] = Entry(new)
    <3>0. Numbered(new, c, num) /\ new \in msgs'[n]
      BY <1>2, <1>3, <2>1 DEF Numbered
    <3>1. boxOf'[<<n, c>>][num] = Entry(new)  BY <1>0, <3>0 DEF BoxShown
    <3> QED  BY <2>2, <3>1
  <2>4. boxOf' = [boxOf EXCEPT ![e][num] = Entry(new)]
    BY <1>0, <1>6, <2>1, <2>2, <2>3, OneShown
  <2>5. \A j \in Nums : boxOf[e][j] # Null => j < num
    <3> SUFFICES ASSUME NEW j \in Nums, boxOf[e][j] # Null PROVE j < num
      OBVIOUS
    <3>1. PICK r \in msgs[n] : Numbered(r, c, j)  BY <1>0, <2>2 DEF BoxShown
    <3> QED  BY <1>1, <2>1, <3>1, MsgAssumption DEF NextNum, Numbered
  <2>6. Delivery!Write(e, num, b)
    BY <1>2, <1>5, <2>4, <2>5 DEF Delivery!Write
  <2>7. boxOf' # boxOf
    <3>1. boxOf[e][num] = Null
      BY <2>5, MsgAssumption DEF Nums
    <3>2. Entry(new) # Null  BY <1>0, <1>3, EntryType DEF TypeOK
    <3> QED  BY <2>3, <3>1, <3>2
  <2>8. Delivery!Next  BY <2>6, <2>7 DEF Delivery!Next
  <2> QED  BY <1>4, <2>8 DEF DeliveryStep
<1>8. CASE sel[n] \notin ConnIds
  <2>1. boxOf' = boxOf  BY <1>0, <1>6, <1>8, NothingShown
  <2> QED  BY <1>4, <1>5, <2>1 DEF DeliveryStep, Delivery!vars
<1> QED  BY <1>7, <1>8

\* It arrives at the end that the end it was written at reaches.
LEMMA StoreDelivers ==
  ASSUME MsgInv, MsgInv', ReadOnArrival, Settled(conns), "commit" \notin Faults,
         NEW n \in Nodes, Store(n)
  PROVE  DeliveryStep
<1>0. TypeOK /\ TypeOK' /\ BoxShown /\ BoxShown'
  BY BoxShownHolds, BoxShownAfter DEF MsgInv
<1>1. PICK m \in MsgSends : m = lst[n].parcel
  <2>1. PICK m \in MsgSends, i \in Ids, p \in Nodes : lst[n] = Storing(m, i, p)
    BY <1>0, ListenerAt DEF Store
  <2> QED  BY <2>1, Positions
<1>2. m \in MsgParcel /\ m.id \in Ids /\ m.num \in Nums  BY ParcelFields DEF MsgParcel
<1>3. m.dst = n /\ Wrote(m)  BY <1>1 DEF MsgInv, Bound, Store
<1>4. PICK d \in ConnIds : HasPeerId(n, d, m.id)  BY <1>1 DEF MsgInv, Bound, Store
<1>5. ConnOf(n, m.id) = d /\ d # Null  BY <1>0, <1>2, <1>4, ConnOfRow, MsgAssumption
<1>6. PICK new : new = [conn |-> d, num |-> m.num, body |-> m.body,
                        received |-> TRUE, out |-> FALSE]
  OBVIOUS
<1>7. NumFree(n, d, m.num) /\ msgs' = [msgs EXCEPT ![n] = @ \cup {new}]
  BY <1>1, <1>5, <1>6 DEF Store
<1>8. /\ new.conn = d /\ new.num = m.num /\ new.received
      /\ Entry(new) = [body |-> m.body, mine |-> FALSE, received |-> TRUE]
  BY <1>6 DEF Entry
<1>9. /\ msgs'[n] = msgs[n] \cup {new}
      /\ \A j \in Nodes : j # n => msgs'[j] = msgs[j]
  BY <1>0, <1>7 DEF TypeOK
<1>10. ReadOnArrival'  BY <1>8, <1>9 DEF ReadOnArrival
<1>11. peerOf' = peerOf  BY PeersStay DEF Store
<1>12. PICK j \in Nodes, c \in ConnIds :
         Reaches(j, c, n, d) /\ Has(j, c, m.num, m.body)
  BY <1>0, <1>2, <1>3, <1>4, WroteReaches
<1>13. PICK e \in RowEnds, f \in RowEnds : e = <<j, c>> /\ f = <<n, d>>
  BY DEF RowEnds
<1>14. peerOf[e] = f /\ f # Null
  BY <1>0, <1>12, <1>13, PeerShown, NullAssumption
<1>15. /\ boxOf[e][m.num] # Null /\ boxOf[e][m.num].mine
       /\ boxOf[e][m.num].body = m.body
  <2>1. PICK r \in msgs[j] : r.out /\ r.conn = c /\ r.num = m.num /\ r.body = m.body
    BY <1>12 DEF Has
  <2>2. boxOf[e][m.num] = Entry(r)
    <3>1. boxOf[<<j, c>>][m.num] = Entry(r)  BY <1>0, <1>2, <2>1, RowShown
    <3> QED  BY <1>13, <3>1
  <2>3. Entry(r) # Null  BY <1>0, EntryType DEF TypeOK
  <2> QED  BY <2>1, <2>2, <2>3 DEF Entry
<1>16. boxOf[f][m.num] = Null
  <2>1. \A r \in msgs[n] : ~Numbered(r, d, m.num)
    BY <1>5, <1>7 DEF NumFree, Numbered
  <2>2. boxOf[<<n, d>>][m.num] = Null  BY <1>0, <1>2, <2>1 DEF BoxShown
  <2> QED  BY <1>13, <2>2
<1>17. boxOf'[f][m.num] = Entry(new)
  <2>0. Numbered(new, d, m.num) /\ new \in msgs'[n]
    BY <1>8, <1>9 DEF Numbered
  <2>1. boxOf'[<<n, d>>][m.num] = Entry(new)  BY <1>0, <1>2, <2>0 DEF BoxShown
  <2> QED  BY <1>13, <2>1
<1>18. boxOf' = [boxOf EXCEPT ![f][m.num] = Entry(new)]
  <2>1. \A i \in Nodes, g \in ConnIds, k \in Nums :
          i # n \/ g # d \/ k # m.num => EntrySame(i, g, k)
    BY <1>8, <1>9 DEF EntrySame, Numbered
  <2> QED  BY <1>0, <1>2, <1>13, <1>17, <2>1, OneShown
<1>19. boxOf' # boxOf
  <2>1. Entry(new) # Null  BY <1>0, <1>9, EntryType DEF TypeOK
  <2> QED  BY <1>16, <1>17, <2>1
<1>20. Delivery!Arrive(e, m.num)
  BY <1>8, <1>11, <1>14, <1>15, <1>16, <1>18 DEF Delivery!Arrive, Delivery!Mine
<1>21. Delivery!Next  BY <1>2, <1>19, <1>20 DEF Delivery!Next
<1> QED  BY <1>10, <1>21 DEF DeliveryStep

\* The writer learns of what its peer has stored, unless it knew.
LEMMA HandleRcvDelivers ==
  ASSUME MsgInv, MsgInv', ReadOnArrival, Settled(conns),
         NEW n \in Nodes, NEW m \in net, HandleRcv(n, m)
  PROVE  DeliveryStep
<1> DEFINE Acked(r) == r.num = m.num /\ r.conn = ConnOf(n, m.id) /\ r.conn # Null
           f(r) == IF Acked(r) THEN [r EXCEPT !.received = TRUE] ELSE r
<1>0. TypeOK /\ TypeOK' /\ BoxShown /\ BoxShown' /\ conns' = conns
  BY BoxShownHolds, BoxShownAfter DEF MsgInv, HandleRcv
<1>1. /\ msgs' = [msgs EXCEPT ![n] = {f(r) : r \in msgs[n]}]
      /\ msgs'[n] = {f(r) : r \in msgs[n]}
      /\ \A j \in Nodes : j # n => msgs'[j] = msgs[j]
  BY <1>0 DEF HandleRcv, TypeOK
<1>2. m.id \in Ids /\ m.num \in Nums  BY <1>0, ParcelFields DEF TypeOK
<1>3. \A r \in msgs[n] :
        /\ Same(r, f(r)) /\ (r.received => f(r) = r) /\ (~Acked(r) => f(r) = r)
        /\ Acked(r) => f(r).received
  <2> SUFFICES ASSUME NEW r \in msgs[n]
               PROVE  /\ Same(r, f(r)) /\ (r.received => f(r) = r) /\ (~Acked(r) => f(r) = r)
                      /\ Acked(r) => f(r).received
    OBVIOUS
  <2> HIDE DEF Acked
  <2>1. r \in MsgRow  BY <1>0 DEF TypeOK
  <2>2. CASE Acked(r)
    <3>1. f(r) = [r EXCEPT !.received = TRUE]  BY <2>2
    <3> QED  BY <2>1, <2>2, <3>1 DEF MsgRow, Same
  <2>3. CASE ~Acked(r)  BY <2>3 DEF Same
  <2> QED  BY <2>2, <2>3
<1> HIDE DEF f
<1>4. ReadOnArrival'
  <2> SUFFICES ASSUME NEW r \in msgs[n], ~f(r).out  PROVE f(r).received
    BY <1>1 DEF ReadOnArrival
  <2> QED  BY <1>3 DEF ReadOnArrival, Same
<1>5. CASE \A r \in msgs[n] : Acked(r) => r.received
  <2> HIDE DEF Acked
  <2>1. \A r \in msgs[n] : f(r) = r  BY <1>3, <1>5
  <2>2. msgs'[n] = msgs[n]  BY <1>1, <2>1
  <2>3. msgs' = msgs  BY <1>0, <1>1, <2>2 DEF TypeOK
  <2> QED  BY <1>0, <2>3, QuietDelivers
<1>6. ASSUME NEW r \in msgs[n], Acked(r), ~r.received
      PROVE  DeliveryStep
  <2>0. PICK new : new = f(r)  OBVIOUS
  <2>1. r.out /\ r.conn \in ConnIds /\ r.num = m.num /\ new \in msgs'[n]
        /\ Same(r, new) /\ new.received
    BY <1>0, <1>1, <1>2, <1>3, <1>6, <2>0, ConnOfRow DEF ReadOnArrival
  <2>2. PICK c \in ConnIds, k \in Nums : c = r.conn /\ k = r.num
    BY <1>2, <2>1
  <2>3. StoredAtPeer(n, new)'
    BY <2>1 DEF MsgInv, ReceivedIsTrue, Same
  <2>4. PICK p \in Nodes, d \in ConnIds :
          /\ Reaches(n, c, p, d)
          /\ \E q \in msgs'[p] : q.conn = d /\ q.num = k /\ q.body = r.body /\ ~q.out
    <3>1. new.conn = c /\ new.num = k /\ new.body = r.body  BY <2>1, <2>2 DEF Same
    <3> QED  BY <1>0, <2>3, <3>1 DEF StoredAtPeer, Reaches, IsRow
  <2>5. PICK q \in msgs'[p] : q.conn = d /\ q.num = k /\ q.body = r.body /\ ~q.out
    BY <2>4
  <2>6. PICK s \in msgs[p] : Same(s, q)
    <3>1. CASE p = n  BY <1>1, <1>3, <3>1
    <3>2. CASE p # n  BY <1>1, <3>2 DEF Same
    <3> QED  BY <3>1, <3>2
  <2>7. s.conn = d /\ s.num = k /\ s.body = r.body /\ ~s.out /\ s.received
    BY <2>5, <2>6 DEF Same, ReadOnArrival
  <2>8. PICK e \in RowEnds, g \in RowEnds : e = <<n, c>> /\ g = <<p, d>>
    BY DEF RowEnds
  <2>9. peerOf[e] = g /\ g # Null
    BY <1>0, <2>4, <2>8, PeerShown, NullAssumption
  <2>10. r \in MsgRow /\ s \in MsgRow /\ new \in MsgRow
    BY <1>0, <2>1 DEF TypeOK
  <2>11. boxOf[e][k] = Entry(r)
    <3>1. boxOf[<<n, c>>][k] = Entry(r)  BY <1>0, <2>2, RowShown
    <3> QED  BY <2>8, <3>1
  <2>12. boxOf[g][k] = Entry(s)
    <3>1. boxOf[<<p, d>>][k] = Entry(s)  BY <1>0, <2>7, RowShown
    <3> QED  BY <2>8, <3>1
  <2>13. boxOf'[<<n, c>>][k] = Entry(new)
    <3>1. Numbered(new, c, k)  BY <2>1, <2>2 DEF Same, Numbered
    <3> QED  BY <1>0, <2>1, <3>1 DEF BoxShown
  <2>14. Entry(new) = [Entry(r) EXCEPT !.received = TRUE]
    <3>1. new.received = TRUE  BY <2>1, <2>10 DEF MsgRow
    <3>2. new.out = r.out  BY <2>1, <2>10 DEF Same, MsgRow
    <3>3. new.body = r.body  BY <2>1 DEF Same
    <3>4. Entry(new) = [body |-> r.body, mine |-> r.out, received |-> TRUE]
      BY <3>1, <3>2, <3>3, Zenon DEF Entry
    <3>5. Entry(r) = [body |-> r.body, mine |-> r.out, received |-> r.received]
      BY Zenon DEF Entry
    <3>6. PICK b, o, v, w, x : /\ b = r.body /\ o = r.out /\ v = r.received
                              /\ w = TRUE /\ x = Entry(r)
      BY Zenon
    <3>7. x = [body |-> b, mine |-> o, received |-> v]  BY <3>5, <3>6, Zenon
    <3>8. [x EXCEPT !.received = w] = [body |-> b, mine |-> o, received |-> w]
      BY <3>7
    <3>9. [Entry(r) EXCEPT !.received = TRUE]
            = [body |-> r.body, mine |-> r.out, received |-> TRUE]
      BY <3>6, <3>8, Zenon
    <3> QED  BY <3>4, <3>9, Zenon
  <2>15. \A j \in Nodes, i \in ConnIds, h \in Nums :
           j # n \/ i # c \/ h # k => EntrySame(j, i, h)
    <3> SUFFICES ASSUME NEW i \in ConnIds, NEW h \in Nums, i # c \/ h # k
                 PROVE  EntrySame(n, i, h)
      BY <1>1 DEF EntrySame
    <3>1. \A x \in msgs[n] : Numbered(x, i, h) => f(x) = x
      BY <1>3, <1>6, <2>2 DEF Numbered
    <3>2. \A x \in msgs[n] : Numbered(f(x), i, h) => Numbered(x, i, h)
      BY <1>3 DEF Numbered, Same
    <3> QED  BY <1>1, <3>1, <3>2 DEF EntrySame
  <2>16. boxOf' = [boxOf EXCEPT ![e][k] = Entry(new)]
    BY <1>0, <2>8, <2>13, <2>15, OneShown
  <2>17. boxOf' = [boxOf EXCEPT ![e][k].received = TRUE]
    <3>1. boxOf' = [boxOf EXCEPT ![e][k] = [boxOf[e][k] EXCEPT !.received = TRUE]]
      BY <2>11, <2>14, <2>16
    <3> QED  BY <3>1
  <2>18. boxOf' # boxOf
    <3>1. boxOf'[e][k] = Entry(new)  BY <2>8, <2>13
    <3> QED  BY <1>6, <2>1, <2>11, <3>1 DEF Entry
  <2>19. Entry(r) # Null  BY <2>10, EntryType
  <2>20. Delivery!Learn(e, k)
    <3>1. Delivery!Mine(e, k)  BY <2>1, <2>11, <2>19 DEF Delivery!Mine, Entry
    <3>2. boxOf[g][k] = [body |-> boxOf[e][k].body, mine |-> FALSE, received |-> TRUE]
      <4>1. s.out = FALSE /\ s.received = TRUE  BY <2>7, <2>10 DEF MsgRow
      <4>2. boxOf[e][k].body = r.body  BY <2>11 DEF Entry
      <4>3. s.body = r.body  BY <2>7
      <4> QED  BY <2>12, <4>1, <4>2, <4>3, Zenon DEF Entry
    <3>3. peerOf' = peerOf  BY <1>0, PeersStay
    <3> QED  BY <2>9, <2>17, <3>1, <3>2, <3>3 DEF Delivery!Learn
  <2>21. Delivery!Next  BY <2>18, <2>20 DEF Delivery!Next
  <2> QED  BY <1>4, <2>21 DEF DeliveryStep
<1> QED  BY <1>5, <1>6

-----------------------------------------------------------------------------
(* The theorem. *)

\* Initially no message is shown, and every end reaches one other end at most.
LEMMA DeliveryInit ==
  ASSUME Init
  PROVE  MsgInv /\ ReadOnArrival /\ Delivery!Init
<1>1. MsgInv /\ BoxShown  BY InitInv, BoxShownHolds
<1>2. \A n \in Nodes : msgs[n] = {}  BY DEF Init
<1>3. \A n \in Nodes, c \in ConnIds, k \in Nums : boxOf[<<n, c>>][k] = Null
  BY <1>1, <1>2 DEF BoxShown
<1>4. \A e \in RowEnds, k \in Nums : boxOf[e][k] = Null  BY <1>3 DEF RowEnds
<1>5. boxOf = [e \in RowEnds |-> [k \in Nums |-> Null]]  BY <1>1, <1>4 DEF BoxShown
<1>6. peerOf \in [RowEnds -> RowEnds \cup {Null}]
  <2> SUFFICES ASSUME NEW e \in RowEnds
               PROVE  peerOf[e] \in RowEnds \cup {Null}
    BY DEF peerOf
  <2> DEFINE others == {g \in RowEnds : Reaches(e[1], e[2], g[1], g[2])}
  <2>1. peerOf[e] = IF others = {} THEN Null ELSE CHOOSE g \in others : TRUE
    BY DEF peerOf
  <2> QED  BY <2>1
<1> QED  BY <1>1, <1>2, <1>5, <1>6 DEF ReadOnArrival, Delivery!Init

\* Every step delivers, or shows nothing.
LEMMA StepDelivers ==
  ASSUME TablesSettled, OneCommand, "commit" \notin Faults,
         MsgInv, ReadOnArrival, [Next]_vars
  PROVE  MsgInv' /\ DeliveryStep
<1>2. Settled(conns)  BY DEF MsgInv, TypeOK, TablesSettled
<1>1. MsgInv'  BY <1>2, MsgInvNext
<1>3. CASE Next
  <2>1. CASE msgs' = msgs  BY <1>1, <1>3, <2>1, WhoWrites, QuietDelivers
  <2>2. ASSUME NEW n \in Nodes, NEW k \in Slots, NEW b \in Bodies, SendInsert(n, k, b)
        PROVE  DeliveryStep
    BY <1>1, <2>2, SendInsertDelivers
  <2>3. ASSUME NEW n \in Nodes, Store(n)  PROVE DeliveryStep
    BY <1>1, <1>2, <2>3, StoreDelivers
  <2>4. ASSUME NEW n \in Nodes, NEW m \in net, HandleRcv(n, m)  PROVE DeliveryStep
    BY <1>1, <1>2, <2>4, HandleRcvDelivers
  <2> QED  BY <1>1, <1>3, <2>1, <2>2, <2>3, <2>4, WhoWrites
<1>4. CASE UNCHANGED vars
  <2>1. conns' = conns /\ msgs' = msgs  BY <1>4 DEF vars, nodeVars, msgVars
  <2> QED  BY <1>1, <2>1, QuietDelivers
<1> QED  BY <1>3, <1>4

\* A message is shown at the other end at most once, with its text and under its number,
\* on the connection it was written on; it is never overwritten, and its writer is told
\* that it has arrived only if it has.
THEOREM Delivers ==
  ASSUME TablesSettled, OneCommand, "commit" \notin Faults
  PROVE  Spec => ImplementsDelivery
<1>1. Init => MsgInv /\ ReadOnArrival /\ Delivery!Init  BY DeliveryInit
<1>2. MsgInv /\ ReadOnArrival /\ [Next]_vars
        => MsgInv' /\ ReadOnArrival' /\ [Delivery!Next]_(Delivery!vars)
  BY StepDelivers DEF DeliveryStep
<1> QED  BY <1>1, <1>2, PTL DEF Spec, ImplementsDelivery, Delivery!Spec

=============================================================================
