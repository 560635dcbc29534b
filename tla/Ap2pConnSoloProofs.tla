------------------------- MODULE Ap2pConnSoloProofs -------------------------
(***************************************************************************)
(* What holds of the handshake when a node runs one command at a time, for *)
(* every value of the other constants.                                     *)
(***************************************************************************)
EXTENDS Ap2pConnProofs

OneCommand == \A j, k \in Slots : j = k

-----------------------------------------------------------------------------

\* The action of DecisionIsFinal.
DecidedStay ==
  \A n \in Nodes, c \in ConnIds : Decided(n, c) => conns'[n][c] = conns[n][c]

LEMMA InForceKept ==
  ASSUME RowsKept, DecidedStay, NEW p \in Nodes, NEW id, NEW n, NEW new,
         InForce(p, id, n, new)
  PROVE  InForce(p, id, n, new)'
<1>1. PICK d \in ConnIds : /\ OfferOf(p, d, id, n)
                           /\ conns[p][d].status = "accepted"
                           /\ conns[p][d].peer_id = new
  BY DEF InForce
<1>2. OfferOf(p, d, id, n)'  BY <1>1, OfferKept
<1>3. conns'[p][d] = conns[p][d]
  BY <1>1 DEF DecidedStay, Decided, OfferOf
<1> QED  BY <1>1, <1>2, <1>3 DEF InForce

\* Row d of j, one j asked for, knows its peer and has its ids as before.
SameEnd(j, d) ==
  /\ Asked(j, d)
  /\ conns'[j][d].peer = conns[j][d].peer
  /\ conns'[j][d].peer_id = conns[j][d].peer_id
  /\ conns'[j][d].self_id = conns[j][d].self_id

\* Row d of j got its self_id by this step, on the word of a parcel.
GrantedBy(j, d, m) ==
  /\ m.kind = "CONN_ACC" /\ m.dst = j
  /\ conns'[j][d].peer = m.src
  /\ conns'[j][d].peer_id = m.id
  /\ conns'[j][d].self_id = m.new_id

\* A step that respects decisions keeps SoloInv, if it tells the truth and
\* believes only what it was told.
LEMMA SoloStep ==
  ASSUME SoloInv, IInv', RowsKept, DecidedStay, DecidingAwaits',
         \A j \in Nodes, d \in ConnIds :
           Asked(j, d)' /\ conns'[j][d].self_id # Null =>
             SameEnd(j, d) \/ \E m \in Outgoing : GrantedBy(j, d, m),
         \A j \in Nodes, d \in ConnIds :
           Offered(j, d)' /\ conns'[j][d].status = "self_review" =>
             \/ Offered(j, d) /\ conns'[j][d] = conns[j][d]
             \/ conns'[j][d].peer_id = Null,
         \A m \in Outgoing' :
           \/ m \in Outgoing
           \/ m.kind # "CONN_ACC"
           \/ InForce(m.src, m.id, m.dst, m.new_id)'
  PROVE  SoloInv'
<1>1. AccsTell'
  <2> SUFFICES ASSUME NEW m \in Outgoing', m.kind = "CONN_ACC"
               PROVE  InForce(m.src, m.id, m.dst, m.new_id)'
    BY DEF AccsTell
  <2>1. CASE m \in Outgoing
    <3>1. m.src \in Nodes  BY <2>1 DEF Outgoing, ConnParcel
    <3>2. InForce(m.src, m.id, m.dst, m.new_id)
      BY <2>1 DEF SoloInv, AccsTell
    <3> QED  BY <3>1, <3>2, InForceKept
  <2> QED  BY <2>1
<1>2. ToldIsInForce'
  <2> SUFFICES ASSUME NEW j \in Nodes, NEW d \in ConnIds, Asked(j, d)',
                      conns'[j][d].self_id # Null
               PROVE  InForce(conns[j][d].peer, conns[j][d].peer_id, j,
                              conns[j][d].self_id)'
    BY DEF ToldIsInForce
  <2>1. CASE SameEnd(j, d)
    <3>0. conns[j][d] \in Row
      BY <2>1 DEF SameEnd, SoloInv, IInv, TypeOK, Asked, IsRow
    <3>1. PICK p \in Nodes, id \in Ids \cup {Null}, new \in Ids \cup {Null} :
            /\ p = conns[j][d].peer /\ id = conns[j][d].peer_id
            /\ new = conns[j][d].self_id
      BY <3>0 DEF Row
    <3>2. InForce(p, id, j, new)
      BY <2>1, <3>1 DEF SameEnd, SoloInv, ToldIsInForce
    <3>3. InForce(p, id, j, new)'  BY <3>2, InForceKept
    <3> QED  BY <2>1, <3>1, <3>3 DEF SameEnd
  <2>2. CASE \E m \in Outgoing : GrantedBy(j, d, m)
    <3>1. PICK m \in Outgoing : GrantedBy(j, d, m)  BY <2>2
    <3>2. m.src \in Nodes  BY DEF Outgoing, ConnParcel
    <3>3. InForce(m.src, m.id, m.dst, m.new_id)
      BY <3>1 DEF SoloInv, AccsTell, GrantedBy
    <3>4. InForce(m.src, m.id, m.dst, m.new_id)'  BY <3>2, <3>3, InForceKept
    <3> QED  BY <3>1, <3>4 DEF GrantedBy
  <2> QED  BY <2>1, <2>2
<1>3. ReviewedOnce'  BY DEF SoloInv, ReviewedOnce
<1> QED  BY <1>1, <1>2, <1>3 DEF SoloInv

\* Commands that go on as they were, and whose rows the step leaves alone.
LEMMA DecidersAwait ==
  ASSUME SoloInv,
         \A n \in Nodes, k \in Slots :
           cmd'[n][k].pc = "decide" =>
             /\ cmd'[n][k] = cmd[n][k]
             /\ \A c \in ConnIds : Offered(n, c) /\ c = cmd[n][k].conn =>
                  conns'[n][c] = conns[n][c]
  PROVE  DecidingAwaits'
<1> SUFFICES ASSUME NEW n \in Nodes, NEW k \in Slots, cmd'[n][k].pc = "decide"
             PROVE  conns'[n][cmd'[n][k].conn].status = "self_review"
  BY DEF DecidingAwaits
<1>1. cmd'[n][k] = cmd[n][k]  OBVIOUS
<1>2. PICK c \in ConnIds : c = cmd[n][k].conn
  BY <1>1, CommandDeciding DEF SoloInv, IInv
<1>3. Offered(n, c)
  BY <1>1, <1>2 DEF SoloInv, IInv, DecidingOffers, OfferOf
<1>4. conns[n][c].status = "self_review"
  BY <1>1, <1>2 DEF SoloInv, DecidingAwaits
<1> QED  BY <1>1, <1>2, <1>3, <1>4

-----------------------------------------------------------------------------
(* The steps. *)

LEMMA QuietSolo ==
  ASSUME SoloInv, QuietEffect
  PROVE  SoloInv' /\ DecidedStay /\ RowsKept
<1>1. IInv' /\ RowsKept
  BY QuietStep, RowsUnchanged DEF SoloInv, QuietEffect
<1>2. DecidedStay  BY DEF DecidedStay, QuietEffect
<1>3. DecidingAwaits'  BY DecidersAwait DEF QuietEffect
<1>4. \A j \in Nodes, d \in ConnIds :
        /\ Asked(j, d)' => SameEnd(j, d)
        /\ Offered(j, d)' => Offered(j, d) /\ conns'[j][d] = conns[j][d]
  BY DEF QuietEffect, SameEnd, Asked, Offered, IsRow
<1> QED  BY <1>1, <1>2, <1>3, <1>4, SoloStep DEF QuietEffect

LEMMA DecideSelectSolo ==
  ASSUME SoloInv, NEW n \in Nodes, NEW k \in Slots, NEW c \in ConnIds,
         NEW acc \in BOOLEAN, DecideSelect(n, k, c, acc)
  PROVE  SoloInv' /\ DecidedStay /\ RowsKept
<1>1. IInv' /\ RowsKept
  BY DecideSelectStep, RowsUnchanged DEF SoloInv, DecideSelect
<1>2. conns' = conns /\ net' = net /\ lst' = lst  BY DEF DecideSelect
<1>3. DecidedStay  BY <1>2 DEF DecidedStay
<1>4. \A j \in Nodes, l \in Slots :
        \/ cmd'[j][l] = cmd[j][l]
        \/ j = n /\ cmd'[j][l].pc = "decide" /\ cmd'[j][l].conn = c
  <2> DEFINE v == Deciding(c, conns[n][c].self_id, conns[n][c].peer, acc)
  <2>1. v.pc = "decide" /\ v.conn = c  BY DEF Deciding
  <2>2. cmd' = [cmd EXCEPT ![n][k] = v]  BY DEF DecideSelect
  <2> HIDE DEF v
  <2> QED  BY <2>1, <2>2 DEF SoloInv, IInv, TypeOK
<1>5. DecidingAwaits'
  BY <1>2, <1>4 DEF SoloInv, DecidingAwaits, DecideSelect
<1>6. \A m \in Outgoing' : m \in Outgoing
  <2> SUFFICES ASSUME NEW m \in ConnParcel, NEW j \in Nodes, NEW l \in Slots,
                      cmd'[j][l] = Sending(m)
               PROVE  cmd[j][l] = Sending(m)
    BY <1>2 DEF Outgoing
  <2> QED  BY <1>4, Positions
<1>7. \A j \in Nodes, d \in ConnIds :
        /\ Asked(j, d)' => SameEnd(j, d)
        /\ Offered(j, d)' => Offered(j, d) /\ conns'[j][d] = conns[j][d]
  BY <1>2 DEF SameEnd, Asked, Offered, IsRow
<1> QED  BY <1>1, <1>3, <1>5, <1>6, <1>7, SoloStep

\* A step that adds a row awaiting an answer, and sends no CONN_ACC.
LEMMA NewRowSolo ==
  ASSUME SoloInv, IInv', NEW n \in Nodes, NEW c \in ConnIds, NEW r \in Row,
         ~IsRow(n, c), conns' = [conns EXCEPT ![n][c] = r],
         r.by = "request" => r.self_id = Null,
         r.by = "listener" => r.peer_id = Null,
         \A m \in Outgoing' : m \in Outgoing \/ m.kind # "CONN_ACC",
         \A j \in Nodes, l \in Slots :
           cmd'[j][l] = cmd[j][l] \/ cmd'[j][l].pc # "decide"
  PROVE  SoloInv' /\ DecidedStay /\ RowsKept
<1>0. TypeOK  BY DEF SoloInv, IInv
<1>a. /\ conns'[n][c] = r
      /\ \A j \in Nodes, d \in ConnIds :
           j # n \/ d # c => conns'[j][d] = conns[j][d]
  BY ONLY <1>0, r \in Row, conns' = [conns EXCEPT ![n][c] = r], RowWrite
<1>1. /\ conns'[n][c] = r
      /\ \A j \in Nodes, d \in ConnIds :
           IsRow(j, d) => conns'[j][d] = conns[j][d]
      /\ \A j \in Nodes, d \in ConnIds :
           j # n \/ d # c => conns'[j][d] = conns[j][d]
  BY <1>a
<1>2. RowsKept  BY <1>1 DEF RowsKept, RowKept, IsRow
<1>3. DecidedStay  BY <1>1 DEF DecidedStay, Decided, Offered
<1>4. DecidingAwaits'
  <2>1. \A j \in Nodes, d \in ConnIds : Offered(j, d) => conns'[j][d] = conns[j][d]
    BY <1>1 DEF Offered
  <2> QED  BY <2>1, DecidersAwait
<1>5. \A j \in Nodes, d \in ConnIds :
        /\ Asked(j, d)' /\ conns'[j][d].self_id # Null => SameEnd(j, d)
        /\ Offered(j, d)' => \/ Offered(j, d) /\ conns'[j][d] = conns[j][d]
                             \/ conns'[j][d].peer_id = Null
  BY <1>1 DEF SameEnd, Asked, Offered, IsRow
<1> QED  BY <1>2, <1>3, <1>4, <1>5, SoloStep

LEMMA RequestSolo ==
  ASSUME SoloInv, NEW n \in Nodes, NEW k \in Slots, NEW p \in Nodes,
         Request(n, k, p)
  PROVE  SoloInv' /\ DecidedStay /\ RowsKept
<1>0. IInv /\ TypeOK  BY DEF SoloInv, IInv
<1> DEFINE R(id) == [by |-> "request", peer_id |-> id, self_id |-> Null,
                     peer |-> p, named |-> FALSE, status |-> "pending"]
<1>a. PICK c \in ConnIds, id \in Ids :
        /\ FreshRow(n, c)
        /\ conns' = [conns EXCEPT ![n][c] = R(id)]
        /\ cmd' = [cmd EXCEPT ![n][k] =
                     Sending(Parcel("CONN_REQ", n, p, id, Null))]
  BY DEF Request
<1>b. R(id) \in Row /\ R(id).by = "request" /\ R(id).self_id = Null
  BY DEF Row, ConnStatus
<1> HIDE DEF R
<1>1. PICK r \in Row : r = R(id) /\ r.by = "request" /\ r.self_id = Null  BY <1>b
<1>2. PICK q \in ConnParcel : q = Parcel("CONN_REQ", n, p, id, Null)
                              /\ q.kind = "CONN_REQ"
  BY ParcelType DEF ConnKinds
<1>3. /\ \A m \in Outgoing' : m \in Outgoing \/ m = q
      /\ \A j \in Nodes, l \in Slots :
           cmd'[j][l] = cmd[j][l] \/ cmd'[j][l].pc # "decide"
  <2>1. cmd' = [cmd EXCEPT ![n][k] = Sending(q)] /\ net' = net /\ lst' = lst
    BY <1>a, <1>2 DEF Request
  <2> QED  BY <1>0, <2>1, CmdSends
<1>4. IInv'  BY <1>0, RequestStep
<1>5. conns' = [conns EXCEPT ![n][c] = r] /\ ~IsRow(n, c)
  BY <1>a, <1>1 DEF FreshRow
<1> QED  BY <1>1, <1>2, <1>3, <1>4, <1>5, NewRowSolo

LEMMA HandleReqSolo ==
  ASSUME SoloInv, NEW n \in Nodes, NEW m \in net, HandleReq(n, m)
  PROVE  SoloInv' /\ DecidedStay /\ RowsKept
<1>0. IInv /\ TypeOK /\ m \in ConnParcel
  BY NetOutgoing DEF SoloInv, IInv
<1> DEFINE R == [by |-> "listener", peer_id |-> Null, self_id |-> m.id,
                 peer |-> m.src, named |-> TRUE, status |-> "self_review"]
<1>a. PICK c \in ConnIds : FreshRow(n, c) /\ conns' = [conns EXCEPT ![n][c] = R]
  BY DEF HandleReq
<1>b. R \in Row /\ R.by = "listener" /\ R.peer_id = Null
  BY <1>0 DEF Row, ConnStatus, ConnParcel
<1> HIDE DEF R
<1>1. PICK r \in Row : r = R /\ r.by = "listener" /\ r.peer_id = Null  BY <1>b
<1>2. PICK q \in ConnParcel : q = Parcel("CONN_ACK", n, m.src, m.id, Null)
                              /\ q.kind = "CONN_ACK"
  BY <1>0, ParcelType DEF ConnKinds, ConnParcel
<1>3. lst' = [lst EXCEPT ![n] = Sending(q)] /\ cmd' = cmd /\ net' \subseteq net
  BY <1>2 DEF HandleReq, Receive
<1>4. \A x \in Outgoing' : x \in Outgoing \/ x = q
  BY <1>0, <1>3, LstOutgoing, NetOutgoing, States, Positions
<1>5. IInv'  BY <1>0, HandleReqStep
<1>6. conns' = [conns EXCEPT ![n][c] = r] /\ ~IsRow(n, c)
  BY <1>a, <1>1 DEF FreshRow
<1> QED  BY <1>1, <1>2, <1>3, <1>4, <1>5, <1>6, NewRowSolo

LEMMA HandleReplySolo ==
  ASSUME SoloInv, NEW n \in Nodes, NEW m \in net,
         HandleAck(n, m) \/ HandleRej(n, m) \/ HandleAcc(n, m)
  PROVE  SoloInv' /\ DecidedStay /\ RowsKept
<1>0. IInv  BY DEF SoloInv
<1>1. /\ m \in Outgoing /\ m.dst = n /\ m.kind # "CONN_REQ"
      /\ net' \subseteq net /\ cmd' = cmd /\ lst' = lst
  BY <1>0, ReplyFacts
<1>2. ReplyEffect(n, m)  BY <1>0, ReplyFacts
<1>3. \A d \in ConnIds : HasPeerId(n, d, m.id) =>
        Asked(n, d) /\ conns[n][d].peer = m.src
  BY <1>0, <1>1, ReplyRow
<1>4. \A j \in Nodes, d \in ConnIds :
        Offered(j, d) => conns'[j][d] = conns[j][d]
  BY <1>2, <1>3 DEF ReplyEffect, Asked, Offered
<1>5. IInv'  BY <1>0, HandleReplyStep
<1>6. \A d \in ConnIds : HasPeerId(n, d, m.id) =>
        /\ conns'[n][d].by = conns[n][d].by
        /\ conns'[n][d].peer = conns[n][d].peer
        /\ conns'[n][d].peer_id = conns[n][d].peer_id
        /\ conns'[n][d] # NoRow
        /\ \/ conns'[n][d].self_id = conns[n][d].self_id
           \/ m.kind = "CONN_ACC" /\ conns'[n][d].self_id = m.new_id
  <2> SUFFICES ASSUME NEW d \in ConnIds, HasPeerId(n, d, m.id)
               PROVE  /\ conns'[n][d].by = conns[n][d].by
                      /\ conns'[n][d].peer = conns[n][d].peer
                      /\ conns'[n][d].peer_id = conns[n][d].peer_id
                      /\ conns'[n][d] # NoRow
                      /\ \/ conns'[n][d].self_id = conns[n][d].self_id
                         \/ m.kind = "CONN_ACC" /\ conns'[n][d].self_id = m.new_id
    OBVIOUS
  <2>0. conns[n][d] \in Row  BY <1>2 DEF ReplyEffect
  <2>1. CASE conns'[n][d] = [conns[n][d] EXCEPT !.status = "peer_review"]
    BY <2>0, <2>1, RowStatus, RowAssumption DEF ConnStatus
  <2>2. CASE conns'[n][d] = [conns[n][d] EXCEPT !.status = "rejected"]
    BY <2>0, <2>2, RowStatus, RowAssumption DEF ConnStatus
  <2>3. CASE /\ m.kind = "CONN_ACC"
             /\ conns'[n][d] = [conns[n][d] EXCEPT
                  !.self_id = m.new_id, !.named = TRUE, !.status = "accepted"]
    <3>1. m.new_id \in Ids  BY <1>0, <2>3, ReplyFacts
    <3> QED  BY <2>0, <2>3, <3>1, RowAssumption DEF Row, ConnStatus
  <2> QED  BY <1>2, <2>1, <2>2, <2>3 DEF ReplyEffect
<1>7. \A j \in Nodes, d \in ConnIds :
        j # n \/ ~HasPeerId(n, d, m.id) => conns'[j][d] = conns[j][d]
  BY <1>2 DEF ReplyEffect
<1>8. RowsKept
  <2>1. m.kind = "CONN_ACC" => m.new_id # Null
    BY <1>0, ReplyFacts, NodeAssumption
  <2> QED  BY <2>1, <1>3, <1>4, <1>6, <1>7 DEF RowsKept, RowKept, IsRow, Asked, Offered
<1>9. DecidedStay  BY <1>4 DEF DecidedStay, Decided
<1>10. DecidingAwaits'  BY <1>1, <1>4, DecidersAwait
<1>11. ASSUME NEW j \in Nodes, NEW d \in ConnIds, Asked(j, d)'
       PROVE  SameEnd(j, d) \/ \E x \in Outgoing : GrantedBy(j, d, x)
  <2>1. CASE j = n /\ HasPeerId(n, d, m.id)
    <3>1. GrantedBy(j, d, m) \/ SameEnd(j, d)
      BY <1>1, <1>3, <1>6, <1>11, <2>1 DEF GrantedBy, SameEnd, HasPeerId
    <3> QED  BY <1>1, <3>1
  <2>2. CASE j # n \/ ~HasPeerId(n, d, m.id)
    BY <1>7, <1>11, <2>2 DEF SameEnd, Asked, IsRow
  <2> QED  BY <2>1, <2>2
<1>13. \A j \in Nodes, d \in ConnIds :
         Offered(j, d)' => Offered(j, d) /\ conns'[j][d] = conns[j][d]
  <2>1. \A d \in ConnIds : HasPeerId(n, d, m.id) => ~Offered(n, d)'
    BY <1>3, <1>6 DEF Offered, Asked
  <2> QED  BY <1>7, <2>1 DEF Offered, IsRow
<1>12. \A x \in Outgoing' : x \in Outgoing  BY <1>1 DEF Outgoing
<1> QED  BY <1>5, <1>8, <1>9, <1>10, <1>11, <1>12, <1>13, SoloStep

\* The command that decides is the only one, so its row still awaits it.
LEMMA DecideSolo ==
  ASSUME OneCommand, SoloInv, NEW n \in Nodes, NEW k \in Slots,
         DecideReject(n, k) \/ DecideAccept(n, k)
  PROVE  SoloInv' /\ DecidedStay /\ RowsKept
<1>0. IInv /\ TypeOK  BY DEF SoloInv, IInv
<1>1. PICK c \in ConnIds, i \in Ids, p \in Nodes :
        /\ cmd[n][k].pc = "decide"
        /\ cmd[n][k].conn = c /\ cmd[n][k].id = i /\ cmd[n][k].peer = p
  BY <1>0, CommandDeciding DEF DecideReject, DecideAccept
<1>2. OfferOf(n, c, i, p) /\ Offered(n, c) /\ conns[n][c] \in Row
  BY <1>0, <1>1 DEF IInv, DecidingOffers, OfferOf, Offered, IsRow, TypeOK
<1>3. conns[n][c].status = "self_review"
  BY <1>1 DEF SoloInv, DecidingAwaits
<1>4. PICK r \in Row, q \in ConnParcel :
        /\ conns' = [conns EXCEPT ![n][c] = r]
        /\ cmd' = [cmd EXCEPT ![n][k] = Sending(q)]
        /\ r.by = conns[n][c].by /\ r.peer = conns[n][c].peer
        /\ r.self_id = conns[n][c].self_id
        /\ conns[n][c].peer_id # Null => r.peer_id # Null
        /\ q.src = n /\ q.dst = p /\ q.id = i
        /\ r.status # "self_review"
        /\ q.kind = "CONN_ACC" => r.status = "accepted" /\ r.peer_id = q.new_id
  <2>1. CASE DecideReject(n, k)
    <3>1. PICK q \in ConnParcel : q = Parcel("CONN_REJ", n, p, i, Null)
      BY ParcelType DEF ConnKinds
    <3>2. q.kind = "CONN_REJ" /\ q.src = n /\ q.dst = p /\ q.id = i
      BY <3>1, ParcelType DEF ConnKinds
    <3>3. PICK r \in Row : r = [conns[n][c] EXCEPT !.status = "rejected"]
      BY <1>2 DEF Row, ConnStatus
    <3>4. conns' = [conns EXCEPT ![n][c] = r]
      BY <1>0, <1>1, <2>1, <3>3 DEF DecideReject, TypeOK
    <3>5. cmd' = [cmd EXCEPT ![n][k] = Sending(q)]
      BY <1>1, <2>1, <3>1 DEF DecideReject
    <3>6. /\ r.by = conns[n][c].by /\ r.peer = conns[n][c].peer
          /\ r.self_id = conns[n][c].self_id /\ r.peer_id = conns[n][c].peer_id
          /\ r.status = "rejected"
      BY <1>2, <3>3 DEF Row
    <3> QED  BY <3>2, <3>4, <3>5, <3>6
  <2>2. CASE DecideAccept(n, k)
    <3>0. PICK new \in Ids :
            /\ conns' = [conns EXCEPT ![n][c].peer_id = new,
                                      ![n][c].status = "accepted"]
            /\ cmd' = [cmd EXCEPT ![n][k] =
                         Sending(Parcel("CONN_ACC", n, p, i, new))]
      BY <1>1, <2>2 DEF DecideAccept
    <3>1. PICK q \in ConnParcel : q = Parcel("CONN_ACC", n, p, i, new)
      BY ParcelType DEF ConnKinds
    <3>2. /\ q.kind = "CONN_ACC" /\ q.src = n /\ q.dst = p /\ q.id = i
          /\ q.new_id = new
      BY <3>1, ParcelType DEF ConnKinds
    <3>3. PICK r \in Row :
            r = [conns[n][c] EXCEPT !.peer_id = new, !.status = "accepted"]
      BY <1>2 DEF Row, ConnStatus
    <3>4. conns' = [conns EXCEPT ![n][c] = r]
      BY <1>0, <1>2, <3>0, <3>3 DEF TypeOK, Row
    <3>5. cmd' = [cmd EXCEPT ![n][k] = Sending(q)]
      BY <3>0, <3>1
    <3>6. /\ r.by = conns[n][c].by /\ r.peer = conns[n][c].peer
          /\ r.self_id = conns[n][c].self_id
          /\ r.peer_id = new /\ r.status = "accepted"
      BY <1>2, <3>3 DEF Row
    <3> QED  BY <3>2, <3>4, <3>5, <3>6, NodeAssumption
  <2> QED  BY <2>1, <2>2
<1>5. /\ conns'[n][c] = r
      /\ \A j \in Nodes, d \in ConnIds :
           j # n \/ d # c => conns'[j][d] = conns[j][d]
  <2>1. conns' = [conns EXCEPT ![n][c] = r]  BY <1>4
  <2> QED  BY ONLY <1>0, <2>1, r \in Row, RowWrite
<1>6. net' = net /\ lst' = lst  BY DEF DecideReject, DecideAccept
<1>7. IInv'  BY <1>0, DecideRejectStep, DecideAcceptStep
<1>8. RowsKept
  BY <1>2, <1>4, <1>5, RowAssumption DEF RowsKept, RowKept, IsRow, Asked, Offered
<1>9. DecidedStay
  BY <1>3, <1>5 DEF DecidedStay, Decided
<1>10. /\ \A m \in Outgoing' : m \in Outgoing \/ m = q
       /\ \A j \in Nodes, l \in Slots :
            cmd'[j][l] = cmd[j][l] \/ cmd'[j][l].pc # "decide"
  <2>1. cmd' = [cmd EXCEPT ![n][k] = Sending(q)]  BY <1>4
  <2> QED  BY <1>0, <1>6, <2>1, CmdSends
<1>11. DecidingAwaits'
  <2>1. \A l \in Slots : cmd'[n][l].pc # "decide"
    <3>1. Sending(q).pc # "decide"  BY Positions
    <3>2. cmd'[n][k] = Sending(q)  BY <1>0, <1>4 DEF TypeOK
    <3> QED  BY <3>1, <3>2 DEF OneCommand
  <2>2. \A j \in Nodes, d \in ConnIds : j # n => conns'[j][d] = conns[j][d]
    BY <1>5
  <2> QED  BY <1>10, <2>1, <2>2, DecidersAwait
<1>12. \A j \in Nodes, d \in ConnIds :
         /\ Asked(j, d)' => SameEnd(j, d)
         /\ Offered(j, d)' /\ conns'[j][d].status = "self_review" =>
              Offered(j, d) /\ conns'[j][d] = conns[j][d]
  BY <1>2, <1>4, <1>5 DEF SameEnd, Asked, Offered, IsRow
<1>13. q.kind = "CONN_ACC" => InForce(q.src, q.id, q.dst, q.new_id)'
  <2>1. OfferOf(n, c, i, p)'  BY <1>2, <1>8, OfferKept
  <2> QED  BY <1>4, <1>5, <2>1 DEF InForce
<1> QED  BY <1>7, <1>8, <1>9, <1>10, <1>11, <1>12, <1>13, SoloStep

-----------------------------------------------------------------------------
(* The theorems. *)

LEMMA SoloInit == Init => SoloInv
<1> SUFFICES ASSUME Init PROVE SoloInv  OBVIOUS
<1>1. IInv  BY IInvInit
<1>2. \A n \in Nodes, c \in ConnIds : ~IsRow(n, c)  BY DEF Init, NodeInit, IsRow
<1>3. Outgoing = {}
  <2>1. net = {} /\ \A n \in Nodes, k \in Slots : cmd[n][k] = Idle
    BY DEF Init, NodeInit
  <2>2. \A n \in Nodes : lst[n] = Off \/ lst[n] = Loop  BY DEF Init, NodeInit
  <2> QED  BY <2>1, <2>2, Positions DEF Outgoing
<1>4. DecidingAwaits
  BY Positions DEF Init, NodeInit, DecidingAwaits
<1> QED
  BY <1>1, <1>2, <1>3, <1>4 DEF SoloInv, AccsTell, ToldIsInForce, ReviewedOnce, Asked, Offered

LEMMA SoloStutter ==
  ASSUME SoloInv, UNCHANGED vars
  PROVE  SoloInv' /\ DecidedStay /\ RowsKept
<1> USE DEF vars, nodeVars
<1>1. IInv  BY DEF SoloInv
<1>2. TypeOK'  BY <1>1 DEF IInv, TypeOK
<1>3. \A m \in Outgoing' : m \in Outgoing  BY DEF Outgoing
<1>4. \A n \in Nodes, k \in Slots : cmd'[n][k] = cmd[n][k]  OBVIOUS
<1> QED  BY <1>2, <1>3, <1>4, QuietSolo DEF QuietEffect

LEMMA SoloNext ==
  ASSUME OneCommand, SoloInv, Next
  PROVE  SoloInv' /\ DecidedStay /\ RowsKept
<1>0. IInv  BY DEF SoloInv
<1>1. PICK n \in Nodes : Listener(n) \/ \E k \in Slots : Command(n, k)
  BY DEF Next
<1>2. CASE Listener(n)
  <2>1. CASE Handle(n)
    BY <2>1, HandleReqSolo, HandleReplySolo DEF Handle
  <2> QED
    BY <1>0, <1>2, <2>1, StartListeningQuiet, StopListeningQuiet,
       ListenerSendQuiet, DropParcelQuiet, QuietSolo DEF Listener
<1>3. ASSUME NEW k \in Slots, Command(n, k) PROVE SoloInv' /\ DecidedStay /\ RowsKept
  BY <1>0, <1>3, RequestSolo, DecideSelectSolo, DecideSolo,
     CommandSendQuiet, CommandExitQuiet, QuietSolo DEF Command
<1> QED  BY <1>1, <1>2, <1>3

\* With one command at a time, SoloInv holds through every loss and crash.
THEOREM SoloInductive ==
  ASSUME OneCommand
  PROVE  Spec => []SoloInv
<1>1. SoloInv /\ [Next]_vars => SoloInv'  BY SoloNext, SoloStutter
<1> QED  BY <1>1, SoloInit, PTL DEF Spec

\* With one command at a time, a connection its requester sees as accepted works
\* both ways: the ids on the two sides match.
THEOREM LinkedBothWays ==
  ASSUME OneCommand
  PROVE  Spec => []LinkedWhenAccepted
<1>1. SoloInv => LinkedWhenAccepted
  BY DEF SoloInv, IInv, AskedRows, ToldIsInForce, LinkedWhenAccepted
<1> QED  BY <1>1, SoloInductive, PTL

\* With one command at a time, the row of a decided request never changes again:
\* the check of libap2p.c 472-475 is then enough.
THEOREM DecisionsAreFinal ==
  ASSUME OneCommand
  PROVE  Spec => DecisionIsFinal
<1>1. SoloInv /\ [Next]_vars =>
        [\A n \in Nodes, c \in ConnIds :
           Decided(n, c) => conns'[n][c] = conns[n][c]]_vars
  BY SoloNext, SoloStutter DEF DecidedStay
<1> QED  BY <1>1, SoloInductive, PTL DEF Spec, DecisionIsFinal
=============================================================================
