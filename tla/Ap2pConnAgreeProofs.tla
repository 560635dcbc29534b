------------------------ MODULE Ap2pConnAgreeProofs ------------------------
(***************************************************************************)
(* With one command at a time, Ap2pConn implements ConnAgreement, for      *)
(* every value of the other constants.                                     *)
(***************************************************************************)
EXTENDS Ap2pConnAbs, Ap2pConnSoloProofs

-----------------------------------------------------------------------------
(* The refinement mapping, by rows rather than by CHOOSE.                  *)

Told(s) == IF s = "self_review" THEN "awaited" ELSE s

\* viewOf and answerOf show the row there is of a request.
Shown ==
  /\ viewOf = [r \in RequestRecord |-> viewOf[r]]
  /\ answerOf = [r \in RequestRecord |-> answerOf[r]]
  /\ \A r \in RequestRecord :
       /\ \A c \in ConnIds : AskedRow(r, c) => viewOf[r] = conns[r.from][c].status
       /\ (\A c \in ConnIds : ~AskedRow(r, c)) => viewOf[r] = "none"
       /\ \A c \in ConnIds : OfferRow(r, c) => answerOf[r] = Told(conns[r.to][c].status)
       /\ (\A c \in ConnIds : ~OfferRow(r, c)) => answerOf[r] = "none"

LEMMA ShownHolds == OnceInv => Shown
<1> SUFFICES ASSUME OnceInv PROVE Shown  OBVIOUS
<1>1. viewOf = [r \in RequestRecord |-> viewOf[r]]  BY DEF viewOf
<1>2. answerOf = [r \in RequestRecord |-> answerOf[r]]  BY DEF answerOf
<1>3. ASSUME NEW r \in RequestRecord
      PROVE  /\ \A c \in ConnIds : AskedRow(r, c) => viewOf[r] = conns[r.from][c].status
             /\ (\A c \in ConnIds : ~AskedRow(r, c)) => viewOf[r] = "none"
  <2> DEFINE x == CHOOSE c \in ConnIds : AskedRow(r, c)
  <2>1. viewOf[r] = IF \E c \in ConnIds : AskedRow(r, c)
                    THEN conns[r.from][x].status ELSE "none"
    BY DEF viewOf
  <2>2. ASSUME NEW c \in ConnIds, AskedRow(r, c) PROVE x = c
    <3>1. x \in ConnIds /\ AskedRow(r, x)  BY <2>2
    <3>2. r.from \in Nodes /\ r.id \in Ids /\ r.id # Null
      BY NodeAssumption DEF RequestRecord
    <3> HIDE DEF x
    <3> QED
      BY <2>2, <3>1, <3>2 DEF OnceInv, IInv, PeerIdsDiffer, AskedRow, Asked
  <2> HIDE DEF x
  <2> QED  BY <2>1, <2>2
<1>4. ASSUME NEW r \in RequestRecord
      PROVE  /\ \A c \in ConnIds : OfferRow(r, c) =>
                  answerOf[r] = Told(conns[r.to][c].status)
             /\ (\A c \in ConnIds : ~OfferRow(r, c)) => answerOf[r] = "none"
  <2> DEFINE x == CHOOSE c \in ConnIds : OfferRow(r, c)
  <2>1. answerOf[r] = IF \E c \in ConnIds : OfferRow(r, c)
                      THEN Told(conns[r.to][x].status) ELSE "none"
    BY DEF answerOf, Told
  <2>2. ASSUME NEW c \in ConnIds, OfferRow(r, c) PROVE x = c
    <3>1. x \in ConnIds /\ OfferRow(r, x)  BY <2>2
    <3>2. r.to \in Nodes  BY DEF RequestRecord
    <3> HIDE DEF x
    <3> QED  BY <2>2, <3>1, <3>2 DEF OnceInv, OneOfferPerRequest, OfferRow, OfferOf
  <2> HIDE DEF x
  <2> QED  BY <2>1, <2>2
<1> QED  BY <1>1, <1>2, <1>3, <1>4 DEF Shown

LEMMA ShownAfter == OnceInv' => Shown'
BY ShownHolds, PTL

-----------------------------------------------------------------------------
(* What a step may do to the rows, and what that does to the mapping.      *)

\* Of the rows, only row c of n may change.
OneRow(n, c) ==
  \A j \in Nodes, d \in ConnIds : j # n \/ d # c => conns'[j][d] = conns[j][d]

\* Row c is written at the node that makes request q: a new row, or the one of q.
AskedWrite(q, c) ==
  /\ OneRow(q.from, c)
  /\ AskedRow(q, c)'
  /\ IsRow(q.from, c) => AskedRow(q, c)

\* Row c is written at the node request q is made of, likewise.
OfferWrite(q, c) ==
  /\ OneRow(q.to, c)
  /\ OfferRow(q, c)'
  /\ IsRow(q.to, c) => OfferRow(q, c)

RowEffect ==
  \/ conns' = conns
  \/ \E q \in RequestRecord, c \in ConnIds : AskedWrite(q, c) \/ OfferWrite(q, c)

\* A request is told by its three parts.
LEMMA SameRequest ==
  ASSUME NEW r \in RequestRecord, NEW q \in RequestRecord,
         r.from = q.from, r.id = q.id, r.to = q.to
  PROVE  r = q
BY DEF RequestRecord

\* The rows of requests that make request r, or put it up for review, are as they were.
AskedSame(r) ==
  \A x \in ConnIds : /\ AskedRow(r, x)' <=> AskedRow(r, x)
                     /\ AskedRow(r, x) => conns'[r.from][x] = conns[r.from][x]
OfferSame(r) ==
  \A x \in ConnIds : /\ OfferRow(r, x)' <=> OfferRow(r, x)
                     /\ OfferRow(r, x) => conns'[r.to][x] = conns[r.to][x]

LEMMA SameShown ==
  ASSUME Shown, Shown', NEW r \in RequestRecord
  PROVE  /\ AskedSame(r) => viewOf'[r] = viewOf[r]
         /\ OfferSame(r) => answerOf'[r] = answerOf[r]
<1>1. ASSUME AskedSame(r) PROVE viewOf'[r] = viewOf[r]
  <2>1. CASE \E x \in ConnIds : AskedRow(r, x)
    BY <1>1, <2>1 DEF Shown, AskedSame
  <2>2. CASE \A x \in ConnIds : ~AskedRow(r, x)
    BY <1>1, <2>2 DEF Shown, AskedSame
  <2> QED  BY <2>1, <2>2
<1>2. ASSUME OfferSame(r) PROVE answerOf'[r] = answerOf[r]
  <2>1. CASE \E x \in ConnIds : OfferRow(r, x)
    BY <1>2, <2>1 DEF Shown, OfferSame
  <2>2. CASE \A x \in ConnIds : ~OfferRow(r, x)
    BY <1>2, <2>2 DEF Shown, OfferSame
  <2> QED  BY <2>1, <2>2
<1> QED  BY <1>1, <1>2

LEMMA NothingShown ==
  ASSUME Shown, Shown', conns' = conns
  PROVE  viewOf' = viewOf /\ answerOf' = answerOf
<1>1. \A r \in RequestRecord : AskedSame(r) /\ OfferSame(r)
  BY DEF AskedSame, OfferSame, AskedRow, OfferRow, OfferOf, Asked, Offered, IsRow
<1>2. \A r \in RequestRecord : viewOf'[r] = viewOf[r] /\ answerOf'[r] = answerOf[r]
  BY <1>1, SameShown
<1> QED  BY <1>2 DEF Shown

\* A write at the requester changes what is shown of its request, and nothing else.
LEMMA AskedShown ==
  ASSUME Shown, Shown', NEW q \in RequestRecord, NEW c \in ConnIds, AskedWrite(q, c)
  PROVE  /\ viewOf' = [viewOf EXCEPT ![q] = conns'[q.from][c].status]
         /\ answerOf' = answerOf
<1>0. q.from \in Nodes  BY DEF RequestRecord
<1>1. ASSUME NEW r \in RequestRecord, r # q PROVE AskedSame(r)
  <2> SUFFICES ASSUME NEW x \in ConnIds
               PROVE  /\ AskedRow(r, x)' <=> AskedRow(r, x)
                      /\ AskedRow(r, x) => conns'[r.from][x] = conns[r.from][x]
    BY DEF AskedSame
  <2>1. r.from \in Nodes  BY DEF RequestRecord
  <2>2. CASE r.from # q.from \/ x # c
    BY <2>1, <2>2 DEF AskedWrite, OneRow, AskedRow, Asked, IsRow
  <2>3. CASE r.from = q.from /\ x = c
    <3>1. ~AskedRow(r, c)'
      BY <1>1, <2>3, SameRequest DEF AskedWrite, AskedRow
    <3>2. ~AskedRow(r, c)
      BY <1>1, <2>3, SameRequest DEF AskedWrite, AskedRow, Asked
    <3> QED  BY <2>3, <3>1, <3>2
  <2> QED  BY <2>2, <2>3
<1>2. ASSUME NEW r \in RequestRecord PROVE OfferSame(r)
  <2> SUFFICES ASSUME NEW x \in ConnIds
               PROVE  /\ OfferRow(r, x)' <=> OfferRow(r, x)
                      /\ OfferRow(r, x) => conns'[r.to][x] = conns[r.to][x]
    BY DEF OfferSame
  <2>1. r.to \in Nodes  BY DEF RequestRecord
  <2>2. CASE r.to # q.from \/ x # c
    BY <2>1, <2>2 DEF AskedWrite, OneRow, OfferRow, OfferOf, Offered, IsRow
  <2>3. CASE r.to = q.from /\ x = c
    <3>1. ~OfferRow(r, c)'
      BY <2>3 DEF AskedWrite, AskedRow, Asked, OfferRow, OfferOf, Offered
    <3>2. ~OfferRow(r, c)
      BY <2>3 DEF AskedWrite, AskedRow, Asked, OfferRow, OfferOf, Offered
    <3> QED  BY <2>3, <3>1, <3>2
  <2> QED  BY <2>2, <2>3
<1>3. /\ \A r \in RequestRecord : r # q => viewOf'[r] = viewOf[r]
      /\ \A r \in RequestRecord : answerOf'[r] = answerOf[r]
  BY <1>1, <1>2, SameShown
<1>4. viewOf'[q] = conns'[q.from][c].status
  BY DEF Shown, AskedWrite
<1>5. /\ viewOf = [r \in RequestRecord |-> viewOf[r]]
      /\ viewOf' = [r \in RequestRecord |-> viewOf'[r]]
      /\ answerOf = [r \in RequestRecord |-> answerOf[r]]
      /\ answerOf' = [r \in RequestRecord |-> answerOf'[r]]
  BY DEF Shown
<1> QED  BY <1>3, <1>4, <1>5

\* A write at the node asked changes its answer to that request, and nothing else.
LEMMA OfferShown ==
  ASSUME Shown, Shown', NEW q \in RequestRecord, NEW c \in ConnIds, OfferWrite(q, c)
  PROVE  /\ answerOf' = [answerOf EXCEPT ![q] = Told(conns'[q.to][c].status)]
         /\ viewOf' = viewOf
<1>0. q.to \in Nodes  BY DEF RequestRecord
<1>1. ASSUME NEW r \in RequestRecord, r # q PROVE OfferSame(r)
  <2> SUFFICES ASSUME NEW x \in ConnIds
               PROVE  /\ OfferRow(r, x)' <=> OfferRow(r, x)
                      /\ OfferRow(r, x) => conns'[r.to][x] = conns[r.to][x]
    BY DEF OfferSame
  <2>1. r.to \in Nodes  BY DEF RequestRecord
  <2>2. CASE r.to # q.to \/ x # c
    BY <2>1, <2>2 DEF OfferWrite, OneRow, OfferRow, OfferOf, Offered, IsRow
  <2>3. CASE r.to = q.to /\ x = c
    <3>1. ~OfferRow(r, c)'
      BY <1>1, <2>3, SameRequest DEF OfferWrite, OfferRow, OfferOf
    <3>2. ~OfferRow(r, c)
      BY <1>1, <2>3, SameRequest DEF OfferWrite, OfferRow, OfferOf, Offered
    <3> QED  BY <2>3, <3>1, <3>2
  <2> QED  BY <2>2, <2>3
<1>2. ASSUME NEW r \in RequestRecord PROVE AskedSame(r)
  <2> SUFFICES ASSUME NEW x \in ConnIds
               PROVE  /\ AskedRow(r, x)' <=> AskedRow(r, x)
                      /\ AskedRow(r, x) => conns'[r.from][x] = conns[r.from][x]
    BY DEF AskedSame
  <2>1. r.from \in Nodes  BY DEF RequestRecord
  <2>2. CASE r.from # q.to \/ x # c
    BY <2>1, <2>2 DEF OfferWrite, OneRow, AskedRow, Asked, IsRow
  <2>3. CASE r.from = q.to /\ x = c
    <3>1. ~AskedRow(r, c)'
      BY <2>3 DEF OfferWrite, AskedRow, Asked, OfferRow, OfferOf, Offered
    <3>2. ~AskedRow(r, c)
      BY <2>3 DEF OfferWrite, AskedRow, Asked, OfferRow, OfferOf, Offered
    <3> QED  BY <2>3, <3>1, <3>2
  <2> QED  BY <2>2, <2>3
<1>3. /\ \A r \in RequestRecord : r # q => answerOf'[r] = answerOf[r]
      /\ \A r \in RequestRecord : viewOf'[r] = viewOf[r]
  BY <1>1, <1>2, SameShown
<1>4. answerOf'[q] = Told(conns'[q.to][c].status)
  BY DEF Shown, OfferWrite, Told
<1>5. /\ viewOf = [r \in RequestRecord |-> viewOf[r]]
      /\ viewOf' = [r \in RequestRecord |-> viewOf'[r]]
      /\ answerOf = [r \in RequestRecord |-> answerOf[r]]
      /\ answerOf' = [r \in RequestRecord |-> answerOf'[r]]
  BY DEF Shown
<1> QED  BY <1>3, <1>4, <1>5

-----------------------------------------------------------------------------
(* What a step owes: rows written one at a time, true news, and a step of  *)
(* ConnAgreement or none.                                                  *)

TrueNews(m) ==
  /\ m.kind = "CONN_ACK" => \E d \in ConnIds : OfferOf(m.src, d, m.id, m.dst)
  /\ m.kind = "CONN_REJ" =>
       \E d \in ConnIds : /\ OfferOf(m.src, d, m.id, m.dst)
                          /\ conns[m.src][d].status = "rejected"

NewsEffect ==
  \A m \in Outgoing' :
    m \in Outgoing \/ m.kind \in {"CONN_REQ", "CONN_ACC"} \/ TrueNews(m)'

AgreeStep == RowEffect /\ NewsEffect /\ [Agreement!Next]_(Agreement!vars)

\* Offers stay, and so does a rejection.
LEMMA OffersStay ==
  ASSUME RowEffect, DecidedStay, NEW p \in Nodes, NEW d \in ConnIds, NEW id, NEW n,
         OfferOf(p, d, id, n)
  PROVE  /\ OfferOf(p, d, id, n)'
         /\ conns[p][d].status = "rejected" => conns'[p][d].status = "rejected"
<1>1. OfferOf(p, d, id, n)'
  <2>1. CASE conns'[p][d] = conns[p][d]
    BY <2>1 DEF OfferOf, Offered, IsRow
  <2>2. ASSUME conns'[p][d] # conns[p][d] PROVE OfferOf(p, d, id, n)'
    <3>1. PICK q \in RequestRecord, c \in ConnIds : AskedWrite(q, c) \/ OfferWrite(q, c)
      BY <2>2 DEF RowEffect
    <3>2. CASE AskedWrite(q, c)
      BY <2>2, <3>2 DEF AskedWrite, OneRow, AskedRow, Asked, OfferOf, Offered
    <3>3. CASE OfferWrite(q, c)
      BY <2>2, <3>3 DEF OfferWrite, OneRow, OfferRow, OfferOf, Offered
    <3> QED  BY <3>1, <3>2, <3>3
  <2> QED  BY <2>1, <2>2
<1>2. conns[p][d].status = "rejected" => conns'[p][d] = conns[p][d]
  BY DEF DecidedStay, Decided, OfferOf
<1> QED  BY <1>1, <1>2

LEMMA NewsStaysTrue ==
  ASSUME NewsIsTrue, RowEffect, DecidedStay, NewsEffect
  PROVE  NewsIsTrue'
<1> SUFFICES ASSUME NEW m \in Outgoing' PROVE TrueNews(m)'
  BY DEF NewsIsTrue, TrueNews
<1>1. CASE m \in Outgoing
  <2>1. m.src \in Nodes  BY DEF Outgoing, ConnParcel
  <2>2. TrueNews(m)  BY <1>1 DEF NewsIsTrue, TrueNews
  <2>3. CASE m.kind = "CONN_ACK"
    BY <2>1, <2>2, <2>3, OffersStay DEF TrueNews
  <2>4. CASE m.kind = "CONN_REJ"
    <3>1. PICK d \in ConnIds : OfferOf(m.src, d, m.id, m.dst)
                               /\ conns[m.src][d].status = "rejected"
      BY <2>2, <2>4 DEF TrueNews
    <3>2. OfferOf(m.src, d, m.id, m.dst)' /\ conns'[m.src][d].status = "rejected"
      BY <2>1, <3>1, OffersStay
    <3> QED  BY <2>4, <3>2 DEF TrueNews
  <2> QED  BY <2>3, <2>4 DEF TrueNews
<1>2. CASE m.kind \in {"CONN_REQ", "CONN_ACC"}
  BY <1>2 DEF TrueNews
<1> QED  BY <1>1, <1>2 DEF NewsEffect

-----------------------------------------------------------------------------
(* The steps. *)

\* A step that writes no row and sends no news.
LEMMA QuietAgrees ==
  ASSUME AgreeInv, OnceInv', conns' = conns, \A m \in Outgoing' : m \in Outgoing
  PROVE  AgreeStep
<1>1. viewOf' = viewOf /\ answerOf' = answerOf
  BY ShownHolds, ShownAfter, NothingShown DEF AgreeInv
<1> QED  BY <1>1 DEF AgreeStep, RowEffect, NewsEffect, Agreement!vars

LEMMA RequestAgrees ==
  ASSUME AgreeInv, OnceInv', NEW n \in Nodes, NEW k \in Slots, NEW p \in Nodes,
         Request(n, k, p)
  PROVE  AgreeStep
<1>0. OnceInv /\ TypeOK /\ Shown /\ Shown'
  BY ShownHolds, ShownAfter DEF AgreeInv, OnceInv, IInv
<1> DEFINE R(id) == [by |-> "request", peer_id |-> id, self_id |-> Null,
                     peer |-> p, named |-> FALSE, status |-> "pending"]
<1>1. PICK c \in ConnIds, id \in Ids :
        /\ FreshRow(n, c) /\ PeerIdFree(n, c, id)
        /\ conns' = [conns EXCEPT ![n][c] = R(id)]
        /\ cmd' = [cmd EXCEPT ![n][k] = Sending(Parcel("CONN_REQ", n, p, id, Null))]
  BY DEF Request
<1>2. /\ R(id) \in Row /\ R(id).by = "request" /\ R(id).peer_id = id
      /\ R(id).peer = p /\ R(id).status = "pending"
  BY DEF Row, ConnStatus
<1> HIDE DEF R
<1>3. conns'[n][c] = R(id) /\ OneRow(n, c)
  <2>1. PICK r \in Row : r = R(id)  BY <1>2
  <2>2. conns' = [conns EXCEPT ![n][c] = r]  BY <1>1, <2>1
  <2>3. conns'[n][c] = r /\ OneRow(n, c)
    BY ONLY <1>0, <2>2, r \in Row, RowWrite DEF OneRow
  <2> QED  BY <2>1, <2>3
<1>4. PICK q \in RequestRecord : q.from = n /\ q.id = id /\ q.to = p
  <2>1. [from |-> n, id |-> id, to |-> p] \in RequestRecord  BY DEF RequestRecord
  <2> QED  BY <2>1
<1>5. AskedWrite(q, c)
  BY <1>1, <1>2, <1>3, <1>4, RowAssumption
  DEF AskedWrite, AskedRow, Asked, IsRow, FreshRow
<1>6. viewOf' = [viewOf EXCEPT ![q] = "pending"] /\ answerOf' = answerOf
  BY <1>0, <1>2, <1>3, <1>4, <1>5, AskedShown
<1>7. \A r \in RequestRecord : r.from = q.from /\ r.id = q.id => viewOf[r] = "none"
  <2> SUFFICES ASSUME NEW r \in RequestRecord, r.from = q.from, r.id = q.id
               PROVE  viewOf[r] = "none"
    OBVIOUS
  <2>1. \A x \in ConnIds : ~AskedRow(r, x)
    BY <1>1, <1>4 DEF AskedRow, Asked, FreshRow, PeerIdFree, HasPeerId
  <2> QED  BY <1>0, <2>1 DEF Shown
<1>8. Agreement!Next
  <2>1. Agreement!Ask(q)
    BY <1>4, <1>6, <1>7 DEF Agreement!Ask, Agreement!Request, RequestRecord
  <2> QED  BY <2>1 DEF Agreement!Next, Agreement!Request, RequestRecord
<1>9. NewsEffect
  <2>1. PICK x \in ConnParcel : x = Parcel("CONN_REQ", n, p, id, Null)
                                /\ x.kind = "CONN_REQ"
    BY ParcelType DEF ConnKinds
  <2>2. cmd' = [cmd EXCEPT ![n][k] = Sending(x)] /\ net' = net /\ lst' = lst
    BY <1>1, <2>1 DEF Request
  <2>3. \A m \in Outgoing' : m \in Outgoing \/ m = x
    BY <1>0, <2>2, CmdSends
  <2> QED  BY <2>1, <2>3 DEF NewsEffect
<1> QED  BY <1>5, <1>8, <1>9 DEF AgreeStep, RowEffect

\* The CONN_REQ comes from a node that shows the request, and meets no row of it.
LEMMA HandleReqAgrees ==
  ASSUME AgreeInv, OnceInv', NEW n \in Nodes, NEW m \in net, HandleReq(n, m)
  PROVE  AgreeStep
<1>0. /\ OnceInv /\ IInv /\ TypeOK /\ Shown /\ Shown'
      /\ m \in Outgoing /\ m \in ConnParcel
  BY ShownHolds, ShownAfter, NetOutgoing DEF AgreeInv, OnceInv, IInv
<1>1. /\ m.dst = n /\ m.kind = "CONN_REQ" /\ net' \subseteq net /\ cmd' = cmd
      /\ m.src \in Nodes /\ m.id \in Ids
  BY <1>0 DEF HandleReq, Receive, ConnParcel
<1> DEFINE R == [by |-> "listener", peer_id |-> Null, self_id |-> m.id,
                 peer |-> m.src, named |-> TRUE, status |-> "self_review"]
<1>2. PICK c \in ConnIds : FreshRow(n, c) /\ conns' = [conns EXCEPT ![n][c] = R]
  BY DEF HandleReq
<1>3. /\ R \in Row /\ R.by = "listener" /\ R.self_id = m.id /\ R.peer = m.src
      /\ R.status = "self_review"
  BY <1>1 DEF Row, ConnStatus
<1> HIDE DEF R
<1>4. conns'[n][c] = R /\ OneRow(n, c)
  BY ONLY <1>0, <1>2, <1>3, RowWrite DEF OneRow
<1>5. PICK q \in RequestRecord : q.from = m.src /\ q.id = m.id /\ q.to = n
  <2>1. [from |-> m.src, id |-> m.id, to |-> n] \in RequestRecord
    BY <1>1 DEF RequestRecord
  <2> QED  BY <2>1
<1>6. OfferRow(q, c)'
  BY <1>3, <1>4, <1>5, RowAssumption DEF OfferRow, OfferOf, Offered, IsRow
<1>7. OfferWrite(q, c)
  BY <1>2, <1>4, <1>5, <1>6 DEF OfferWrite, FreshRow
<1>8. answerOf' = [answerOf EXCEPT ![q] = "awaited"] /\ viewOf' = viewOf
  BY <1>0, <1>3, <1>4, <1>5, <1>7, OfferShown DEF Told
<1>9. viewOf[q] # "none"
  <2>1. PICK x \in ConnIds : AskedRow(q, x)
    BY <1>0, <1>1, <1>5 DEF IInv, ParcelsHaveRows, Requested, AskedRow
  <2>2. conns[q.from][x].status \in ConnStatus
    BY <1>0, <1>1, <1>5, <2>1 DEF TypeOK, AskedRow, Asked, IsRow, Row
  <2> QED  BY <1>0, <2>1, <2>2 DEF Shown, ConnStatus
<1>10. answerOf[q] = "none"
  <2>1. \A x \in ConnIds : ~OfferRow(q, x)
    BY <1>0, <1>1, <1>5 DEF OnceInv, ReqsUnmade, OfferRow
  <2> QED  BY <1>0, <2>1 DEF Shown
<1>11. Agreement!Next
  <2>1. Agreement!Offer(q)  BY <1>8, <1>9, <1>10 DEF Agreement!Offer
  <2> QED  BY <2>1 DEF Agreement!Next, Agreement!Request, RequestRecord
<1>12. NewsEffect
  <2>1. PICK x \in ConnParcel : x = Parcel("CONN_ACK", n, m.src, m.id, Null)
    BY <1>1, ParcelType DEF ConnKinds
  <2>2. x.kind = "CONN_ACK" /\ x.src = n /\ x.dst = m.src /\ x.id = m.id
    BY <1>1, <2>1, ParcelType DEF ConnKinds
  <2>3. lst' = [lst EXCEPT ![n] = Sending(x)]  BY <2>1 DEF HandleReq
  <2>4. \A y \in Outgoing' : y \in Outgoing \/ y = x
    BY <1>0, <1>1, <2>3, LstOutgoing, NetOutgoing, States, Positions
  <2>5. TrueNews(x)'  BY <1>5, <1>6, <2>2 DEF TrueNews, OfferRow
  <2> QED  BY <2>4, <2>5 DEF NewsEffect
<1> QED  BY <1>7, <1>11, <1>12 DEF AgreeStep, RowEffect

\* A reply tells its receiver what is so of the request it made.
LEMMA ReplyAgrees ==
  ASSUME AgreeInv, OnceInv', NEW n \in Nodes, NEW m \in net,
         HandleAck(n, m) \/ HandleRej(n, m) \/ HandleAcc(n, m)
  PROVE  AgreeStep
<1>0. /\ OnceInv /\ IInv /\ TypeOK /\ Shown /\ Shown'
      /\ m \in Outgoing /\ m \in ConnParcel
  BY ShownHolds, ShownAfter, NetOutgoing DEF AgreeInv, OnceInv, IInv
<1>1. /\ m.dst = n /\ m.kind # "CONN_REQ" /\ m.id \in Ids /\ m.id # Null
      /\ net' \subseteq net /\ cmd' = cmd /\ lst' = lst
      /\ ReplyEffect(n, m) /\ m.src \in Nodes
      /\ m.kind = "CONN_ACC" => m.new_id \in Ids
  BY <1>0, ReplyFacts, NodeAssumption DEF ConnParcel
<1>2. PICK q \in RequestRecord : q.from = n /\ q.id = m.id /\ q.to = m.src
  <2>1. [from |-> n, id |-> m.id, to |-> m.src] \in RequestRecord
    BY <1>1 DEF RequestRecord
  <2> QED  BY <2>1
<1>3. PICK c \in ConnIds : AskedRow(q, c)
  BY <1>0, <1>1, <1>2 DEF IInv, ParcelsHaveRows, Requested, AskedRow
<1>4. HasPeerId(n, c, m.id) /\ conns[n][c] \in Row
  BY <1>0, <1>2, <1>3 DEF AskedRow, Asked, HasPeerId, IsRow, TypeOK
<1>5. \A d \in ConnIds : HasPeerId(n, d, m.id) => d = c
  BY <1>0, <1>1, <1>4 DEF IInv, PeerIdsDiffer, HasPeerId
<1>6. OneRow(n, c)
  BY <1>1, <1>5 DEF ReplyEffect, OneRow
<1>7. /\ conns'[n][c] # NoRow /\ conns'[n][c].by = conns[n][c].by
      /\ conns'[n][c].peer_id = conns[n][c].peer_id
      /\ conns'[n][c].peer = conns[n][c].peer
  <2>1. \/ conns'[n][c] = [conns[n][c] EXCEPT !.status = "peer_review"]
        \/ conns'[n][c] = [conns[n][c] EXCEPT !.status = "rejected"]
        \/ /\ m.new_id \in Ids
           /\ conns'[n][c] = [conns[n][c] EXCEPT
                !.self_id = m.new_id, !.named = TRUE, !.status = "accepted"]
    BY <1>1, <1>4 DEF ReplyEffect
  <2>2. \A r \in Row :
          LET x == [r EXCEPT !.status = "peer_review"]
              y == [r EXCEPT !.status = "rejected"]
              z == [r EXCEPT !.self_id = m.new_id, !.named = TRUE, !.status = "accepted"]
          IN  /\ x.by = r.by /\ x.peer_id = r.peer_id /\ x.peer = r.peer
              /\ y.by = r.by /\ y.peer_id = r.peer_id /\ y.peer = r.peer
              /\ z.by = r.by /\ z.peer_id = r.peer_id /\ z.peer = r.peer
              /\ x \in Row /\ y \in Row
              /\ m.new_id \in Ids => z \in Row
    BY DEF Row, ConnStatus
  <2>3. conns'[n][c] \in Row  BY <1>4, <2>1, <2>2
  <2> QED  BY <1>4, <2>1, <2>2, <2>3, RowAssumption
<1>8. AskedWrite(q, c)
  BY <1>2, <1>3, <1>6, <1>7 DEF AskedWrite, AskedRow, Asked, IsRow
<1>9. viewOf' = [viewOf EXCEPT ![q] = conns'[n][c].status] /\ answerOf' = answerOf
  BY <1>0, <1>2, <1>8, AskedShown
<1>10. viewOf[q] # "none"
  <2>1. conns[n][c].status \in ConnStatus  BY <1>4 DEF Row
  <2> QED  BY <1>0, <1>2, <1>3, <2>1 DEF Shown, ConnStatus
<1>11. \/ conns'[n][c].status = "peer_review" /\ answerOf[q] # "none"
       \/ conns'[n][c].status = "rejected" /\ answerOf[q] = "rejected"
       \/ conns'[n][c].status = "accepted" /\ answerOf[q] = "accepted"
  <2>1. CASE HandleAck(n, m)
    <3>1. conns'[n][c].status = "peer_review"
      <4>1. conns'[n][c] = [conns[n][c] EXCEPT !.status = "peer_review"]
        BY <1>0, <1>4, <2>1 DEF HandleAck, Acknowledged, TypeOK
      <4> QED  BY <1>4, <4>1 DEF Row
    <3>2. PICK d \in ConnIds : OfferRow(q, d)
      BY <1>0, <1>1, <1>2, <2>1
      DEF HandleAck, Receive, AgreeInv, NewsIsTrue, OfferRow
    <3>3. conns[m.src][d].status \in ConnStatus
      BY <1>0, <1>1, <1>2, <3>2 DEF OfferRow, OfferOf, Offered, IsRow, TypeOK, Row
    <3>4. answerOf[q] = Told(conns[m.src][d].status)
      BY <1>0, <1>2, <3>2 DEF Shown
    <3> QED  BY <3>1, <3>3, <3>4 DEF Told, ConnStatus
  <2>2. CASE HandleRej(n, m)
    <3>1. conns'[n][c].status = "rejected"
      <4>1. conns'[n][c] = [conns[n][c] EXCEPT !.status = "rejected"]
        BY <1>0, <1>4, <2>2 DEF HandleRej, Refused, TypeOK
      <4> QED  BY <1>4, <4>1 DEF Row
    <3>2. PICK d \in ConnIds : OfferRow(q, d) /\ conns[m.src][d].status = "rejected"
      BY <1>0, <1>1, <1>2, <2>2
      DEF HandleRej, Receive, AgreeInv, NewsIsTrue, OfferRow
    <3>3. answerOf[q] = Told("rejected")
      BY <1>0, <1>2, <3>2 DEF Shown
    <3> QED  BY <3>1, <3>3 DEF Told
  <2>3. CASE HandleAcc(n, m)
    <3>1. conns'[n][c].status = "accepted"
      <4>1. conns'[n][c] = [conns[n][c] EXCEPT !.self_id = m.new_id,
                              !.named = TRUE, !.status = "accepted"]
        BY <1>0, <1>4, <2>3 DEF HandleAcc, Granted, TypeOK
      <4> QED  BY <1>4, <4>1 DEF Row
    <3>2. PICK d \in ConnIds : OfferRow(q, d) /\ conns[m.src][d].status = "accepted"
      BY <1>0, <1>1, <1>2, <2>3
      DEF HandleAcc, Receive, AgreeInv, SoloInv, AccsTell, InForce, OfferRow
    <3>3. answerOf[q] = Told("accepted")
      BY <1>0, <1>2, <3>2 DEF Shown
    <3> QED  BY <3>1, <3>3 DEF Told
  <2> QED  BY <2>1, <2>2, <2>3
<1>12. Agreement!Next
  <2>1. PICK v \in Agreement!Views : v = conns'[n][c].status
    BY <1>11 DEF Agreement!Views
  <2>2. Agreement!Learn(q, v)
    BY <1>9, <1>10, <1>11, <2>1 DEF Agreement!Learn
  <2> QED  BY <2>2 DEF Agreement!Next, Agreement!Request, RequestRecord
<1>13. NewsEffect  BY <1>1 DEF NewsEffect, Outgoing
<1> QED  BY <1>2, <1>8, <1>12, <1>13 DEF AgreeStep, RowEffect

\* The row decided on awaits it, so the user's answer is the first one.
LEMMA DecideAgrees ==
  ASSUME AgreeInv, OnceInv', NEW n \in Nodes, NEW k \in Slots,
         DecideReject(n, k) \/ DecideAccept(n, k)
  PROVE  AgreeStep
<1>0. OnceInv /\ IInv /\ TypeOK /\ Shown /\ Shown'
  BY ShownHolds, ShownAfter DEF AgreeInv, OnceInv, IInv
<1>1. PICK c \in ConnIds, i \in Ids, p \in Nodes :
        /\ cmd[n][k].pc = "decide"
        /\ cmd[n][k].conn = c /\ cmd[n][k].id = i /\ cmd[n][k].peer = p
  BY <1>0, CommandDeciding DEF DecideReject, DecideAccept
<1>2. OfferOf(n, c, i, p) /\ conns[n][c] \in Row
  BY <1>0, <1>1 DEF IInv, DecidingOffers, OfferOf, Offered, IsRow, TypeOK
<1>3. conns[n][c].status = "self_review"
  BY <1>1 DEF AgreeInv, SoloInv, DecidingAwaits
<1>4. PICK q \in RequestRecord : q.from = p /\ q.id = i /\ q.to = n
  <2>1. [from |-> p, id |-> i, to |-> n] \in RequestRecord  BY DEF RequestRecord
  <2> QED  BY <2>1
<1>5. PICK r \in Row, x \in ConnParcel :
        /\ conns' = [conns EXCEPT ![n][c] = r]
        /\ cmd' = [cmd EXCEPT ![n][k] = Sending(x)]
        /\ r.by = conns[n][c].by /\ r.peer = conns[n][c].peer
        /\ r.self_id = conns[n][c].self_id
        /\ x.src = n /\ x.dst = p /\ x.id = i
        /\ \/ r.status = "rejected" /\ x.kind = "CONN_REJ"
           \/ r.status = "accepted" /\ x.kind = "CONN_ACC"
  <2>1. CASE DecideReject(n, k)
    <3>1. PICK x \in ConnParcel : x = Parcel("CONN_REJ", n, p, i, Null)
      BY ParcelType DEF ConnKinds
    <3>2. x.kind = "CONN_REJ" /\ x.src = n /\ x.dst = p /\ x.id = i
      BY <3>1, ParcelType DEF ConnKinds
    <3>3. PICK r \in Row : r = [conns[n][c] EXCEPT !.status = "rejected"]
      BY <1>2 DEF Row, ConnStatus
    <3>4. conns' = [conns EXCEPT ![n][c] = r]
      BY <1>0, <1>1, <2>1, <3>3 DEF DecideReject, TypeOK
    <3>5. cmd' = [cmd EXCEPT ![n][k] = Sending(x)]
      BY <1>1, <2>1, <3>1 DEF DecideReject
    <3>6. /\ r.by = conns[n][c].by /\ r.peer = conns[n][c].peer
          /\ r.self_id = conns[n][c].self_id /\ r.status = "rejected"
      BY <1>2, <3>3 DEF Row
    <3> QED  BY <3>2, <3>4, <3>5, <3>6
  <2>2. CASE DecideAccept(n, k)
    <3>0. PICK new \in Ids :
            /\ conns' = [conns EXCEPT ![n][c].peer_id = new,
                                      ![n][c].status = "accepted"]
            /\ cmd' = [cmd EXCEPT ![n][k] =
                         Sending(Parcel("CONN_ACC", n, p, i, new))]
      BY <1>1, <2>2 DEF DecideAccept
    <3>1. PICK x \in ConnParcel : x = Parcel("CONN_ACC", n, p, i, new)
      BY ParcelType DEF ConnKinds
    <3>2. x.kind = "CONN_ACC" /\ x.src = n /\ x.dst = p /\ x.id = i
      BY <3>1, ParcelType DEF ConnKinds
    <3>3. PICK r \in Row :
            r = [conns[n][c] EXCEPT !.peer_id = new, !.status = "accepted"]
      BY <1>2 DEF Row, ConnStatus
    <3>4. conns' = [conns EXCEPT ![n][c] = r]
      BY <1>0, <1>2, <3>0, <3>3 DEF TypeOK, Row
    <3>5. cmd' = [cmd EXCEPT ![n][k] = Sending(x)]
      BY <3>0, <3>1
    <3>6. /\ r.by = conns[n][c].by /\ r.peer = conns[n][c].peer
          /\ r.self_id = conns[n][c].self_id /\ r.status = "accepted"
      BY <1>2, <3>3 DEF Row
    <3> QED  BY <3>2, <3>4, <3>5, <3>6
  <2> QED  BY <2>1, <2>2
<1>6. conns'[n][c] = r /\ OneRow(n, c)
  <2>1. conns' = [conns EXCEPT ![n][c] = r]  BY <1>5
  <2> QED  BY ONLY <1>0, <2>1, r \in Row, RowWrite DEF OneRow
<1>7. OfferRow(q, c) /\ OfferRow(q, c)'
  BY <1>2, <1>4, <1>5, <1>6, RowAssumption DEF OfferRow, OfferOf, Offered, IsRow
<1>8. OfferWrite(q, c)
  BY <1>4, <1>6, <1>7 DEF OfferWrite
<1>9. answerOf' = [answerOf EXCEPT ![q] = r.status] /\ viewOf' = viewOf
  BY <1>0, <1>4, <1>5, <1>6, <1>8, OfferShown DEF Told
<1>10. answerOf[q] = "awaited"
  BY <1>0, <1>3, <1>4, <1>7 DEF Shown, Told
<1>11. Agreement!Next
  <2>1. PICK v \in Agreement!Answers : v = r.status
    BY <1>5 DEF Agreement!Answers
  <2>2. Agreement!Decide(q, v)
    BY <1>5, <1>9, <1>10, <2>1 DEF Agreement!Decide
  <2> QED  BY <2>2 DEF Agreement!Next, Agreement!Request, RequestRecord
<1>12. NewsEffect
  <2>1. net' = net /\ lst' = lst  BY DEF DecideReject, DecideAccept
  <2>2. \A m \in Outgoing' : m \in Outgoing \/ m = x
    BY <1>0, <1>5, <2>1, CmdSends
  <2>3. x.kind = "CONN_REJ" => TrueNews(x)'
    BY <1>4, <1>5, <1>6, <1>7 DEF TrueNews, OfferRow
  <2> QED  BY <1>5, <2>2, <2>3 DEF NewsEffect
<1> QED  BY <1>8, <1>11, <1>12 DEF AgreeStep, RowEffect

-----------------------------------------------------------------------------
(* The theorems. *)

LEMMA AgreeStutter ==
  ASSUME AgreeInv, OnceInv', UNCHANGED vars
  PROVE  AgreeStep
BY QuietAgrees DEF vars, nodeVars, Outgoing

LEMMA AgreeNext ==
  ASSUME AgreeInv, OnceInv', Next
  PROVE  AgreeStep
<1>0. IInv  BY DEF AgreeInv, OnceInv
<1>1. PICK n \in Nodes : Listener(n) \/ \E k \in Slots : Command(n, k)
  BY DEF Next
<1>2. CASE Listener(n)
  <2>1. CASE Handle(n)
    BY <2>1, HandleReqAgrees, ReplyAgrees DEF Handle
  <2> QED
    BY <1>0, <1>2, <2>1, StartListeningQuiet, StopListeningQuiet,
       ListenerSendQuiet, DropParcelQuiet, QuietAgrees DEF Listener, QuietEffect
<1>3. ASSUME NEW k \in Slots, Command(n, k) PROVE AgreeStep
  <2>1. ASSUME NEW c \in ConnIds, NEW acc \in BOOLEAN, DecideSelect(n, k, c, acc)
        PROVE  AgreeStep
    <3> DEFINE v == Deciding(c, conns[n][c].self_id, conns[n][c].peer, acc)
    <3>1. conns' = conns /\ lst' = lst /\ net' = net /\ cmd' = [cmd EXCEPT ![n][k] = v]
      BY <2>1 DEF DecideSelect
    <3>2. \A m : v # Sending(m)  BY Positions
    <3> HIDE DEF v
    <3>3. \A j \in Nodes, l \in Slots : cmd'[j][l] = cmd[j][l] \/ cmd'[j][l] = v
      BY <1>0, <3>1 DEF IInv, TypeOK
    <3>4. \A m \in Outgoing' : m \in Outgoing  BY <3>1, <3>2, <3>3 DEF Outgoing
    <3> QED  BY <3>1, <3>4, QuietAgrees
  <2> QED
    BY <1>0, <1>3, <2>1, RequestAgrees, DecideAgrees, CommandSendQuiet,
       CommandExitQuiet, QuietAgrees DEF Command, QuietEffect
<1> QED  BY <1>1, <1>2, <1>3

LEMMA AgreeInit == Init => AgreeInv /\ Agreement!Init
<1> SUFFICES ASSUME Init PROVE AgreeInv /\ Agreement!Init  OBVIOUS
<1>1. SoloInv /\ OnceInv  BY SoloInit, OnceInit
<1>2. Outgoing = {}
  <2>1. net = {} /\ \A n \in Nodes, k \in Slots : cmd[n][k] = Idle
    BY DEF Init, NodeInit
  <2>2. \A n \in Nodes : lst[n] = Off \/ lst[n] = Loop  BY DEF Init, NodeInit
  <2> QED  BY <2>1, <2>2, Positions DEF Outgoing
<1>3. AgreeInv  BY <1>1, <1>2 DEF AgreeInv, NewsIsTrue
<1>4. \A r \in RequestRecord, c \in ConnIds : ~AskedRow(r, c) /\ ~OfferRow(r, c)
  BY DEF Init, NodeInit, RequestRecord, AskedRow, OfferRow, OfferOf, Asked, Offered, IsRow
<1>5. Agreement!Init
  BY <1>4 DEF Agreement!Init, Agreement!Request, RequestRecord, viewOf, answerOf
<1> QED  BY <1>3, <1>5

\* The action of IdsStay.
IdsKept ==
  \A n \in Nodes, c \in ConnIds :
    IsRow(n, c) => LET r == conns[n][c] s == conns'[n][c] IN
      /\ IsRow(n, c)'
      /\ s.by = r.by /\ s.peer = r.peer
      /\ r.peer_id # Null => s.peer_id = r.peer_id
      /\ r.self_id # Null => s.self_id = r.self_id

\* A row is offered once, so a requester told twice is told the same.
LEMMA IdsAreKept ==
  ASSUME AgreeInv, AgreeInv', RowsKept, DecidedStay
  PROVE  IdsKept
<1> SUFFICES ASSUME NEW n \in Nodes, NEW c \in ConnIds, IsRow(n, c)
             PROVE  LET r == conns[n][c] s == conns'[n][c] IN
                      /\ IsRow(n, c)'
                      /\ s.by = r.by /\ s.peer = r.peer
                      /\ r.peer_id # Null => s.peer_id = r.peer_id
                      /\ r.self_id # Null => s.self_id = r.self_id
  BY DEF IdsKept
<1>0. RowKept(n, c) /\ conns[n][c] \in Row
  BY DEF RowsKept, AgreeInv, OnceInv, IInv, TypeOK, IsRow
<1>1. CASE Offered(n, c)
  <2>1. conns[n][c].peer_id # Null => Decided(n, c)
    BY <1>1 DEF AgreeInv, SoloInv, IInv, ReviewedOnce, OfferedRows, Decided
  <2>2. conns[n][c].peer_id # Null => conns'[n][c] = conns[n][c]
    BY <2>1 DEF DecidedStay
  <2> QED  BY <1>0, <1>1, <2>2 DEF RowKept
<1>2. CASE Asked(n, c)
  <2> DEFINE p == conns[n][c].peer
             i == conns[n][c].peer_id
             s == conns[n][c].self_id
             t == conns'[n][c].self_id
  <2>1. Asked(n, c)' /\ conns'[n][c].peer = p /\ conns'[n][c].peer_id = i
    BY <1>0, <1>2 DEF RowKept, Asked
  <2>2. p \in Nodes  BY <1>0 DEF Row
  <2>3. s # Null => t = s
    <3> SUFFICES ASSUME s # Null PROVE t = s  OBVIOUS
    <3>1. PICK d \in ConnIds : /\ OfferOf(p, d, i, n) /\ conns[p][d].status = "accepted"
                              /\ conns[p][d].peer_id = s
      BY <1>2 DEF AgreeInv, SoloInv, ToldIsInForce, InForce
    <3>2. conns'[p][d] = conns[p][d]
      BY <2>2, <3>1 DEF DecidedStay, Decided, OfferOf
    <3>3. t # Null  BY <1>0 DEF RowKept
    <3>4. PICK e \in ConnIds : /\ conns'[p][e] # NoRow /\ conns'[p][e].by = "listener"
                              /\ conns'[p][e].self_id = i /\ conns'[p][e].peer = n
                              /\ conns'[p][e].peer_id = t
      BY <2>1, <3>3 DEF AgreeInv, SoloInv, ToldIsInForce, InForce, OfferOf, Offered, IsRow
    <3>5. e = d
      BY <2>2, <3>1, <3>2, <3>4
      DEF AgreeInv, OnceInv, OneOfferPerRequest, OfferOf, Offered, IsRow
    <3> QED  BY <3>1, <3>2, <3>4, <3>5
  <2> QED  BY <1>0, <2>1, <2>3 DEF RowKept
<1>3. conns[n][c].by \in {"request", "listener"}  BY <1>0 DEF Row
<1> QED  BY <1>1, <1>2, <1>3 DEF Asked, Offered

LEMMA AgreeInvNext ==
  ASSUME OneCommand, AgreeInv, [Next]_vars
  PROVE  AgreeInv' /\ AgreeStep /\ IdsKept
<1>0. SoloInv /\ OnceInv /\ NewsIsTrue  BY DEF AgreeInv
<1>1. SoloInv' /\ DecidedStay /\ RowsKept  BY <1>0, SoloNext, SoloStutter
<1>2. OnceInv'  BY <1>0, OnceNext, OnceStutter
<1>3. AgreeStep  BY <1>2, AgreeNext, AgreeStutter
<1>4. NewsIsTrue'  BY <1>0, <1>1, <1>3, NewsStaysTrue DEF AgreeStep
<1>5. AgreeInv'  BY <1>1, <1>2, <1>4 DEF AgreeInv
<1> QED  BY <1>1, <1>3, <1>5, IdsAreKept

\* With one command at a time, what a reply tells is so, and a request is offered once.
THEOREM AgreeInductive ==
  ASSUME OneCommand
  PROVE  Spec => []AgreeInv
<1>1. AgreeInv /\ [Next]_vars => AgreeInv'  BY AgreeInvNext
<1> QED  BY <1>1, AgreeInit, PTL DEF Spec

\* With one command at a time, the handshake is what ConnAgreement promises the two users:
\* a request is put to the peer once and answered once, and what the requester is shown was
\* true of it, whatever parcels, processes and statements fail.
THEOREM Agrees ==
  ASSUME OneCommand
  PROVE  Spec => ImplementsAgreement
<1>1. AgreeInv /\ [Next]_vars => [Agreement!Next]_(Agreement!vars)
  BY AgreeInvNext DEF AgreeStep
<1> QED
  BY <1>1, AgreeInit, AgreeInductive, PTL DEF Spec, ImplementsAgreement, Agreement!Spec

\* With one command at a time, the ids an end of a connection has been given are its own
\* for good, so what is sent under them later still finds that end.
THEOREM IdsAreForGood ==
  ASSUME OneCommand
  PROVE  Spec => IdsStay
<1>1. AgreeInv /\ [Next]_vars => [IdsKept]_vars  BY AgreeInvNext
<1> QED  BY <1>1, AgreeInductive, PTL DEF Spec, IdsStay, IdsKept
=============================================================================
