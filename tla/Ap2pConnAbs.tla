---------------------------- MODULE Ap2pConnAbs ----------------------------
(***************************************************************************)
(* Ap2pConn implements ConnAgreement, when a node runs one command at a    *)
(* time: the requester's row is its view of the request, the row the       *)
(* listener made for it is the answer.                                     *)
(***************************************************************************)
EXTENDS Ap2pConnInv

RequestRecord == [from : Nodes, id : Ids, to : Nodes]

\* The rows of request r at the node that asked, and at the node it asked.
AskedRow(r, c) == /\ Asked(r.from, c)
                  /\ conns[r.from][c].peer_id = r.id
                  /\ conns[r.from][c].peer = r.to
OfferRow(r, c) == OfferOf(r.to, c, r.id, r.from)

viewOf ==
  [r \in RequestRecord |->
    IF \E c \in ConnIds : AskedRow(r, c)
    THEN conns[r.from][CHOOSE c \in ConnIds : AskedRow(r, c)].status
    ELSE "none"]

answerOf ==
  [r \in RequestRecord |->
    IF \E c \in ConnIds : OfferRow(r, c)
    THEN LET s == conns[r.to][CHOOSE c \in ConnIds : OfferRow(r, c)].status
         IN IF s = "self_review" THEN "awaited" ELSE s
    ELSE "none"]

Agreement == INSTANCE ConnAgreement WITH view <- viewOf, answer <- answerOf

\* What the users see of a connection is what ConnAgreement allows: a request is
\* put to the peer's user once and answered once, and the requester is shown
\* nothing that was not true of it, whatever parcels and processes are lost.
ImplementsAgreement == Agreement!Spec
=============================================================================
