---------------------------- MODULE Ap2pConnInv ----------------------------
(***************************************************************************)
(* Inductive invariants of Ap2pConn: what the invariants it states rest on. *)
(* IInv holds however many commands a node runs at a time; SoloInv adds    *)
(* what one command at a time gives.                                       *)
(***************************************************************************)
EXTENDS Ap2pConn

-----------------------------------------------------------------------------
(* The rows. *)

\* A row n asked for has a peer_id from the start, is never put up for review,
\* and has the columns of an accepted row once it is accepted.
AskedRows ==
  \A n \in Nodes, c \in ConnIds :
    Asked(n, c) => LET r == conns[n][c] IN
      /\ r.peer_id # Null
      /\ r.status # "self_review"
      /\ r.status = "accepted" => r.named /\ r.self_id # Null

\* A row n was asked for names its peer, and is in one of three states.
OfferedRows ==
  \A n \in Nodes, c \in ConnIds :
    Offered(n, c) => LET r == conns[n][c] IN
      /\ r.self_id # Null
      /\ r.named
      /\ r.status \in {"self_review", "accepted", "rejected"}
      /\ r.status = "accepted" => r.peer_id # Null

\* UNIQUE(peer_id).
PeerIdsDiffer ==
  \A n \in Nodes : \A c, d \in ConnIds :
    /\ IsRow(n, c) /\ IsRow(n, d)
    /\ conns[n][c].peer_id = conns[n][d].peer_id
    /\ conns[n][c].peer_id # Null
    => c = d

-----------------------------------------------------------------------------
(* The commands and the parcels. *)

\* What a deciding command remembers of its row stays true.
DecidingOffers ==
  \A n \in Nodes, k \in Slots :
    cmd[n][k].pc = "decide" =>
      OfferOf(n, cmd[n][k].conn, cmd[n][k].id, cmd[n][k].peer)

\* Every parcel is about a request its sender or its receiver has made, and
\* a CONN_ACC comes from a node that has accepted it.
ParcelsHaveRows ==
  \A m \in Outgoing :
    /\ m.kind = "CONN_REQ" => Requested(m.src, m.id, m.dst)
    /\ m.kind # "CONN_REQ" => Requested(m.dst, m.id, m.src)
    /\ m.kind = "CONN_ACC" => m.new_id # Null /\ AcceptedOnce(m.src, m.id, m.dst)

\* The inductive invariant of any number of commands.
IInv ==
  /\ TypeOK
  /\ AskedRows
  /\ OfferedRows
  /\ PeerIdsDiffer
  /\ OffersHaveRequests
  /\ DecidingOffers
  /\ ParcelsHaveRows
  /\ AcceptedByPeer

-----------------------------------------------------------------------------
(* Requests on their way. *)

\* A CONN_REQ is in one place: a command has it, or the network, and no listener.
ReqsInOnePlace ==
  \A n \in Nodes, m \in Outgoing :
    m.kind = "CONN_REQ" =>
      /\ lst[n] # Sending(m)
      /\ \A k \in Slots : cmd[n][k] = Sending(m) =>
           /\ m \notin net
           /\ \A j \in Nodes, l \in Slots : cmd[j][l] = Sending(m) => j = n /\ l = k

\* One that is still on its way has no row at its receiver.
ReqsUnmade ==
  \A m \in Outgoing :
    m.kind = "CONN_REQ" =>
      /\ m.new_id = Null
      /\ \A d \in ConnIds : ~OfferOf(m.dst, d, m.id, m.src)

\* The inductive invariant behind OneOfferPerRequest.
OnceInv ==
  /\ IInv
  /\ ReqsInOnePlace
  /\ ReqsUnmade
  /\ OneOfferPerRequest

-----------------------------------------------------------------------------
(* One command at a time. *)

\* The row a command decides on still awaits the decision.
DecidingAwaits ==
  \A n \in Nodes, k \in Slots :
    cmd[n][k].pc = "decide" => conns[n][cmd[n][k].conn].status = "self_review"

\* A CONN_ACC tells what its sender's row says.
AccsTell ==
  \A m \in Outgoing :
    m.kind = "CONN_ACC" => InForce(m.src, m.id, m.dst, m.new_id)

\* What a requester was ever told is in force, whatever its row shows by now.
ToldIsInForce ==
  \A n \in Nodes, c \in ConnIds :
    Asked(n, c) /\ conns[n][c].self_id # Null =>
      InForce(conns[n][c].peer, conns[n][c].peer_id, n, conns[n][c].self_id)

\* A row awaiting review has been given no peer_id.
ReviewedOnce ==
  \A n \in Nodes, c \in ConnIds :
    Offered(n, c) /\ conns[n][c].status = "self_review" => conns[n][c].peer_id = Null

\* The inductive invariant of one command at a time.
SoloInv ==
  /\ IInv
  /\ DecidingAwaits
  /\ AccsTell
  /\ ToldIsInForce
  /\ ReviewedOnce

\* What the other replies tell is so: the request has come, or was rejected.
NewsIsTrue ==
  \A m \in Outgoing :
    /\ m.kind = "CONN_ACK" => \E d \in ConnIds : OfferOf(m.src, d, m.id, m.dst)
    /\ m.kind = "CONN_REJ" =>
         \E d \in ConnIds : /\ OfferOf(m.src, d, m.id, m.dst)
                            /\ conns[m.src][d].status = "rejected"

\* What ImplementsAgreement rests on.
AgreeInv ==
  /\ SoloInv
  /\ OnceInv
  /\ NewsIsTrue

=============================================================================
