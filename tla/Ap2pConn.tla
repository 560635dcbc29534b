------------------------------ MODULE Ap2pConn ------------------------------
(***************************************************************************)
(* How a connection between two nodes is asked for, acknowledged, and      *)
(* accepted or rejected (libap2p.c).                                       *)
(*                                                                         *)
(*   requester                              acceptor                       *)
(*   INSERT row, status pending                                            *)
(*        ------------- CONN_REQ(id) ------------->                        *)
(*                                          INSERT row, status self_review *)
(*        <------------ CONN_ACK(id) --------------                        *)
(*   status peer_review                                                    *)
(*                                          user decides; UPDATE row       *)
(*        <---- CONN_ACC(id, new_id) or CONN_REJ(id) ----                  *)
(*   status accepted or rejected                                           *)
(*                                                                         *)
(* id is the requester's peer_id and the acceptor's self_id; new_id is the *)
(* acceptor's peer_id and the requester's self_id.  An id is meaningful    *)
(* only to the node that generated it.                                     *)
(***************************************************************************)
EXTENDS Ap2pNode

CONSTANT MaxRequests   \* bounds the connections one node asks for

ASSUME MaxRequestsAssumption == MaxRequests \in Nat

vars == nodeVars

Init == NodeInit

-----------------------------------------------------------------------------
(* ap2p_request_connection *)

\* Variant: generate_id called once for the row and again for the parcel.
RequestTwoIds(n, k, p) ==
  /\ cmd[n][k] = Idle
  /\ Cardinality({c \in ConnIds : Asked(n, c)}) < MaxRequests
  /\ \E c \in ConnIds, id, other \in Ids :
       /\ FreshRow(n, c)
       /\ PeerIdFree(n, c, id)
       /\ conns' = [conns EXCEPT ![n][c] =
            [by |-> "request", peer_id |-> id, self_id |-> Null, peer |-> p,
             named |-> FALSE, status |-> "pending"]]
       /\ cmd' = [cmd EXCEPT ![n][k] =
                    Sending(Parcel("CONN_REQ", n, p, other, Null))]
  /\ UNCHANGED <<net, lst>>

\* Generate a peer_id and INSERT the row, then build the CONN_REQ.  An id some
\* row of n already has violates UNIQUE: the command ends, nothing changes.
Request(n, k, p) ==
  /\ cmd[n][k] = Idle
  /\ Cardinality({c \in ConnIds : Asked(n, c)}) < MaxRequests
  /\ \E c \in ConnIds, id \in Ids :
       /\ FreshRow(n, c)
       /\ PeerIdFree(n, c, id)
       /\ conns' = [conns EXCEPT ![n][c] =
            [by |-> "request", peer_id |-> id, self_id |-> Null, peer |-> p,
             named |-> FALSE, status |-> "pending"]]
       /\ cmd' = [cmd EXCEPT ![n][k] =
                    Sending(Parcel("CONN_REQ", n, p, id, Null))]
  /\ UNCHANGED <<net, lst>>

-----------------------------------------------------------------------------
(* ap2p_decide_on_connection *)

\* What the command keeps of the row it has read, with the user's decision.
Deciding(c, id, p, acc) ==
  [pc |-> "decide", conn |-> c, id |-> id, peer |-> p, accept |-> acc]

\* Variant: any row a peer asked for may be decided on, whatever its status.
DecideSelectAny(n, k, c, acc) ==
  /\ cmd[n][k] = Idle
  /\ Offered(n, c)
  /\ cmd' = [cmd EXCEPT ![n][k] =
               Deciding(c, conns[n][c].self_id, conns[n][c].peer, acc)]
  /\ UNCHANGED <<conns, net, lst>>

\* SELECT the row; unless it awaits review, the command ends with an error.
DecideSelect(n, k, c, acc) ==
  /\ cmd[n][k] = Idle
  /\ IsRow(n, c)
  /\ conns[n][c].status = "self_review"
  /\ cmd' = [cmd EXCEPT ![n][k] =
               Deciding(c, conns[n][c].self_id, conns[n][c].peer, acc)]
  /\ UNCHANGED <<conns, net, lst>>

\* UPDATE ... SET status=-1 WHERE conn_id, whatever the status is by now.
DecideReject(n, k) ==
  /\ cmd[n][k].pc = "decide"
  /\ ~cmd[n][k].accept
  /\ LET d == cmd[n][k] IN
       /\ conns' = [conns EXCEPT ![n][d.conn].status = "rejected"]
       /\ cmd' = [cmd EXCEPT ![n][k] =
                    Sending(Parcel("CONN_REJ", n, d.peer, d.id, Null))]
  /\ UNCHANGED <<net, lst>>

\* Variants of accepting: the peer is told an id other than the one stored; the
\* two ids change places in the parcel; the UPDATE leaves the status alone.
DecideAcceptTwoIds(n, k) ==
  /\ cmd[n][k].pc = "decide"
  /\ cmd[n][k].accept
  /\ LET d == cmd[n][k] IN
     \E new, other \in Ids :
       /\ PeerIdFree(n, d.conn, new)
       /\ conns' = [conns EXCEPT ![n][d.conn].peer_id = new,
                                 ![n][d.conn].status = "accepted"]
       /\ cmd' = [cmd EXCEPT ![n][k] =
                    Sending(Parcel("CONN_ACC", n, d.peer, d.id, other))]
  /\ UNCHANGED <<net, lst>>

DecideAcceptSwapped(n, k) ==
  /\ cmd[n][k].pc = "decide"
  /\ cmd[n][k].accept
  /\ LET d == cmd[n][k] IN
     \E new \in Ids :
       /\ PeerIdFree(n, d.conn, new)
       /\ conns' = [conns EXCEPT ![n][d.conn].peer_id = new,
                                 ![n][d.conn].status = "accepted"]
       /\ cmd' = [cmd EXCEPT ![n][k] =
                    Sending(Parcel("CONN_ACC", n, d.peer, new, d.id))]
  /\ UNCHANGED <<net, lst>>

DecideAcceptStatus(n, k) ==
  /\ cmd[n][k].pc = "decide"
  /\ cmd[n][k].accept
  /\ LET d == cmd[n][k] IN
     \E new \in Ids :
       /\ PeerIdFree(n, d.conn, new)
       /\ conns' = [conns EXCEPT ![n][d.conn].peer_id = new]
       /\ cmd' = [cmd EXCEPT ![n][k] =
                    Sending(Parcel("CONN_ACC", n, d.peer, d.id, new))]
  /\ UNCHANGED <<net, lst>>

\* Generate the peer_id and UPDATE ... SET peer_id, status=0 WHERE conn_id.
DecideAccept(n, k) ==
  /\ cmd[n][k].pc = "decide"
  /\ cmd[n][k].accept
  /\ LET d == cmd[n][k] IN
     \E new \in Ids :
       /\ PeerIdFree(n, d.conn, new)
       /\ conns' = [conns EXCEPT ![n][d.conn].peer_id = new,
                                 ![n][d.conn].status = "accepted"]
       /\ cmd' = [cmd EXCEPT ![n][k] =
                    Sending(Parcel("CONN_ACC", n, d.peer, d.id, new))]
  /\ UNCHANGED <<net, lst>>

\* The new peer_id is one some row has: UNIQUE fails the UPDATE, and the
\* command ends with the row still awaiting review.
DecideCollide(n, k) ==
  /\ cmd[n][k].pc = "decide"
  /\ cmd[n][k].accept
  /\ \E new \in Ids : ~PeerIdFree(n, cmd[n][k].conn, new)
  /\ cmd' = [cmd EXCEPT ![n][k] = Idle]
  /\ UNCHANGED <<conns, net, lst>>

-----------------------------------------------------------------------------
(* ap2p_listen: one pass of the loop for each kind of connection parcel. *)

\* Variant: the request is stored and not acknowledged.
HandleReqSilent(n, m) ==
  /\ Receive(n, "CONN_REQ", m)
  /\ \E c \in ConnIds :
       /\ FreshRow(n, c)
       /\ conns' = [conns EXCEPT ![n][c] =
            [by |-> "listener", peer_id |-> Null, self_id |-> m.id,
             peer |-> m.src, named |-> TRUE, status |-> "self_review"]]
  /\ UNCHANGED <<lst, cmd>>

\* INSERT a row for the user to review, then acknowledge.
HandleReq(n, m) ==
  /\ Receive(n, "CONN_REQ", m)
  /\ \E c \in ConnIds :
       /\ FreshRow(n, c)
       /\ conns' = [conns EXCEPT ![n][c] =
            [by |-> "listener", peer_id |-> Null, self_id |-> m.id,
             peer |-> m.src, named |-> TRUE, status |-> "self_review"]]
  /\ lst' = [lst EXCEPT ![n] = Sending(Parcel("CONN_ACK", n, m.src, m.id, Null))]
  /\ UNCHANGED cmd

\* The updates the replies make, each of every row WHERE peer_id = the id of
\* the parcel, whatever the row's status is by now.

\* Variants: an acknowledgement taken for an acceptance; a rejection looked up by
\* self_id; an acceptance whose new id is not bound.
AcknowledgedAsAccepted(n, id) ==
  [c \in ConnIds |-> IF HasPeerId(n, c, id)
                     THEN [conns[n][c] EXCEPT !.status = "accepted"]
                     ELSE conns[n][c]]

RefusedBySelfId(n, id) ==
  [c \in ConnIds |-> IF IsRow(n, c) /\ conns[n][c].self_id = id
                     THEN [conns[n][c] EXCEPT !.status = "rejected"]
                     ELSE conns[n][c]]

GrantedUnbound(n, id, newid) ==
  [c \in ConnIds |-> IF HasPeerId(n, c, id)
                     THEN [conns[n][c] EXCEPT !.named = TRUE, !.status = "accepted"]
                     ELSE conns[n][c]]

\* The peer has the request: status=3.
Acknowledged(n, id) ==
  [c \in ConnIds |-> IF HasPeerId(n, c, id)
                     THEN [conns[n][c] EXCEPT !.status = "peer_review"]
                     ELSE conns[n][c]]

\* The peer has rejected: status=-1.
Refused(n, id) ==
  [c \in ConnIds |-> IF HasPeerId(n, c, id)
                     THEN [conns[n][c] EXCEPT !.status = "rejected"]
                     ELSE conns[n][c]]

\* The peer has accepted: self_id, peer_name and status=0.
Granted(n, id, newid) ==
  [c \in ConnIds |-> IF HasPeerId(n, c, id)
                     THEN [conns[n][c] EXCEPT !.self_id = newid, !.named = TRUE,
                                              !.status = "accepted"]
                     ELSE conns[n][c]]

HandleAck(n, m) ==
  /\ Receive(n, "CONN_ACK", m)
  /\ conns' = [conns EXCEPT ![n] = Acknowledged(n, m.id)]
  /\ UNCHANGED <<lst, cmd>>

HandleRej(n, m) ==
  /\ Receive(n, "CONN_REJ", m)
  /\ conns' = [conns EXCEPT ![n] = Refused(n, m.id)]
  /\ UNCHANGED <<lst, cmd>>

HandleAcc(n, m) ==
  /\ Receive(n, "CONN_ACC", m)
  /\ conns' = [conns EXCEPT ![n] = Granted(n, m.id, m.new_id)]
  /\ UNCHANGED <<lst, cmd>>

-----------------------------------------------------------------------------

Command(n, k) ==
  \/ \E p \in Nodes : Request(n, k, p)
  \/ \E c \in ConnIds, acc \in BOOLEAN : DecideSelect(n, k, c, acc)
  \/ DecideReject(n, k)
  \/ DecideAccept(n, k)
  \/ DecideCollide(n, k)
  \/ CommandSend(n, k)
  \/ CommandExit(n, k)

Handle(n) ==
  \E m \in net : \/ HandleReq(n, m)
                 \/ HandleAck(n, m)
                 \/ HandleRej(n, m)
                 \/ HandleAcc(n, m)

Listener(n) ==
  \/ StartListening(n)
  \/ StopListening(n)
  \/ ListenerSend(n)
  \/ DropParcel(n)
  \/ Handle(n)

Next == \E n \in Nodes : Listener(n) \/ \E k \in Slots : Command(n, k)

Spec == Init /\ [][Next]_vars

\* A running listener keeps serving, and a command once started runs on: each
\* is a process the scheduler never starves.  What a user does (start a
\* command or a listener) is not fair.
Fairness ==
  \A n \in Nodes :
    /\ WF_vars(ListenerSend(n))
    /\ WF_vars(Handle(n))
    /\ \A k \in Slots : WF_vars(CommandSend(n, k))
    /\ \A k \in Slots : WF_vars(DecideReject(n, k) \/ DecideAccept(n, k))

FairSpec == Spec /\ Fairness

-----------------------------------------------------------------------------
(* Vocabulary of the properties. *)

\* Node n has asked node p for a connection under id.
Requested(n, id, p) ==
  \E c \in ConnIds : /\ Asked(n, c)
                     /\ conns[n][c].peer_id = id
                     /\ conns[n][c].peer = p

\* Row c of p is the one the request of n under id has made there.
OfferOf(p, c, id, n) ==
  Offered(p, c) /\ conns[p][c].self_id = id /\ conns[p][c].peer = n

\* The user of p has accepted the request of n under id, some time: only
\* accepting gives an offered row a peer_id.
AcceptedOnce(p, id, n) ==
  \E d \in ConnIds : OfferOf(p, d, id, n) /\ conns[p][d].peer_id # Null

\* What p accepted of that request is in force, under the peer_id new.
InForce(p, id, n, new) ==
  \E d \in ConnIds : /\ OfferOf(p, d, id, n)
                     /\ conns[p][d].status = "accepted"
                     /\ conns[p][d].peer_id = new

\* The requester behind row d of p shows the request with status s.
RequesterSees(p, d, s) ==
  /\ Offered(p, d)
  /\ \E c \in ConnIds :
       LET n == conns[p][d].peer IN
       /\ Asked(n, c)
       /\ conns[n][c].peer_id = conns[p][d].self_id
       /\ conns[n][c].status = s

\* The parcels on their way, and those some process is about to send.
Outgoing ==
  LET busy == {lst[n] : n \in Nodes} \cup {cmd[n][k] : n \in Nodes, k \in Slots} IN
  {m \in ConnParcel : m \in net \/ Sending(m) \in busy}

-----------------------------------------------------------------------------
(* Invariants. *)

ListenerState == {Off, Loop} \cup {Sending(m) : m \in ConnParcel}
CommandState ==
  {Idle} \cup {Sending(m) : m \in ConnParcel}
         \cup {Deciding(c, i, p, acc) : c \in ConnIds, i \in Ids, p \in Nodes,
                                       acc \in BOOLEAN}

\* The values the tables, parcels and processes range over.
TypeOK ==
  /\ conns \in [Nodes -> [ConnIds -> Row \cup {NoRow}]]
  /\ net \subseteq ConnParcel
  /\ lst \in [Nodes -> ListenerState]
  /\ cmd \in [Nodes -> [Slots -> CommandState]]

\* A reply names a request: every CONN_ACK, CONN_REJ or CONN_ACC under way, sent
\* or about to be, carries an id under which its receiver asked its sender for
\* a connection.  The handlers (libap2p.c 801, 827, 859) update every row with
\* that peer_id and look at nothing else, so this is all that keeps a reply
\* from changing a row it has nothing to do with.
RepliesNameRequests ==
  \A m \in Outgoing :
    m.kind # "CONN_REQ" => Requested(m.dst, m.id, m.src)

\* A row awaiting or past review at p has a request behind it at its peer, with
\* the id the two use for it: what p will ever send on this connection finds
\* a row at the peer, through crashes and lost parcels.
OffersHaveRequests ==
  \A p \in Nodes, c \in ConnIds :
    Offered(p, c) => Requested(conns[p][c].peer, conns[p][c].self_id, p)

\* A request is put to the peer's user at most once.
OneOfferPerRequest ==
  \A p \in Nodes : \A c, d \in ConnIds :
    /\ Offered(p, c) /\ Offered(p, d)
    /\ conns[p][c].self_id = conns[p][d].self_id
    /\ conns[p][c].peer = conns[p][d].peer
    => c = d

\* The columns the readers take for granted are there: ap2p_list_connections
\* copies peer_name of accepted and self_review rows (270-272), the CLI shows
\* their self_id and the peer_id of accepted ones (libap2p.rs 54-64), and
\* ap2p_send_message copies peer_name of an accepted row (623).
RowsReadable ==
  \A n \in Nodes, c \in ConnIds :
    IsRow(n, c) =>
      LET r == conns[n][c] IN
      /\ r.status \in {"accepted", "self_review"} => r.named /\ r.self_id # Null
      /\ r.status = "accepted" => r.peer_id # Null

\* Nobody is connected unasked: a requester's row is accepted only if the peer's
\* user accepted that very request.
AcceptedByPeer ==
  \A n \in Nodes, c \in ConnIds :
    Asked(n, c) /\ conns[n][c].status = "accepted" =>
      AcceptedOnce(conns[n][c].peer, conns[n][c].peer_id, n)

\* With one command at a time: a connection its requester sees as accepted works
\* both ways.  The peer's row is accepted too, and each row's self_id is the
\* other's peer_id, so what either sends the other finds.
LinkedWhenAccepted ==
  \A n \in Nodes, c \in ConnIds :
    Asked(n, c) /\ conns[n][c].status = "accepted" =>
      InForce(conns[n][c].peer, conns[n][c].peer_id, n, conns[n][c].self_id)

-----------------------------------------------------------------------------
(* Action properties. *)

Decided(n, c) ==
  Offered(n, c) /\ conns[n][c].status \in {"accepted", "rejected"}

\* A decision is final: once the user has accepted or rejected a request, its
\* row never changes again, and so never contradicts what the peer was told.
\* ap2p_decide_on_connection refuses a row "which wasn't awaiting review" (473).
DecisionIsFinal ==
  [][\A n \in Nodes, c \in ConnIds :
       Decided(n, c) => conns'[n][c] = conns[n][c]]_vars

\* An end of a connection is for good: a row stays, with its peer and with the ids it
\* has been given.  A message on its way, or waiting to be sent, names them; were one
\* replaced, by an UPDATE that takes any row with that id (libap2p.c 533, 860), the
\* message would find no row, or another connection's.
IdsStay ==
  [][\A n \in Nodes, c \in ConnIds :
       IsRow(n, c) => LET r == conns[n][c] s == conns'[n][c] IN
         /\ IsRow(n, c)'
         /\ s.by = r.by /\ s.peer = r.peer
         /\ r.peer_id # Null => s.peer_id = r.peer_id
         /\ r.self_id # Null => s.self_id = r.self_id]_vars

\* What the requester learnt it keeps: a request known to be accepted or rejected
\* does not go back to peer_review, "the peer has recieved this connections
\* request, but not yet resolved it" (34).
ResolutionSticks ==
  [][\A n \in Nodes, c \in ConnIds :
       Asked(n, c) /\ conns[n][c].status \in {"accepted", "rejected"}
         => conns'[n][c].status # "peer_review"]_vars

-----------------------------------------------------------------------------
(* Liveness, of nodes that listen from the start and are never stopped. *)

AllListening == \A n \in Nodes : Listening(n)

\* The command in slot k of p is about to send a parcel of that kind for row d.
Telling(p, k, d, kind) ==
  /\ cmd[p][k].pc = "send"
  /\ LET m == cmd[p][k].parcel IN m.kind = kind /\ OfferOf(p, d, m.id, m.dst)

\* A request leaves pending: it reaches the peer, and word of it comes back.
RequestsAnswered ==
  AllListening =>
    \A n \in Nodes, c \in ConnIds :
      (Asked(n, c) /\ conns[n][c].status = "pending")
        ~> (IsRow(n, c) /\ conns[n][c].status # "pending")

\* A decision arrives: once the command is about to tell the requester what its
\* user chose, the requester's row will show it, if only for a while.
DecisionsArrive ==
  AllListening =>
    \A p \in Nodes, d \in ConnIds, k \in Slots :
      /\ Telling(p, k, d, "CONN_ACC") ~> RequesterSees(p, d, "accepted")
      /\ Telling(p, k, d, "CONN_REJ") ~> RequesterSees(p, d, "rejected")

=============================================================================
