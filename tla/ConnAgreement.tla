--------------------------- MODULE ConnAgreement ---------------------------
(***************************************************************************)
(* What the handshake of ap2pmsg promises the two users of a connection,   *)
(* with no parcels, tables or processes: a request is put to the peer, the *)
(* peer answers it once, and what the requester is shown of it is true.    *)
(***************************************************************************)
CONSTANTS Nodes, Ids

Request == [from : Nodes, id : Ids, to : Nodes]

VARIABLES
  view,    \* view[r]: what the requester's `conn list` shows of request r
  answer   \* answer[r]: what the user asked has made of it

vars == <<view, answer>>

Views   == {"none", "pending", "peer_review", "accepted", "rejected"}
Answers == {"none", "awaited", "accepted", "rejected"}

TypeOK ==
  /\ view \in [Request -> Views]
  /\ answer \in [Request -> Answers]

Init ==
  /\ view = [r \in Request |-> "none"]
  /\ answer = [r \in Request |-> "none"]

\* A user asks for a connection, under an id the node has not used.
Ask(r) ==
  /\ \A q \in Request : q.from = r.from /\ q.id = r.id => view[q] = "none"
  /\ view' = [view EXCEPT ![r] = "pending"]
  /\ UNCHANGED answer

\* The request is put to the user asked, once.
Offer(r) ==
  /\ view[r] # "none"
  /\ answer[r] = "none"
  /\ answer' = [answer EXCEPT ![r] = "awaited"]
  /\ UNCHANGED view

\* The user asked answers, once.
Decide(r, v) ==
  /\ answer[r] = "awaited"
  /\ v \in {"accepted", "rejected"}
  /\ answer' = [answer EXCEPT ![r] = v]
  /\ UNCHANGED view

\* The requester hears that the request has arrived, or how it was answered.
\* News may be late, lost, or overtaken by older news; it is never wrong.
Learn(r, v) ==
  /\ view[r] # "none"
  /\ \/ v = "peer_review" /\ answer[r] # "none"
     \/ v \in {"accepted", "rejected"} /\ answer[r] = v
  /\ view' = [view EXCEPT ![r] = v]
  /\ UNCHANGED answer

Next ==
  \E r \in Request : \/ Ask(r)
                     \/ Offer(r)
                     \/ \E v \in Answers : Decide(r, v)
                     \/ \E v \in Views : Learn(r, v)

Spec == Init /\ [][Next]_vars
=============================================================================
