---------------------------- MODULE MsgDelivery ----------------------------
(***************************************************************************)
(* What ap2pmsg promises the two users of a connection about messages,     *)
(* with no parcels, tables or processes: a message arrives at most once    *)
(* and as it was written, stays where it has arrived, and is shown as      *)
(* received to its writer only if it has.  It may never arrive.            *)
(***************************************************************************)
EXTENDS Integers

CONSTANTS Ends, Nums, Bodies, None

VARIABLES
  peer,   \* peer[e]: the other end of the connection e is an end of, or None
  box     \* box[e][k]: what the user at e is shown as message k of it, or None

vars == <<peer, box>>

\* A message as an end shows it: whether it was written there, and whether it is
\* known to have been received.
Message == [body : Bodies, mine : BOOLEAN, received : BOOLEAN]

TypeOK ==
  /\ peer \in [Ends -> Ends \cup {None}]
  /\ box \in [Ends -> [Nums -> Message \cup {None}]]

Init ==
  /\ peer \in [Ends -> Ends \cup {None}]
  /\ box = [e \in Ends |-> [k \in Nums |-> None]]

Mine(e, k) == box[e][k] # None /\ box[e][k].mine

\* The user at e writes a message; its number is above all e knows of.
Write(e, k, b) ==
  /\ \A j \in Nums : box[e][j] # None => j < k
  /\ box' = [box EXCEPT ![e][k] = [body |-> b, mine |-> TRUE, received |-> FALSE]]
  /\ UNCHANGED peer

\* It arrives, unless its number is taken there.
Arrive(e, k) ==
  /\ peer[e] # None
  /\ Mine(e, k)
  /\ box[peer[e]][k] = None
  /\ box' = [box EXCEPT ![peer[e]][k] =
               [body |-> box[e][k].body, mine |-> FALSE, received |-> TRUE]]
  /\ UNCHANGED peer

\* Its writer hears that it has arrived.
Learn(e, k) ==
  /\ peer[e] # None
  /\ Mine(e, k)
  /\ box[peer[e]][k] =
       [body |-> box[e][k].body, mine |-> FALSE, received |-> TRUE]
  /\ box' = [box EXCEPT ![e][k].received = TRUE]
  /\ UNCHANGED peer

Next ==
  /\ box' # box
  /\ \E e \in Ends, k \in Nums : \/ \E b \in Bodies : Write(e, k, b)
                                \/ Arrive(e, k)
                                \/ Learn(e, k)

Spec == Init /\ [][Next]_vars
=============================================================================
