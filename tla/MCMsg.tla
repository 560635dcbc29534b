------------------------------- MODULE MCMsg -------------------------------
(* Ap2pMsg on small instances. *)
EXTENDS Ap2pMsgAbs, Ap2pMsgInv, TLC

CONSTANTS a, b, s1, s2, i1, i2, x, y

TwoNodes  == {a, b}
OneSlot   == {s1}
TwoSlots  == {s1, s2}
TwoIds    == {i1, i2}
OneBody   == {x}
TwoBodies == {x, y}

Accepted(by, peer_id, self_id, peer) ==
  [by |-> by, peer_id |-> peer_id, self_id |-> self_id, peer |-> peer,
   named |-> TRUE, status |-> "accepted"]

\* Row 1 is a's request, row 2 is b's; the ids of one connection occur in the
\* other, in other places.
BothLinked ==
  a :> (1 :> Accepted("request",  i1, i2, b) @@ 2 :> Accepted("listener", i2, i1, b)) @@
  b :> (1 :> Accepted("listener", i2, i1, a) @@ 2 :> Accepted("request",  i1, i2, a))

\* The CONN_ACC of row 1 was lost.
HalfOpen ==
  [BothLinked EXCEPT ![a][1].status = "peer_review", ![a][1].self_id = Null,
                     ![a][1].named = FALSE]

One(r, q) == a :> (1 :> r @@ 2 :> NoRow) @@ b :> (1 :> q @@ 2 :> NoRow)

OneLinked ==
  One(Accepted("request", i1, i2, b), Accepted("listener", i2, i1, a))

OneHalf == [OneLinked EXCEPT ![a] = HalfOpen[a], ![a][2] = NoRow]

\* Two `conn decide` have accepted row 1 of b: a knows the id of the first.
OneStale == [OneLinked EXCEPT ![a][1].self_id = i1]

AllTables    == {BothLinked, OneHalf, OneStale}
LinkedTables == {BothLinked}
OneTables    == {OneLinked}

TwoAndOne  == a :> 2 @@ b :> 1
TwoAndNone == a :> 2 @@ b :> 0

Symmetry == Permutations(Bodies) \cup Permutations(Slots)
=============================================================================
