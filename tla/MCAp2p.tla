------------------------------- MODULE MCAp2p -------------------------------
(* Ap2p on small instances. *)
EXTENDS Ap2pInv, TLC

CONSTANTS a, b, s1, i1, i2, x

TwoNodes == {a, b}
OneSlot  == {s1}
TwoIds   == {i1, i2}
OneBody  == {x}

OneEach  == a :> 1 @@ b :> 1

Symmetry == Permutations(TwoNodes) \cup Permutations(Ids)
=============================================================================
