------------------------------- MODULE MCConn -------------------------------
(* Ap2pConn on small instances. *)
EXTENDS Ap2pConnAbs, TLC

CONSTANTS a, b, s1, s2, i1, i2, i3

TwoNodes == {a, b}
OneSlot  == {s1}
TwoSlots == {s1, s2}
TwoIds   == {i1, i2}
ThreeIds == {i1, i2, i3}

Symmetry == Permutations(TwoNodes) \cup Permutations(Slots) \cup Permutations(Ids)
=============================================================================
