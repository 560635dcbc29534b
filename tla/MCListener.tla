----------------------------- MODULE MCListener -----------------------------
(* Ap2pListener on small instances. *)
EXTENDS Ap2pListenerInv

CONSTANTS a, b, s1, i1, i2

TwoNodes == {a, b}
OneSlot  == {s1}
TwoIds   == {i1, i2}

\* Both ways a request, which is answered, and a parcel that may fill the queue meanwhile.
FromTo(n, p) == {P!Parcel("CONN_REQ", n, p, i1, Null), P!Parcel("CONN_REJ", n, p, i2, Null)}
BothWays     == FromTo(a, b) \cup FromTo(b, a)
=============================================================================
