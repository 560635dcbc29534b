------------------------------ MODULE MCStore ------------------------------
(* Ap2pStore on small instances. *)
EXTENDS Ap2pStoreInv, TLC

CONSTANTS c1, c2, lsn

TwoCommands == {c1, c2}
OneCommand  == {c1}
=============================================================================
