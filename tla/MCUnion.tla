------------------------------ MODULE MCUnion ------------------------------
(***************************************************************************)
(* Instances of Union for TLC: which roles fight for which city.           *)
(***************************************************************************)
EXTENDS Union

MCNoBattle == {}
MCAllBattles == Role \X Role
\* Roles 1 and 2 besiege role 3.
MCSiege == {<<1, 3>>, <<2, 3>>}
=============================================================================
