------------------------------- MODULE MCChat -------------------------------
(***************************************************************************)
(* Instances of Chat for TLC.                                              *)
(***************************************************************************)
EXTENDS Chat

\* Connections, roles and unions are only compared.
Symmetry == Permutations(Conn) \cup Permutations(Role) \cup Permutations(Union)
=============================================================================
