------------------------------- MODULE MCWar -------------------------------
(***************************************************************************)
(* Instances of War for TLC.                                               *)
(***************************************************************************)
EXTENDS War

\* The skills there are data for that kill: of a charge, a blow that follows,
\* and one that is meant for all of one's own side.
Kills(after, target) == [hitAfter |-> after, target |-> target, hurts |-> TRUE]
MCSkills == {Kills(FALSE, "EnemySingle"), Kills(TRUE, "EnemySingle"), Kills(TRUE, "OurAll")}
=============================================================================
