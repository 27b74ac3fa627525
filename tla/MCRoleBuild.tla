---------------------------- MODULE MCRoleBuild ----------------------------
(***************************************************************************)
(* Instances of RoleBuild for TLC: land of role 1, and land of nobody.     *)
(***************************************************************************)
EXTENDS RoleBuild

MCFirst == [c \in Cell |-> 1]
MCOneFree == [c \in Cell |-> IF c = "a" THEN 1 ELSE NoRole]

\* One piece of land sees restarts, late sweeps and the second level; once a
\* second one changes hands all is quick and over by TwoDay.  The last second
\* is looked at and nothing more is done in it.
TwoDay == 3
Untouched == {c \in Cell : build[c] = [Natural EXCEPT !.rid = InitOwner[c]]}
Simple == \A c \in Cell : build[c].Level <= 1 /\ build[c].OPLevel <= 1
Within ==
    /\ now < MaxNow
    /\ "b" \notin Untouched =>
          now <= TwoDay /\ now <= sweptAt + 1 /\ restarts = 0 /\ Simple
=============================================================================
