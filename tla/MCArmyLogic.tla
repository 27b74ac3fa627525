---------------------------- MODULE MCArmyLogic ----------------------------
(***************************************************************************)
(* Instances of ArmyLogic for TLC.  Two roles with a city each and one or  *)
(* two cells between them; every place is in reach of every other one, and *)
(* a way takes one second.                                                 *)
(***************************************************************************)
EXTENDS ArmyLogic

MCCityPos == [r \in Role |-> IF r = 1 THEN "city1" ELSE "city2"]
MCNoUnion == [r \in Role |-> 0]
MCUnions == [r \in Role |-> r]
MCNear == Place \X Place
MCTravelTime == [p \in Place |-> [q \in Place |-> IF p = q THEN 0 ELSE 1]]
MCOwned == [p \in Cell |-> 1]
MCRIdOf2 == [a \in Army |-> IF a = 1 THEN 1 ELSE 2]
MCRIdOf3 == [a \in Army |-> IF a < 3 THEN 1 ELSE 2]
MCOneRole == [a \in Army |-> 1]
=============================================================================
