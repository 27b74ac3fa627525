----------------------------- MODULE MCGeneral -----------------------------
(***************************************************************************)
(* Instances of General, and of Estate in it, for TLC: one role on two     *)
(* connections.                                                            *)
(***************************************************************************)
EXTENDS General, TLC

Cost(wood, gold, decree) == ("wood" :> wood) @@ ("gold" :> gold) @@ ("decree" :> decree)
MCAccountOf == [x \in Conn |-> "u"]
MCUidOf == [r \in Role |-> "u"]
MCNeed == ("JiShi" :> Cost(0, 1, 1)) @@ ("MinJu" :> Cost(1, 0, 0))
MCStart == Cost(1, 1, 1)
MCRoleYield == ("wood" :> 0) @@ ("gold" :> 1)
MCFacYield == [f \in Fac |-> ("wood" :> 0) @@ ("gold" :> IF f = "MinJu" THEN 1 ELSE 0)]
MCFacCapacity == [f \in Fac |-> 0]
MCAmounts == {-1, 1}

MCCfgOf == [g \in Gen |-> IF g = CHOOSE h \in Gen : TRUE THEN "b" ELSE "a"]
MCStar == ("a" :> 1) @@ ("b" :> 1)

\* Kinds of behaviours, instead of all their mixtures: two requests at a time
\* end with the second of them, or before any with a restart; an insertion
\* that fails leaves one more; generals are commanded by a role that has just
\* come in, and drawn while produce() works, without a restart; collections
\* alone go on into the next day; everything else is over by FirstDay.
FirstDay == 3
NothingBuilt == paid = [c \in City |-> [f \in Fac |-> 0]]
Within ==
    /\ overlapped \cup torn # {} => asked <= (IF restarts = 0 THEN 2 ELSE 0)
    /\ failures > 0 => asked <= 1
    /\ byRole # {} =>
          /\ NothingBuilt /\ \A r \in Role : collected[r].times = 0
          /\ now > 1 => asked <= 2 /\ restarts = 0 /\ drawn # [r \in Role |-> 0]
    /\ now > FirstDay =>
          /\ NothingBuilt /\ failures = 0 /\ entries <= restarts + 1
          /\ \A r \in Role : asked >= 2 => collected[r].times > 0

\* Connections are only compared, and so are kinds of skills.
Symmetry == Permutations(Conn) \cup Permutations(SkillCfg)
=============================================================================
