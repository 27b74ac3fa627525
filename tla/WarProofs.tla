----------------------------- MODULE WarProofs -----------------------------
(***************************************************************************)
(* Proofs about War: its types, that a verdict fits the fight it is given  *)
(* of, that a war between full armies panics in one case only, and that    *)
(* each step takes a bounded measure further, so that wars end.            *)
(*                                                                         *)
(* Everything rests on one fact about blows: who has no soldiers stays     *)
(* without, whoever strikes and with whatever skill (Worn).                *)
(***************************************************************************)
EXTENDS War, FiniteSetTheorems, TLAPS

Fighting == {"round", "next", "before", "strike", "afterA", "afterB", "turn"}
Striking == {"before", "strike", "afterA", "afterB", "turn"}

\* Places without a general have no soldiers.
Absent == \A s \in Side : \A g \in Gens \ gens[s] : men[s][g] = 0

\* A war that is fought has rounds left; one that is over has none left, or a
\* camp is dead.
Decided ==
    /\ at \in Fighting => cur < maxRound
    /\ at = "over" => cur = maxRound \/ \E s \in Side : men[s][Camp] = 0

\* An army that was beaten has lost its camp for good.
Beaten == \A k \in DOMAIN wars : wars[k].result = 0 => men["attack"][Camp] = 0

\* The two that strike each other are generals of either side, and alive when
\* they begin.
Opposed ==
    /\ at \in Striking =>
          /\ hitA[1] # hitB[1] /\ hitA[2] \in gens[hitA[1]] /\ hitB[2] \in gens[hitB[1]]
          /\ i < ArmyGCnt
    /\ at = "before" => MenOf(hitA) # 0 /\ MenOf(hitB) # 0

\* A war has begun for each verdict that is still to come.
Unfinished == at \notin {"trigger", "panicked"} => Len(wars) < MaxWars

Safe ==
    /\ Unfinished /\ Absent /\ Decided /\ Beaten /\ Opposed
    /\ VerdictsTell /\ FullArmiesFight
IInv == WarTypeOK /\ Safe

(***************************************************************************)
(* Blows.                                                                  *)
(***************************************************************************)
\* The code's rounds of DevKill leave no less than 1 - DevKill.
LEMMA DevBlows ==
    ASSUME NEW d \in Nat \ {0}, NEW m \in Nat, NEW n \in Nat, m > 0, n > 0
    PROVE  /\ m - d * Less(n, (m + d - 1) \div d) \in Int
           /\ m - d * Less(n, (m + d - 1) \div d) >= 1 - d
           /\ m - d * Less(n, (m + d - 1) \div d) <= m
<1> DEFINE c == (m + d - 1) \div d
<1>1. m + d - 1 \in Nat
    OBVIOUS
<1>2. c \in Nat /\ d * c <= m + d - 1
  <2> DEFINE a == m + d - 1
  <2>1. a \in Nat
      OBVIOUS
  <2> HIDE DEF a
  <2>2. a \div d \in Nat /\ d * (a \div d) <= a
      BY <2>1, Z3
  <2> QED BY <2>2 DEF a
<1> HIDE DEF c
<1>3. Less(n, c) \in Nat /\ Less(n, c) <= c
    BY <1>2 DEF Less
<1> DEFINE l == Less(n, c)
<1>4. d * l \in Nat /\ d * l <= d * c
  <2>1. l \in Nat /\ l <= c
      BY <1>3
  <2> HIDE DEF l
  <2>2. PICK e \in Nat : c = l + e
    <3>1. c - l \in Nat /\ c = l + (c - l)
        BY <1>2, <2>1
    <3> QED BY <3>1
  <2>3. d * c = d * l + d * e /\ d * l \in Nat /\ d * e \in Nat
      BY <2>1, <2>2, Z3
  <2>4. d * l <= d * c
      BY <2>3
  <2> QED BY <2>3, <2>4
<1>5. d * c \in Nat
    BY <1>2, Z3
<1> HIDE DEF l
<1>6. m - d * l \in Int /\ m - d * l >= 1 - d /\ m - d * l <= m
    BY <1>2, <1>4, <1>5
<1> QED BY <1>6 DEF l, c

\* A blow keeps the type, and leaves nobody where there was nobody.
LEMMA LeftType ==
    ASSUME WarTypeOK, NEW f \in Fighter, NEW m \in Men, NEW n \in Nat
    PROVE  /\ Left(f, m, n) \subseteq Men
           /\ m = 0 => Left(f, m, n) = {0}
<1>0. m \in Int /\ m <= MaxMen /\ Men \subseteq Int /\ MaxMen \in Nat
    BY WarAssumption DEF Men
<1>1. CASE m <= 0 \/ n = 0
    BY <1>1 DEF Left
<1>2. CASE ~(m <= 0 \/ n = 0) /\ Dev
  <2>1. m \in Nat /\ m > 0 /\ n > 0
      BY <1>0, <1>2
  <2> DEFINE v == m - DevKill * Less(n, (m + DevKill - 1) \div DevKill)
  <2>2. v \in Int /\ v >= 1 - DevKill /\ v <= m
      BY <2>1, DevBlows, WarAssumption
  <2> HIDE DEF v
  <2>3. v \in Men
      BY <1>0, <1>2, <2>2, WarAssumption DEF Men
  <2>4. Left(f, m, n) = {v}
      BY <1>2 DEF Left, v
  <2> QED BY <2>1, <2>3, <2>4
<1>3. CASE ~(m <= 0 \/ n = 0) /\ ~Dev
  <2>1. m \in Nat /\ m > 0
      BY <1>0, <1>3
  <2>2. 0..m \subseteq Men
      BY <1>0, <1>3, <2>1 DEF Men
  <2> QED BY <1>3, <2>1, <2>2 DEF Left
<1> QED BY <1>1, <1>2, <1>3

\* Nobody rises, and the types of the soldiers are kept.
Worn ==
    /\ men' \in [Side -> [Gens -> Men]]
    /\ \A s \in Side, g \in Gens : men[s][g] = 0 => men'[s][g] = 0

\* Skills that fire keep the types, and no one rises.
LEMMA UsesWorn ==
    ASSUME WarTypeOK, NEW f \in Fighter, NEW after, NEW our, NEW enemy, NEW foe \in Side,
           NEW then, Uses(f, after, our, enemy, foe, then)
    PROVE  Worn /\ at' \in {then, "panicked"}
<1>1. men \in [Side -> [Gens -> Men]]
    BY DEF WarTypeOK
<1>2. PICK fired \in SUBSET {k \in Skills : k.hitAfter = after} :
        IF \E k \in fired : Aims(f, k.target, our, enemy) = {}
        THEN at' = "panicked" /\ UNCHANGED men
        ELSE /\ at' = then
             /\ \E aim \in [fired -> UNION {Aims(f, k.target, our, enemy) : k \in fired}] :
                 /\ \A k \in fired : aim[k] \in Aims(f, k.target, our, enemy)
                 /\ LET blows(g) == Cardinality({k \in fired : k.hurts /\ <<foe, g>> \in aim[k]})
                    IN  \E left \in [Gens -> UNION {Left(f, men[foe][g], blows(g)) : g \in Gens}] :
                         /\ \A g \in Gens : left[g] \in Left(f, men[foe][g], blows(g))
                         /\ men' = [men EXCEPT ![foe] = left]
    BY DEF Uses
<1>3. CASE \E k \in fired : Aims(f, k.target, our, enemy) = {}
    BY <1>1, <1>2, <1>3 DEF Worn
<1>4. CASE ~ \E k \in fired : Aims(f, k.target, our, enemy) = {}
  <2>1. at' = then
      BY <1>2, <1>4
  <2>2. PICK aim :
          LET blows(g) == Cardinality({k \in fired : k.hurts /\ <<foe, g>> \in aim[k]})
          IN  \E left \in [Gens -> UNION {Left(f, men[foe][g], blows(g)) : g \in Gens}] :
               /\ \A g \in Gens : left[g] \in Left(f, men[foe][g], blows(g))
               /\ men' = [men EXCEPT ![foe] = left]
      BY <1>2, <1>4
  <2> DEFINE blows(g) == Cardinality({k \in fired : k.hurts /\ <<foe, g>> \in aim[k]})
  <2>3. PICK left \in [Gens -> UNION {Left(f, men[foe][g], blows(g)) : g \in Gens}] :
               /\ \A g \in Gens : left[g] \in Left(f, men[foe][g], blows(g))
               /\ men' = [men EXCEPT ![foe] = left]
      BY <2>2
  <2>4. ASSUME NEW g \in Gens
        PROVE  left[g] \in Men /\ (men[foe][g] = 0 => left[g] = 0)
    <3> DEFINE hurt == {k \in fired : k.hurts /\ <<foe, g>> \in aim[k]}
    <3>1. IsFiniteSet(Skills) /\ hurt \in SUBSET Skills
        BY WarAssumption
    <3>2. IsFiniteSet(hurt)
        BY <3>1, FS_Subset
    <3>3. Cardinality(hurt) \in Nat
        BY <3>2, FS_CardinalityType
    <3> HIDE DEF hurt
    <3>4. left[g] \in Left(f, men[foe][g], Cardinality(hurt))
        BY <2>3 DEF hurt
    <3>5. men[foe][g] \in Men
        BY <1>1
    <3> QED BY <3>3, <3>4, <3>5, LeftType
  <2>5. left \in [Gens -> Men]
      BY <2>3, <2>4
  <2> HIDE DEF blows
  <2>6. men' = [men EXCEPT ![foe] = left]
      BY <2>3
  <2> QED BY <1>1, <2>1, <2>4, <2>5, <2>6 DEF Worn
<1> QED BY <1>3, <1>4

\* Skills that find nobody: of a skill with a single target, and on a side
\* where nobody is alive.
LEMMA UsesPanics ==
    ASSUME WarTypeOK, NEW f \in Fighter, NEW after, NEW our \in Side, NEW enemy \in Side,
           NEW foe, NEW then, then # "panicked",
           Uses(f, after, our, enemy, foe, then), at' = "panicked"
    PROVE  /\ men' = men
           /\ \E k \in Skills : /\ k.hitAfter = after
                                /\ \/ k.target = "OurSingle" /\ Alive(our) = {}
                                   \/ k.target = "EnemySingle" /\ Alive(enemy) = {}
<1>1. PICK fired \in SUBSET {k \in Skills : k.hitAfter = after} :
        /\ \E k \in fired : Aims(f, k.target, our, enemy) = {}
        /\ men' = men
    BY DEF Uses
<1>2. PICK k \in fired : Aims(f, k.target, our, enemy) = {}
    BY <1>1
<1>3. k \in Skills /\ k.hitAfter = after /\ k.target \in Targets
    BY <1>1, WarAssumption
<1>4. ASSUME NEW s \in Side, Alive(s) # {} PROVE Sets(s, 1) # {}
  <2>1. PICK g \in Alive(s) : TRUE
      BY <1>4
  <2>2. Cardinality({g}) \in 1..1 /\ {g} \in SUBSET Alive(s)
      BY FS_Singleton
  <2> QED BY <2>2 DEF Sets
<1>5. k.target \in {"OurSingle", "EnemySingle"}
    BY <1>2, <1>3 DEF Aims, Targets
<1>6. CASE k.target = "OurSingle"
  <2>1. Sets(our, 1) = {}
      BY <1>2, <1>6 DEF Aims
  <2> QED BY <1>1, <1>3, <1>4, <1>6, <2>1
<1>7. CASE k.target = "EnemySingle"
  <2>1. Sets(enemy, 1) = {}
      BY <1>2, <1>7 DEF Aims
  <2> QED BY <1>1, <1>3, <1>4, <1>7, <2>1
<1> QED BY <1>5, <1>6, <1>7

(***************************************************************************)
(* Steps.                                                                  *)
(***************************************************************************)
\* Every army has a place for the camp.
LEMMA CampIsPlace == Camp \in Gens /\ Camp = 0 /\ Gens \subseteq Int
BY WarAssumption DEF Camp, Gens

\* Where the pair stands before and after a blow.
LEMMA NobodyFights == Nobody \in Fighter
<1>1. "attack" \in Side /\ Camp \in Gens
    BY CampIsPlace DEF Side
<1> QED BY <1>1 DEF Nobody, Fighter

\* While nobody rises, what was beaten stays so.
LEMMA WornKeeps ==
    ASSUME IInv, Worn, gens' = gens, wars' = wars
    PROVE  Absent' /\ Beaten' /\ VerdictsTell'
<1> USE DEF IInv, Safe
<1>1. Absent'
    BY DEF Absent, Worn
<1>2. Beaten'
  <2>1. "attack" \in Side /\ Camp \in Gens
      BY CampIsPlace DEF Side
  <2>2. men["attack"][Camp] = 0 => men'["attack"][Camp] = 0
      BY <2>1 DEF Worn
  <2> QED BY <2>2 DEF Beaten
<1>3. VerdictsTell'
    BY DEF VerdictsTell
<1> QED BY <1>1, <1>2, <1>3

\* A new war begins with any enemy, the army is as the last one left it.
LEMMA NewWarInv == IInv /\ NewWar => IInv'
<1> SUFFICES ASSUME IInv, NewWar PROVE IInv'
    OBVIOUS
<1> USE DEF IInv, Safe, NewWar, pair
<1>1. PICK own \in SUBSET Gens, m \in [Gens -> 0..MaxMen] :
        /\ \A g \in Gens \ own : m[g] = 0
        /\ gens' = [gens EXCEPT !["defense"] = own]
        /\ men' = [men EXCEPT !["defense"] = m]
    OBVIOUS
<1>2. 0..MaxMen \subseteq Men /\ 0 \in 0..maxRound /\ 0 < maxRound
    BY WarAssumption DEF Men
<1>3. WarTypeOK'
    BY <1>1, <1>2 DEF WarTypeOK, Side, Stages
<1>4. Absent'
    BY <1>1 DEF Absent, WarTypeOK, Side
<1>5. Unfinished' /\ Decided' /\ Opposed' /\ FullArmiesFight'
    BY <1>2 DEF Unfinished, Decided, Opposed, Fighting, Striking, FullArmiesFight
<1>6. men'["attack"] = men["attack"]
    BY <1>1 DEF WarTypeOK, Side
<1>7. Beaten' /\ VerdictsTell'
    BY <1>6 DEF Beaten, VerdictsTell
<1> QED BY <1>3, <1>4, <1>5, <1>7

\* A round begins.
LEMMA RunRoundInv == IInv /\ RunRound => IInv'
<1> SUFFICES ASSUME IInv, RunRound PROVE IInv'
    OBVIOUS
<1> USE DEF IInv, Safe, RunRound, armies, pair
<1>1. WarTypeOK'
    BY WarAssumption DEF WarTypeOK, Stages
<1>2. Worn
    BY DEF Worn, WarTypeOK
<1>3. Unfinished' /\ Decided' /\ Opposed' /\ FullArmiesFight'
    BY DEF Unfinished, Decided, Opposed, Fighting, Striking, FullArmiesFight
<1> QED BY <1>1, <1>2, <1>3, WornKeeps

\* Somebody alive is chosen on either side, or a side is wiped out.
LEMMA PickInv == IInv /\ Pick => IInv'
<1> SUFFICES ASSUME IInv, Pick PROVE IInv'
    OBVIOUS
<1> USE DEF IInv, Safe, Pick, armies, pair
<1>1. Worn /\ gens' = gens /\ men' = men /\ wars' = wars /\ cur' = cur /\ first' = first
    BY DEF Worn, WarTypeOK
<1>2. /\ first \in Side /\ Other(first) \in Side /\ Other(first) # first
      /\ gens \in [Side -> SUBSET Gens] /\ men \in [Side -> [Gens -> Men]]
      /\ ArmyGCnt \in Nat \ {0} /\ i \in 0..ArmyGCnt /\ i < ArmyGCnt
    BY WarAssumption DEF WarTypeOK, Side, Other
<1>3. CASE i \notin Alive(first)
  <2>1. i' = i + 1 /\ at' = at /\ hitA' = hitA /\ hitB' = hitB /\ counter' = counter
      BY <1>3
  <2>2. WarTypeOK'
      BY <1>1, <1>2, <2>1 DEF WarTypeOK
  <2>3. Unfinished' /\ Decided' /\ Opposed' /\ FullArmiesFight'
      BY <1>1, <2>1 DEF Unfinished, Decided, Opposed, MenOf, Fighting, Striking, FullArmiesFight
  <2> QED BY <1>1, <2>2, <2>3, WornKeeps
<1>4. CASE i \in Alive(first) /\ Alive(Other(first)) = {}
  <2>1. i' = i /\ at' = "over" /\ hitA' = hitA /\ hitB' = hitB /\ counter' = counter
      BY <1>4
  <2>2. WarTypeOK'
      BY <1>1, <2>1 DEF WarTypeOK, Stages
  <2>3. men[Other(first)][Camp] = 0
      BY <1>2, <1>4, CampIsPlace DEF Alive, Absent
  <2>4. Unfinished' /\ Decided' /\ Opposed' /\ FullArmiesFight'
      BY <1>1, <1>2, <2>1, <2>3 DEF Unfinished, Decided, Opposed, Fighting, Striking, FullArmiesFight
  <2> QED BY <1>1, <2>2, <2>4, WornKeeps
<1>5. CASE i \in Alive(first) /\ Alive(Other(first)) # {}
  <2>1. PICK g \in Alive(Other(first)) : hitB' = <<Other(first), g>>
      BY <1>5
  <2>2. i' = i /\ hitA' = <<first, i>> /\ counter' = FALSE /\ at' = "before"
      BY <1>5
  <2>3. i \in gens[first] /\ men[first][i] # 0 /\ g \in gens[Other(first)] /\ men[Other(first)][g] # 0
      BY <1>5, <2>1 DEF Alive
  <2>4. i \in Gens /\ g \in Gens
      BY <1>2, <2>3
  <2>5. WarTypeOK'
      BY <1>1, <1>2, <2>1, <2>2, <2>4 DEF WarTypeOK, Stages, Fighter
  <2>6. Unfinished' /\ Decided' /\ Opposed' /\ FullArmiesFight'
      BY <1>1, <1>2, <2>1, <2>2, <2>3
      DEF Unfinished, Decided, Opposed, MenOf, Fighting, Striking, FullArmiesFight
  <2> QED BY <1>1, <2>5, <2>6, WornKeeps
<1> QED BY <1>3, <1>4, <1>5

\* Skills before a blow always find somebody: the two are alive.
LEMMA BeforeSkillInv == IInv /\ BeforeSkill => IInv'
<1> SUFFICES ASSUME IInv, BeforeSkill PROVE IInv'
    OBVIOUS
<1> USE DEF IInv, Safe, BeforeSkill, pair
<1>1. /\ hitA \in Fighter /\ hitA[1] \in Side /\ hitB[1] \in Side /\ WarTypeOK
      /\ Uses(hitA, FALSE, hitA[1], hitB[1], hitB[1], "strike")
    BY DEF WarTypeOK, Fighter
<1>2. Worn /\ at' \in {"strike", "panicked"}
    BY <1>1, UsesWorn
<1>3. at' # "panicked"
  <2> SUFFICES ASSUME at' = "panicked" PROVE FALSE
      OBVIOUS
  <2>1. Alive(hitA[1]) = {} \/ Alive(hitB[1]) = {}
      BY <1>1, UsesPanics
  <2>2. hitA[2] \in Alive(hitA[1]) /\ hitB[2] \in Alive(hitB[1])
      BY DEF Opposed, Striking, MenOf, Alive
  <2> QED BY <2>1, <2>2
<1>4. WarTypeOK'
    BY <1>2 DEF WarTypeOK, Stages, Worn
<1>5. Unfinished' /\ Decided' /\ Opposed' /\ FullArmiesFight'
    BY <1>2, <1>3 DEF Unfinished, Decided, Opposed, Fighting, Striking, FullArmiesFight
<1> QED BY <1>2, <1>4, <1>5, WornKeeps

\* The blow: when it kills a camp the war is over.
LEMMA StrikeInv == IInv /\ Strike => IInv'
<1> SUFFICES ASSUME IInv, Strike PROVE IInv'
    OBVIOUS
<1> USE DEF IInv, Safe, Strike, pair
<1>1. PICK left \in Left(hitA, MenOf(hitB), 1) :
        /\ men' = [men EXCEPT ![hitB[1]][hitB[2]] = left]
        /\ at' = IF hitB[2] = Camp /\ left = 0 THEN "over" ELSE "afterA"
    OBVIOUS
<1>2. /\ hitA \in Fighter /\ hitB[1] \in Side /\ hitB[2] \in Gens
      /\ men \in [Side -> [Gens -> Men]] /\ MenOf(hitB) \in Men /\ 1 \in Nat
    BY DEF WarTypeOK, Fighter, MenOf
<1>3. left \in Men /\ (MenOf(hitB) = 0 => left = 0)
    BY <1>1, <1>2, LeftType
<1>4. Worn
    BY <1>1, <1>2, <1>3 DEF Worn, MenOf
<1>5. WarTypeOK'
    BY <1>1, <1>4 DEF WarTypeOK, Stages, Worn
<1>6. Decided'
  <2>1. hitB[2] = Camp /\ left = 0 => men'[hitB[1]][Camp] = 0
      BY <1>1, <1>2
  <2> QED BY <1>1, <1>2, <2>1 DEF Decided, Fighting
<1>7. Unfinished' /\ Opposed' /\ FullArmiesFight'
    BY <1>1 DEF Unfinished, Opposed, Fighting, Striking, FullArmiesFight
<1> QED BY <1>4, <1>5, <1>6, <1>7, WornKeeps

\* Skills after a blow may find nobody: then a full side is wiped out.
LEMMA AfterSkillInv ==
    ASSUME IInv, NEW f \in Fighter, NEW our \in Side, NEW enemy \in Side, NEW foe \in Side,
           NEW then \in {"afterB", "turn"}, at \in Striking, Uses(f, TRUE, our, enemy, foe, then),
           UNCHANGED <<gens, first, i, pair, cur, wars>>
    PROVE  IInv'
<1> USE DEF IInv, Safe, pair
<1>1. Worn /\ at' \in {then, "panicked"}
    BY UsesWorn
<1>2. WarTypeOK'
    BY <1>1 DEF WarTypeOK, Stages, Worn
<1>3. Unfinished' /\ Decided' /\ Opposed'
    BY <1>1 DEF Unfinished, Decided, Opposed, Fighting, Striking
<1>4. FullArmiesFight'
  <2> SUFFICES ASSUME at' = "panicked", gens' = [s \in Side |-> Gens]
               PROVE  /\ \E s \in Side : \A g \in Gens : men'[s][g] = 0
                      /\ \E k \in Skills : k.hitAfter /\ k.target \in {"OurSingle", "EnemySingle"}
      BY DEF FullArmiesFight
  <2>1. PICK k \in Skills : /\ k.hitAfter = TRUE
                            /\ \/ k.target = "OurSingle" /\ Alive(our) = {}
                               \/ k.target = "EnemySingle" /\ Alive(enemy) = {}
      BY UsesPanics
  <2>2. men' = men
      BY UsesPanics
  <2>3. PICK s \in Side : Alive(s) = {}
      BY <2>1
  <2>4. \A g \in Gens : men'[s][g] = 0
      BY <2>2, <2>3 DEF Alive
  <2> QED BY <2>1, <2>4
<1> QED BY <1>1, <1>2, <1>3, <1>4, WornKeeps

\* The blow in return, or the next general.
LEMMA TurnInv == IInv /\ Turn => IInv'
<1> SUFFICES ASSUME IInv, Turn PROVE IInv'
    OBVIOUS
<1> USE DEF IInv, Safe, Turn, armies
<1>1. Worn /\ gens' = gens /\ men' = men /\ wars' = wars /\ cur' = cur
    BY DEF Worn, WarTypeOK
<1>2. CASE ~counter /\ MenOf(hitA) # 0 /\ MenOf(hitB) # 0
  <2>1. hitA' = hitB /\ hitB' = hitA /\ counter' = TRUE /\ at' = "before" /\ i' = i
      BY <1>2
  <2>2. WarTypeOK'
      BY <1>1, <2>1 DEF WarTypeOK, Stages
  <2>3. MenOf(hitA)' # 0 /\ MenOf(hitB)' # 0
      BY <1>1, <1>2, <2>1 DEF MenOf
  <2>4. Unfinished' /\ Decided' /\ Opposed' /\ FullArmiesFight'
      BY <1>1, <2>1, <2>3 DEF Unfinished, Decided, Opposed, Fighting, Striking, FullArmiesFight
  <2> QED BY <1>1, <2>2, <2>4, WornKeeps
<1>3. CASE ~(~counter /\ MenOf(hitA) # 0 /\ MenOf(hitB) # 0)
  <2>1. at' = "next" /\ Parted /\ i' = i + 1
      BY <1>3
  <2>2. WarTypeOK'
    <3>1. i' \in 0..ArmyGCnt
        BY <2>1, WarAssumption DEF WarTypeOK, Opposed, Striking
    <3>2. hitA' \in Fighter /\ hitB' \in Fighter /\ counter' \in BOOLEAN
        BY <2>1, NobodyFights DEF Parted
    <3> QED BY <1>1, <2>1, <3>1, <3>2 DEF WarTypeOK, Stages
  <2>3. Unfinished' /\ Decided' /\ Opposed' /\ FullArmiesFight'
      BY <1>1, <2>1 DEF Unfinished, Decided, Opposed, Fighting, Striking, FullArmiesFight
  <2> QED BY <1>1, <2>2, <2>3, WornKeeps
<1> QED BY <1>2, <1>3

\* A round ends, or a place without a general is met.
LEMMA EndRoundInv == IInv /\ EndRound => IInv'
<1> SUFFICES ASSUME IInv, EndRound PROVE IInv'
    OBVIOUS
<1> USE DEF IInv, Safe, EndRound, armies, pair
<1>1. Worn /\ gens' = gens /\ men' = men /\ wars' = wars
    BY DEF Worn, WarTypeOK
<1>2. cur < maxRound /\ cur \in 0..maxRound /\ maxRound \in Nat
    BY WarAssumption DEF Decided, Fighting, WarTypeOK
<1>3. CASE \E s \in Side : gens[s] # Gens
  <2>1. at' = "panicked" /\ cur' = cur
      BY <1>3
  <2>2. gens # [s \in Side |-> Gens]
      BY <1>3
  <2>3. WarTypeOK'
      BY <2>1 DEF WarTypeOK, Stages
  <2>4. Unfinished' /\ Decided' /\ Opposed' /\ FullArmiesFight'
      BY <1>1, <2>1, <2>2 DEF Unfinished, Decided, Opposed, Fighting, Striking, FullArmiesFight
  <2> QED BY <1>1, <2>3, <2>4, WornKeeps
<1>4. CASE ~ \E s \in Side : gens[s] # Gens
  <2>1. cur' = cur + 1 /\ at' = IF cur + 1 >= maxRound THEN "over" ELSE "round"
      BY <1>4
  <2>2. cur' \in 0..maxRound
      BY <1>2, <2>1
  <2>3. WarTypeOK'
      BY <2>1, <2>2 DEF WarTypeOK, Stages
  <2>4. Unfinished' /\ Decided' /\ Opposed' /\ FullArmiesFight'
      BY <1>2, <2>1, <2>2 DEF Unfinished, Decided, Opposed, Fighting, Striking, FullArmiesFight
  <2> QED BY <1>1, <2>3, <2>4, WornKeeps
<1> QED BY <1>3, <1>4

\* The verdict: a draw after the last round only, and a defeat for good.
LEMMA WarOverInv == IInv /\ WarOver => IInv'
<1> SUFFICES ASSUME IInv, WarOver PROVE IInv'
    OBVIOUS
<1> USE DEF IInv, Safe, WarOver, armies
<1>1. Worn /\ gens' = gens /\ men' = men /\ cur' = cur
    BY DEF Worn, WarTypeOK
<1>2. /\ hitA' \in Fighter /\ hitB' \in Fighter /\ counter' \in BOOLEAN /\ first' \in Side
      /\ i' \in 0..ArmyGCnt
  <2>1. hitA' \in Fighter /\ hitB' \in Fighter /\ counter' \in BOOLEAN
      BY NobodyFights DEF Parted
  <2>2. first' \in Side /\ i' \in 0..ArmyGCnt
      BY WarAssumption DEF Side
  <2> QED BY <2>1, <2>2
<1>3. CASE Camp \notin gens["attack"]
  <2>1. at' = "panicked" /\ wars' = wars
      BY <1>3
  <2>2. gens # [s \in Side |-> Gens]
      BY <1>3, CampIsPlace DEF Side
  <2>3. WarTypeOK'
      BY <1>1, <1>2, <2>1 DEF WarTypeOK, Stages
  <2>4. Unfinished' /\ Decided' /\ Opposed' /\ FullArmiesFight'
      BY <1>1, <2>1, <2>2 DEF Unfinished, Decided, Opposed, Fighting, Striking, FullArmiesFight
  <2> QED BY <1>1, <2>1, <2>3, <2>4, WornKeeps
<1>4. CASE Camp \in gens["attack"]
  <2> DEFINE w == [result |-> Verdict, rounds |-> cur]
  <2>1. at' = "trigger" /\ wars' = Append(wars, w)
      BY <1>4
  <2>2. /\ wars \in Seq([result : 0..2, rounds : 0..maxRound])
        /\ w \in [result : 0..2, rounds : 0..maxRound]
        /\ w.result = Verdict /\ w.rounds = cur
      BY WarAssumption DEF WarTypeOK, Verdict
  <2>3. Verdict = 1 => cur = maxRound
    <3>1. \A s \in Side : s = "attack" \/ s = "defense"
        BY DEF Side
    <3> QED BY <3>1 DEF Verdict, Decided
  <2>4. Verdict = 0 <=> men["attack"][Camp] = 0
      BY DEF Verdict
  <2> HIDE DEF w
  <2>5. /\ Len(wars) \in Nat /\ DOMAIN wars = 1..Len(wars) /\ DOMAIN wars' = 1..(Len(wars) + 1)
        /\ wars'[Len(wars) + 1] = w /\ \A k \in DOMAIN wars : wars'[k] = wars[k]
      BY <2>1, <2>2
  <2>6. Len(wars) < MaxWars
      BY DEF Unfinished
  <2>7. WarTypeOK'
      BY <1>1, <1>2, <2>1, <2>2, <2>6, WarAssumption DEF WarTypeOK, Stages
  <2>8. Unfinished' /\ Absent' /\ Decided' /\ Opposed' /\ FullArmiesFight'
      BY <1>1, <2>1 DEF Unfinished, Absent, Decided, Opposed, Fighting, Striking, FullArmiesFight
  <2>9. Beaten'
      BY <1>1, <2>2, <2>4, <2>5 DEF Beaten
  <2>10. VerdictsTell'
    <3> SUFFICES ASSUME NEW k \in DOMAIN wars'
                 PROVE  /\ wars'[k].result = 1 => wars'[k].rounds = maxRound
                        /\ wars'[k].result = 0 =>
                              \A l \in DOMAIN wars' : l >= k => wars'[l].result = 0
        BY DEF VerdictsTell
    <3>1. CASE k \in DOMAIN wars
      <4>1. wars'[k] = wars[k]
          BY <2>5, <3>1
      <4>2. wars[k].result = 0 => Verdict = 0
          BY <2>4, <3>1 DEF Beaten
      <4> QED BY <2>2, <2>5, <3>1, <4>1, <4>2 DEF VerdictsTell
    <3>2. CASE k = Len(wars) + 1
        BY <2>2, <2>3, <2>5, <3>2
    <3> QED BY <2>5, <3>1, <3>2
  <2> QED BY <2>7, <2>8, <2>9, <2>10
<1> QED BY <1>3, <1>4

(***************************************************************************)
(* Theorems.                                                               *)
(***************************************************************************)
LEMMA Inductive == IInv /\ [Next]_warVars => IInv'
<1> SUFFICES ASSUME IInv, [Next]_warVars PROVE IInv'
    OBVIOUS
<1>1. /\ hitA \in Fighter /\ hitB \in Fighter
      /\ hitA[1] \in Side /\ hitB[1] \in Side
    BY DEF IInv, WarTypeOK, Fighter
<1>2. ASSUME AfterSkillA PROVE IInv'
  <2>1. at \in Striking /\ UNCHANGED <<gens, first, i, pair, cur, wars>>
      BY <1>2 DEF AfterSkillA, Striking
  <2>2. Uses(hitA, TRUE, hitB[1], hitA[1], hitB[1], "afterB")
      BY <1>2 DEF AfterSkillA
  <2> QED BY <1>1, <2>1, <2>2, AfterSkillInv
<1>3. ASSUME AfterSkillB PROVE IInv'
  <2>1. at \in Striking /\ UNCHANGED <<gens, first, i, pair, cur, wars>>
      BY <1>3 DEF AfterSkillB, Striking
  <2>2. Uses(hitB, TRUE, hitA[1], hitB[1], hitA[1], "turn")
      BY <1>3 DEF AfterSkillB
  <2> QED BY <1>1, <2>1, <2>2, AfterSkillInv
<1>4. ASSUME UNCHANGED warVars PROVE IInv'
    BY <1>4 DEF warVars, IInv, WarTypeOK, Safe, Unfinished, Absent, Decided, Beaten, Opposed,
                VerdictsTell, FullArmiesFight, MenOf
<1>5. CASE Hit
    BY <1>2, <1>3, <1>5, BeforeSkillInv, StrikeInv, TurnInv DEF Hit
<1> QED BY <1>4, <1>5, NewWarInv, RunRoundInv, PickInv, EndRoundInv, WarOverInv DEF Next

\* Types, the fight and its verdicts are inductive together, for armies of any
\* size, any set of skills and any number of rounds and enemies.
THEOREM Invariance == Spec => []IInv
<1>1. Init => IInv
  <2> SUFFICES ASSUME Init PROVE IInv
      OBVIOUS
  <2>1. 0..MaxMen \subseteq Men /\ 0 \in 0..maxRound /\ 0 \in 0..ArmyGCnt
      BY WarAssumption DEF Men
  <2>2. gens \in [Side -> SUBSET Gens]
      BY DEF Init
  <2>3. men \in [Side -> [Gens -> Men]]
      BY <2>1 DEF Init
  <2>4. WarTypeOK
    <3>1. wars \in Seq([result : 0..2, rounds : 0..maxRound]) /\ Len(wars) <= MaxWars
        BY WarAssumption DEF Init
    <3>2. hitA \in Fighter /\ hitB \in Fighter /\ counter \in BOOLEAN
        BY NobodyFights DEF Init
    <3>3. at \in Stages /\ first \in Side /\ i \in 0..ArmyGCnt /\ cur \in 0..maxRound
        BY <2>1 DEF Init, Stages, Side
    <3> QED BY <2>2, <2>3, <3>1, <3>2, <3>3 DEF WarTypeOK
  <2>5. Safe
      BY DEF Init, Safe, Unfinished, Absent, Decided, Beaten, Opposed, VerdictsTell,
             FullArmiesFight, Fighting, Striking
  <2> QED BY <2>4, <2>5 DEF IInv
<1> QED BY <1>1, Inductive, PTL DEF Spec

\* The state of a war keeps its types: soldiers are never negative but in the
\* mode for developers, where the last blow may exceed them.
THEOREM TypeCorrect == Spec => []WarTypeOK
BY Invariance, PTL DEF IInv

\* A verdict fits the fight: a draw after the last round only, and who was
\* beaten wins against none of the next enemies.
THEOREM VerdictsFit == Spec => []VerdictsTell
BY Invariance, PTL DEF IInv, Safe

\* A war between full armies panics only when a skill with a single target
\* finds a side wiped out.
THEOREM FullArmiesPanicRarely == Spec => []FullArmiesFight
BY Invariance, PTL DEF IInv, Safe

(***************************************************************************)
(* Wars go forward.                                                        *)
(***************************************************************************)
\* How far a round has come: eleven steps for each place, one to choose and five
\* for each of the two blows.
Stage ==
    CASE at = "before" -> 1 [] at = "strike" -> 2 [] at = "afterA" -> 3
      [] at = "afterB" -> 4 [] at = "turn" -> 5 [] OTHER -> 0
Reached == 11 * i + Stage + (IF at \in Striking /\ counter THEN 5 ELSE 0)
Rounds(n) == n * (11 * ArmyGCnt + 2)
WarLen == Rounds(maxRound) + 2
Wars(n) == n * WarLen

\* How far it all has come.
Gone == Wars(Len(wars))
Fought == Rounds(cur) + (IF at = "round" THEN 0 ELSE 1 + Reached)
Most == Wars(MaxWars) + 1
Progress ==
    CASE at = "trigger" -> Gone
      [] at \in Fighting -> Gone + 1 + Fought
      [] at = "over" -> Gone + WarLen - 1
      [] OTHER -> Most

LEMMA Multiples ==
    ASSUME NEW m \in Nat, NEW n \in Nat, NEW k \in Nat, m < n
    PROVE  m * k \in Nat /\ (m + 1) * k = m * k + k /\ m * k + k <= n * k
<1>1. PICK d \in Nat : n = m + 1 + d
  <2>1. n - m - 1 \in Nat /\ n = m + 1 + (n - m - 1) OBVIOUS
  <2> QED BY <2>1
<1>2. n * k = m * k + k + d * k /\ d * k \in Nat /\ m * k \in Nat
    BY <1>1, Z3
<1>3. (m + 1) * k = m * k + k
    BY Z3
<1> QED BY <1>2, <1>3

LEMMA RoundsType ==
    /\ ArmyGCnt \in Nat /\ maxRound \in Nat /\ Rounds(0) = 0
    /\ \A n \in Nat : Rounds(n) \in Nat /\ Rounds(n + 1) = Rounds(n) + 11 * ArmyGCnt + 2
    /\ \A m, n \in Nat : m < n => Rounds(m) + 11 * ArmyGCnt + 2 <= Rounds(n)
<1> DEFINE k == 11 * ArmyGCnt + 2
<1>1. ArmyGCnt \in Nat /\ maxRound \in Nat BY WarAssumption
<1>2. k \in Nat BY <1>1
<1>3. \A n : Rounds(n) = n * k BY DEF Rounds
<1>4. k = 11 * ArmyGCnt + 2 OBVIOUS
<1> HIDE DEF k
<1>5. Rounds(0) = 0 BY <1>2, <1>3
<1>6. \A n \in Nat : Rounds(n) \in Nat /\ Rounds(n + 1) = Rounds(n) + k
  <2> SUFFICES ASSUME NEW n \in Nat PROVE n * k \in Nat /\ (n + 1) * k = n * k + k
      BY <1>3
  <2> QED BY <1>2, Multiples
<1>7. \A m, n \in Nat : m < n => Rounds(m) + k <= Rounds(n)
  <2> SUFFICES ASSUME NEW m \in Nat, NEW n \in Nat, m < n PROVE m * k + k <= n * k
      BY <1>3
  <2> QED BY <1>2, Multiples
<1>8. \A n \in Nat : Rounds(n) + k = Rounds(n) + 11 * ArmyGCnt + 2
    BY <1>1, <1>4, <1>6
<1> QED BY <1>1, <1>5, <1>6, <1>7, <1>8

LEMMA WarsType ==
    /\ MaxWars \in Nat /\ WarLen \in Nat /\ WarLen = Rounds(maxRound) + 2
    /\ \A n \in Nat : Wars(n) \in Nat /\ Wars(n + 1) = Wars(n) + WarLen
    /\ \A m, n \in Nat : m < n => Wars(m) + WarLen <= Wars(n)
<1>1. MaxWars \in Nat BY WarAssumption
<1>2. WarLen \in Nat /\ WarLen = Rounds(maxRound) + 2
  <2>1. Rounds(maxRound) \in Nat BY RoundsType
  <2> QED BY <2>1 DEF WarLen
<1>3. \A n \in Nat : Wars(n) \in Nat /\ Wars(n + 1) = Wars(n) + WarLen
  <2> SUFFICES ASSUME NEW n \in Nat PROVE n * WarLen \in Nat /\ (n + 1) * WarLen = n * WarLen + WarLen
      BY DEF Wars
  <2> QED BY <1>2, Multiples
<1>4. \A m, n \in Nat : m < n => Wars(m) + WarLen <= Wars(n)
  <2> SUFFICES ASSUME NEW m \in Nat, NEW n \in Nat, m < n PROVE m * WarLen + WarLen <= n * WarLen
      BY DEF Wars
  <2> QED BY <1>2, Multiples
<1> QED BY <1>1, <1>2, <1>3, <1>4

LEMMA Lengths ==
    ASSUME IInv
    PROVE  /\ Gone \in Nat /\ WarLen \in Nat /\ Most \in Nat /\ Gone < Most
           /\ ArmyGCnt \in Nat /\ cur \in Nat /\ Rounds(cur) \in Nat
           /\ Rounds(cur + 1) = Rounds(cur) + 11 * ArmyGCnt + 2
           /\ Len(wars) < MaxWars =>
                 Gone + WarLen < Most /\ Wars(Len(wars) + 1) = Gone + WarLen
           /\ cur < maxRound => Rounds(cur) + 11 * ArmyGCnt + 4 <= WarLen
<1>1. Len(wars) \in Nat /\ Len(wars) <= MaxWars /\ cur \in Nat
    BY DEF IInv, WarTypeOK
<1>2. Len(wars) < MaxWars \/ Len(wars) = MaxWars BY <1>1, WarsType
<1>3. /\ Gone \in Nat /\ WarLen \in Nat /\ Wars(MaxWars) \in Nat
      /\ Most = Wars(MaxWars) + 1 /\ Gone = Wars(Len(wars))
    BY <1>1, WarsType DEF Gone, Most
<1>4. Len(wars) < MaxWars =>
        Gone + WarLen <= Wars(MaxWars) /\ Wars(Len(wars) + 1) = Gone + WarLen
    BY <1>1, <1>3, WarsType
<1>5. ArmyGCnt \in Nat /\ Rounds(cur) \in Nat
      /\ Rounds(cur + 1) = Rounds(cur) + 11 * ArmyGCnt + 2
    BY <1>1, RoundsType
<1>6. cur < maxRound => Rounds(cur) + 11 * ArmyGCnt + 4 <= WarLen
  <2>1. Rounds(maxRound) \in Nat /\ WarLen = Rounds(maxRound) + 2 BY RoundsType, WarsType
  <2>2. cur < maxRound => Rounds(cur) + 11 * ArmyGCnt + 2 <= Rounds(maxRound)
      BY <1>1, RoundsType
  <2> QED BY <1>5, <2>1, <2>2
<1>7. Gone <= Wars(MaxWars) BY <1>2, <1>3, <1>4
<1> QED BY <1>1, <1>3, <1>4, <1>5, <1>6, <1>7

\* A round does not outrun its length, nor a war its own.
LEMMA Bounds ==
    ASSUME IInv
    PROVE  /\ Progress \in 0..Most
           /\ at \in Fighting => Reached \in 0..(11 * ArmyGCnt) /\ cur < maxRound
                                 /\ Gone + 1 + Fought < Gone + WarLen - 1
<1>0. /\ Gone \in Nat /\ WarLen \in Nat /\ Most \in Nat /\ Gone < Most
      /\ ArmyGCnt \in Nat /\ Rounds(cur) \in Nat
      /\ Len(wars) < MaxWars => Gone + WarLen < Most
      /\ cur < maxRound => Rounds(cur) + 11 * ArmyGCnt + 4 <= WarLen
    BY Lengths
<1>1. i \in 0..ArmyGCnt /\ counter \in BOOLEAN /\ cur \in Nat
    BY DEF IInv, WarTypeOK
<1>2. at \in Striking => i + 1 <= ArmyGCnt
  <2>1. at \in Striking => i < ArmyGCnt BY DEF IInv, Safe, Opposed
  <2> QED BY <1>0, <1>1, <2>1
<1>3. Stage \in 0..5 /\ (at \notin Striking => Stage = 0)
    BY DEF Stage, Striking
<1>4. Reached \in 0..(11 * ArmyGCnt)
  <2>1. CASE at \in Striking BY <1>0, <1>1, <1>2, <1>3, <2>1 DEF Reached
  <2>2. CASE at \notin Striking BY <1>0, <1>1, <1>3, <2>2 DEF Reached
  <2> QED BY <2>1, <2>2
<1>5. ASSUME at \in Fighting
      PROVE  cur < maxRound /\ Fought \in Nat /\ Gone + 1 + Fought < Gone + WarLen - 1
  <2>1. cur < maxRound BY <1>5 DEF IInv, Safe, Decided
  <2>2. Fought \in Nat /\ Fought <= Rounds(cur) + 1 + 11 * ArmyGCnt
      BY <1>0, <1>4 DEF Fought
  <2> QED BY <1>0, <2>1, <2>2
<1>6. Progress \in 0..Most
  <2>1. at \in Fighting \/ at = "over" => Len(wars) < MaxWars
      BY DEF IInv, Safe, Unfinished, Fighting
  <2>2. at \in Stages BY DEF IInv, WarTypeOK
  <2>3. CASE at \in Fighting
    <3>1. Progress = Gone + 1 + Fought BY <2>3 DEF Progress, Fighting
    <3> QED BY <1>0, <1>5, <2>1, <2>3, <3>1
  <2>4. CASE at \notin Fighting
    <3>1. Progress = Gone \/ Progress = Most \/ (at = "over" /\ Progress = Gone + WarLen - 1)
        BY <2>4 DEF Progress
    <3>2. WarLen \in Nat /\ WarLen >= 1
      <4>1. Rounds(maxRound) \in Nat BY RoundsType
      <4> QED BY <4>1, WarsType
    <3> QED BY <1>0, <2>1, <3>1, <3>2
  <2> QED BY <2>3, <2>4
<1> QED BY <1>4, <1>5, <1>6

\* Steps within a round.
LEMMA RoundStep ==
    ASSUME IInv, at \in Fighting \ {"round"}, at' \in Fighting \ {"round"},
           UNCHANGED <<cur, wars>>, Reached' \in Nat, Reached' > Reached
    PROVE  Progress' > Progress
<1>1. Reached \in Nat BY Bounds
<1>2. Gone' = Gone BY DEF Gone
<1>3. Fought' = Rounds(cur) + (1 + Reached') BY DEF Fought
<1>4. Fought = Rounds(cur) + (1 + Reached) BY DEF Fought
<1>5. Progress = Gone + 1 + Fought /\ Progress' = Gone + 1 + Fought'
    BY <1>2 DEF Progress, Fighting
<1>6. Gone \in Nat /\ Rounds(cur) \in Nat BY Lengths
<1> QED BY <1>1, <1>3, <1>4, <1>5, <1>6

\* Steps that end a war, or all of them.
LEMMA LastStep ==
    ASSUME IInv, at \in Fighting, at' \in {"over", "panicked"}, wars' = wars
    PROVE  Progress' > Progress
<1>1. Progress = Gone + 1 + Fought /\ Gone + 1 + Fought < Gone + WarLen - 1 /\ Progress \in Nat
    BY Bounds, Lengths DEF Progress, Fighting
<1>2. Gone' = Gone BY DEF Gone
<1>3. Progress' = Gone + WarLen - 1 \/ Progress' = Most
    BY <1>2 DEF Progress, Fighting
<1>4. Len(wars) < MaxWars BY DEF IInv, Safe, Unfinished, Fighting
<1>5. Gone + WarLen - 1 < Most /\ Most \in Nat /\ WarLen \in Nat /\ Gone \in Nat BY <1>4, Lengths
<1> QED BY <1>1, <1>3, <1>5

LEMMA HitStep ==
    ASSUME IInv, Hit
    PROVE  Progress' > Progress
<1>1. i \in Nat /\ counter \in BOOLEAN /\ WarTypeOK
      /\ hitA \in Fighter /\ hitB \in Fighter /\ hitA[1] \in Side /\ hitB[1] \in Side
    BY WarAssumption DEF IInv, WarTypeOK, Fighter
<1>2. at \in Striking BY DEF Hit, BeforeSkill, Strike, AfterSkillA, AfterSkillB, Turn, Striking
<1>3. at \in Fighting \ {"round"} BY <1>2 DEF Striking, Fighting
<1>4. ASSUME UNCHANGED <<i, counter, cur, wars>>, at' \in Striking, Stage' > Stage
      PROVE  Progress' > Progress
  <2>1. Stage \in Nat /\ Stage' \in Nat BY DEF Stage
  <2> DEFINE n == 11 * i + (IF counter THEN 5 ELSE 0)
  <2>2. n \in Nat BY <1>1
  <2>3. Reached = n + Stage BY <1>1, <1>2, <2>1 DEF Reached
  <2>4. Reached' = n + Stage' BY <1>1, <1>4, <2>1 DEF Reached, Striking
  <2> HIDE DEF n
  <2>5. Reached' \in Nat /\ Reached' > Reached
    <3>1. \A a, b, c \in Nat : b > a => c + b \in Nat /\ c + b > c + a OBVIOUS
    <3>2. n + Stage' \in Nat /\ n + Stage' > n + Stage BY <1>4, <2>1, <2>2, <3>1
    <3> QED BY <2>3, <2>4, <3>2
  <2> QED BY <1>3, <1>4, <2>5, RoundStep DEF Striking, Fighting
<1>5. ASSUME at' \in {"over", "panicked"}, wars' = wars PROVE Progress' > Progress
    BY <1>3, <1>5, LastStep
<1>6. CASE BeforeSkill
  <2>1. /\ at = "before" /\ UNCHANGED <<i, counter, cur, wars>>
        /\ Uses(hitA, FALSE, hitA[1], hitB[1], hitB[1], "strike")
      BY <1>6 DEF BeforeSkill, pair
  <2>2. at' \in {"strike", "panicked"} BY <1>1, <2>1, UsesWorn
  <2> QED BY <1>4, <1>5, <2>1, <2>2 DEF Stage, Striking
<1>7. CASE Strike
  <2>1. at = "strike" /\ UNCHANGED <<i, counter, cur, wars>> /\ at' \in {"over", "afterA"}
      BY <1>7 DEF Strike, pair
  <2> QED BY <1>4, <1>5, <2>1 DEF Stage, Striking
<1>8. CASE AfterSkillA
  <2>1. /\ at = "afterA" /\ UNCHANGED <<i, counter, cur, wars>>
        /\ Uses(hitA, TRUE, hitB[1], hitA[1], hitB[1], "afterB")
      BY <1>8 DEF AfterSkillA, pair
  <2>2. at' \in {"afterB", "panicked"} BY <1>1, <2>1, UsesWorn
  <2> QED BY <1>4, <1>5, <2>1, <2>2 DEF Stage, Striking
<1>9. CASE AfterSkillB
  <2>1. /\ at = "afterB" /\ UNCHANGED <<i, counter, cur, wars>>
        /\ Uses(hitB, TRUE, hitA[1], hitB[1], hitA[1], "turn")
      BY <1>9 DEF AfterSkillB, pair
  <2>2. at' \in {"turn", "panicked"} BY <1>1, <2>1, UsesWorn
  <2> QED BY <1>4, <1>5, <2>1, <2>2 DEF Stage, Striking
<1>10. CASE Turn
  <2>1. at = "turn" /\ UNCHANGED <<cur, wars>> BY <1>10 DEF Turn
  <2>2. \/ counter = FALSE /\ counter' = TRUE /\ at' = "before" /\ i' = i
        \/ i' = i + 1 /\ at' = "next"
      BY <1>1, <1>10 DEF Turn
  <2>3. Stage = 5 BY <2>1 DEF Stage
  <2>4. Reached' \in Nat /\ Reached' > Reached
    <3>1. CASE counter = FALSE /\ counter' = TRUE /\ at' = "before" /\ i' = i
        BY <1>1, <1>2, <2>3, <3>1 DEF Reached, Stage, Striking
    <3>2. CASE i' = i + 1 /\ at' = "next"
        BY <1>1, <1>2, <2>3, <3>2 DEF Reached, Stage, Striking
    <3> QED BY <2>2, <3>1, <3>2
  <2> QED BY <1>3, <2>1, <2>2, <2>4, RoundStep DEF Fighting
<1> QED BY <1>6, <1>7, <1>8, <1>9, <1>10 DEF Hit

LEMMA PickStep ==
    ASSUME IInv, Pick
    PROVE  Progress' > Progress
<1>1. i \in Nat /\ at = "next" /\ UNCHANGED <<cur, wars>>
    BY WarAssumption DEF IInv, WarTypeOK, Pick
<1>2. Reached = 11 * i BY <1>1 DEF Reached, Stage, Striking
<1>3. \/ i' = i + 1 /\ at' = "next"
      \/ i' = i /\ at' = "before" /\ counter' = FALSE
      \/ at' = "over"
    BY <1>1 DEF Pick
<1>4. CASE i' = i + 1 /\ at' = "next"
  <2>1. Reached' = 11 * (i + 1) BY <1>1, <1>4 DEF Reached, Stage, Striking
  <2> QED BY <1>1, <1>2, <1>4, <2>1, RoundStep DEF Fighting
<1>5. CASE i' = i /\ at' = "before" /\ counter' = FALSE
  <2>1. Reached' = 11 * i + 1 BY <1>1, <1>5 DEF Reached, Stage, Striking
  <2> QED BY <1>1, <1>2, <1>5, <2>1, RoundStep DEF Fighting
<1>6. CASE at' = "over" BY <1>1, <1>6, LastStep DEF Fighting
<1> QED BY <1>3, <1>4, <1>5, <1>6

LEMMA EndRoundStep ==
    ASSUME IInv, EndRound
    PROVE  Progress' > Progress
<1>1. at = "next" /\ at \in Fighting /\ wars' = wars /\ cur \in Nat
    BY DEF EndRound, Fighting, IInv, WarTypeOK
<1>2. CASE at' = "round" /\ cur' = cur + 1
  <2>1. cur < maxRound /\ Reached \in 0..(11 * ArmyGCnt) BY <1>1, Bounds
  <2>2. Fought' = Rounds(cur + 1) + 0 BY <1>2 DEF Fought
  <2>3. Fought = Rounds(cur) + (1 + Reached) BY <1>1 DEF Fought
  <2>4. Gone' = Gone BY <1>1 DEF Gone
  <2>5. Progress = Gone + 1 + Fought /\ Progress' = Gone + 1 + Fought'
      BY <1>1, <1>2, <2>4 DEF Progress, Fighting
  <2>6. /\ Rounds(cur + 1) = Rounds(cur) + 11 * ArmyGCnt + 2
        /\ Gone \in Nat /\ Rounds(cur) \in Nat /\ ArmyGCnt \in Nat
      BY Lengths
  <2>7. Fought' = Rounds(cur) + 11 * ArmyGCnt + 2 BY <2>2, <2>6
  <2> QED BY <2>1, <2>3, <2>5, <2>6, <2>7
<1>3. CASE at' \in {"over", "panicked"} BY <1>1, <1>3, LastStep
<1> QED BY <1>2, <1>3 DEF EndRound

LEMMA OuterStep ==
    ASSUME IInv, NewWar \/ RunRound \/ WarOver
    PROVE  Progress' > Progress
<1>1. CASE NewWar
  <2>1. at = "trigger" /\ at' = "round" /\ cur' = 0 /\ wars' = wars BY <1>1 DEF NewWar
  <2>2. Gone' = Gone BY <2>1 DEF Gone
  <2>3. Fought' = Rounds(0) + 0 BY <2>1 DEF Fought
  <2>4. Rounds(0) = 0 BY RoundsType
  <2>5. Progress = Gone /\ Progress' = Gone + 1 + Fought'
      BY <2>1, <2>2 DEF Progress, Fighting
  <2>6. Gone \in Nat BY Lengths
  <2> QED BY <2>3, <2>4, <2>5, <2>6
<1>2. CASE RunRound
  <2>1. at = "round" /\ at' = "next" /\ i' = 0 /\ UNCHANGED <<cur, wars>>
      BY <1>2 DEF RunRound
  <2>2. Gone' = Gone BY <2>1 DEF Gone
  <2>3. Reached' = 0 BY <2>1 DEF Reached, Stage, Striking
  <2>4. Fought' = Rounds(cur) + 1 /\ Fought = Rounds(cur)
    <3>1. Fought' = Rounds(cur) + (1 + 0) BY <2>1, <2>3 DEF Fought
    <3>2. Fought = Rounds(cur) + 0 BY <2>1 DEF Fought
    <3>3. Rounds(cur) \in Nat BY Lengths
    <3> QED BY <3>1, <3>2, <3>3
  <2>5. Progress = Gone + 1 + Fought /\ Progress' = Gone + 1 + Fought'
      BY <2>1, <2>2 DEF Progress, Fighting
  <2>6. Gone \in Nat /\ Rounds(cur) \in Nat BY Lengths
  <2> QED BY <2>4, <2>5, <2>6
<1>3. CASE WarOver
  <2>1. at = "over" /\ Progress = Gone + WarLen - 1
      BY <1>3 DEF WarOver, Progress, Fighting
  <2>2. Len(wars) < MaxWars BY <2>1 DEF IInv, Safe, Unfinished
  <2>0. /\ Gone \in Nat /\ WarLen \in Nat /\ Most \in Nat
        /\ Gone + WarLen < Most /\ Wars(Len(wars) + 1) = Gone + WarLen
      BY <2>2, Lengths
  <2>3. CASE at' = "panicked"
    <3>1. Progress' = Most BY <2>3 DEF Progress, Fighting
    <3> QED BY <2>0, <2>1, <3>1
  <2>4. CASE at' = "trigger" /\ wars' = Append(wars, [result |-> Verdict, rounds |-> cur])
    <3>1. wars \in Seq([result : 0..2, rounds : 0..maxRound]) BY DEF IInv, WarTypeOK
    <3>2. Len(wars') = Len(wars) + 1 BY <2>4, <3>1
    <3>3. Gone' = Wars(Len(wars) + 1) BY <3>2 DEF Gone
    <3>4. Progress' = Gone'
      <4>1. at' = "trigger" BY <2>4
      <4> QED BY <4>1 DEF Progress, Fighting
    <3> QED BY <2>0, <2>1, <3>3, <3>4
  <2> QED BY <1>3, <2>3, <2>4 DEF WarOver
<1> QED BY <1>1, <1>2, <1>3

\* The safety half of WarsEnd: every step of the goroutine brings the wars of an
\* army forward by a measure that never exceeds Most, so that they take no more
\* steps than that, whatever blows and skills do, and no loop of a war is entered
\* for ever.
THEOREM WarsGoForward ==
    Spec => [](Progress \in 0..Most) /\ [][Progress' > Progress]_warVars
<1>1. IInv => Progress \in 0..Most BY Bounds
<1>2. IInv /\ [Next]_warVars => [Progress' > Progress]_warVars
    BY HitStep, PickStep, EndRoundStep, OuterStep DEF Next
<1> QED BY <1>1, <1>2, Invariance, PTL DEF Spec

=============================================================================
