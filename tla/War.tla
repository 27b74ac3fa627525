-------------------------------- MODULE War --------------------------------
(***************************************************************************)
(* The rounds of a war: Battle.trigger sends an army against the enemies   *)
(* at a place, one NewWar after the other, by logic/war/ warResult.go,     *)
(* warCamp.go and armyPosition.go.  ArmyLogic has a step for each of these *)
(* wars, whose verdict it leaves open.                                     *)
(*                                                                         *)
(* It all runs in one goroutine, one step here for each stage of a hit.    *)
(* How many soldiers a blow kills depends on arms, attributes and the      *)
(* skills a general is under: any number, but nobody is killed by the      *)
(* dead.  In the mode for developers it is DevKill, whoever strikes.  Which *)
(* skills a general uses is a matter of chance.                            *)
(***************************************************************************)
EXTENDS Integers, Sequences, FiniteSets

CONSTANTS
    ArmyGCnt,   \* places in an army (3)
    maxRound,   \* rounds of a war at most (10)
    Skills,     \* skills of the generals
    Dev,        \* is_dev of the configuration
    DevKill,    \* soldiers killed by a blow then (10)
    MaxMen,     \* bound: soldiers of a general
    MaxWars     \* bound: enemies at the place

Gens == 0..(ArmyGCnt - 1)
Camp == 0
Side == {"attack", "defense"}
Other(s) == IF s = "attack" THEN "defense" ELSE "attack"

Targets == {"MySelf", "OurSingle", "OurMostTwo", "OurMostThree", "OurAll",
            "EnemySingle", "EnemyMostTwo", "EnemyMostThree", "EnemyAll"}

ASSUME WarAssumption ==
    /\ ArmyGCnt \in Nat \ {0} /\ maxRound \in Nat \ {0}
    /\ Skills \subseteq [hitAfter : BOOLEAN, target : Targets, hurts : BOOLEAN]
    /\ IsFiniteSet(Skills)
    /\ Dev \in BOOLEAN /\ DevKill \in Nat \ {0} /\ MaxMen \in Nat /\ MaxWars \in Nat

VARIABLES
    at,      \* what comes next
    gens,    \* [Side -> the places with a general; the others are nil]
    men,     \* [Side -> [place -> soldiers]]
    first,   \* the side that begins the round
    i,       \* the next place of that side
    hitA, hitB, \* who strikes whom: a side and a place
    counter, \* is it the other side's blow in return?
    cur,     \* rounds that are over
    wars     \* the verdicts of the wars that are over, and their rounds

warVars == <<at, gens, men, first, i, hitA, hitB, counter, cur, wars>>
armies == <<gens, men>>
pair == <<hitA, hitB, counter>>

Nobody == <<"attack", Camp>>
Parted == hitA' = Nobody /\ hitB' = Nobody /\ counter' = FALSE

Men == (IF Dev THEN 1 - DevKill ELSE 0)..MaxMen
Fighter == Side \X Gens
Stages == {"trigger", "round", "next", "before", "strike", "afterA", "afterB", "turn", "over",
           "panicked"}

WarTypeOK ==
    /\ at \in Stages
    /\ gens \in [Side -> SUBSET Gens] /\ men \in [Side -> [Gens -> Men]]
    /\ first \in Side /\ i \in 0..ArmyGCnt
    /\ hitA \in Fighter /\ hitB \in Fighter /\ counter \in BOOLEAN
    /\ cur \in 0..maxRound
    /\ wars \in Seq([result : 0..2, rounds : 0..maxRound]) /\ Len(wars) <= MaxWars

-----------------------------------------------------------------------------
(* What a blow does *)

MenOf(f) == men[f[1]][f[2]]
Alive_Bug(s) == {g \in gens[s] \ {Camp} : men[s][g] # 0}
\* Soldiers below zero count as alive: the code asks for # 0.
Alive(s) == {g \in gens[s] : men[s][g] # 0}

Less(a, b) == IF a < b THEN a ELSE b

\* What is left of m soldiers after n blows of f.  A blow is struck while
\* there is anybody left.
Left_Bug(f, m, n) == IF m <= 0 \/ n = 0 THEN {m} ELSE (m - MaxMen - 1)..m
Left(f, m, n) ==
    IF m <= 0 \/ n = 0 THEN {m}
    ELSE IF Dev THEN {m - DevKill * Less(n, (m + DevKill - 1) \div DevKill)}
    ELSE IF MenOf(f) = 0 THEN {m} ELSE 0..m

-----------------------------------------------------------------------------
(* Skills *)

Sets(s, n) == {ps \in SUBSET Alive(s) : Cardinality(ps) \in 1..n}

\* Whom a skill of f may be for: our and enemy are what the caller passes as
\* such.  Three of ours are two.  No choice is left where the code goes on
\* with nil.
Aims(f, target, our, enemy) ==
    CASE target = "MySelf" -> {{f}}
      [] target = "OurSingle" -> {{our} \X ps : ps \in Sets(our, 1)}
      [] target \in {"OurMostTwo", "OurMostThree"} ->
            {{our} \X ps : ps \in Sets(our, 2) \cup {{}}}
      [] target = "OurAll" -> {{our} \X Alive(our)}
      [] target = "EnemySingle" -> {{enemy} \X ps : ps \in Sets(enemy, 1)}
      [] target = "EnemyMostTwo" -> {{enemy} \X ps : ps \in Sets(enemy, 2) \cup {{}}}
      [] target = "EnemyMostThree" -> {{enemy} \X ps : ps \in Sets(enemy, 3) \cup {{}}}
      [] target = "EnemyAll" -> {{enemy} \X Alive(enemy)}

\* The skills of f that fire: all are aimed before the first one kills, and
\* they kill those aimed at that are found on the side foe.
Uses(f, after, our, enemy, foe, then) ==
    \E fired \in SUBSET {k \in Skills : k.hitAfter = after} :
        IF \E k \in fired : Aims(f, k.target, our, enemy) = {}
        THEN at' = "panicked" /\ UNCHANGED men
        ELSE /\ at' = then
             /\ \E aim \in [fired -> UNION {Aims(f, k.target, our, enemy) : k \in fired}] :
                 /\ \A k \in fired : aim[k] \in Aims(f, k.target, our, enemy)
                 /\ LET blows(g) == Cardinality({k \in fired : k.hurts /\ <<foe, g>> \in aim[k]})
                    IN  \E left \in [Gens -> UNION {Left(f, men[foe][g], blows(g)) : g \in Gens}] :
                         /\ \A g \in Gens : left[g] \in Left(f, men[foe][g], blows(g))
                         /\ men' = [men EXCEPT ![foe] = left]

-----------------------------------------------------------------------------
(* Steps *)

\* NewWar: the army as the last war left it, and the next enemy.  Generals
\* may be missing: an army sets out with its first one, and loses any of them
\* with a restart after it was composed into another.
NewWar ==
    /\ at = "trigger" /\ Len(wars) < MaxWars
    /\ \E own \in SUBSET Gens, m \in [Gens -> 0..MaxMen] :
        /\ \A g \in Gens \ own : m[g] = 0
        /\ gens' = [gens EXCEPT !["defense"] = own]
        /\ men' = [men EXCEPT !["defense"] = m]
    /\ cur' = 0 /\ at' = "round"
    /\ UNCHANGED <<first, i, pair, wars>>

\* Either side begins.
RunRound ==
    /\ at = "round"
    /\ first' \in Side /\ i' = 0 /\ at' = "next"
    /\ UNCHANGED <<armies, pair, cur, wars>>

\* The next general that can fight, and any living one of the other side.
Pick ==
    /\ at = "next" /\ i < ArmyGCnt
    /\ IF i \notin Alive(first) THEN i' = i + 1 /\ UNCHANGED <<at, pair>>
       ELSE /\ UNCHANGED i
            /\ IF Alive(Other(first)) = {} THEN at' = "over" /\ UNCHANGED pair
               ELSE /\ \E g \in Alive(Other(first)) : hitB' = <<Other(first), g>>
                    /\ hitA' = <<first, i>> /\ counter' = FALSE /\ at' = "before"
    /\ UNCHANGED <<armies, first, cur, wars>>

BeforeSkill ==
    /\ at = "before"
    /\ Uses(hitA, FALSE, hitA[1], hitB[1], hitB[1], "strike")
    /\ UNCHANGED <<gens, first, i, pair, cur, wars>>

\* The blow itself, unless a skill has killed the enemy already.  The war is
\* over when it is the camp that lies before him dead.
Strike_Bug ==
    /\ at = "strike"
    /\ \E left \in Left(hitA, MenOf(hitB), 1) :
        /\ men' = [men EXCEPT ![hitB[1]][hitB[2]] = left]
        /\ at' = IF left = 0 THEN "over" ELSE "afterA"
    /\ UNCHANGED <<gens, first, i, pair, cur, wars>>
Strike ==
    /\ at = "strike"
    /\ \E left \in Left(hitA, MenOf(hitB), 1) :
        /\ men' = [men EXCEPT ![hitB[1]][hitB[2]] = left]
        /\ at' = IF hitB[2] = Camp /\ left = 0 THEN "over" ELSE "afterA"
    /\ UNCHANGED <<gens, first, i, pair, cur, wars>>

\* Afterwards our and enemy are exchanged in the call, the side that is killed
\* is not: what is meant for one's own hurts the enemy, and the reverse none.
AfterSkillA ==
    /\ at = "afterA"
    /\ Uses(hitA, TRUE, hitB[1], hitA[1], hitB[1], "afterB")
    /\ UNCHANGED <<gens, first, i, pair, cur, wars>>

\* Then the same for the one struck, who may be dead.
AfterSkillB ==
    /\ at = "afterB"
    /\ Uses(hitB, TRUE, hitA[1], hitB[1], hitA[1], "turn")
    /\ UNCHANGED <<gens, first, i, pair, cur, wars>>

\* The other one strikes back if both are alive; then the next general.
Turn ==
    /\ at = "turn"
    /\ IF ~counter /\ MenOf(hitA) # 0 /\ MenOf(hitB) # 0
       THEN /\ hitA' = hitB /\ hitB' = hitA /\ counter' = TRUE /\ at' = "before"
            /\ UNCHANGED i
       ELSE i' = i + 1 /\ at' = "next" /\ Parted
    /\ UNCHANGED <<armies, first, cur, wars>>

\* checkNextRound is called on every place, also where there is no general.
EndRound_Bug ==
    /\ at = "next" /\ i = ArmyGCnt
    /\ IF \E s \in Side : gens[s] # Gens THEN at' = "panicked"
       ELSE at' = IF cur + 1 >= maxRound THEN "over" ELSE "round"
    /\ UNCHANGED <<armies, first, i, pair, cur, wars>>
EndRound ==
    /\ at = "next" /\ i = ArmyGCnt
    /\ IF \E s \in Side : gens[s] # Gens THEN at' = "panicked" /\ UNCHANGED cur
       ELSE /\ cur' = cur + 1
            /\ at' = IF cur + 1 >= maxRound THEN "over" ELSE "round"
    /\ UNCHANGED <<armies, first, i, pair, wars>>

\* The verdict: 0 lost, 1 drawn, 2 won.  It is for the next enemy, then.
Verdict ==
    IF men["attack"][Camp] = 0 THEN 0
    ELSE IF Camp \in gens["defense"] /\ men["defense"][Camp] # 0 THEN 1 ELSE 2

WarOver ==
    /\ at = "over"
    /\ IF Camp \notin gens["attack"] THEN at' = "panicked" /\ UNCHANGED wars
       ELSE /\ at' = "trigger"
            /\ wars' = Append(wars, [result |-> Verdict, rounds |-> cur])
    /\ Parted /\ first' = "attack" /\ i' = 0
    /\ UNCHANGED <<armies, cur>>

Init ==
    /\ at = "trigger" /\ wars = <<>> /\ cur = 0
    /\ \E own \in SUBSET Gens : gens = [s \in Side |-> IF s = "attack" THEN own ELSE {}]
    /\ men \in [Side -> [Gens -> 0..MaxMen]]
    /\ \A s \in Side : \A g \in Gens \ gens[s] : men[s][g] = 0
    /\ first = "attack" /\ i = 0
    /\ hitA = Nobody /\ hitB = Nobody /\ counter = FALSE

Hit == BeforeSkill \/ Strike \/ AfterSkillA \/ AfterSkillB \/ Turn
Next == NewWar \/ RunRound \/ Pick \/ Hit \/ EndRound \/ WarOver

\* The goroutine of the armies is never stopped in the middle.
Spec == Init /\ [][Next]_warVars /\ WF_warVars(Next)

-----------------------------------------------------------------------------
(* Properties *)

\* What a verdict says of the fight.  A draw is given after all rounds only:
\* whatever ends a war before, by a blow, by skills or for want of an enemy,
\* leaves a dead camp; and an army that was beaten by one enemy wins against
\* none of the next ones, though its other generals go on fighting.
VerdictsTell ==
    \A k \in DOMAIN wars :
        /\ wars[k].result = 1 => wars[k].rounds = maxRound
        /\ wars[k].result = 0 => \A l \in DOMAIN wars : l >= k => wars[l].result = 0

\* Full armies panic in one case: a side is wiped out, its camp by a skill
\* before, and a skill with a single target finds nobody there.
FullArmiesFight ==
    at = "panicked" /\ gens = [s \in Side |-> Gens] =>
        /\ \E s \in Side : \A g \in Gens : men[s][g] = 0
        /\ \E k \in Skills : k.hitAfter /\ k.target \in {"OurSingle", "EnemySingle"}

\* All the enemies are fought, however the rounds go, or the handler panics.
WarsEnd == <>(at = "panicked" \/ (at = "trigger" /\ Len(wars) = MaxWars))

=============================================================================
