------------------------------ MODULE General ------------------------------
(***************************************************************************)
(* The generals of the roles of Estate: drawn for gold, composed into      *)
(* stronger ones, converted back into gold, given skills and put into      *)
(* armies.  controller/general.go and dispose of controller/army.go, with  *)
(* general_mgr, skill_mgr and the objects in model/.                       *)
(*                                                                         *)
(* As in Estate a handler looks and stores in two steps.  What only        *)
(* refuses more requests is left out: the levels of drill ground and       *)
(* marshal's hall, the cost of generals, arms, armies that are not home.   *)
(***************************************************************************)
EXTENDS Estate

CONSTANTS
    Gen, NoGen,      \* ids of generals
    CfgOf, Star,     \* [Gen -> its kind], [kind -> the stars it can have]
    SkillCfg,        \* kinds of skills
    SkillSlot,       \* where a general wears skills (three in the code)
    SkillCap,        \* how many generals may wear a skill
    Order, Place,    \* armies of a role, and places in one
    InitialGenerals, \* given to who has none (3)
    DrawTimes,       \* how many are drawn at once
    DrawCost, GeneralLimit, ConvertGold

ASSUME GeneralAssumption ==
    /\ NoGen \notin Gen /\ IsFiniteSet(Gen) /\ 0 \notin Order
    /\ \A g \in Gen : Star[CfgOf[g]] \in Nat
    /\ {SkillCap, InitialGenerals, DrawCost, GeneralLimit, ConvertGold} \subseteq Nat
    /\ DrawTimes \subseteq Nat \ {0}

VARIABLES
    gen,     \* [Gen -> the object, whose row is the same]
    byRole,  \* the roles that have an entry in genByRole
    skill,   \* the rows of skills, numbered: rid, cfg and who wears them
    army,    \* [Role -> [Order -> [Place -> a general or NoGen]]]
    greq,    \* [Conn -> what a request is about]
    drawn, charged, \* auxiliary: [Role -> generals handed out, and paid for]
    strayed  \* auxiliary: generals taken out of an army they were not in, or
             \* sold by another role

generals == <<gen, byRole>>
drafts == <<drawn, charged>>
generalVars == <<generals, skill, army, greq, drafts, strayed>>
allVars == <<estateVars, generalVars>>

NoSkill == 0
GenRec == [rid : Role \cup {NoRole}, state : {"none", "normal", "composed", "converted"},
           starLv : Nat, parent : Gen \cup {NoGen}, order : Order \cup {0},
           worn : [SkillSlot -> Nat]]
Unborn == [rid |-> NoRole, state |-> "none", starLv |-> 0, parent |-> NoGen, order |-> 0,
           worn |-> [p \in SkillSlot |-> NoSkill]]
About == [gens : SUBSET Gen, gen : Gen \cup {NoGen}, order : Order \cup {0},
          place : Place \cup SkillSlot \cup {0}, skill : SkillCfg \cup {NoSkill}, row : Nat]
Asked == [gens |-> {}, gen |-> NoGen, order |-> 0, place |-> 0, skill |-> NoSkill, row |-> 0]

GeneralTypeOK ==
    /\ TypeOK
    /\ gen \in [Gen -> GenRec] /\ byRole \subseteq Role
    /\ skill \in Seq([rid : Role, cfg : SkillCfg, gens : SUBSET Gen])
    /\ army \in [Role -> [Order -> [Place -> Gen \cup {NoGen}]]]
    /\ greq \in [Conn -> About]
    /\ drawn \in [Role -> Nat] /\ charged \in [Role -> Nat] /\ strayed \subseteq Gen

-----------------------------------------------------------------------------
Mine(x, g) == gen[g].rid = in[x] /\ gen[g].state = "normal"
Generals(r) == {g \in Gen : gen[g].rid = r /\ gen[g].state = "normal"}
Unused == {g \in Gen : gen[g].state = "none"}

\* What a request of generals leaves alone when it begins.
LooksOnly ==
    UNCHANGED <<world, rows, cities, prod, entries, failures, restarts, torn, cut, entered,
                paid, collected, generals, skill, army, drafts, strayed>>
\* What the rest of one leaves alone of Estate, but for resources and entries.
HomeKept == UNCHANGED <<world, resRow, attrRows, cur, cities, prod, entries, asked, restarts,
                        overlapped, cut, entered, paid, collected>>
Free == UNCHANGED <<res, torn, failures>>

Begins(x, op, about) ==
    /\ Looks(x, [Idle EXCEPT !.op = op])
    /\ greq' = [greq EXCEPT ![x] = about]
    /\ LooksOnly
Done(x) == Ends(x) /\ greq' = [greq EXCEPT ![x] = Asked]

-----------------------------------------------------------------------------
(* myGenerals and drawGenerals *)

\* GetOrCreateByRId finds no entry.
MyLooks(x) == Has(x) /\ in[x] \notin byRole /\ Begins(x, "my", Asked)

\* New generals of r.  Those made before an insertion that fails stay.
Made(r, new, wanted) ==
    /\ new \subseteq Unused
    /\ gen' = [g \in Gen |-> IF g \in new
                             THEN [Unborn EXCEPT !.rid = r, !.state = "normal"] ELSE gen[g]]
    /\ byRole' = IF new = {} THEN byRole ELSE byRole \cup {r}
    /\ IF Cardinality(new) = wanted THEN UNCHANGED failures
       ELSE /\ Cardinality(new) < wanted
            /\ failures < MaxFailures /\ failures' = failures + 1

MyMakes(x) ==
    /\ Serves(x, "my")
    /\ \E new \in SUBSET Unused : Made(in[x], new, InitialGenerals)
    /\ Done(x)
    /\ HomeKept /\ UNCHANGED <<res, torn, skill, army, drafts, strayed>>

DrawLooks_Bug(x, n) ==
    /\ Has(x) /\ in[x] \in resRow
    /\ res[in[x]]["gold"] >= DrawCost
    /\ Cardinality(Generals(in[x])) + n <= GeneralLimit
    /\ Begins(x, "draw", [Asked EXCEPT !.row = n])
DrawLooks(x, n) ==
    /\ Has(x) /\ in[x] \in resRow
    /\ res[in[x]]["gold"] >= DrawCost * n
    /\ Cardinality(Generals(in[x])) + n <= GeneralLimit
    /\ Begins(x, "draw", [Asked EXCEPT !.row = n])

\* The generals come before the gold goes.
DrawMakes(x) ==
    /\ Serves(x, "draw")
    /\ LET n == greq[x].row IN
       \E new \in SUBSET Unused :
        /\ Made(in[x], new, n)
        /\ IF Cardinality(new) < n THEN Done(x) /\ UNCHANGED drawn
           ELSE /\ drawn' = [drawn EXCEPT ![in[x]] = @ + n]
                /\ req' = [req EXCEPT ![x].op = "drawPay", ![x].seen = res[in[x]]]
                /\ UNCHANGED greq
    /\ HomeKept /\ UNCHANGED <<res, torn, skill, army, charged, strayed>>

Gold(n) == [Nothing EXCEPT !["gold"] = n]

\* TryUseGold: what it answers is not looked at.
DrawPays(x) ==
    /\ Serves(x, "drawPay")
    /\ LET n == greq[x].row IN
       IF res[in[x]]["gold"] < DrawCost * n THEN UNCHANGED <<res, torn, charged>>
       ELSE /\ Put(in[x], req[x].seen, Gold(-DrawCost * n))
            /\ charged' = [charged EXCEPT ![in[x]] = @ + n]
    /\ Done(x)
    /\ HomeKept /\ UNCHANGED <<failures, generals, skill, army, drawn, strayed>>

-----------------------------------------------------------------------------
(* composeGeneral and convert *)

\* The client offers other generals of the same kind, each once; those that
\* stand in an army are not refused.
ComposeLooks(x, g, eaten) ==
    /\ Has(x) /\ Mine(x, g) /\ eaten # {}
    /\ \A h \in eaten : Mine(x, h) /\ h # g /\ CfgOf[h] = CfgOf[g]
    /\ Star[CfgOf[g]] - gen[g].starLv >= Cardinality(eaten)
    /\ Begins(x, "compose", [Asked EXCEPT !.gen = g, !.gens = eaten])

ComposeStores(x) ==
    /\ Serves(x, "compose")
    /\ LET g == greq[x].gen
           eaten == greq[x].gens
       IN  gen' = [h \in Gen |->
                     IF h \in eaten THEN [gen[h] EXCEPT !.state = "composed", !.parent = g]
                     ELSE IF h = g THEN [gen[h] EXCEPT !.starLv = @ + Cardinality(eaten)]
                     ELSE gen[h]]
    /\ Done(x)
    /\ HomeKept /\ Free /\ UNCHANGED <<byRole, skill, army, drafts, strayed>>

ConvertLooks_Bug(x, sold) ==
    /\ Has(x) /\ in[x] \in resRow
    /\ \A g \in sold : gen[g].state # "none" /\ gen[g].order = 0
    /\ Begins(x, "convert", [Asked EXCEPT !.gens = sold])
\* Whose they are is not asked.
ConvertLooks(x, sold) ==
    /\ Has(x) /\ in[x] \in resRow
    /\ \A g \in sold : gen[g].state = "normal" /\ gen[g].order = 0
    /\ Begins(x, "convert", [Asked EXCEPT !.gens = sold])

\* What they are worth: as many units as there are elements.
Worth(sold) ==
    Cardinality({u \in sold \X (1..MaxUnits) \X (1..MaxUnits) :
        u[2] <= ConvertGold * Star[CfgOf[u[1]]] /\ u[3] <= 1 + gen[u[1]].starLv})

ConvertStores(x) ==
    /\ Serves(x, "convert")
    /\ gen' = [g \in Gen |-> IF g \in greq[x].gens
                             THEN [gen[g] EXCEPT !.state = "converted"] ELSE gen[g]]
    /\ Put(in[x], res[in[x]], Gold(Worth(greq[x].gens)))
    /\ strayed' = strayed \cup {g \in greq[x].gens : gen[g].rid # in[x]}
    /\ Done(x)
    /\ HomeKept /\ UNCHANGED <<failures, byRole, skill, army, drafts>>

-----------------------------------------------------------------------------
(* upSkill and downSkill *)

\* Of several rows of a skill the last is meant.
RowsOf(r, s) == {i \in DOMAIN skill : skill[i].rid = r /\ skill[i].cfg = s}
LastRow(r, s) == {i \in RowsOf(r, s) : \A j \in RowsOf(r, s) : j <= i}
InLimit(i) == Cardinality(skill[i].gens) < SkillCap

\* The row of the skill is looked for, and made when there is none.
SkillLooks(x, op, g, s, p) ==
    /\ Has(x) /\ Mine(x, g)
    /\ LET about == [Asked EXCEPT !.gen = g, !.skill = s, !.place = p] IN
       IF RowsOf(in[x], s) = {}
       THEN Begins(x, IF op = "up" THEN "makeUpSkill" ELSE "makeDownSkill", about)
       ELSE \E i \in LastRow(in[x], s) :
            /\ op = "up" => InLimit(i)
            /\ Begins(x, IF op = "up" THEN "upSkill" ELSE "downSkill",
                      [about EXCEPT !.row = i])

MakeSkill(x) ==
    /\ req[x].op \in {"makeUpSkill", "makeDownSkill"}
    /\ skill' = Append(skill, [rid |-> in[x], cfg |-> greq[x].skill, gens |-> {}])
    /\ Goes(x, IF Serves(x, "makeUpSkill") THEN "upSkill" ELSE "downSkill")
    /\ greq' = [greq EXCEPT ![x].row = Len(skill) + 1]
    /\ HomeKept /\ Free /\ UNCHANGED <<generals, army, drafts, strayed>>

\* UpSkill of the general looks again; the limit is not looked at again.
UpSkillStores_Bug(x) ==
    /\ Serves(x, "upSkill")
    /\ LET g == greq[x].gen
           i == greq[x].row
           p == greq[x].place
       IN  IF \E q \in SkillSlot : gen[g].worn[q] = i
           THEN UNCHANGED <<gen, skill>>
           ELSE /\ gen' = [gen EXCEPT ![g].worn[p] = i]
                /\ skill' = [skill EXCEPT ![i].gens = @ \cup {g}]
    /\ Done(x)
    /\ HomeKept /\ Free /\ UNCHANGED <<byRole, army, drafts, strayed>>
UpSkillStores(x) ==
    /\ Serves(x, "upSkill")
    /\ LET g == greq[x].gen
           i == greq[x].row
           p == greq[x].place
       IN  IF gen[g].worn[p] # NoSkill \/ \E q \in SkillSlot : gen[g].worn[q] = i
           THEN UNCHANGED <<gen, skill>>
           ELSE /\ gen' = [gen EXCEPT ![g].worn[p] = i]
                /\ skill' = [skill EXCEPT ![i].gens = @ \cup {g}]
    /\ Done(x)
    /\ HomeKept /\ Free /\ UNCHANGED <<byRole, army, drafts, strayed>>

DownSkillStores(x) ==
    /\ Serves(x, "downSkill")
    /\ LET g == greq[x].gen
           i == greq[x].row
           p == greq[x].place
       IN  IF gen[g].worn[p] # i THEN UNCHANGED <<gen, skill>>
           ELSE /\ gen' = [gen EXCEPT ![g].worn[p] = NoSkill]
                /\ skill' = [skill EXCEPT ![i].gens = @ \ {g}]
    /\ Done(x)
    /\ HomeKept /\ Free /\ UNCHANGED <<byRole, army, drafts, strayed>>

-----------------------------------------------------------------------------
(* dispose *)

Standing(r, g) == {u \in Order \X Place : army[r][u[1]][u[2]] = g}

\* IsRepeat: one of a kind stands in the armies; one without a city is not counted.
Repeated(r, g) ==
    \E h \in Gen : Standing(r, h) # {} /\ CfgOf[h] = CfgOf[g] /\ gen[h].order # 0

PlaceLooks(x, g, o, p) ==
    /\ Has(x) /\ Mine(x, g) /\ CitiesOf(in[x]) # {}
    /\ gen[g].order = 0 /\ ~Repeated(in[x], g)
    /\ Begins(x, "place", [Asked EXCEPT !.gen = g, !.order = o, !.place = p])

PlaceStores_Bug(x) ==
    /\ Serves(x, "place")
    /\ army' = [army EXCEPT ![in[x]][greq[x].order][greq[x].place] = greq[x].gen]
    /\ Done(x)
    /\ HomeKept /\ Free /\ UNCHANGED <<generals, skill, drafts, strayed>>
PlaceStores(x) ==
    /\ Serves(x, "place")
    /\ LET r == in[x]
           g == greq[x].gen
           o == greq[x].order
           p == greq[x].place
           old == army[r][o][p]
       IN  /\ army' = [army EXCEPT ![r][o][p] = g]
           /\ gen' = [h \in Gen |-> IF h = g THEN [gen[h] EXCEPT !.order = o]
                                    ELSE IF h = old THEN [gen[h] EXCEPT !.order = 0]
                                    ELSE gen[h]]
    /\ Done(x)
    /\ HomeKept /\ Free /\ UNCHANGED <<byRole, skill, drafts, strayed>>

TakeOutLooks(x, g, o) ==
    /\ Has(x) /\ Mine(x, g) /\ CitiesOf(in[x]) # {}
    /\ Begins(x, "takeOut", [Asked EXCEPT !.gen = g, !.order = o])

\* The general's order is cleared even if it does not stand in that army.
TakeOutStores(x) ==
    /\ Serves(x, "takeOut")
    /\ LET r == in[x]
           g == greq[x].gen
           o == greq[x].order
       IN  /\ army' = [army EXCEPT ![r][o] =
                           [p \in Place |-> IF @[p] = g THEN NoGen ELSE @[p]]]
           /\ gen' = [gen EXCEPT ![g].order = 0]
           /\ strayed' = IF \E u \in Standing(r, g) : u[1] # o THEN strayed \cup {g}
                         ELSE strayed
    /\ Done(x)
    /\ HomeKept /\ Free /\ UNCHANGED <<byRole, skill, drafts>>

-----------------------------------------------------------------------------
\* Load: the normal generals; AfterSet of Skill reads who wears it into the
\* wrong field, so nobody does; an army that had an inactive one has a gap.  Generals
\* drawn and not yet paid stay so: charged makes that up.
GeneralRestart ==
    /\ Restart
    /\ byRole' = {gen[g].rid : g \in {h \in Gen : gen[h].state = "normal"}}
    /\ skill' = [i \in DOMAIN skill |-> [skill[i] EXCEPT !.gens = {}]]
    /\ army' = [r \in Role |-> [o \in Order |-> [p \in Place |->
                  LET g == army[r][o][p] IN
                  IF g # NoGen /\ gen[g].state = "normal" THEN g ELSE NoGen]]]
    /\ greq' = [x \in Conn |-> Asked]
    /\ charged' = [r \in Role |->
                     IF \E x \in Conn : in[x] = r /\ Serves(x, "drawPay")
                     THEN drawn[r] ELSE charged[r]]
    /\ UNCHANGED <<gen, drawn, strayed>>

GeneralInit ==
    /\ Init
    /\ gen = [g \in Gen |-> Unborn] /\ byRole = {} /\ skill = <<>>
    /\ army = [r \in Role |-> [o \in Order |-> [p \in Place |-> NoGen]]]
    /\ greq = [x \in Conn |-> Asked]
    /\ drawn = [r \in Role |-> 0] /\ charged = [r \in Role |-> 0] /\ strayed = {}

Commanding(x) ==
    \/ MyLooks(x) \/ MyMakes(x)
    \/ \E n \in DrawTimes : DrawLooks(x, n)
    \/ DrawMakes(x) \/ DrawPays(x)
    \/ \E g \in Gen, eaten \in SUBSET Gen : ComposeLooks(x, g, eaten)
    \/ ComposeStores(x)
    \/ \E sold \in SUBSET Gen \ {{}} : ConvertLooks(x, sold)
    \/ ConvertStores(x)
    \/ \E op \in {"up", "down"}, g \in Gen, s \in SkillCfg, p \in SkillSlot :
          SkillLooks(x, op, g, s, p)
    \/ MakeSkill(x) \/ UpSkillStores(x) \/ DownSkillStores(x)
    \/ \E g \in Gen, o \in Order, p \in Place : PlaceLooks(x, g, o, p)
    \/ PlaceStores(x)
    \/ \E g \in Gen, o \in Order : TakeOutLooks(x, g, o)
    \/ TakeOutStores(x)

AtHome ==
    /\ \/ \E x \in Conn : Entering(x) \/ Managing(x)
       \/ Producing \/ Tick
    /\ UNCHANGED generalVars

GeneralNext == AtHome \/ GeneralRestart \/ \E x \in Conn : Commanding(x)

GeneralSpec == GeneralInit /\ [][GeneralNext]_allVars

-----------------------------------------------------------------------------
(* Properties *)

Wearers(i) == {g \in Gen : \E p \in SkillSlot : gen[g].worn[p] = i}

\* Who wears a skill is written in the general and in the skill, by handlers
\* that change one after the other: the two agree, for a role whose requests
\* come one at a time; after a restart the skill knows at most those.
SkillsAgree ==
    \A i \in DOMAIN skill : skill[i].rid \notin overlapped =>
        /\ skill[i].gens \subseteq Wearers(i)
        /\ restarts = 0 => skill[i].gens = Wearers(i)

\* Each general drawn is paid for although it comes first and the answer of
\* TryUseGold is dropped: nothing but another request of the role could have
\* spent the gold, and produce() only adds to it.
DrawsPaid ==
    \A r \in Role \ (overlapped \cup torn) :
        (\A x \in Conn : ~(in[x] = r /\ Serves(x, "drawPay"))) => drawn[r] = charged[r]

\* The stars of a general are those that were composed into it, each of them
\* once, and no more than its kind can have, unless another role has sold one.
StarsEarned ==
    \A g \in Gen : gen[g].rid \notin overlapped /\ {h \in strayed : gen[h].parent = g} = {} =>
        /\ gen[g].starLv =
               Cardinality({h \in Gen : gen[h].parent = g /\ gen[h].state = "composed"})
        /\ gen[g].starLv <= Star[CfgOf[g]]

\* A general stands in one place of one army at most, and is not converted
\* there, unless it was taken out of an army it did not stand in, or sold by
\* another role.
ArmyOnce ==
    \A r \in Role, g \in Gen : r \notin overlapped /\ g \notin strayed =>
        /\ Cardinality(Standing(r, g)) <= 1
        /\ Standing(r, g) # {} => gen[g].state # "converted"

-----------------------------------------------------------------------------
(* What a comment of the code says of skills. *)

\* "How many generals may be equipped with it" (skill_conf.go:49): also
\* after a restart.
SkillLimit ==
    \A r \in Role \ overlapped, s \in SkillCfg :
        Cardinality({g \in Gen : \E i \in RowsOf(r, s) : g \in Wearers(i)}) <= SkillCap

=============================================================================
