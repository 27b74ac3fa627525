--------------------------- MODULE GeneralProofs ---------------------------
(***************************************************************************)
(* Proofs about General, and so about Estate in it: the types, and that a  *)
(* role owes nothing, pays for the generals it draws, gets the levels it   *)
(* paid for, is complete once it has entered and collects no more often    *)
(* than it may; that generals and the skills they wear agree, that they    *)
(* stand in one place, that their stars are those composed into them, and  *)
(* that as long as the server runs a skill is worn by no more generals     *)
(* than may wear it.                                                       *)
(*                                                                         *)
(* The types rest on what a request that is being served knows (Sound).    *)
(***************************************************************************)
EXTENDS General, FiniteSetTheorems, TLAPS

(***************************************************************************)
(* The types of Estate in groups, as its actions change them.              *)
(***************************************************************************)
WorldOK == now \in Nat \ {0} /\ roles \subseteq Role /\ known \subseteq Conn
           /\ in \in [Conn -> Role \cup {NoRole}]
PurseOK == resRow \subseteq Role /\ res \in [Role -> Resources]
AttrsOK == attrRows \in [Role -> Seq(Attribute)] /\ cur \in [Role -> Nat]
           /\ \A r \in Role : cur[r] <= Len(attrRows[r])
CitiesOK == owner \in [City -> Role \cup {NoRole}] /\ fac \in [City -> [Fac -> Level]]
            /\ facRow \in [City -> {"none", "cached", "saved"}] /\ listed \subseteq City
ReqOK == req \in [Conn -> Request]
Production == [next : Nat, index : Nat, left : SUBSET Role, role : Role \cup {NoRole},
               seen : Resources]
ProdOK == prod \in Production
CountersOK == entries \in Nat /\ asked \in Nat /\ failures \in Nat /\ restarts \in Nat
HistoryOK == overlapped \subseteq Role /\ torn \subseteq Role /\ cut \subseteq Role
             /\ entered \subseteq Role /\ paid \in [City -> [Fac -> Nat]]
             /\ collected \in [Role -> [day : Nat, times : Nat]]

Parts == WorldOK /\ PurseOK /\ AttrsOK /\ CitiesOK /\ ReqOK /\ ProdOK /\ CountersOK /\ HistoryOK

LEMMA TypeParts == TypeOK <=> Parts
BY DEF TypeOK, Parts, WorldOK, PurseOK, AttrsOK, CitiesOK, ReqOK, Production, ProdOK, CountersOK,
       HistoryOK

LEMMA TypePartsNext == TypeOK' <=> Parts'
BY DEF TypeOK, Parts, WorldOK, PurseOK, AttrsOK, CitiesOK, ReqOK, Production, ProdOK, CountersOK,
       HistoryOK

(***************************************************************************)
(* What a connection that serves a request knows.                          *)
(***************************************************************************)
Skilling == {"makeUpSkill", "makeDownSkill", "upSkill", "downSkill"}

SoundOne(x) ==
    /\ Busy(x) => in[x] \in Role
    /\ Serves(x, "up") => req[x].city \in City /\ req[x].fac \in Fac
    /\ Serves(x, "makeFac") => req[x].city \in City
    /\ Serves(x, "collect") => cur[in[x]] # 0
    /\ req[x].op \in Skilling =>
          greq[x].gen \in Gen /\ greq[x].place \in SkillSlot /\ greq[x].skill \in SkillCfg
    /\ req[x].op \in {"upSkill", "downSkill"} => greq[x].row \in 1..Len(skill)
    /\ Serves(x, "compose") => greq[x].gen \in Gen
    /\ Serves(x, "place") => greq[x].gen \in Gen /\ greq[x].order \in Order
                             /\ greq[x].place \in Place
    /\ Serves(x, "takeOut") => greq[x].gen \in Gen /\ greq[x].order \in Order

Sound == \A x \in Conn : SoundOne(x)

IInv == GeneralTypeOK /\ Sound

(***************************************************************************)
(* Records.                                                                *)
(***************************************************************************)
LEMMA Blanks ==
    /\ Nothing \in Resources /\ Built \in [Fac -> Level]
    /\ Idle \in Request /\ Asked \in About /\ Unborn \in GenRec
    /\ Idle.op = "idle"
<1>1. Nothing \in Resources
    BY DEF Nothing, Resources
<1>2. Built \in [Fac -> Level]
    BY DEF Built, Level
<1>3. Idle \in Request /\ Idle.op = "idle"
    BY <1>1, <1>2 DEF Idle, Request, Op
<1>4. Asked \in About
    BY DEF Asked, About, NoSkill
<1>5. Unborn \in GenRec
    BY DEF Unborn, GenRec, NoSkill
<1> QED BY <1>1, <1>2, <1>3, <1>4, <1>5

LEMMA GoldType == ASSUME NEW n \in Int PROVE Gold(n) \in Resources
BY Blanks DEF Gold, Resources

LEMMA RequestEdits ==
    ASSUME NEW q \in Request
    PROVE  /\ \A op \in Op : /\ [q EXCEPT !.op = op] \in Request
                                 /\ [q EXCEPT !.op = op].op = op
           /\ \A op \in Op, c \in City :
                 /\ [q EXCEPT !.op = op, !.city = c] \in Request
                 /\ [q EXCEPT !.op = op, !.city = c].op = op
                 /\ [q EXCEPT !.op = op, !.city = c].city = c
BY DEF Request

\* A request that goes on, or ends.
LEMMA GoesType ==
    ASSUME ReqOK, NEW x \in Conn
    PROVE  /\ \A op \in Op : Goes(x, op) => ReqOK'
           /\ Ends(x) => ReqOK'
           /\ \A op \in Op, c \in City :
                 req' = [req EXCEPT ![x].op = op, ![x].city = c] => ReqOK'
<1>1. req[x] \in Request
    BY DEF ReqOK
<1>2. ASSUME NEW q \in Request, req' = [req EXCEPT ![x] = q] PROVE ReqOK'
    BY <1>2 DEF ReqOK
<1>3. ASSUME NEW op \in Op, Goes(x, op) PROVE ReqOK'
    BY <1>1, <1>2, <1>3, RequestEdits DEF Goes, ReqOK
<1>4. ASSUME Ends(x) PROVE ReqOK'
    BY <1>2, <1>4, Blanks DEF Ends
<1>5. ASSUME NEW op \in Op, NEW c \in City, req' = [req EXCEPT ![x].op = op, ![x].city = c]
      PROVE  ReqOK'
    BY <1>1, <1>2, <1>5, RequestEdits DEF ReqOK
<1> QED BY <1>3, <1>4, <1>5

LEMMA OpsAreOp ==
    /\ "attr" \in Op /\ "makeRes" \in Op /\ "makeAttr" \in Op /\ "city" \in Op
    /\ "makeCity" \in Op /\ "makeFac" \in Op
BY DEF Op

\* What is looked at is of the types of a request.
LEMMA LooksType ==
    ASSUME TypeOK, NEW x \in Conn, NEW record \in Request, Looks(x, record)
    PROVE  ReqOK' /\ asked' \in Nat /\ overlapped' \subseteq Role /\ in[x] \in Role
BY DEF TypeOK, Looks, ReqOK, Has, Doubled

\* A purse after an addition: as much more as was meant, unless it is torn.
LEMMA PutType ==
    ASSUME NEW r \in Role, NEW seen \in Resources, NEW delta \in Resources,
           res \in [Role -> Resources], torn \subseteq Role, Put(r, seen, delta)
    PROVE  /\ res' \in [Role -> Resources] /\ torn' \subseteq Role /\ torn \subseteq torn'
           /\ \A p \in Role \ {r} : res'[p] = res[p]
           /\ r \notin torn' => \A k \in Kind : res'[r][k] = res[r][k] + delta[k]
<1>1. PICK stale \in SUBSET {k \in Kind : delta[k] # 0 /\ seen[k] # res[r][k]} :
        /\ res' = [res EXCEPT ![r] =
               [k \in Kind |-> (IF k \in stale THEN seen[k] ELSE res[r][k]) + delta[k]]]
        /\ torn' = IF stale = {} THEN torn ELSE torn \cup {r}
    BY DEF Put
<1> DEFINE f == [k \in Kind |-> (IF k \in stale THEN seen[k] ELSE res[r][k]) + delta[k]]
<1>2. f \in Resources
    BY DEF Resources
<1>3. stale = {} => \A k \in Kind : f[k] = res[r][k] + delta[k]
    OBVIOUS
<1> HIDE DEF f
<1>4. res' = [res EXCEPT ![r] = f]
    BY <1>1 DEF f
<1> QED BY <1>1, <1>2, <1>3, <1>4

\* The row of attributes that is the object may be replaced.
LEMMA RowReplaced ==
    ASSUME NEW s \in Seq(Attribute), NEW i \in 1..Len(s), NEW a \in Attribute
    PROVE  /\ [s EXCEPT ![i] = a] \in Seq(Attribute)
           /\ Len([s EXCEPT ![i] = a]) = Len(s)
OBVIOUS

(***************************************************************************)
(* Types: entering.                                                        *)
(***************************************************************************)
LEMMA EnteringType ==
    ASSUME TypeOK, Sound, NEW x \in Conn, Entering(x)
    PROVE  TypeOK'
<1>0. Parts
    BY TypeParts
<1> USE DEF world, rows, cities, counters, history
<1>1. ASSUME EnterNobody(x) PROVE TypeOK'
  <2>1. Parts'
      BY <1>0, <1>1 DEF EnterNobody, Parts, WorldOK, PurseOK, AttrsOK, CitiesOK, ReqOK, ProdOK,
                        CountersOK, HistoryOK
  <2> QED BY <2>1, TypePartsNext
<1>2. ASSUME NEW r \in Role, Create(x, r) PROVE TypeOK'
  <2>1. Parts'
      BY <1>0, <1>2 DEF Create, Parts, WorldOK, PurseOK, AttrsOK, CitiesOK, ReqOK, ProdOK,
                        CountersOK, HistoryOK
  <2> QED BY <2>1, TypePartsNext
<1>3. ASSUME NEW r \in Role, Enter(x, r) PROVE TypeOK'
  <2>1. WorldOK' /\ CountersOK'
      BY <1>0, <1>3 DEF Enter, Parts, WorldOK, CountersOK
  <2>2. ReqOK'
      BY <1>0, <1>3, GoesType, OpsAreOp DEF Enter, Goes, Parts
  <2>3. HistoryOK'
      BY <1>0, <1>3 DEF Enter, Parts, HistoryOK, Doubled
  <2>4. PurseOK' /\ AttrsOK' /\ CitiesOK' /\ ProdOK'
      BY <1>0, <1>3 DEF Enter, Parts, PurseOK, AttrsOK, CitiesOK, ProdOK
  <2> QED BY <2>1, <2>2, <2>3, <2>4, TypePartsNext DEF Parts
<1>4. ASSUME MakeRes(x) PROVE TypeOK'
  <2>1. in[x] \in Role
      BY <1>4 DEF MakeRes, Sound, SoundOne, Busy, Serves
  <2>2. ReqOK'
      BY <1>0, <1>4, GoesType, OpsAreOp DEF MakeRes, Parts
  <2>3. PurseOK'
    <3>1. StartRes \in Resources
        BY EstateAssumption DEF Resources, Costs
    <3> QED BY <1>0, <1>4, <2>1, <3>1 DEF MakeRes, Parts, PurseOK
  <2>4. WorldOK' /\ AttrsOK' /\ CitiesOK' /\ ProdOK' /\ CountersOK' /\ HistoryOK'
      BY <1>0, <1>4 DEF MakeRes, Parts, WorldOK, AttrsOK, CitiesOK, ProdOK, CountersOK, HistoryOK
  <2> QED BY <2>2, <2>3, <2>4, TypePartsNext DEF Parts
<1>5. ASSUME CheckAttr(x) PROVE TypeOK'
  <2>1. ReqOK'
      BY <1>0, <1>5, GoesType, OpsAreOp DEF CheckAttr, Parts
  <2>2. WorldOK' /\ PurseOK' /\ AttrsOK' /\ CitiesOK' /\ ProdOK' /\ CountersOK' /\ HistoryOK'
      BY <1>0, <1>5 DEF CheckAttr, Parts, WorldOK, PurseOK, AttrsOK, CitiesOK, ProdOK, CountersOK,
                        HistoryOK
  <2> QED BY <2>1, <2>2, TypePartsNext DEF Parts
<1>6. ASSUME MakeAttr(x) PROVE TypeOK'
  <2>1. in[x] \in Role
      BY <1>6 DEF MakeAttr, Sound, SoundOne, Busy, Serves
  <2>2. ReqOK'
      BY <1>0, <1>6, GoesType, OpsAreOp DEF MakeAttr, Parts
  <2>3. AttrsOK'
    <3> DEFINE r == in[x]
               row == [times |-> 0, last |-> 0]
    <3>1. row \in Attribute
        BY DEF Attribute
    <3> HIDE DEF row
    <3>2. /\ attrRows' = [attrRows EXCEPT ![r] = Append(@, row)]
          /\ cur' = [cur EXCEPT ![r] = Len(attrRows[r]) + 1]
        BY <1>6 DEF MakeAttr, row
    <3>3. attrRows \in [Role -> Seq(Attribute)] /\ cur \in [Role -> Nat]
          /\ \A p \in Role : cur[p] <= Len(attrRows[p])
        BY <1>0 DEF Parts, AttrsOK
    <3>4. /\ Append(attrRows[r], row) \in Seq(Attribute)
          /\ Len(Append(attrRows[r], row)) = Len(attrRows[r]) + 1
          /\ Len(attrRows[r]) + 1 \in Nat
        BY <2>1, <3>1, <3>3
    <3>5. attrRows' \in [Role -> Seq(Attribute)] /\ cur' \in [Role -> Nat]
        BY <2>1, <3>2, <3>3, <3>4
    <3>6. ASSUME NEW p \in Role PROVE cur'[p] <= Len(attrRows'[p])
        BY <2>1, <3>2, <3>3, <3>4
    <3> QED BY <3>5, <3>6 DEF AttrsOK
  <2>4. WorldOK' /\ PurseOK' /\ CitiesOK' /\ ProdOK' /\ CountersOK' /\ HistoryOK'
      BY <1>0, <1>6 DEF MakeAttr, Parts, WorldOK, PurseOK, CitiesOK, ProdOK, CountersOK, HistoryOK
  <2> QED BY <2>2, <2>3, <2>4, TypePartsNext DEF Parts
<1>7. ASSUME CheckCity(x) PROVE TypeOK'
  <2>1. in[x] \in Role
      BY <1>7 DEF CheckCity, Sound, SoundOne, Busy, Serves
  <2>2. ReqOK'
      BY <1>0, <1>7, GoesType, OpsAreOp DEF CheckCity, Parts
  <2>3. HistoryOK'
      BY <1>0, <1>7, <2>1 DEF CheckCity, Parts, HistoryOK
  <2>4. WorldOK' /\ PurseOK' /\ AttrsOK' /\ CitiesOK' /\ ProdOK' /\ CountersOK'
      BY <1>0, <1>7 DEF CheckCity, Parts, WorldOK, PurseOK, AttrsOK, CitiesOK, ProdOK, CountersOK
  <2> QED BY <2>2, <2>3, <2>4, TypePartsNext DEF Parts
<1>8. ASSUME NEW c \in City, MakeCity(x, c) PROVE TypeOK'
  <2>1. in[x] \in Role
      BY <1>8 DEF MakeCity, Sound, SoundOne, Busy, Serves
  <2>2. ReqOK'
      BY <1>0, <1>8, GoesType, OpsAreOp DEF MakeCity, Parts
  <2>3. CitiesOK'
      BY <1>0, <1>8, <2>1 DEF MakeCity, Parts, CitiesOK
  <2>4. WorldOK' /\ PurseOK' /\ AttrsOK' /\ ProdOK' /\ CountersOK' /\ HistoryOK'
      BY <1>0, <1>8 DEF MakeCity, Parts, WorldOK, PurseOK, AttrsOK, ProdOK, CountersOK, HistoryOK
  <2> QED BY <2>2, <2>3, <2>4, TypePartsNext DEF Parts
<1>9. ASSUME EnterFails(x) PROVE TypeOK'
  <2>1. ReqOK'
      BY <1>0, <1>9, GoesType DEF EnterFails, Parts
  <2>2. WorldOK' /\ PurseOK' /\ AttrsOK' /\ CitiesOK' /\ ProdOK' /\ CountersOK' /\ HistoryOK'
      BY <1>0, <1>9 DEF EnterFails, Fails, Parts, WorldOK, PurseOK, AttrsOK, CitiesOK, ProdOK,
                        CountersOK, HistoryOK
  <2> QED BY <2>1, <2>2, TypePartsNext DEF Parts
<1>10. ASSUME MakeFac(x) PROVE TypeOK'
  <2>1. in[x] \in Role /\ req[x].city \in City
      BY <1>10 DEF MakeFac, Sound, SoundOne, Busy, Serves
  <2>2. ReqOK' /\ CitiesOK' /\ HistoryOK'
      BY <1>0, <1>10, <2>1, Blanks DEF MakeFac, Parts, ReqOK, CitiesOK, HistoryOK, Ends
  <2>3. WorldOK' /\ PurseOK' /\ AttrsOK' /\ ProdOK' /\ CountersOK'
      BY <1>0, <1>10 DEF MakeFac, Parts, WorldOK, PurseOK, AttrsOK, ProdOK, CountersOK
  <2> QED BY <2>2, <2>3, TypePartsNext DEF Parts
<1>11. ASSUME MakeFacFails(x) PROVE TypeOK'
  <2>1. in[x] \in Role /\ req[x].city \in City
      BY <1>11 DEF MakeFacFails, Sound, SoundOne, Busy, Serves
  <2>2. ReqOK' /\ CitiesOK' /\ HistoryOK'
      BY <1>0, <1>11, <2>1, Blanks
      DEF MakeFacFails, Fails, Parts, ReqOK, CitiesOK, HistoryOK, Ends
  <2>3. WorldOK' /\ PurseOK' /\ AttrsOK' /\ ProdOK' /\ CountersOK'
      BY <1>0, <1>11 DEF MakeFacFails, Fails, Parts, WorldOK, PurseOK, AttrsOK, ProdOK, CountersOK
  <2> QED BY <2>2, <2>3, TypePartsNext DEF Parts
<1> QED BY <1>1, <1>2, <1>3, <1>4, <1>5, <1>6, <1>7, <1>8, <1>9, <1>10, <1>11 DEF Entering

(***************************************************************************)
(* What is counted is finite: a yield is a number.                         *)
(***************************************************************************)
LEMMA Triples ==
    ASSUME NEW A, NEW B, NEW C, IsFiniteSet(A), IsFiniteSet(B), IsFiniteSet(C)
    PROVE  IsFiniteSet(A \X B \X C)
<1> DEFINE f == [t \in (A \X B) \X C |-> <<t[1][1], t[1][2], t[2]>>]
<1>1. IsFiniteSet((A \X B) \X C)
    BY FS_Product
<1>2. f \in [(A \X B) \X C -> A \X B \X C]
    OBVIOUS
<1>3. ASSUME NEW u \in A \X B \X C PROVE \E t \in (A \X B) \X C : f[t] = u
    <2>1. <<<<u[1], u[2]>>, u[3]>> \in (A \X B) \X C
        OBVIOUS
    <2>2. f[<<<<u[1], u[2]>>, u[3]>>] = <<u[1], u[2], u[3]>>
        BY <2>1
    <2>3. <<u[1], u[2], u[3]>> = u
        OBVIOUS
    <2> QED BY <2>1, <2>2, <2>3
<1> HIDE DEF f
<1>4. f \in Surjection((A \X B) \X C, A \X B \X C)
    BY <1>2, <1>3 DEF Surjection
<1> QED BY <1>1, <1>4, FS_Surjection

LEMMA Counted ==
    ASSUME NEW A, NEW B, NEW C, IsFiniteSet(A), IsFiniteSet(B), IsFiniteSet(C),
           NEW U \in SUBSET (A \X B \X C)
    PROVE  Cardinality(U) \in Nat
BY Triples, FS_Subset, FS_CardinalityType

LEMMA SumType == ASSUME NEW r, NEW per PROVE Sum(r, per) \in Nat
<1>1. IsFiniteSet(1..MaxUnits)
    BY FS_Interval, EstateAssumption
<1> DEFINE U == {u \in City \X Fac \X (1..MaxUnits) :
                    /\ u[1] \in listed /\ owner[u[1]] = r
                    /\ u[3] <= GetLevel(fac[u[1]][u[2]]) * per[u[2]]}
<1>2. U \in SUBSET (City \X Fac \X (1..MaxUnits))
    OBVIOUS
<1>3. Sum(r, per) = Cardinality(U)
    BY DEF Sum
<1> DEFINE I == 1..MaxUnits
<1>4. IsFiniteSet(City) /\ IsFiniteSet(Fac) /\ IsFiniteSet(I)
    BY <1>1, EstateAssumption
<1> HIDE DEF U, I
<1>5. U \in SUBSET (City \X Fac \X I)
    BY <1>2 DEF I
<1>6. Cardinality(U) \in Nat
    BY <1>4, <1>5, Counted
<1> QED BY <1>3, <1>6

LEMMA YieldType ==
    ASSUME NEW r
    PROVE  /\ \A k \in Income : GetYield(r, k) \in Nat
           /\ GetDepotCapacity(r) \in Nat
<1>1. ASSUME NEW k \in Income PROVE GetYield(r, k) \in Nat
    <2> DEFINE n == Sum(r, [f \in Fac |-> FacYield[f][k]])
    <2>1. n \in Nat
        BY SumType
    <2>2. GetYield(r, k) = RoleYield[k] + n
        BY DEF GetYield
    <2> HIDE DEF n
    <2> QED BY <2>1, <2>2, EstateAssumption
<1>2. GetDepotCapacity(r) \in Nat
    <2> DEFINE n == Sum(r, FacCapacity)
    <2>1. n \in Nat
        BY SumType
    <2>2. GetDepotCapacity(r) = BaseCapacity + n
        BY DEF GetDepotCapacity
    <2> HIDE DEF n
    <2> QED BY <2>1, <2>2, EstateAssumption
<1> QED BY <1>1, <1>2

LEMMA WorthType ==
    ASSUME NEW sold \in SUBSET Gen
    PROVE  Worth(sold) \in Nat
<1>0. MaxUnits \in Int
    BY EstateAssumption
<1>1. IsFiniteSet(1..MaxUnits)
    BY <1>0, FS_Interval
<1>a. IsFiniteSet(sold)
    BY FS_Subset, GeneralAssumption
<1> DEFINE U == {u \in sold \X (1..MaxUnits) \X (1..MaxUnits) :
                    u[2] <= ConvertGold * Star[CfgOf[u[1]]] /\ u[3] <= 1 + gen[u[1]].starLv}
<1>2. U \in SUBSET (sold \X (1..MaxUnits) \X (1..MaxUnits))
    OBVIOUS
<1>3. Worth(sold) = Cardinality(U)
    BY DEF Worth
<1> DEFINE I == 1..MaxUnits
<1>4. IsFiniteSet(I)
    BY <1>1
<1> HIDE DEF U, I
<1>5. U \in SUBSET (sold \X I \X I)
    BY <1>2 DEF I
<1>6. Cardinality(U) \in Nat
    BY <1>a, <1>4, <1>5, Counted
<1> QED BY <1>3, <1>6

(***************************************************************************)
(* What is put into a request.                                             *)
(***************************************************************************)
LEMMA UpRecord ==
    ASSUME NEW c \in City, NEW f \in Fac, NEW seen \in Resources, NEW delta \in Resources,
           NEW snap \in [Fac -> Level]
    PROVE  LET q == [Idle EXCEPT !.op = "up", !.city = c, !.fac = f, !.seen = seen,
                                 !.delta = delta, !.snap = snap]
           IN  /\ q \in Request /\ q.op = "up" /\ q.city = c /\ q.fac = f
               /\ q.delta = delta /\ q.snap = snap
BY Blanks DEF Request, Op

LEMMA CollectRecord ==
    ASSUME NEW t \in Nat, NEW seen \in Resources, NEW delta \in Resources
    PROVE  LET q == [Idle EXCEPT !.op = "collect", !.at = t, !.seen = seen, !.delta = delta]
           IN  q \in Request /\ q.op = "collect" /\ q.delta = delta /\ q.at = t
BY Blanks DEF Request, Op

LEMMA TransformRecord ==
    ASSUME NEW seen \in Resources, NEW delta \in Resources
    PROVE  LET q == [Idle EXCEPT !.op = "transform", !.delta = delta, !.seen = seen]
           IN  q \in Request /\ q.op = "transform" /\ q.delta = delta
BY Blanks DEF Request, Op

LEMMA PlainRecord ==
    ASSUME NEW op \in Op
    PROVE  LET q == [Idle EXCEPT !.op = op]
           IN  q \in Request /\ q.op = op
BY Blanks DEF Request

LEMMA SettledType == ASSUME TypeOK, NEW l \in Level PROVE Settled(l) \in Level
BY EstateAssumption DEF TypeOK, Settled, Level

LEMMA AttrType ==
    ASSUME TypeOK, NEW r \in Role, cur[r] # 0
    PROVE  /\ cur[r] \in 1..Len(attrRows[r]) /\ attrRows[r] \in Seq(Attribute)
           /\ Attr(r) \in Attribute /\ Today(Attr(r)) \in Attribute
<1>1. cur[r] \in 1..Len(attrRows[r]) /\ attrRows[r] \in Seq(Attribute)
    BY DEF TypeOK
<1>2. Attr(r) \in Attribute
    BY <1>1 DEF Attr
<1>3. [times |-> 0, last |-> 0] \in Attribute
    BY DEF Attribute
<1> QED BY <1>1, <1>2, <1>3 DEF Today

\* An attribute is replaced.
LEMMA AttrReplaced ==
    ASSUME TypeOK, NEW r \in Role, cur[r] # 0, NEW a \in Attribute,
           attrRows' = [attrRows EXCEPT ![r][cur[r]] = a], cur' = cur
    PROVE  AttrsOK'
<1>1. cur[r] \in 1..Len(attrRows[r]) /\ attrRows[r] \in Seq(Attribute)
    BY AttrType
<1> DEFINE s == [attrRows[r] EXCEPT ![cur[r]] = a]
<1>2. s \in Seq(Attribute) /\ Len(s) = Len(attrRows[r])
    BY <1>1, RowReplaced
<1>3. attrRows' = [attrRows EXCEPT ![r] = s]
    OBVIOUS
<1> HIDE DEF s
<1>4. attrRows \in [Role -> Seq(Attribute)] /\ cur \in [Role -> Nat]
      /\ \A p \in Role : cur[p] <= Len(attrRows[p])
    BY DEF TypeOK
<1> QED BY <1>2, <1>3, <1>4 DEF AttrsOK

(***************************************************************************)
(* Types: managing.                                                        *)
(***************************************************************************)
\* What Put leaves, as parts.
LEMMA PutParts ==
    ASSUME Parts, NEW r \in Role, NEW seen \in Resources, NEW delta \in Resources,
           Put(r, seen, delta), resRow' = resRow
    PROVE  PurseOK' /\ torn' \subseteq Role
<1>1. res \in [Role -> Resources] /\ torn \subseteq Role
    BY DEF Parts, PurseOK, HistoryOK
<1> QED BY <1>1, PutType DEF PurseOK, Parts

LEMMA DayType == ASSUME NEW t \in Nat PROVE Day(t) \in Nat
<1>1. DayLength \in Nat /\ DayLength > 0
    BY EstateAssumption
<1> QED BY <1>1 DEF Day

LEMMA ManagingType ==
    ASSUME TypeOK, Sound, NEW x \in Conn, Managing(x)
    PROVE  TypeOK'
<1>0. Parts
    BY TypeParts
<1> USE DEF world, rows, cities, counters, history
<1>1. ASSUME NEW c \in City, NEW f \in Fac, UpLooks(x, c, f) PROVE TypeOK'
  <2> DEFINE l == Settled(fac[c][f])
             delta == [k \in Kind |-> - Need[f][k]]
             snap == [fac[c] EXCEPT ![f] = l]
             q == [Idle EXCEPT !.op = "up", !.city = c, !.fac = f, !.seen = res[in[x]],
                               !.delta = delta, !.snap = snap]
  <2>1. Looks(x, q)
      BY <1>1 DEF UpLooks
  <2>2. in[x] \in Role
      BY <2>1 DEF TypeOK, Looks, Has
  <2>3. snap \in [Fac -> Level]
    <3>1. fac[c] \in [Fac -> Level]
        BY DEF TypeOK
    <3>2. l \in Level
        BY <3>1, SettledType
    <3> QED BY <3>1, <3>2
  <2>4. delta \in Resources /\ res[in[x]] \in Resources
    <3>1. Need[f] \in [Kind -> Nat]
        BY EstateAssumption DEF Costs
    <3>a. \A k \in Kind : - Need[f][k] \in Int
        BY <3>1
    <3>2. delta \in Resources
        BY <3>a DEF Resources
    <3> QED BY <2>2, <3>2 DEF TypeOK
  <2> HIDE DEF snap, delta
  <2>5. q \in Request
      BY <2>3, <2>4, UpRecord
  <2> HIDE DEF q
  <2>6. ReqOK' /\ asked' \in Nat /\ overlapped' \subseteq Role
      BY <2>1, <2>5, LooksType
  <2>7. CountersOK' /\ HistoryOK'
      BY <1>0, <1>1, <2>6 DEF UpLooks, Parts, CountersOK, HistoryOK
  <2>8. WorldOK' /\ PurseOK' /\ AttrsOK' /\ CitiesOK' /\ ProdOK'
      BY <1>0, <1>1 DEF UpLooks, Parts, WorldOK, PurseOK, AttrsOK, CitiesOK, ProdOK
  <2> QED BY <2>6, <2>7, <2>8, TypePartsNext DEF Parts
<1>2. ASSUME UpStores(x) PROVE TypeOK'
  <2> DEFINE c == req[x].city
             f == req[x].fac
             g == [req[x].snap EXCEPT ![f].up = now]
  <2>1. in[x] \in Role /\ c \in City /\ f \in Fac
      BY <1>2 DEF UpStores, Sound, SoundOne, Busy, Serves
  <2>2. req[x] \in Request
      BY DEF TypeOK
  <2>3. PurseOK' /\ torn' \subseteq Role
    <3>1. req[x].seen \in Resources /\ req[x].delta \in Resources
        BY <2>2 DEF Request
    <3> QED BY <1>0, <1>2, <2>1, <3>1, PutParts DEF UpStores
  <2>4. CitiesOK'
    <3>1. req[x].snap \in [Fac -> Level] /\ now \in Nat
        BY <2>2 DEF Request, TypeOK
    <3>2. [req[x].snap[f] EXCEPT !.up = now] \in Level
        BY <2>1, <3>1 DEF Level
    <3>3. g \in [Fac -> Level]
        BY <2>1, <3>1, <3>2
    <3> QED BY <1>0, <1>2, <2>1, <3>3 DEF UpStores, Parts, CitiesOK
  <2>5. ReqOK'
      BY <1>0, <1>2, GoesType DEF UpStores, Parts
  <2>6. paid' \in [City -> [Fac -> Nat]]
    <3> DEFINE p == [paid[c] EXCEPT ![f] = @ + 1]
    <3>1. paid \in [City -> [Fac -> Nat]]
        BY DEF TypeOK
    <3>2. p \in [Fac -> Nat]
        BY <2>1, <3>1
    <3>3. paid' = [paid EXCEPT ![c] = p]
        BY <1>2 DEF UpStores
    <3> QED BY <3>1, <3>2, <3>3
  <2>7. HistoryOK'
      BY <1>0, <1>2, <2>3, <2>6 DEF UpStores, Parts, HistoryOK
  <2>8. WorldOK' /\ AttrsOK' /\ ProdOK' /\ CountersOK'
      BY <1>0, <1>2 DEF UpStores, Parts, WorldOK, AttrsOK, ProdOK, CountersOK
  <2> QED BY <2>3, <2>4, <2>5, <2>7, <2>8, TypePartsNext DEF Parts
<1>3. ASSUME CollectLooks(x) PROVE TypeOK'
  <2> DEFINE r == in[x]
             a == Today(Attr(r))
             delta == [Nothing EXCEPT !["gold"] = GetYield(r, "gold")]
             q == [Idle EXCEPT !.op = "collect", !.at = now, !.seen = res[r], !.delta = delta]
  <2>1. Looks(x, q)
      BY <1>3 DEF CollectLooks
  <2>2. r \in Role /\ cur[r] # 0
      BY <1>3, <2>1 DEF CollectLooks, TypeOK, Looks, Has
  <2>3. delta \in Resources /\ res[r] \in Resources /\ now \in Nat
    <3>1. GetYield(r, "gold") \in Nat
        BY YieldType DEF Income
    <3>2. delta = Gold(GetYield(r, "gold"))
        BY DEF Gold
    <3> HIDE DEF delta
    <3>3. delta \in Resources
        BY <3>1, <3>2, GoldType
    <3> QED BY <2>2, <3>3 DEF TypeOK
  <2>4. AttrsOK'
    <3>1. attrRows' = [attrRows EXCEPT ![r][cur[r]] = a] /\ cur' = cur
        BY <1>3 DEF CollectLooks
    <3>2. a \in Attribute
        BY <2>2, AttrType
    <3> QED BY <2>2, <3>1, <3>2, AttrReplaced
  <2> HIDE DEF delta
  <2>5. q \in Request
      BY <2>3, CollectRecord
  <2> HIDE DEF q
  <2>6. ReqOK' /\ asked' \in Nat /\ overlapped' \subseteq Role
      BY <2>1, <2>5, LooksType
  <2>7. CountersOK' /\ HistoryOK'
      BY <1>0, <1>3, <2>6 DEF CollectLooks, Parts, CountersOK, HistoryOK
  <2>8. WorldOK' /\ PurseOK' /\ CitiesOK' /\ ProdOK'
      BY <1>0, <1>3 DEF CollectLooks, Parts, WorldOK, PurseOK, CitiesOK, ProdOK
  <2> QED BY <2>4, <2>6, <2>7, <2>8, TypePartsNext DEF Parts
<1>4. ASSUME CollectTooEarly(x) PROVE TypeOK'
  <2> DEFINE r == in[x]
             a == Today(Attr(r))
  <2>1. r \in Role /\ cur[r] # 0
      BY <1>4 DEF CollectTooEarly, TypeOK, Has
  <2>2. a \in Attribute
      BY <2>1, AttrType
  <2>3. attrRows' = [attrRows EXCEPT ![r][cur[r]] = a] /\ cur' = cur
      BY <1>4 DEF CollectTooEarly
  <2>4. AttrsOK'
      BY <2>1, <2>2, <2>3, AttrReplaced
  <2>5. CountersOK' /\ WorldOK' /\ PurseOK' /\ CitiesOK' /\ ProdOK' /\ ReqOK' /\ HistoryOK'
      BY <1>0, <1>4 DEF CollectTooEarly, Parts, WorldOK, PurseOK, CitiesOK, ProdOK, ReqOK,
                        CountersOK, HistoryOK
  <2> QED BY <2>4, <2>5, TypePartsNext DEF Parts
<1>5. ASSUME CollectStores(x) PROVE TypeOK'
  <2> DEFINE r == in[x]
             a == [times |-> attrRows[r][cur[r]].times + 1, last |-> req[x].at]
  <2>1. r \in Role /\ cur[r] # 0
      BY <1>5 DEF CollectStores, Sound, SoundOne, Busy, Serves
  <2>2. req[x].seen \in Resources /\ req[x].delta \in Resources /\ req[x].at \in Nat
      BY DEF TypeOK, Request
  <2>3. PurseOK' /\ torn' \subseteq Role
      BY <1>0, <1>5, <2>1, <2>2, PutParts DEF CollectStores
  <2>4. AttrsOK'
    <3>1. a \in Attribute
        BY <2>1, <2>2, AttrType DEF Attr, Attribute
    <3>2. attrRows' = [attrRows EXCEPT ![r][cur[r]] = a] /\ cur' = cur
        BY <1>5 DEF CollectStores
    <3> HIDE DEF a
    <3> QED BY <2>1, <3>1, <3>2, AttrReplaced
  <2>5. collected' \in [Role -> [day : Nat, times : Nat]]
    <3> DEFINE n == [day |-> Day(req[x].at),
                     times |-> IF collected[r].day = Day(req[x].at)
                               THEN collected[r].times + 1 ELSE 1]
    <3>1. Day(req[x].at) \in Nat
        BY <2>2, DayType
    <3>2. collected \in [Role -> [day : Nat, times : Nat]]
        BY DEF TypeOK
    <3>3. n \in [day : Nat, times : Nat]
        BY <2>1, <3>1, <3>2
    <3>4. collected' = [collected EXCEPT ![r] = n]
        BY <1>5 DEF CollectStores
    <3> QED BY <3>2, <3>3, <3>4
  <2>6. ReqOK'
      BY <1>0, <1>5, GoesType DEF CollectStores, Parts
  <2>7. WorldOK' /\ CitiesOK' /\ ProdOK' /\ CountersOK' /\ HistoryOK'
      BY <1>0, <1>5, <2>3, <2>5 DEF CollectStores, Parts, WorldOK, CitiesOK, ProdOK, CountersOK,
                                    HistoryOK
  <2> QED BY <2>3, <2>4, <2>6, <2>7, TypePartsNext DEF Parts
<1>6. ASSUME NEW give \in [Goods -> Amounts], TransformLooks(x, give) PROVE TypeOK'
  <2> DEFINE delta == [k \in Kind |-> IF k \in Goods THEN give[k] ELSE 0]
             q == [Idle EXCEPT !.op = "transform", !.delta = delta, !.seen = res[in[x]]]
  <2>1. Looks(x, q)
      BY <1>6 DEF TransformLooks
  <2>2. in[x] \in Role
      BY <2>1 DEF TypeOK, Looks, Has
  <2>3. delta \in Resources /\ res[in[x]] \in Resources
    <3>1. \A k \in Goods : give[k] \in Int
        BY EstateAssumption
    <3>2. delta \in Resources
        BY <3>1 DEF Resources
    <3> QED BY <2>2, <3>2 DEF TypeOK
  <2> HIDE DEF delta
  <2>4. q \in Request
      BY <2>3, TransformRecord
  <2> HIDE DEF q
  <2>5. ReqOK' /\ asked' \in Nat /\ overlapped' \subseteq Role
      BY <2>1, <2>4, LooksType
  <2>6. CountersOK' /\ HistoryOK'
      BY <1>0, <1>6, <2>5 DEF TransformLooks, Parts, CountersOK, HistoryOK
  <2>7. WorldOK' /\ PurseOK' /\ AttrsOK' /\ CitiesOK' /\ ProdOK'
      BY <1>0, <1>6 DEF TransformLooks, Parts, WorldOK, PurseOK, AttrsOK, CitiesOK, ProdOK
  <2> QED BY <2>5, <2>6, <2>7, TypePartsNext DEF Parts
<1>7. ASSUME TransformStores(x) PROVE TypeOK'
  <2>1. in[x] \in Role
      BY <1>7 DEF TransformStores, Sound, SoundOne, Busy, Serves
  <2>2. req[x].seen \in Resources /\ req[x].delta \in Resources
      BY DEF TypeOK, Request
  <2>3. PurseOK' /\ torn' \subseteq Role
      BY <1>0, <1>7, <2>1, <2>2, PutParts DEF TransformStores
  <2>4. ReqOK'
      BY <1>0, <1>7, GoesType DEF TransformStores, Parts
  <2>5. WorldOK' /\ AttrsOK' /\ CitiesOK' /\ ProdOK' /\ CountersOK' /\ HistoryOK'
      BY <1>0, <1>7, <2>3 DEF TransformStores, Parts, WorldOK, AttrsOK, CitiesOK, ProdOK,
                              CountersOK, HistoryOK
  <2> QED BY <2>3, <2>4, <2>5, TypePartsNext DEF Parts
<1>8. ASSUME TransformPanics(x) PROVE TypeOK'
  <2>1. WorldOK' /\ PurseOK' /\ AttrsOK' /\ CitiesOK' /\ ReqOK' /\ ProdOK' /\ CountersOK'
        /\ HistoryOK'
      BY <1>0, <1>8 DEF TransformPanics, Parts, WorldOK, PurseOK, AttrsOK, CitiesOK, ReqOK, ProdOK,
                        CountersOK, HistoryOK
  <2> QED BY <2>1, TypePartsNext DEF Parts
<1> QED BY <1>1, <1>2, <1>3, <1>4, <1>5, <1>6, <1>7, <1>8 DEF Managing

(***************************************************************************)
(* Types: produce(), the clock and a new start.                            *)
(***************************************************************************)
\* What a round makes of an amount is an amount, and not less.
LEMMA GrownType ==
    ASSUME TypeOK, NEW r, NEW have \in Int, NEW k \in Kind
    PROVE  Grown(r, have, k) \in Int /\ Grown(r, have, k) >= have
<1>1. CASE k = "decree"
    BY <1>1 DEF Grown
<1>2. CASE k # "decree"
  <2>1. GetYield(r, k) \in Nat /\ GetDepotCapacity(r) \in Nat
      BY <1>2, YieldType DEF Kind, Income
  <2> DEFINE y == GetYield(r, k)
             cap == GetDepotCapacity(r)
  <2>2. Grown(r, have, k) = IF have < cap THEN Less(have + y, cap) ELSE have
      BY <1>2 DEF Grown
  <2> HIDE DEF y, cap
  <2> QED BY <2>1, <2>2 DEF Less, y, cap
<1> QED BY <1>1, <1>2

\* What a round leaves in a purse: as much as there was, or more, unless it is torn.
LEMMA ProducedType ==
    ASSUME TypeOK, NEW r \in Role, ProduceStores(r)
    PROVE  /\ res' \in [Role -> Resources] /\ torn' \subseteq Role /\ torn \subseteq torn'
           /\ \A p \in Role \ {r} : res'[p] = res[p]
           /\ r \notin torn' => \A k \in Kind : res'[r][k] >= res[r][k]
<1>1. PICK stale \in SUBSET {k \in Kind : prod.seen[k] # res[r][k]
                                /\ Grown(r, prod.seen[k], k) # prod.seen[k]} :
        /\ res' = [res EXCEPT ![r] = [k \in Kind |->
                      IF k \in stale THEN Grown(r, prod.seen[k], k) ELSE Grown(r, res[r][k], k)]]
        /\ torn' = IF stale = {} THEN torn ELSE torn \cup {r}
    BY DEF ProduceStores
<1> DEFINE f == [k \in Kind |->
                    IF k \in stale THEN Grown(r, prod.seen[k], k) ELSE Grown(r, res[r][k], k)]
<1>2. res[r] \in Resources /\ prod.seen \in Resources
    BY DEF TypeOK
<1>3. \A k \in Kind : /\ Grown(r, prod.seen[k], k) \in Int
                      /\ Grown(r, res[r][k], k) \in Int /\ Grown(r, res[r][k], k) >= res[r][k]
    BY <1>2, GrownType DEF Resources
<1>4. f \in Resources
    BY <1>3 DEF Resources
<1>5. stale = {} => \A k \in Kind : f[k] >= res[r][k]
    BY <1>3
<1>6. res' = [res EXCEPT ![r] = f]
    BY <1>1
<1> HIDE DEF f
<1>7. res \in [Role -> Resources] /\ torn \subseteq Role
    BY DEF TypeOK
<1> QED BY <1>1, <1>4, <1>5, <1>6, <1>7

LEMMA ProducingType ==
    ASSUME TypeOK, Producing
    PROVE  TypeOK'
<1>0. Parts
    BY TypeParts
<1> USE DEF world, rows, cities, counters, history
<1>1. ASSUME ProduceBegins PROVE TypeOK'
  <2>1. ProdOK'
    <3>1. prod \in Production /\ now \in Nat /\ resRow \subseteq Role
        BY DEF TypeOK, Production
    <3>2. now + RecoveryTime \in Nat
        BY <3>1, EstateAssumption
    <3> DEFINE n == now + RecoveryTime
               i == prod.index + 1
    <3>3. i \in Nat
        BY <3>1 DEF Production
    <3>4. prod' = [prod EXCEPT !.left = resRow, !.next = n, !.index = i]
        BY <1>1 DEF ProduceBegins
    <3> HIDE DEF n, i
    <3>5. n \in Nat
        BY <3>2 DEF n
    <3> QED BY <3>1, <3>3, <3>4, <3>5 DEF ProdOK, Production
  <2>2. WorldOK' /\ PurseOK' /\ AttrsOK' /\ CitiesOK' /\ ReqOK' /\ CountersOK' /\ HistoryOK'
      BY <1>0, <1>1 DEF ProduceBegins, Parts, WorldOK, PurseOK, AttrsOK, CitiesOK, ReqOK,
                        CountersOK, HistoryOK
  <2> QED BY <2>1, <2>2, TypePartsNext DEF Parts
<1>2. ASSUME NEW r \in Role, ProduceLooks(r) PROVE TypeOK'
  <2>1. ProdOK'
    <3>1. prod \in Production /\ res[r] \in Resources
        BY DEF TypeOK, Production
    <3>2. prod' = [prod EXCEPT !.left = @ \ {r}, !.role = r, !.seen = res[r]]
        BY <1>2 DEF ProduceLooks
    <3> QED BY <3>1, <3>2 DEF ProdOK, Production
  <2>2. WorldOK' /\ PurseOK' /\ AttrsOK' /\ CitiesOK' /\ ReqOK' /\ CountersOK' /\ HistoryOK'
      BY <1>0, <1>2 DEF ProduceLooks, Parts, WorldOK, PurseOK, AttrsOK, CitiesOK, ReqOK,
                        CountersOK, HistoryOK
  <2> QED BY <2>1, <2>2, TypePartsNext DEF Parts
<1>3. ASSUME NEW r \in Role, ProduceStores(r) PROVE TypeOK'
  <2>1. ProdOK'
    <3>1. prod \in Production
        BY DEF TypeOK, Production
    <3>2. prod' = [prod EXCEPT !.role = NoRole, !.seen = Nothing]
        BY <1>3 DEF ProduceStores
    <3> QED BY <3>1, <3>2, Blanks DEF ProdOK, Production
  <2>2. PurseOK' /\ torn' \subseteq Role
      BY <1>0, <1>3, ProducedType DEF ProduceStores, Parts, PurseOK
  <2>3. WorldOK' /\ AttrsOK' /\ CitiesOK' /\ ReqOK' /\ CountersOK' /\ HistoryOK'
      BY <1>0, <1>3, <2>2 DEF ProduceStores, Parts, WorldOK, AttrsOK, CitiesOK, ReqOK, CountersOK,
                              HistoryOK
  <2> QED BY <2>1, <2>2, <2>3, TypePartsNext DEF Parts
<1> QED BY <1>1, <1>2, <1>3 DEF Producing

LEMMA TickType ==
    ASSUME TypeOK, Tick
    PROVE  TypeOK'
<1>0. Parts
    BY TypeParts
<1> USE DEF rows, cities, counters, history
<1>1. WorldOK' /\ PurseOK' /\ AttrsOK' /\ CitiesOK' /\ ReqOK' /\ ProdOK' /\ CountersOK'
      /\ HistoryOK'
    BY <1>0 DEF Tick, Parts, WorldOK, PurseOK, AttrsOK, CitiesOK, ReqOK, ProdOK, CountersOK,
                HistoryOK
<1> QED BY <1>1, TypePartsNext DEF Parts

LEMMA RestingType == ASSUME NEW t \in Nat PROVE Resting(t) \in Production
BY EstateAssumption, Blanks DEF Resting, Production

LEMMA RestartType ==
    ASSUME TypeOK, Sound, Restart
    PROVE  TypeOK'
<1>0. Parts
    BY TypeParts
<1>1. WorldOK'
    BY <1>0 DEF Restart, Parts, WorldOK
<1>2. PurseOK'
    BY <1>0 DEF Restart, Parts, PurseOK
<1>3. AttrsOK'
  <2>1. PICK pick \in [Role -> 0..MaxEntries] :
          /\ \A r \in Role :
                pick[r] \in (IF attrRows[r] = <<>> THEN {0} ELSE DOMAIN attrRows[r])
          /\ cur' = pick
      BY DEF Restart
  <2>2. attrRows' = attrRows /\ attrRows \in [Role -> Seq(Attribute)]
      BY <1>0 DEF Restart, Parts, AttrsOK
  <2>3. ASSUME NEW r \in Role PROVE cur'[r] \in Nat /\ cur'[r] <= Len(attrRows'[r])
    <3>1. attrRows[r] \in Seq(Attribute)
        BY <2>2
    <3>2. CASE attrRows[r] = <<>>
        BY <2>1, <2>2, <3>2
    <3>3. CASE attrRows[r] # <<>>
      <4>1. pick[r] \in 1..Len(attrRows[r])
          BY <2>1, <3>1, <3>3
      <4> QED BY <2>1, <2>2, <3>1, <4>1
    <3> QED BY <3>2, <3>3
  <2>4. cur' \in [Role -> Nat]
      BY <2>1, <2>3
  <2> QED BY <2>2, <2>3, <2>4 DEF AttrsOK
<1>4. CitiesOK'
    BY <1>0, Blanks DEF Restart, Parts, CitiesOK
<1>5. ReqOK'
    BY Blanks DEF Restart, ReqOK
<1>6. ProdOK'
    BY <1>0, RestingType DEF Restart, Parts, WorldOK, ProdOK
<1>7. CountersOK'
    BY <1>0 DEF Restart, Parts, CountersOK
<1>8. HistoryOK'
  <2>1. \A y \in Conn : Serves(y, "makeFac") => in[y] \in Role
      BY DEF Sound, SoundOne, Busy, Serves
  <2> QED BY <1>0, <2>1 DEF Restart, Parts, HistoryOK
<1> QED BY <1>1, <1>2, <1>3, <1>4, <1>5, <1>6, <1>7, <1>8, TypePartsNext DEF Parts

(***************************************************************************)
(* What requests know stays true.                                          *)
(***************************************************************************)
\* What a step of x leaves the others.
Others(x) ==
    /\ \A y \in Conn \ {x} : in'[y] = in[y] /\ req'[y] = req[y] /\ greq'[y] = greq[y]
    /\ Len(skill') >= Len(skill)
    /\ \A r \in Role : cur[r] # 0 => cur'[r] # 0

LEMMA SoundStep ==
    ASSUME GeneralTypeOK, GeneralTypeOK', Sound, NEW x \in Conn, Others(x), SoundOne(x)'
    PROVE  Sound'
<1>1. Len(skill) \in Nat /\ Len(skill') \in Nat
    BY DEF GeneralTypeOK
<1>2. ASSUME NEW y \in Conn \ {x} PROVE SoundOne(y)'
  <2>1. SoundOne(y) /\ in'[y] = in[y] /\ req'[y] = req[y] /\ greq'[y] = greq[y]
      BY <1>2 DEF Sound, Others
  <2>2. Serves(y, "collect") => cur'[in[y]] # 0
      BY <2>1 DEF SoundOne, Others, Serves, Busy
  <2>3. req[y].op \in {"upSkill", "downSkill"} => greq[y].row \in 1..Len(skill')
      BY <1>1, <2>1 DEF SoundOne, Others
  <2> QED BY <2>1, <2>2, <2>3 DEF SoundOne, Serves, Busy
<1> QED BY <1>2 DEF Sound

LEMMA SoundIdle ==
    ASSUME NEW x \in Conn, req'[x] = Idle
    PROVE  SoundOne(x)'
BY Blanks DEF SoundOne, Serves, Busy, Skilling

Plain == {"makeRes", "attr", "makeAttr", "city", "makeCity", "transform", "my", "draw", "drawPay",
          "convert"}
LEMMA SoundPlain ==
    ASSUME NEW x \in Conn, in'[x] \in Role, req'[x].op \in Plain
    PROVE  SoundOne(x)'
BY DEF SoundOne, Serves, Busy, Skilling, Plain

LEMMA SoundSame ==
    ASSUME NEW x \in Conn, SoundOne(x), in'[x] = in[x], req'[x] = req[x],
           UNCHANGED <<cur, skill, greq>>
    PROVE  SoundOne(x)'
BY DEF SoundOne, Serves, Busy

\* What a request has come to.
LEMMA GoesTo ==
    ASSUME TypeOK, NEW x \in Conn
    PROVE  /\ \A op \in Op : Goes(x, op) =>
                  req'[x].op = op /\ \A y \in Conn \ {x} : req'[y] = req[y]
           /\ Ends(x) => req'[x] = Idle /\ \A y \in Conn \ {x} : req'[y] = req[y]
           /\ \A q : req' = [req EXCEPT ![x] = q] =>
                  req'[x] = q /\ \A y \in Conn \ {x} : req'[y] = req[y]
<1>1. req \in [Conn -> Request] /\ req[x] \in Request
    BY DEF TypeOK
<1>2. ASSUME NEW q, req' = [req EXCEPT ![x] = q]
      PROVE  req'[x] = q /\ \A y \in Conn \ {x} : req'[y] = req[y]
    BY <1>1, <1>2
<1>3. ASSUME NEW op \in Op, Goes(x, op)
      PROVE  req'[x].op = op /\ \A y \in Conn \ {x} : req'[y] = req[y]
    BY <1>1, <1>2, <1>3, RequestEdits DEF Goes
<1>4. ASSUME Ends(x) PROVE req'[x] = Idle /\ \A y \in Conn \ {x} : req'[y] = req[y]
    BY <1>2, <1>4 DEF Ends
<1> QED BY <1>2, <1>3, <1>4

LEMMA EnteringSound ==
    ASSUME IInv, GeneralTypeOK', NEW x \in Conn, Entering(x), UNCHANGED generalVars
    PROVE  Sound' /\ Others(x)
<1>0. TypeOK /\ Sound /\ SoundOne(x) /\ UNCHANGED <<skill, greq>> /\ Len(skill) \in Nat
    BY DEF IInv, GeneralTypeOK, Sound, generalVars
<1>1. Busy(x) => in[x] \in Role
    BY <1>0 DEF SoundOne
<1> USE DEF world, rows, cities, counters, history
<1>2. ASSUME EnterNobody(x) PROVE Sound' /\ Others(x)
  <2>1. SoundOne(x)'
      BY <1>0, <1>2, SoundSame DEF EnterNobody
  <2>2. Others(x)
      BY <1>0, <1>2 DEF EnterNobody, Others
  <2> QED BY <2>1, <2>2, SoundStep DEF IInv
<1>3. ASSUME NEW r \in Role, Create(x, r) PROVE Sound' /\ Others(x)
  <2>1. SoundOne(x)'
      BY <1>0, <1>3, SoundSame DEF Create
  <2>2. Others(x)
      BY <1>0, <1>3 DEF Create, Others
  <2> QED BY <2>1, <2>2, SoundStep DEF IInv
<1>4. ASSUME NEW r \in Role, Enter(x, r) PROVE Sound' /\ Others(x)
  <2>1. PICK op \in {"attr", "makeRes"} : Goes(x, op)
      BY <1>4 DEF Enter, Goes
  <2>2. req'[x].op = op /\ \A y \in Conn \ {x} : req'[y] = req[y]
      BY <1>0, <2>1, GoesTo, OpsAreOp
  <2>3. in'[x] = r /\ \A y \in Conn \ {x} : in'[y] = in[y]
      BY <1>0, <1>4 DEF Enter, TypeOK
  <2>4. SoundOne(x)'
      BY <2>2, <2>3, SoundPlain DEF Plain
  <2>5. Others(x)
      BY <1>0, <1>4, <2>2, <2>3 DEF Enter, Others
  <2> QED BY <2>4, <2>5, SoundStep DEF IInv
<1>5. ASSUME MakeRes(x) \/ CheckAttr(x) \/ MakeAttr(x) \/ CheckCity(x) PROVE Sound' /\ Others(x)
  <2>1. in' = in /\ in[x] \in Role
      BY <1>1, <1>5 DEF MakeRes, CheckAttr, MakeAttr, CheckCity, Busy, Serves
  <2>2. Ends(x) \/ \E op \in Plain \cap Op : Goes(x, op)
      BY <1>5 DEF MakeRes, CheckAttr, MakeAttr, CheckCity, Plain, Op
  <2>3. SoundOne(x)' /\ \A y \in Conn \ {x} : req'[y] = req[y]
      BY <1>0, <2>1, <2>2, GoesTo, SoundPlain, SoundIdle
  <2>4. \A p \in Role : cur[p] # 0 => cur'[p] # 0
    <3>1. CASE UNCHANGED cur
        BY <3>1
    <3>2. CASE MakeAttr(x)
      <4>1. Len(attrRows[in[x]]) + 1 # 0
          BY <1>0, <2>1 DEF TypeOK
      <4> QED BY <1>0, <2>1, <3>2, <4>1 DEF MakeAttr, TypeOK
    <3> QED BY <1>5, <3>1, <3>2 DEF MakeRes, CheckAttr, CheckCity
  <2>5. Others(x)
      BY <1>0, <2>1, <2>3, <2>4 DEF Others
  <2> QED BY <2>3, <2>5, SoundStep DEF IInv
<1>6. ASSUME NEW c \in City, MakeCity(x, c) PROVE Sound' /\ Others(x)
  <2>1. req[x] \in Request
      BY <1>0 DEF TypeOK
  <2> DEFINE q == [req[x] EXCEPT !.op = "makeFac", !.city = c]
  <2>2. q.op = "makeFac" /\ q.city = c
      BY <2>1 DEF Request
  <2>3. req' = [req EXCEPT ![x] = q] /\ in' = in /\ in[x] \in Role
      BY <1>1, <1>6 DEF MakeCity, Serves, Busy
  <2> HIDE DEF q
  <2>4. req'[x] = q /\ \A y \in Conn \ {x} : req'[y] = req[y]
      BY <1>0, <2>3, GoesTo
  <2>5. SoundOne(x)'
      BY <2>2, <2>3, <2>4 DEF SoundOne, Serves, Busy, Skilling
  <2>a. UNCHANGED cur
      BY <1>6 DEF MakeCity
  <2>6. Others(x)
      BY <1>0, <2>3, <2>4, <2>a DEF Others
  <2> QED BY <2>5, <2>6, SoundStep DEF IInv
<1>7. ASSUME EnterFails(x) \/ MakeFac(x) \/ MakeFacFails(x) PROVE Sound' /\ Others(x)
  <2>1. Ends(x) /\ UNCHANGED <<in, cur>>
      BY <1>7 DEF EnterFails, MakeFac, MakeFacFails, Fails
  <2>2. SoundOne(x)' /\ \A y \in Conn \ {x} : req'[y] = req[y]
      BY <1>0, <2>1, GoesTo, SoundIdle
  <2>3. Others(x)
      BY <1>0, <2>1, <2>2 DEF Others
  <2> QED BY <2>2, <2>3, SoundStep DEF IInv
<1> QED BY <1>2, <1>3, <1>4, <1>5, <1>6, <1>7 DEF Entering

LEMMA ManagingSound ==
    ASSUME IInv, GeneralTypeOK', NEW x \in Conn, Managing(x), UNCHANGED generalVars
    PROVE  Sound' /\ Others(x)
<1>0. TypeOK /\ Sound /\ SoundOne(x) /\ UNCHANGED <<skill, greq>> /\ Len(skill) \in Nat
    BY DEF IInv, GeneralTypeOK, Sound, generalVars
<1> USE DEF world, rows, cities, counters, history
<1>1. ASSUME NEW c \in City, NEW f \in Fac, UpLooks(x, c, f) PROVE Sound' /\ Others(x)
  <2> DEFINE q == [Idle EXCEPT !.op = "up", !.city = c, !.fac = f, !.seen = res[in[x]],
                       !.delta = [k \in Kind |-> - Need[f][k]],
                       !.snap = [fac[c] EXCEPT ![f] = Settled(fac[c][f])]]
  <2>1. Looks(x, q) /\ UNCHANGED <<in, cur>>
      BY <1>1 DEF UpLooks
  <2>2. in[x] \in Role /\ req' = [req EXCEPT ![x] = q]
      BY <1>0, <2>1 DEF TypeOK, Looks, Has
  <2>3. q.op = "up" /\ q.city = c /\ q.fac = f
      BY DEF Idle
  <2> HIDE DEF q
  <2>4. req'[x] = q /\ \A y \in Conn \ {x} : req'[y] = req[y]
      BY <1>0, <2>2, GoesTo
  <2>5. SoundOne(x)'
      BY <2>1, <2>2, <2>3, <2>4 DEF SoundOne, Serves, Busy, Skilling
  <2>6. Others(x)
      BY <1>0, <2>1, <2>4 DEF Others
  <2> QED BY <2>5, <2>6, SoundStep DEF IInv
<1>2. ASSUME CollectLooks(x) PROVE Sound' /\ Others(x)
  <2> DEFINE q == [Idle EXCEPT !.op = "collect", !.at = now, !.seen = res[in[x]],
                       !.delta = [Nothing EXCEPT !["gold"] = GetYield(in[x], "gold")]]
  <2>1. Looks(x, q) /\ UNCHANGED <<in, cur>> /\ cur[in[x]] # 0
      BY <1>2 DEF CollectLooks
  <2>2. in[x] \in Role /\ req' = [req EXCEPT ![x] = q]
      BY <1>0, <2>1 DEF TypeOK, Looks, Has
  <2>3. q.op = "collect"
      BY DEF Idle
  <2> HIDE DEF q
  <2>4. req'[x] = q /\ \A y \in Conn \ {x} : req'[y] = req[y]
      BY <1>0, <2>2, GoesTo
  <2>5. SoundOne(x)'
      BY <2>1, <2>2, <2>3, <2>4 DEF SoundOne, Serves, Busy, Skilling
  <2>6. Others(x)
      BY <1>0, <2>1, <2>4 DEF Others
  <2> QED BY <2>5, <2>6, SoundStep DEF IInv
<1>3. ASSUME NEW give \in [Goods -> Amounts], TransformLooks(x, give) PROVE Sound' /\ Others(x)
  <2> DEFINE q == [Idle EXCEPT !.op = "transform",
                       !.delta = [k \in Kind |-> IF k \in Goods THEN give[k] ELSE 0],
                       !.seen = res[in[x]]]
  <2>1. Looks(x, q) /\ UNCHANGED <<in, cur>>
      BY <1>3 DEF TransformLooks
  <2>2. in[x] \in Role /\ req' = [req EXCEPT ![x] = q]
      BY <1>0, <2>1 DEF TypeOK, Looks, Has
  <2>3. q.op = "transform"
      BY DEF Idle
  <2> HIDE DEF q
  <2>4. req'[x] = q /\ \A y \in Conn \ {x} : req'[y] = req[y]
      BY <1>0, <2>2, GoesTo
  <2>5. SoundOne(x)'
      BY <2>1, <2>2, <2>3, <2>4, SoundPlain DEF Plain
  <2>6. Others(x)
      BY <1>0, <2>1, <2>4 DEF Others
  <2> QED BY <2>5, <2>6, SoundStep DEF IInv
<1>4. ASSUME UpStores(x) \/ CollectStores(x) \/ TransformStores(x) PROVE Sound' /\ Others(x)
  <2>1. Ends(x) /\ UNCHANGED <<in, cur>>
      BY <1>4 DEF UpStores, CollectStores, TransformStores
  <2>2. SoundOne(x)' /\ \A y \in Conn \ {x} : req'[y] = req[y]
      BY <1>0, <2>1, GoesTo, SoundIdle
  <2>3. Others(x)
      BY <1>0, <2>1, <2>2 DEF Others
  <2> QED BY <2>2, <2>3, SoundStep DEF IInv
<1>5. ASSUME CollectTooEarly(x) PROVE Sound' /\ Others(x)
  <2>1. SoundOne(x)'
      BY <1>0, <1>5, SoundSame DEF CollectTooEarly
  <2>2. Others(x)
      BY <1>0, <1>5 DEF CollectTooEarly, Others
  <2> QED BY <2>1, <2>2, SoundStep DEF IInv
<1>6. ASSUME TransformPanics(x) PROVE Sound' /\ Others(x)
  <2>1. ~Busy(x) /\ UNCHANGED <<req, cur>> /\ \A y \in Conn \ {x} : in'[y] = in[y]
      BY <1>0, <1>6 DEF TransformPanics, TypeOK
  <2>2. SoundOne(x)'
      BY <2>1 DEF SoundOne, Serves, Busy, Skilling
  <2>3. Others(x)
      BY <1>0, <2>1 DEF Others
  <2> QED BY <2>2, <2>3, SoundStep DEF IInv
<1> QED BY <1>1, <1>2, <1>3, <1>4, <1>5, <1>6 DEF Managing

\* produce() and the clock do not touch requests.
LEMMA ProducingSound ==
    ASSUME Sound, Producing \/ Tick, UNCHANGED generalVars
    PROVE  Sound'
<1>1. UNCHANGED <<in, req, cur, skill, greq>>
    BY DEF Producing, ProduceBegins, ProduceLooks, ProduceStores, Tick, generalVars, world, rows
<1>2. ASSUME NEW x \in Conn PROVE SoundOne(x)'
    BY <1>1, SoundSame DEF Sound
<1> QED BY <1>2 DEF Sound

LEMMA RestartSound == ASSUME Restart PROVE Sound'
<1>1. ASSUME NEW x \in Conn PROVE SoundOne(x)'
    BY SoundIdle DEF Restart
<1> QED BY <1>1 DEF Sound

(***************************************************************************)
(* Types of the generals.                                                  *)
(***************************************************************************)
SkillRec == [rid : Role, cfg : SkillCfg, gens : SUBSET Gen]
OwnOK == gen \in [Gen -> GenRec] /\ byRole \subseteq Role
SkillOK == skill \in Seq(SkillRec)
ArmyOK == army \in [Role -> [Order -> [Place -> Gen \cup {NoGen}]]]
AskedOK == greq \in [Conn -> About]
TallyOK == drawn \in [Role -> Nat] /\ charged \in [Role -> Nat] /\ strayed \subseteq Gen

LEMMA GeneralParts == GeneralTypeOK <=> TypeOK /\ OwnOK /\ SkillOK /\ ArmyOK /\ AskedOK /\ TallyOK
BY DEF GeneralTypeOK, OwnOK, SkillOK, SkillRec, ArmyOK, AskedOK, TallyOK

LEMMA GeneralPartsNext ==
    GeneralTypeOK' <=> TypeOK' /\ OwnOK' /\ SkillOK' /\ ArmyOK' /\ AskedOK' /\ TallyOK'
BY DEF GeneralTypeOK, OwnOK, SkillOK, SkillRec, ArmyOK, AskedOK, TallyOK

\* A step that leaves the home alone.
LEMMA HomeType ==
    ASSUME TypeOK, HomeKept, ReqOK', PurseOK', failures' \in Nat, torn' \subseteq Role
    PROVE  TypeOK'
<1>0. Parts
    BY TypeParts
<1>1. WorldOK' /\ AttrsOK' /\ CitiesOK' /\ ProdOK' /\ CountersOK' /\ HistoryOK'
    BY <1>0 DEF HomeKept, world, cities, Parts, WorldOK, AttrsOK, CitiesOK, ProdOK, CountersOK,
                HistoryOK
<1> QED BY <1>1, TypePartsNext DEF Parts

LEMMA FreeType == ASSUME TypeOK, HomeKept, ReqOK', Free PROVE TypeOK'
<1>1. PurseOK' /\ failures' \in Nat /\ torn' \subseteq Role
    BY DEF TypeOK, HomeKept, Free, PurseOK
<1> QED BY <1>1, HomeType

\* A request of generals begins.
LEMMA BeginsType ==
    ASSUME IInv, NEW x \in Conn, NEW op \in Op, NEW about \in About, Begins(x, op, about)
    PROVE  /\ GeneralTypeOK' /\ Others(x)
           /\ in'[x] \in Role /\ req'[x].op = op /\ greq'[x] = about
           /\ UNCHANGED <<in, cur, skill>>
<1>0. TypeOK /\ Parts /\ OwnOK /\ SkillOK /\ ArmyOK /\ AskedOK /\ TallyOK
    BY TypeParts, GeneralParts DEF IInv
<1> DEFINE q == [Idle EXCEPT !.op = op]
<1>1. q \in Request /\ q.op = op
    BY PlainRecord
<1>2. Looks(x, q) /\ greq' = [greq EXCEPT ![x] = about] /\ LooksOnly
    BY DEF Begins
<1> HIDE DEF q
<1>3. ReqOK' /\ asked' \in Nat /\ overlapped' \subseteq Role /\ in[x] \in Role
    BY <1>0, <1>1, <1>2, LooksType
<1>4. TypeOK'
    <2>1. CountersOK' /\ HistoryOK'
        BY <1>0, <1>2, <1>3 DEF LooksOnly, Parts, CountersOK, HistoryOK
    <2>2. WorldOK' /\ PurseOK' /\ AttrsOK' /\ CitiesOK' /\ ProdOK'
        BY <1>0, <1>2 DEF LooksOnly, world, rows, cities, Parts, WorldOK, PurseOK, AttrsOK, CitiesOK,
                          ProdOK
    <2> QED BY <1>3, <2>1, <2>2, TypePartsNext DEF Parts
<1>5. OwnOK' /\ SkillOK' /\ ArmyOK' /\ TallyOK'
    BY <1>0, <1>2 DEF LooksOnly, generals, drafts, OwnOK, SkillOK, ArmyOK, TallyOK
<1>6. AskedOK' /\ greq'[x] = about /\ \A y \in Conn \ {x} : greq'[y] = greq[y]
    BY <1>0, <1>2 DEF AskedOK
<1>7. GeneralTypeOK'
    BY <1>4, <1>5, <1>6, GeneralPartsNext
<1>8. req'[x] = q /\ \A y \in Conn \ {x} : req'[y] = req[y]
    BY <1>0, <1>2, GoesTo DEF Looks
<1>9. UNCHANGED <<in, cur, skill>>
    BY <1>2 DEF LooksOnly, world, rows
<1>10. Len(skill) \in Nat
    BY <1>0 DEF SkillOK
<1>11. Others(x)
    BY <1>6, <1>8, <1>9, <1>10 DEF Others
<1> QED BY <1>1, <1>3, <1>6, <1>7, <1>8, <1>9, <1>11

\* One ends.
LEMMA DoneType ==
    ASSUME IInv, NEW x \in Conn, Done(x)
    PROVE  /\ ReqOK' /\ AskedOK'
           /\ req'[x] = Idle /\ \A y \in Conn \ {x} : req'[y] = req[y] /\ greq'[y] = greq[y]
<1>0. TypeOK /\ Parts /\ AskedOK
    BY TypeParts, GeneralParts DEF IInv
<1>1. ReqOK' /\ req'[x] = Idle /\ \A y \in Conn \ {x} : req'[y] = req[y]
    BY <1>0, GoesType, GoesTo DEF Done, Parts
<1>2. AskedOK' /\ \A y \in Conn \ {x} : greq'[y] = greq[y]
    BY <1>0, Blanks DEF Done, AskedOK
<1> QED BY <1>1, <1>2

\* A step that ends a request and leaves the home alone is sound.
LEMMA DoneStep ==
    ASSUME IInv, NEW x \in Conn, Done(x), HomeKept, GeneralTypeOK', Len(skill') >= Len(skill)
    PROVE  Sound' /\ Others(x)
<1>1. SoundOne(x)'
    BY DoneType, SoundIdle
<1>2. UNCHANGED <<in, cur>>
    BY DEF HomeKept, world
<1>3. Others(x)
    BY <1>2, DoneType DEF Others
<1> QED BY <1>1, <1>3, SoundStep DEF IInv

(***************************************************************************)
(* Drawing.                                                                *)
(***************************************************************************)
LEMMA MadeType ==
    ASSUME OwnOK, failures \in Nat, NEW r \in Role, NEW new, NEW wanted, Made(r, new, wanted)
    PROVE  OwnOK' /\ failures' \in Nat
<1> DEFINE made == [Unborn EXCEPT !.rid = r, !.state = "normal"]
<1>1. made \in GenRec
    BY Blanks DEF GenRec
<1>2. gen' = [g \in Gen |-> IF g \in new THEN made ELSE gen[g]]
    BY DEF Made
<1> HIDE DEF made
<1>3. gen' \in [Gen -> GenRec]
    BY <1>1, <1>2 DEF OwnOK
<1>4. byRole' \subseteq Role /\ failures' \in Nat
    BY DEF Made, OwnOK
<1> QED BY <1>3, <1>4 DEF OwnOK

LEMMA PayEdits ==
    ASSUME NEW q \in Request, NEW seen \in Resources
    PROVE  /\ [q EXCEPT !.op = "drawPay", !.seen = seen] \in Request
           /\ [q EXCEPT !.op = "drawPay", !.seen = seen].op = "drawPay"
BY DEF Request, Op

LEMMA DrawingInductive ==
    ASSUME IInv, NEW x \in Conn,
           \/ MyLooks(x) \/ MyMakes(x)
           \/ \E n \in DrawTimes : DrawLooks(x, n)
           \/ DrawMakes(x) \/ DrawPays(x)
    PROVE  IInv' /\ Others(x)
<1>0. TypeOK /\ Parts /\ OwnOK /\ SkillOK /\ ArmyOK /\ AskedOK /\ TallyOK /\ SoundOne(x)
      /\ Len(skill) \in Nat
    BY TypeParts, GeneralParts DEF IInv, Sound, SkillOK
<1>f. failures \in Nat /\ torn \subseteq Role /\ greq[x] \in About
    BY <1>0 DEF Parts, CountersOK, HistoryOK, AskedOK
<1>a. Busy(x) => in[x] \in Role
    BY <1>0 DEF SoundOne
<1>1. ASSUME MyLooks(x) PROVE IInv' /\ Others(x)
  <2>1. Begins(x, "my", Asked) /\ "my" \in Op
      BY <1>1 DEF MyLooks, Op
  <2>2. GeneralTypeOK' /\ Others(x) /\ in'[x] \in Role /\ req'[x].op = "my"
      BY <2>1, BeginsType, Blanks
  <2>3. Sound'
      BY <2>2, SoundPlain, SoundStep DEF Plain, IInv
  <2> QED BY <2>2, <2>3 DEF IInv
<1>2. ASSUME NEW n \in DrawTimes, DrawLooks(x, n) PROVE IInv' /\ Others(x)
  <2> DEFINE about == [Asked EXCEPT !.row = n]
  <2>1. Begins(x, "draw", about) /\ "draw" \in Op
      BY <1>2 DEF DrawLooks, Op
  <2>2. about \in About
      BY Blanks, GeneralAssumption DEF About
  <2> HIDE DEF about
  <2>3. GeneralTypeOK' /\ Others(x) /\ in'[x] \in Role /\ req'[x].op = "draw"
      BY <2>1, <2>2, BeginsType
  <2>4. Sound'
      BY <2>3, SoundPlain, SoundStep DEF Plain, IInv
  <2> QED BY <2>3, <2>4 DEF IInv
<1>3. ASSUME MyMakes(x) PROVE IInv' /\ Others(x)
  <2>1. in[x] \in Role /\ Done(x) /\ HomeKept
      BY <1>3, <1>a DEF MyMakes, Busy, Serves
  <2>2. PICK new \in SUBSET Unused : Made(in[x], new, InitialGenerals)
      BY <1>3 DEF MyMakes
  <2>3. OwnOK' /\ failures' \in Nat
      BY <1>0, <1>f, <2>1, <2>2, MadeType
  <2>4. PurseOK' /\ torn' \subseteq Role /\ SkillOK' /\ ArmyOK' /\ TallyOK' /\ skill' = skill
      BY <1>0, <1>f, <1>3 DEF MyMakes, HomeKept, Parts, PurseOK, SkillOK, ArmyOK, TallyOK, drafts
  <2>5. ReqOK' /\ AskedOK'
      BY <2>1, DoneType
  <2>6. GeneralTypeOK'
      BY <1>0, <2>1, <2>3, <2>4, <2>5, HomeType, GeneralPartsNext
  <2>7. Sound' /\ Others(x)
      BY <1>0, <2>1, <2>4, <2>6, DoneStep
  <2> QED BY <2>6, <2>7 DEF IInv
<1>4. ASSUME DrawMakes(x) PROVE IInv' /\ Others(x)
  <2> DEFINE n == greq[x].row
             q == [req[x] EXCEPT !.op = "drawPay", !.seen = res[in[x]]]
  <2>1. in[x] \in Role /\ HomeKept /\ n \in Nat
      BY <1>4, <1>a, <1>f DEF DrawMakes, Busy, Serves, About
  <2>2. PICK new \in SUBSET Unused :
          /\ Made(in[x], new, n)
          /\ \/ Done(x) /\ drawn' = drawn
             \/ /\ drawn' = [drawn EXCEPT ![in[x]] = @ + n]
                /\ req' = [req EXCEPT ![x] = q] /\ greq' = greq
      BY <1>4 DEF DrawMakes
  <2>3. OwnOK' /\ failures' \in Nat
      BY <1>0, <1>f, <2>1, <2>2, MadeType
  <2>4. PurseOK' /\ torn' \subseteq Role /\ SkillOK' /\ ArmyOK' /\ skill' = skill
      BY <1>0, <1>f, <1>4 DEF DrawMakes, HomeKept, Parts, PurseOK, SkillOK, ArmyOK
  <2>5. TallyOK'
    <3>1. drawn' \in [Role -> Nat]
        BY <1>0, <2>1, <2>2 DEF TallyOK
    <3> QED BY <1>0, <1>4, <3>1 DEF DrawMakes, TallyOK
  <2>6. q \in Request /\ q.op = "drawPay"
    <3>1. req[x] \in Request /\ res[in[x]] \in Resources
        BY <1>0, <2>1 DEF TypeOK
    <3> QED BY <3>1, PayEdits
  <2> HIDE DEF n, q
  <2>7. CASE Done(x)
    <3>1. ReqOK' /\ AskedOK'
        BY <2>7, DoneType
    <3>2. GeneralTypeOK'
        BY <1>0, <2>1, <2>3, <2>4, <2>5, <3>1, HomeType, GeneralPartsNext
    <3>3. Sound' /\ Others(x)
        BY <1>0, <2>1, <2>4, <2>7, <3>2, DoneStep
    <3> QED BY <3>2, <3>3 DEF IInv
  <2>8. CASE req' = [req EXCEPT ![x] = q] /\ greq' = greq
    <3>1. ReqOK' /\ AskedOK'
        BY <1>0, <2>6, <2>8 DEF TypeOK, ReqOK, AskedOK
    <3>2. GeneralTypeOK'
        BY <1>0, <2>1, <2>3, <2>4, <2>5, <3>1, HomeType, GeneralPartsNext
    <3>3. req'[x] = q /\ \A y \in Conn \ {x} : req'[y] = req[y]
        BY <1>0, <2>8, GoesTo
    <3>4. UNCHANGED <<in, cur>>
        BY <2>1 DEF HomeKept, world
    <3>5. SoundOne(x)'
        BY <2>1, <2>6, <3>3, <3>4, SoundPlain DEF Plain
    <3>6. Others(x)
        BY <1>0, <2>4, <2>8, <3>3, <3>4 DEF Others
    <3> QED BY <3>2, <3>5, <3>6, SoundStep DEF IInv
  <2> QED BY <2>2, <2>7, <2>8
<1>5. ASSUME DrawPays(x) PROVE IInv' /\ Others(x)
  <2> DEFINE n == greq[x].row
             m == -DrawCost * n
  <2>1. in[x] \in Role /\ HomeKept /\ n \in Nat /\ Done(x)
      BY <1>5, <1>a, <1>f DEF DrawPays, Busy, Serves, About
  <2>2. m \in Int
      BY <2>1, GeneralAssumption
  <2>3. \/ UNCHANGED <<res, torn, charged>>
        \/ Put(in[x], req[x].seen, Gold(m)) /\ charged' = [charged EXCEPT ![in[x]] = @ + n]
      BY <1>5 DEF DrawPays
  <2> HIDE DEF n, m
  <2>4. PurseOK' /\ torn' \subseteq Role
    <3>1. CASE UNCHANGED <<res, torn>>
        BY <1>0, <1>f, <2>1, <3>1 DEF HomeKept, Parts, PurseOK
    <3>2. CASE Put(in[x], req[x].seen, Gold(m))
        BY <1>0, <2>1, <2>2, <3>2, PutParts, GoldType DEF HomeKept, TypeOK, Request
    <3> QED BY <2>3, <3>1, <3>2
  <2>5. charged' \in [Role -> Nat]
      BY <1>0, <2>1, <2>3 DEF TallyOK
  <2>6. failures' \in Nat /\ OwnOK' /\ SkillOK' /\ ArmyOK' /\ TallyOK' /\ skill' = skill
      BY <1>0, <1>f, <1>5, <2>5 DEF DrawPays, generals, OwnOK, SkillOK, ArmyOK, TallyOK
  <2>7. ReqOK' /\ AskedOK'
      BY <2>1, DoneType
  <2>8. GeneralTypeOK'
      BY <1>0, <2>1, <2>4, <2>6, <2>7, HomeType, GeneralPartsNext
  <2>9. Sound' /\ Others(x)
      BY <1>0, <2>1, <2>6, <2>8, DoneStep
  <2> QED BY <2>8, <2>9 DEF IInv
<1> QED BY <1>1, <1>2, <1>3, <1>4, <1>5

(***************************************************************************)
(* Composing and converting.                                               *)
(***************************************************************************)
LEMMA TradingInductive ==
    ASSUME IInv, NEW x \in Conn,
           \/ \E g \in Gen, eaten \in SUBSET Gen : ComposeLooks(x, g, eaten)
           \/ ComposeStores(x)
           \/ \E sold \in SUBSET Gen \ {{}} : ConvertLooks(x, sold)
           \/ ConvertStores(x)
    PROVE  IInv' /\ Others(x)
<1>0. TypeOK /\ Parts /\ OwnOK /\ SkillOK /\ ArmyOK /\ AskedOK /\ TallyOK /\ SoundOne(x)
      /\ Len(skill) \in Nat
    BY TypeParts, GeneralParts DEF IInv, Sound, SkillOK
<1>f. failures \in Nat /\ torn \subseteq Role /\ greq[x] \in About
    BY <1>0 DEF Parts, CountersOK, HistoryOK, AskedOK
<1>a. Busy(x) => in[x] \in Role
    BY <1>0 DEF SoundOne
<1>1. ASSUME NEW g \in Gen, NEW eaten \in SUBSET Gen, ComposeLooks(x, g, eaten) PROVE IInv' /\ Others(x)
  <2> DEFINE about == [Asked EXCEPT !.gen = g, !.gens = eaten]
  <2>1. Begins(x, "compose", about) /\ "compose" \in Op
      BY <1>1 DEF ComposeLooks, Op
  <2>2. about \in About /\ about.gen = g
      BY Blanks DEF About
  <2> HIDE DEF about
  <2>3. GeneralTypeOK' /\ Others(x) /\ in'[x] \in Role /\ req'[x].op = "compose"
        /\ greq'[x] = about
      BY <2>1, <2>2, BeginsType
  <2>4. SoundOne(x)'
      BY <2>2, <2>3 DEF SoundOne, Serves, Busy, Skilling
  <2>5. Sound'
      BY <2>3, <2>4, SoundStep DEF IInv
  <2> QED BY <2>3, <2>5 DEF IInv
<1>2. ASSUME ComposeStores(x) PROVE IInv' /\ Others(x)
  <2> DEFINE g == greq[x].gen
             eaten == greq[x].gens
             n == Cardinality(eaten)
  <2>1. HomeKept /\ Free /\ Done(x) /\ g \in Gen /\ eaten \in SUBSET Gen
      BY <1>2, <1>0, <1>f DEF ComposeStores, SoundOne, About
  <2>2. n \in Nat
      BY <2>1, GeneralAssumption, FS_Subset, FS_CardinalityType
  <2>3. gen' = [h \in Gen |->
                  IF h \in eaten THEN [gen[h] EXCEPT !.state = "composed", !.parent = g]
                  ELSE IF h = g THEN [gen[h] EXCEPT !.starLv = @ + n]
                  ELSE gen[h]]
      BY <1>2 DEF ComposeStores
  <2> HIDE DEF eaten, n, g
  <2>4. ASSUME NEW h \in Gen
        PROVE  /\ gen[h] \in GenRec /\ [gen[h] EXCEPT !.state = "composed", !.parent = g] \in GenRec
               /\ [gen[h] EXCEPT !.starLv = @ + n] \in GenRec
    <3>1. gen[h] \in GenRec
        BY <1>0 DEF OwnOK
    <3> DEFINE m == gen[h].starLv + n
    <3>2. m \in Nat
        BY <2>2, <3>1 DEF GenRec
    <3>3. [gen[h] EXCEPT !.state = "composed", !.parent = g] \in GenRec
        BY <2>1, <3>1 DEF GenRec
    <3> HIDE DEF m
    <3>4. [gen[h] EXCEPT !.starLv = m] \in GenRec
        BY <3>1, <3>2 DEF GenRec
    <3> QED BY <3>1, <3>3, <3>4 DEF m
  <2>5. OwnOK'
    <3>1. gen' \in [Gen -> GenRec]
        BY <2>3, <2>4
    <3> QED BY <1>0, <1>2, <3>1 DEF ComposeStores, OwnOK
  <2>6. SkillOK' /\ ArmyOK' /\ TallyOK' /\ skill' = skill
      BY <1>0, <1>2 DEF ComposeStores, drafts, SkillOK, ArmyOK, TallyOK
  <2>7. GeneralTypeOK'
      BY <1>0, <2>1, <2>5, <2>6, DoneType, FreeType, GeneralPartsNext
  <2>8. Sound' /\ Others(x)
      BY <1>0, <2>1, <2>6, <2>7, DoneStep
  <2> QED BY <2>7, <2>8 DEF IInv
<1>3. ASSUME NEW sold \in SUBSET Gen, ConvertLooks(x, sold) PROVE IInv' /\ Others(x)
  <2> DEFINE about == [Asked EXCEPT !.gens = sold]
  <2>1. Begins(x, "convert", about) /\ "convert" \in Op
      BY <1>3 DEF ConvertLooks, Op
  <2>2. about \in About
      BY Blanks DEF About
  <2> HIDE DEF about
  <2>3. GeneralTypeOK' /\ Others(x) /\ in'[x] \in Role /\ req'[x].op = "convert"
      BY <2>1, <2>2, BeginsType
  <2>4. Sound'
      BY <2>3, SoundPlain, SoundStep DEF Plain, IInv
  <2> QED BY <2>3, <2>4 DEF IInv
<1>4. ASSUME ConvertStores(x) PROVE IInv' /\ Others(x)
  <2> DEFINE sold == greq[x].gens
  <2>1. in[x] \in Role /\ HomeKept /\ Done(x) /\ sold \in SUBSET Gen
      BY <1>4, <1>a, <1>f DEF ConvertStores, Busy, Serves, About
  <2>2. gen' = [g \in Gen |-> IF g \in sold THEN [gen[g] EXCEPT !.state = "converted"] ELSE gen[g]]
        /\ Put(in[x], res[in[x]], Gold(Worth(sold)))
      BY <1>4 DEF ConvertStores
  <2> HIDE DEF sold
  <2>3. ASSUME NEW g \in Gen
        PROVE  gen[g] \in GenRec /\ [gen[g] EXCEPT !.state = "converted"] \in GenRec
      BY <1>0 DEF OwnOK, GenRec
  <2>4. OwnOK'
    <3>1. gen' \in [Gen -> GenRec]
        BY <2>2, <2>3
    <3> QED BY <1>0, <1>4, <3>1 DEF ConvertStores, OwnOK
  <2>5. PurseOK' /\ torn' \subseteq Role
    <3>1. Gold(Worth(sold)) \in Resources
        BY <2>1, WorthType, GoldType
    <3> QED BY <1>0, <2>1, <2>2, <3>1, PutParts DEF HomeKept, TypeOK
  <2>6. failures' \in Nat /\ SkillOK' /\ ArmyOK' /\ TallyOK' /\ skill' = skill
      BY <1>0, <1>f, <1>4, <2>1 DEF ConvertStores, drafts, SkillOK, ArmyOK, TallyOK, sold
  <2>7. GeneralTypeOK'
      BY <1>0, <2>1, <2>4, <2>5, <2>6, DoneType, HomeType, GeneralPartsNext
  <2>8. Sound' /\ Others(x)
      BY <1>0, <2>1, <2>6, <2>7, DoneStep
  <2> QED BY <2>7, <2>8 DEF IInv
<1> QED BY <1>1, <1>2, <1>3, <1>4

(***************************************************************************)
(* Skills.                                                                 *)
(***************************************************************************)
LEMMA SkillSetEdits ==
    ASSUME SkillOK, NEW i \in 1..Len(skill), NEW g \in Gen
    PROVE  LET put == [skill EXCEPT ![i].gens = @ \cup {g}]
               off == [skill EXCEPT ![i].gens = @ \ {g}]
           IN  /\ put \in Seq(SkillRec) /\ Len(put) = Len(skill)
               /\ off \in Seq(SkillRec) /\ Len(off) = Len(skill)
<1>1. skill[i] \in SkillRec
    BY DEF SkillOK
<1>2. ASSUME NEW a \in SkillRec
      PROVE  [skill EXCEPT ![i] = a] \in Seq(SkillRec) /\ Len([skill EXCEPT ![i] = a]) = Len(skill)
    BY DEF SkillOK
<1>3. /\ [skill[i] EXCEPT !.gens = @ \cup {g}] \in SkillRec
      /\ [skill[i] EXCEPT !.gens = @ \ {g}] \in SkillRec
    BY <1>1 DEF SkillRec
<1> QED BY <1>2, <1>3

LEMMA WornEdits ==
    ASSUME OwnOK, NEW g \in Gen, NEW p \in SkillSlot, NEW n \in Nat
    PROVE  [gen EXCEPT ![g].worn[p] = n] \in [Gen -> GenRec]
<1> DEFINE w == [gen[g].worn EXCEPT ![p] = n]
<1>1. gen[g] \in GenRec /\ gen[g].worn \in [SkillSlot -> Nat]
    BY DEF OwnOK, GenRec
<1>2. w \in [SkillSlot -> Nat]
    BY <1>1
<1> HIDE DEF w
<1>3. [gen[g] EXCEPT !.worn = w] \in GenRec
    BY <1>1, <1>2 DEF GenRec
<1>4. [gen EXCEPT ![g].worn = w] \in [Gen -> GenRec]
    BY <1>3 DEF OwnOK
<1> QED BY <1>4 DEF w

LEMMA SkillsInductive ==
    ASSUME IInv, NEW x \in Conn,
           \/ \E op \in {"up", "down"}, g \in Gen, s \in SkillCfg, p \in SkillSlot :
                 SkillLooks(x, op, g, s, p)
           \/ MakeSkill(x) \/ UpSkillStores(x) \/ DownSkillStores(x)
    PROVE  IInv' /\ Others(x)
<1>0. TypeOK /\ Parts /\ OwnOK /\ SkillOK /\ ArmyOK /\ AskedOK /\ TallyOK /\ SoundOne(x)
      /\ Len(skill) \in Nat
    BY TypeParts, GeneralParts DEF IInv, Sound, SkillOK
<1>a. Busy(x) => in[x] \in Role
    BY <1>0 DEF SoundOne
<1>1. ASSUME NEW op \in {"up", "down"}, NEW g \in Gen, NEW s \in SkillCfg, NEW p \in SkillSlot,
             SkillLooks(x, op, g, s, p)
      PROVE  IInv' /\ Others(x)
  <2> DEFINE about == [Asked EXCEPT !.gen = g, !.skill = s, !.place = p]
  <2>1. about \in About /\ about.gen = g /\ about.skill = s /\ about.place = p
      BY Blanks DEF About
  <2>b. PICK o \in Skilling : \E b :
          /\ Begins(x, o, b)
          /\ \/ o \in {"makeUpSkill", "makeDownSkill"} /\ b = about
             \/ \E i \in 1..Len(skill) : b = [about EXCEPT !.row = i]
    <3>1. CASE RowsOf(in[x], s) = {}
        BY <1>1, <3>1 DEF SkillLooks, Skilling
    <3>2. CASE RowsOf(in[x], s) # {}
      <4>1. PICK i \in RowsOf(in[x], s) :
              Begins(x, IF op = "up" THEN "upSkill" ELSE "downSkill", [about EXCEPT !.row = i])
          BY <1>1, <3>2 DEF SkillLooks, LastRow
      <4>2. i \in 1..Len(skill)
          BY <1>0 DEF RowsOf, SkillOK
      <4> HIDE DEF about
      <4> QED BY <4>1, <4>2 DEF Skilling
    <3> QED BY <3>1, <3>2
  <2>2. PICK b :
          /\ Begins(x, o, b)
          /\ \/ o \in {"makeUpSkill", "makeDownSkill"} /\ b = about
             \/ \E i \in 1..Len(skill) : b = [about EXCEPT !.row = i]
      BY <2>b
  <2> HIDE DEF about
  <2>3. b \in About /\ b.gen = g /\ b.skill = s /\ b.place = p
        /\ (o \in {"upSkill", "downSkill"} => b.row \in 1..Len(skill))
      BY <1>0, <2>1, <2>2 DEF About
  <2>4. o \in Op
      BY DEF Skilling, Op
  <2>5. GeneralTypeOK' /\ Others(x) /\ in'[x] \in Role /\ req'[x].op = o /\ greq'[x] = b
        /\ skill' = skill
      BY <2>2, <2>3, <2>4, BeginsType
  <2>6. SoundOne(x)'
      BY <2>3, <2>5 DEF SoundOne, Serves, Busy, Skilling
  <2>7. Sound'
      BY <2>5, <2>6, SoundStep DEF IInv
  <2> QED BY <2>5, <2>7 DEF IInv
<1>2. ASSUME MakeSkill(x) PROVE IInv' /\ Others(x)
  <2> DEFINE row == [rid |-> in[x], cfg |-> greq[x].skill, gens |-> {}]
             b == [greq[x] EXCEPT !.row = Len(skill) + 1]
  <2>1. HomeKept /\ Free /\ in[x] \in Role /\ req[x].op \in Skilling
      BY <1>2, <1>a DEF MakeSkill, Busy, Skilling
  <2>2. greq[x] \in About /\ greq[x].gen \in Gen /\ greq[x].place \in SkillSlot
        /\ greq[x].skill \in SkillCfg
      BY <1>0, <2>1 DEF SoundOne, AskedOK
  <2>3. row \in SkillRec
      BY <2>1, <2>2 DEF SkillRec
  <2>4. b \in About /\ b.gen = greq[x].gen /\ b.place = greq[x].place /\ b.skill = greq[x].skill
        /\ b.row = Len(skill) + 1
      BY <1>0, <2>2 DEF About
  <2>5. skill' = Append(skill, row) /\ greq' = [greq EXCEPT ![x] = b]
      BY <1>2 DEF MakeSkill
  <2>6. PICK op \in {"upSkill", "downSkill"} : Goes(x, op)
      BY <1>2 DEF MakeSkill
  <2> HIDE DEF row, b
  <2>7. SkillOK' /\ Len(skill') = Len(skill) + 1
      BY <1>0, <2>3, <2>5 DEF SkillOK
  <2>8. AskedOK' /\ greq'[x] = b /\ \A y \in Conn \ {x} : greq'[y] = greq[y]
      BY <1>0, <2>4, <2>5 DEF AskedOK
  <2>9. op \in Op
      BY DEF Op
  <2>10. ReqOK' /\ req'[x].op = op /\ \A y \in Conn \ {x} : req'[y] = req[y]
      BY <1>0, <2>6, <2>9, GoesType, GoesTo DEF Parts
  <2>11. OwnOK' /\ ArmyOK' /\ TallyOK'
      BY <1>0, <1>2 DEF MakeSkill, generals, drafts, OwnOK, ArmyOK, TallyOK
  <2>12. GeneralTypeOK'
      BY <1>0, <2>1, <2>7, <2>8, <2>10, <2>11, FreeType, GeneralPartsNext
  <2>13. UNCHANGED <<in, cur>>
      BY <2>1 DEF HomeKept, world
  <2>14. SoundOne(x)'
    <3>1. Len(skill) + 1 \in 1..(Len(skill) + 1)
        BY <1>0
    <3> QED BY <2>1, <2>2, <2>4, <2>7, <2>8, <2>10, <2>13, <3>1
        DEF SoundOne, Serves, Busy, Skilling
  <2>15. Others(x)
      BY <1>0, <2>7, <2>8, <2>10, <2>13 DEF Others
  <2> QED BY <2>12, <2>14, <2>15, SoundStep DEF IInv
<1>3. ASSUME UpSkillStores(x) \/ DownSkillStores(x) PROVE IInv' /\ Others(x)
  <2> DEFINE g == greq[x].gen
             i == greq[x].row
             p == greq[x].place
  <2>1. HomeKept /\ Free /\ Done(x) /\ req[x].op \in {"upSkill", "downSkill"}
      BY <1>3 DEF UpSkillStores, DownSkillStores, Serves
  <2>2. g \in Gen /\ p \in SkillSlot /\ i \in 1..Len(skill)
      BY <1>0, <2>1 DEF SoundOne, Skilling
  <2>3. \/ UNCHANGED <<gen, skill>>
        \/ /\ gen' = [gen EXCEPT ![g].worn[p] = i]
           /\ skill' = [skill EXCEPT ![i].gens = @ \cup {g}]
        \/ /\ gen' = [gen EXCEPT ![g].worn[p] = 0]
           /\ skill' = [skill EXCEPT ![i].gens = @ \ {g}]
      BY <1>3 DEF UpSkillStores, DownSkillStores, NoSkill
  <2>4. UNCHANGED <<byRole, army, drafts, strayed>>
      BY <1>3 DEF UpSkillStores, DownSkillStores
  <2> HIDE DEF g, i, p
  <2>5. gen' \in [Gen -> GenRec]
    <3>1. i \in Nat /\ 0 \in Nat
        BY <1>0, <2>2
    <3>2. \A n \in Nat : [gen EXCEPT ![g].worn[p] = n] \in [Gen -> GenRec]
        BY <1>0, <2>2, WornEdits
    <3> QED BY <1>0, <2>3, <3>1, <3>2 DEF OwnOK
  <2>6. SkillOK' /\ Len(skill') = Len(skill)
    <3> DEFINE put == [skill EXCEPT ![i].gens = @ \cup {g}]
               off == [skill EXCEPT ![i].gens = @ \ {g}]
    <3>1. /\ put \in Seq(SkillRec) /\ Len(put) = Len(skill)
          /\ off \in Seq(SkillRec) /\ Len(off) = Len(skill)
        BY <1>0, <2>2, SkillSetEdits
    <3>2. skill' \in {skill, put, off}
        BY <2>3
    <3> HIDE DEF put, off
    <3> QED BY <1>0, <3>1, <3>2 DEF SkillOK
  <2>7. OwnOK' /\ ArmyOK' /\ TallyOK'
      BY <1>0, <2>4, <2>5 DEF drafts, OwnOK, ArmyOK, TallyOK
  <2>8. GeneralTypeOK'
      BY <1>0, <2>1, <2>6, <2>7, DoneType, FreeType, GeneralPartsNext
  <2>9. Sound' /\ Others(x)
      BY <1>0, <2>1, <2>6, <2>8, DoneStep
  <2> QED BY <2>8, <2>9 DEF IInv
<1> QED BY <1>1, <1>2, <1>3

(***************************************************************************)
(* Armies.                                                                 *)
(***************************************************************************)
LEMMA ArmiesInductive ==
    ASSUME IInv, NEW x \in Conn,
           \/ \E g \in Gen, o \in Order, p \in Place : PlaceLooks(x, g, o, p)
           \/ PlaceStores(x)
           \/ \E g \in Gen, o \in Order : TakeOutLooks(x, g, o)
           \/ TakeOutStores(x)
    PROVE  IInv' /\ Others(x)
<1>0. TypeOK /\ Parts /\ OwnOK /\ SkillOK /\ ArmyOK /\ AskedOK /\ TallyOK /\ SoundOne(x)
      /\ Len(skill) \in Nat
    BY TypeParts, GeneralParts DEF IInv, Sound, SkillOK
<1>a. Busy(x) => in[x] \in Role
    BY <1>0 DEF SoundOne
<1>1. ASSUME NEW g \in Gen, NEW o \in Order, NEW p \in Place, PlaceLooks(x, g, o, p) PROVE IInv' /\ Others(x)
  <2> DEFINE about == [Asked EXCEPT !.gen = g, !.order = o, !.place = p]
  <2>1. Begins(x, "place", about) /\ "place" \in Op
      BY <1>1 DEF PlaceLooks, Op
  <2>2. about \in About /\ about.gen = g /\ about.order = o /\ about.place = p
      BY Blanks DEF About
  <2> HIDE DEF about
  <2>3. GeneralTypeOK' /\ Others(x) /\ in'[x] \in Role /\ req'[x].op = "place"
        /\ greq'[x] = about
      BY <2>1, <2>2, BeginsType
  <2>4. SoundOne(x)'
      BY <2>2, <2>3 DEF SoundOne, Serves, Busy, Skilling
  <2>5. Sound'
      BY <2>3, <2>4, SoundStep DEF IInv
  <2> QED BY <2>3, <2>5 DEF IInv
<1>2. ASSUME NEW g \in Gen, NEW o \in Order, TakeOutLooks(x, g, o) PROVE IInv' /\ Others(x)
  <2> DEFINE about == [Asked EXCEPT !.gen = g, !.order = o]
  <2>1. Begins(x, "takeOut", about) /\ "takeOut" \in Op
      BY <1>2 DEF TakeOutLooks, Op
  <2>2. about \in About /\ about.gen = g /\ about.order = o
      BY Blanks DEF About
  <2> HIDE DEF about
  <2>3. GeneralTypeOK' /\ Others(x) /\ in'[x] \in Role /\ req'[x].op = "takeOut"
        /\ greq'[x] = about
      BY <2>1, <2>2, BeginsType
  <2>4. SoundOne(x)'
      BY <2>2, <2>3 DEF SoundOne, Serves, Busy, Skilling
  <2>5. Sound'
      BY <2>3, <2>4, SoundStep DEF IInv
  <2> QED BY <2>3, <2>5 DEF IInv
<1>o. ASSUME NEW h \in Gen, NEW o \in Order \cup {0}
      PROVE  gen[h] \in GenRec /\ [gen[h] EXCEPT !.order = o] \in GenRec
    BY <1>0 DEF OwnOK, GenRec
<1>3. ASSUME PlaceStores(x) PROVE IInv' /\ Others(x)
  <2> DEFINE r == in[x]
             g == greq[x].gen
             o == greq[x].order
             p == greq[x].place
             old == army[r][o][p]
  <2>1. HomeKept /\ Free /\ Done(x) /\ Serves(x, "place") /\ r \in Role
      BY <1>3, <1>a DEF PlaceStores, Busy, Serves
  <2>2. g \in Gen /\ o \in Order /\ p \in Place
      BY <1>0, <2>1 DEF SoundOne
  <2>3. /\ army' = [army EXCEPT ![r][o][p] = g]
        /\ gen' = [h \in Gen |-> IF h = g THEN [gen[h] EXCEPT !.order = o]
                                 ELSE IF h = old THEN [gen[h] EXCEPT !.order = 0] ELSE gen[h]]
        /\ UNCHANGED <<byRole, skill, drafts, strayed>>
      BY <1>3 DEF PlaceStores
  <2> HIDE DEF r, g, o, p, old
  <2>4. gen' \in [Gen -> GenRec]
      BY <1>o, <2>2, <2>3
  <2>5. ArmyOK'
    <3> DEFINE line == [army[r][o] EXCEPT ![p] = g]
               mine == [army[r] EXCEPT ![o] = line]
    <3>1. line \in [Place -> Gen \cup {NoGen}]
        BY <1>0, <2>1, <2>2 DEF ArmyOK
    <3>2. army' = [army EXCEPT ![r] = mine]
        BY <2>3
    <3> HIDE DEF line
    <3>3. mine \in [Order -> [Place -> Gen \cup {NoGen}]]
        BY <1>0, <2>1, <2>2, <3>1 DEF ArmyOK
    <3> HIDE DEF mine
    <3> QED BY <1>0, <2>1, <3>2, <3>3 DEF ArmyOK
  <2>6. OwnOK' /\ SkillOK' /\ TallyOK' /\ skill' = skill
      BY <1>0, <2>3, <2>4 DEF drafts, OwnOK, SkillOK, TallyOK
  <2>7. GeneralTypeOK'
      BY <1>0, <2>1, <2>5, <2>6, DoneType, FreeType, GeneralPartsNext
  <2>8. Sound' /\ Others(x)
      BY <1>0, <2>1, <2>6, <2>7, DoneStep
  <2> QED BY <2>7, <2>8 DEF IInv
<1>4. ASSUME TakeOutStores(x) PROVE IInv' /\ Others(x)
  <2> DEFINE r == in[x]
             g == greq[x].gen
             o == greq[x].order
             line == [p \in Place |-> IF army[r][o][p] = g THEN NoGen ELSE army[r][o][p]]
             mine == [army[r] EXCEPT ![o] = line]
  <2>1. HomeKept /\ Free /\ Done(x) /\ Serves(x, "takeOut") /\ r \in Role
      BY <1>4, <1>a DEF TakeOutStores, Busy, Serves
  <2>2. g \in Gen /\ o \in Order
      BY <1>0, <2>1 DEF SoundOne
  <2>3. line \in [Place -> Gen \cup {NoGen}]
      BY <1>0, <2>1, <2>2 DEF ArmyOK
  <2>4. /\ army' = [army EXCEPT ![r] = mine]
        /\ gen' = [gen EXCEPT ![g] = [gen[g] EXCEPT !.order = 0]]
        /\ strayed' \in {strayed, strayed \cup {g}}
        /\ UNCHANGED <<byRole, skill, drafts>>
      BY <1>4 DEF TakeOutStores
  <2> HIDE DEF line, g, o
  <2>5. ArmyOK'
    <3>1. mine \in [Order -> [Place -> Gen \cup {NoGen}]]
        BY <1>0, <2>1, <2>2, <2>3 DEF ArmyOK
    <3> HIDE DEF mine
    <3> QED BY <1>0, <2>1, <2>4, <3>1 DEF ArmyOK
  <2>6. [gen[g] EXCEPT !.order = 0] \in GenRec
      BY <1>o, <2>2
  <2>7. OwnOK' /\ SkillOK' /\ TallyOK' /\ skill' = skill
      BY <1>0, <2>2, <2>4, <2>6 DEF drafts, OwnOK, SkillOK, TallyOK
  <2>8. GeneralTypeOK'
      BY <1>0, <2>1, <2>5, <2>7, DoneType, FreeType, GeneralPartsNext
  <2>9. Sound' /\ Others(x)
      BY <1>0, <2>1, <2>7, <2>8, DoneStep
  <2> QED BY <2>8, <2>9 DEF IInv
<1> QED BY <1>1, <1>2, <1>3, <1>4

(***************************************************************************)
(* A new start, and the theorem.                                           *)
(***************************************************************************)
\* Who was made has a role, and who is offered was made.
Born ==
    /\ \A g \in Gen : gen[g].state # "none" => gen[g].rid \in Role
    /\ \A x \in Conn : \A g \in greq[x].gens : gen[g].state # "none"

LEMMA GenEdits ==
    ASSUME NEW a \in GenRec
    PROVE  /\ \A g : LET b == [a EXCEPT !.state = "composed", !.parent = g]
                     IN  b.rid = a.rid /\ b.state = "composed"
           /\ \A n : LET b == [a EXCEPT !.starLv = n] IN b.rid = a.rid /\ b.state = a.state
           /\ LET b == [a EXCEPT !.state = "converted"]
              IN  b.rid = a.rid /\ b.state = "converted"
           /\ \A w : LET b == [a EXCEPT !.worn = w] IN b.rid = a.rid /\ b.state = a.state
           /\ \A o : LET b == [a EXCEPT !.order = o] IN b.rid = a.rid /\ b.state = a.state
BY DEF GenRec

\* A general is made once, and for a role.
Kept(g) == /\ gen[g].state # "none" => gen'[g].state # "none" /\ gen'[g].rid = gen[g].rid
           /\ gen'[g].state # "none" => gen[g].state # "none" \/ gen'[g].rid \in Role

LEMMA BornStep ==
    ASSUME Born, AskedOK, \A g \in Gen : Kept(g),
           \A x \in Conn : \A g \in greq'[x].gens :
               g \in greq[x].gens \/ (g \in Gen /\ gen[g].state # "none")
    PROVE  Born'
BY DEF Born, Kept, AskedOK, About

LEMMA BornCommanding ==
    ASSUME IInv, Born, NEW x \in Conn, Commanding(x)
    PROVE  Born'
<1>0. OwnOK /\ SoundOne(x) /\ AskedOK /\ greq[x] \in About
    BY GeneralParts DEF IInv, Sound, AskedOK
<1>g. gen \in [Gen -> GenRec] /\ \A g \in Gen : gen[g] \in GenRec
    BY <1>0 DEF OwnOK
<1>d. Done(x) => \A y \in Conn : \A g \in greq'[y].gens : g \in greq[y].gens
    BY <1>0 DEF Done, AskedOK, Asked
<1>k. UNCHANGED gen => \A g \in Gen : Kept(g)
    BY DEF Kept, Born
<1>1. ASSUME MyMakes(x) \/ DrawMakes(x) PROVE Born'
  <2>1. in[x] \in Role
      BY <1>0, <1>1 DEF SoundOne, MyMakes, DrawMakes, Busy, Serves
  <2>2. PICK new, wanted : new \in SUBSET Unused /\ Made(in[x], new, wanted)
      BY <1>1 DEF MyMakes, DrawMakes
  <2> DEFINE made == [Unborn EXCEPT !.rid = in[x], !.state = "normal"]
  <2>3. made.rid = in[x]
      BY DEF Unborn
  <2>4. gen' = [g \in Gen |-> IF g \in new THEN made ELSE gen[g]]
      BY <2>2 DEF Made
  <2> HIDE DEF made
  <2>5. \A g \in Gen : Kept(g)
      BY <2>1, <2>2, <2>3, <2>4 DEF Kept, Unused
  <2>6. Done(x) \/ UNCHANGED greq
      BY <1>1 DEF MyMakes, DrawMakes
  <2> QED BY <1>0, <1>d, <2>5, <2>6, BornStep
<1>2. ASSUME ComposeStores(x) PROVE Born'
  <2>1. \A g \in greq[x].gens : gen[g].state # "none"
      BY DEF Born
  <2>2. ASSUME NEW g \in Gen PROVE Kept(g)
    <3> DEFINE n == gen[g].starLv + Cardinality(greq[x].gens)
               who == greq[x].gen
    <3>1. gen'[g] = IF g \in greq[x].gens
                    THEN [gen[g] EXCEPT !.state = "composed", !.parent = who]
                    ELSE IF g = who THEN [gen[g] EXCEPT !.starLv = n] ELSE gen[g]
        BY <1>2 DEF ComposeStores
    <3> HIDE DEF n, who
    <3> QED BY <1>g, <2>1, <3>1, GenEdits DEF Kept
  <2> QED BY <1>0, <1>d, <1>2, <2>2, BornStep DEF ComposeStores
<1>3. ASSUME ConvertStores(x) PROVE Born'
  <2>1. \A g \in greq[x].gens : gen[g].state # "none"
      BY DEF Born
  <2>2. ASSUME NEW g \in Gen PROVE Kept(g)
    <3>1. gen'[g] = IF g \in greq[x].gens THEN [gen[g] EXCEPT !.state = "converted"] ELSE gen[g]
        BY <1>3 DEF ConvertStores
    <3> QED BY <1>g, <2>1, <3>1, GenEdits DEF Kept
  <2> QED BY <1>0, <1>d, <1>3, <2>2, BornStep DEF ConvertStores
<1>4. ASSUME UpSkillStores(x) \/ DownSkillStores(x) PROVE Born'
  <2>1. ASSUME NEW g \in Gen PROVE Kept(g)
    <3> DEFINE who == greq[x].gen
               w(n) == [gen[who].worn EXCEPT ![greq[x].place] = n]
    <3>1. PICK n : gen' = gen \/ gen' = [gen EXCEPT ![who] = [gen[who] EXCEPT !.worn = w(n)]]
        BY <1>4 DEF UpSkillStores, DownSkillStores
    <3> HIDE DEF who, w
    <3>2. gen'[g] = gen[g] \/ gen'[g] = [gen[g] EXCEPT !.worn = w(n)]
        BY <1>g, <3>1
    <3> DEFINE b == [gen[g] EXCEPT !.worn = w(n)]
    <3>3. b.rid = gen[g].rid /\ b.state = gen[g].state
        BY <1>g, GenEdits
    <3> HIDE DEF b
    <3> QED BY <3>2, <3>3 DEF Kept, b
  <2> QED BY <1>0, <1>d, <1>4, <2>1, BornStep DEF UpSkillStores, DownSkillStores
<1>5. ASSUME PlaceStores(x) \/ TakeOutStores(x) PROVE Born'
  <2>1. ASSUME NEW g \in Gen PROVE Kept(g)
    <3> DEFINE o == greq[x].order
               b == [gen[g] EXCEPT !.order = o]
               c == [gen[g] EXCEPT !.order = 0]
    <3>1. gen'[g] \in {gen[g], b, c}
      <4>1. CASE PlaceStores(x)
          BY <4>1 DEF PlaceStores
      <4>2. CASE TakeOutStores(x)
          BY <1>g, <4>2 DEF TakeOutStores
      <4> QED BY <1>5, <4>1, <4>2
    <3>2. b.rid = gen[g].rid /\ b.state = gen[g].state /\ c.rid = gen[g].rid
          /\ c.state = gen[g].state
        BY <1>g, GenEdits
    <3> HIDE DEF b, c
    <3> QED BY <3>1, <3>2 DEF Kept
  <2> QED BY <1>0, <1>d, <1>5, <2>1, BornStep DEF PlaceStores, TakeOutStores
<1>6. ASSUME DrawPays(x) PROVE Born'
    BY <1>0, <1>d, <1>k, <1>6, BornStep DEF DrawPays, generals
<1>7. ASSUME MakeSkill(x) PROVE Born'
  <2>1. \A y \in Conn : greq'[y].gens = greq[y].gens
      BY <1>0, <1>7 DEF MakeSkill, AskedOK, About
  <2> QED BY <1>0, <1>k, <1>7, <2>1, BornStep DEF MakeSkill, generals
<1>8. ASSUME NEW op, NEW about, Begins(x, op, about),
             \A g \in about.gens : g \in Gen /\ gen[g].state # "none"
      PROVE  Born'
  <2>1. UNCHANGED gen /\ greq' = [greq EXCEPT ![x] = about]
      BY <1>8 DEF Begins, LooksOnly, generals
  <2>2. ASSUME NEW y \in Conn, NEW g \in greq'[y].gens
        PROVE  g \in greq[y].gens \/ (g \in Gen /\ gen[g].state # "none")
      BY <1>0, <1>8, <2>1, <2>2 DEF AskedOK
  <2> QED BY <1>0, <1>k, <2>1, <2>2, BornStep
<1>a. Asked.gens = {} /\ Asked \in About
    BY Blanks DEF Asked
<1>9. ASSUME MyLooks(x) PROVE Born'
    BY <1>8, <1>9, <1>a DEF MyLooks
<1>10. ASSUME NEW n \in DrawTimes, DrawLooks(x, n) PROVE Born'
    BY <1>8, <1>10 DEF DrawLooks, Asked
<1>11. ASSUME NEW g \in Gen, NEW eaten \in SUBSET Gen, ComposeLooks(x, g, eaten) PROVE Born'
    BY <1>8, <1>11 DEF ComposeLooks, Asked, Mine
<1>12. ASSUME NEW sold \in SUBSET Gen, ConvertLooks(x, sold) PROVE Born'
    BY <1>8, <1>12 DEF ConvertLooks, Asked
<1>13. ASSUME NEW op \in {"up", "down"}, NEW g \in Gen, NEW s \in SkillCfg, NEW p \in SkillSlot,
              SkillLooks(x, op, g, s, p)
       PROVE  Born'
  <2> DEFINE about == [Asked EXCEPT !.gen = g, !.skill = s, !.place = p]
  <2>1. about.gens = {} /\ \A i : [about EXCEPT !.row = i].gens = {}
      BY DEF Asked
  <2>2. \E o : Begins(x, o, about) \/ \E i : Begins(x, o, [about EXCEPT !.row = i])
      BY <1>13 DEF SkillLooks
  <2> HIDE DEF about
  <2> QED BY <1>8, <2>1, <2>2
<1>14. ASSUME NEW g \in Gen, NEW o \in Order, NEW p \in Place, PlaceLooks(x, g, o, p) PROVE Born'
    BY <1>8, <1>14 DEF PlaceLooks, Asked
<1>15. ASSUME NEW g \in Gen, NEW o \in Order, TakeOutLooks(x, g, o) PROVE Born'
    BY <1>8, <1>15 DEF TakeOutLooks, Asked
<1> QED BY <1>1, <1>2, <1>3, <1>4, <1>5, <1>6, <1>7, <1>9, <1>10, <1>11, <1>12, <1>13, <1>14, <1>15
    DEF Commanding

LEMMA BornRestart == ASSUME Born, GeneralRestart PROVE Born'
BY DEF Born, GeneralRestart, Asked

LEMMA RestartInductive ==
    ASSUME IInv, Born, GeneralRestart
    PROVE  IInv'
<1>0. TypeOK /\ OwnOK /\ SkillOK /\ ArmyOK /\ AskedOK /\ TallyOK /\ Sound /\ Restart
    BY GeneralParts DEF IInv, GeneralRestart
<1>1. TypeOK' /\ Sound'
    BY <1>0, RestartType, RestartSound
<1>2. OwnOK'
    BY <1>0 DEF GeneralRestart, OwnOK, Born
<1>3. SkillOK'
  <2>1. skill \in Seq(SkillRec) /\ skill' = [i \in DOMAIN skill |-> [skill[i] EXCEPT !.gens = {}]]
      BY <1>0 DEF GeneralRestart, SkillOK
  <2>2. ASSUME NEW i \in DOMAIN skill PROVE [skill[i] EXCEPT !.gens = {}] \in SkillRec
    <3>1. skill[i] \in SkillRec
        BY <2>1
    <3> QED BY <3>1 DEF SkillRec
  <2>3. skill' \in [1..Len(skill) -> SkillRec] /\ Len(skill) \in Nat
      BY <2>1, <2>2
  <2> QED BY <2>3 DEF SkillOK
<1>4. ArmyOK'
    BY <1>0 DEF GeneralRestart, ArmyOK
<1>5. AskedOK'
    BY Blanks DEF GeneralRestart, AskedOK
<1>6. TallyOK'
    BY <1>0 DEF GeneralRestart, TallyOK
<1> QED BY <1>1, <1>2, <1>3, <1>4, <1>5, <1>6, GeneralPartsNext DEF IInv

LEMMA HomeInductive ==
    ASSUME IInv, Born, AtHome
    PROVE  IInv' /\ Born'
<1>0. TypeOK /\ OwnOK /\ SkillOK /\ ArmyOK /\ AskedOK /\ TallyOK /\ Sound
    BY GeneralParts DEF IInv
<1>1. UNCHANGED generalVars
    BY DEF AtHome
<1>2. OwnOK' /\ SkillOK' /\ ArmyOK' /\ AskedOK' /\ TallyOK' /\ Born'
    BY <1>0, <1>1 DEF generalVars, generals, drafts, OwnOK, SkillOK, ArmyOK, AskedOK, TallyOK, Born
<1>3. TypeOK'
    BY <1>0, EnteringType, ManagingType, ProducingType, TickType DEF AtHome
<1>4. GeneralTypeOK'
    BY <1>2, <1>3, GeneralPartsNext
<1>5. Sound'
    BY <1>0, <1>1, <1>4, EnteringSound, ManagingSound, ProducingSound DEF AtHome
<1> QED BY <1>2, <1>4, <1>5 DEF IInv

LEMMA CommandingInductive ==
    ASSUME IInv, NEW x \in Conn, Commanding(x)
    PROVE  IInv' /\ Others(x)
BY DrawingInductive, TradingInductive, SkillsInductive, ArmiesInductive DEF Commanding

LEMMA SoundInit == GeneralInit => IInv /\ Born
<1> SUFFICES ASSUME GeneralInit PROVE IInv /\ Born
    OBVIOUS
<1>0. Init
    BY DEF GeneralInit
<1>1. TypeOK
  <2>1. WorldOK /\ PurseOK /\ CitiesOK /\ ReqOK /\ CountersOK
      BY <1>0, Blanks DEF Init, WorldOK, PurseOK, CitiesOK, ReqOK, CountersOK
  <2>2. AttrsOK
    <3>1. <<>> \in Seq(Attribute) /\ Len(<<>>) = 0
        OBVIOUS
    <3> QED BY <1>0, <3>1 DEF Init, AttrsOK
  <2>3. ProdOK
      BY <1>0, RestingType DEF Init, ProdOK
  <2>4. HistoryOK
      BY <1>0 DEF Init, HistoryOK
  <2> QED BY <2>1, <2>2, <2>3, <2>4, TypeParts DEF Parts
<1>2. OwnOK /\ SkillOK /\ ArmyOK /\ AskedOK /\ TallyOK
    BY Blanks DEF GeneralInit, OwnOK, SkillOK, ArmyOK, AskedOK, TallyOK
<1>3. Sound
    BY <1>0, Blanks DEF Init, Sound, SoundOne, Serves, Busy, Skilling
<1>4. Born
    BY DEF GeneralInit, Born, Unborn, Asked
<1> QED BY <1>1, <1>2, <1>3, <1>4, GeneralParts DEF IInv

LEMMA Stutter == ASSUME IInv, Born, UNCHANGED allVars PROVE IInv' /\ Born'
<1> USE DEF allVars, estateVars, generalVars, world, rows, cities, counters, history, generals, drafts
<1>0. TypeOK /\ Parts /\ OwnOK /\ SkillOK /\ ArmyOK /\ AskedOK /\ TallyOK /\ Sound
    BY TypeParts, GeneralParts DEF IInv
<1>1. Parts'
    BY <1>0 DEF Parts, WorldOK, PurseOK, AttrsOK, CitiesOK, ReqOK, ProdOK, CountersOK, HistoryOK
<1>2. OwnOK' /\ SkillOK' /\ ArmyOK' /\ AskedOK' /\ TallyOK'
    BY <1>0 DEF OwnOK, SkillOK, ArmyOK, AskedOK, TallyOK
<1>3. Sound'
    BY <1>0, SoundSame DEF Sound
<1>4. Born'
    BY DEF Born
<1> QED BY <1>1, <1>2, <1>3, <1>4, TypePartsNext, GeneralPartsNext DEF IInv

LEMMA Inductive == IInv /\ Born /\ [GeneralNext]_allVars => IInv' /\ Born'
BY HomeInductive, RestartInductive, BornRestart, CommandingInductive, BornCommanding, Stutter
DEF GeneralNext

\* Whatever the roles do at once, what a request still has to store is about
\* things that are there: the second half of a handler finds the city, the
\* attributes, the skill and the general its first half found, although
\* other requests were served in between.
THEOREM Invariance == GeneralSpec => [](IInv /\ Born)
BY SoundInit, Inductive, PTL DEF GeneralSpec

\* Whatever is asked, on however many connections: every object keeps its type.
THEOREM TypeCorrect == GeneralSpec => []GeneralTypeOK
<1>1. IInv => GeneralTypeOK
    BY DEF IInv
<1> QED BY <1>1, Invariance, PTL

(***************************************************************************)
(* The purse.  Of a role whose requests come one at a time, and of which   *)
(* no addition is lost, at most one connection is about to spend, and what *)
(* it checked before is still there: in between produce() only adds.       *)
(***************************************************************************)
Clean == Role \ (overlapped \cup torn)

Single ==
    \A x, y \in Conn :
        x # y /\ in[x] = in[y] /\ Busy(x) /\ Busy(y) => in[x] \in overlapped

Solvent(r) == \A k \in Kind : res[r][k] >= 0

\* What x is about to take is there.
Covered(x) ==
    /\ req[x].op \in {"up", "collect", "transform"} =>
          \A k \in Kind : res[in[x]][k] + req[x].delta[k] >= 0
    /\ req[x].op \in {"draw", "drawPay"} => res[in[x]]["gold"] >= DrawCost * greq[x].row

Purse == \A r \in Clean : Solvent(r) /\ \A x \in Conn : in[x] = r => Covered(x)

LEMMA SingleStep ==
    ASSUME Single, NEW x \in Conn, overlapped \subseteq overlapped',
           \A y \in Conn \ {x} : in'[y] = in[y] /\ req'[y] = req[y],
           Busy(x)' => \/ Busy(x) /\ in'[x] = in[x]
                       \/ Doubled(x, in'[x]) \subseteq overlapped'
    PROVE  Single'
<1>1. ASSUME NEW y \in Conn \ {x}, in'[x] = in'[y], Busy(x)', Busy(y)'
      PROVE  in'[x] \in overlapped'
  <2>1. in'[y] = in[y] /\ Busy(y)
      BY <1>1 DEF Busy
  <2>2. CASE Busy(x) /\ in'[x] = in[x]
      BY <1>1, <2>1, <2>2 DEF Single
  <2>3. CASE Doubled(x, in'[x]) \subseteq overlapped'
      BY <1>1, <2>1, <2>3 DEF Doubled
  <2> QED BY <1>1, <2>2, <2>3
<1>2. ASSUME NEW y \in Conn \ {x}, NEW z \in Conn \ {x}, y # z, in'[y] = in'[z], Busy(y)', Busy(z)'
      PROVE  in'[y] \in overlapped'
    BY <1>2 DEF Single, Busy
<1> QED BY <1>1, <1>2 DEF Single

\* A step of x that leaves the purses alone.
LEMMA PurseLooks ==
    ASSUME Purse, NEW x \in Conn, res' = res, overlapped \subseteq overlapped', torn \subseteq torn',
           \A y \in Conn \ {x} : in'[y] = in[y] /\ req'[y] = req[y] /\ greq'[y] = greq[y],
           in'[x] \in Clean' => Covered(x)'
    PROVE  Purse'
<1>1. ASSUME NEW r \in Clean' PROVE Solvent(r)' /\ \A y \in Conn : in'[y] = r => Covered(y)'
  <2>1. r \in Clean
      BY DEF Clean
  <2>2. Solvent(r)'
      BY <2>1 DEF Purse, Solvent
  <2>3. ASSUME NEW y \in Conn, in'[y] = r PROVE Covered(y)'
      BY <2>1, <2>3 DEF Purse, Covered
  <2> QED BY <2>2, <2>3
<1> QED BY <1>1 DEF Purse

\* One that changes the purse of its role: nobody else is about to spend from it.
LEMMA PurseStores ==
    ASSUME Purse, Single, GeneralTypeOK, NEW x \in Conn, NEW r \in Role, in[x] = r, Busy(x),
           in'[x] = r, overlapped' = overlapped, torn \subseteq torn',
           \A p \in Role \ {r} : res'[p] = res[p],
           r \in Clean' => Solvent(r)',
           \A y \in Conn \ {x} : in'[y] = in[y] /\ req'[y] = req[y] /\ greq'[y] = greq[y],
           req'[x].op \notin {"up", "collect", "transform", "draw", "drawPay"}
    PROVE  Purse'
<1>1. ASSUME NEW p \in Clean' PROVE Solvent(p)' /\ \A y \in Conn : in'[y] = p => Covered(y)'
  <2>1. p \in Clean /\ p \in Role
      BY DEF Clean
  <2>2. CASE p # r
    <3>1. Solvent(p)'
        BY <2>1, <2>2 DEF Purse, Solvent
    <3>2. ASSUME NEW y \in Conn, in'[y] = p PROVE Covered(y)'
        BY <2>1, <2>2, <3>2 DEF Purse, Covered
    <3> QED BY <3>1, <3>2
  <2>3. CASE p = r
    <3>1. Solvent(p)'
        BY <2>3
    <3>2. ASSUME NEW y \in Conn, in'[y] = p PROVE Covered(y)'
      <4>1. CASE y = x
          BY <4>1 DEF Covered
      <4>2. CASE y # x
        <5>1. ~Busy(y)
            BY <2>1, <2>3, <3>2, <4>2 DEF Single, Clean
        <5> QED BY <4>2, <5>1 DEF Busy, Covered
      <4> QED BY <4>1, <4>2
    <3> QED BY <3>1, <3>2
  <2> QED BY <2>2, <2>3
<1> QED BY <1>1 DEF Purse

\* A request that is not about to spend.
LEMMA CoveredNot ==
    ASSUME NEW x, req'[x].op \notin {"up", "collect", "transform", "draw", "drawPay"}
    PROVE  Covered(x)'
BY DEF Covered

Spends == {"up", "collect", "transform", "draw", "drawPay"}

LEMMA EnteringPurse ==
    ASSUME IInv, GeneralTypeOK', Single, Purse, NEW x \in Conn, Entering(x), UNCHANGED generalVars
    PROVE  Single' /\ Purse'
<1>0. TypeOK /\ SoundOne(x) /\ Others(x)
    BY EnteringSound DEF IInv, GeneralTypeOK, Sound
<1>a. Busy(x) => in[x] \in Role
    BY <1>0 DEF SoundOne
<1> USE DEF world, rows, cities, counters, history
<1>b. torn' = torn
    BY DEF Entering, EnterNobody, Create, Enter, MakeRes, CheckAttr, MakeAttr, CheckCity, MakeCity,
           EnterFails, MakeFac, MakeFacFails, Fails
<1>1. ASSUME EnterNobody(x) \/ \E r \in Role : Create(x, r) PROVE Single' /\ Purse'
  <2>1. UNCHANGED <<in, req, greq, res, overlapped, torn>>
      BY <1>1 DEF EnterNobody, Create, generalVars
  <2> QED BY <2>1 DEF Single, Purse, Busy, Clean, Solvent, Covered
<1>2. ASSUME NEW r \in Role, Enter(x, r) PROVE Single' /\ Purse'
  <2>1. PICK op \in {"attr", "makeRes"} : Goes(x, op)
      BY <1>2 DEF Enter, Goes
  <2>2. req'[x].op = op
      BY <1>0, <2>1, GoesTo, OpsAreOp
  <2>3. in'[x] = r /\ overlapped' = overlapped \cup Doubled(x, r) /\ res' = res
      BY <1>0, <1>2 DEF Enter, TypeOK
  <2>4. Single'
      BY <1>0, <2>3, SingleStep DEF Others
  <2>5. Purse'
      BY <1>0, <1>b, <2>2, <2>3, CoveredNot, PurseLooks DEF Others
  <2> QED BY <2>4, <2>5
<1>3. ASSUME MakeRes(x) PROVE Single' /\ Purse'
  <2>1. Busy(x) /\ in'[x] = in[x] /\ in[x] \in Role /\ overlapped' = overlapped
      BY <1>a, <1>3 DEF MakeRes, Busy, Serves
  <2>2. Ends(x) \/ Goes(x, "attr")
      BY <1>3 DEF MakeRes
  <2>3. req'[x].op \notin Spends
      BY <1>0, <2>2, GoesTo, OpsAreOp, Blanks DEF Spends
  <2>4. res' = res \/ res' = [res EXCEPT ![in[x]] = StartRes]
      BY <1>3 DEF MakeRes
  <2>5. Single'
      BY <1>0, <2>1, SingleStep DEF Others
  <2>6. CASE res' = res
      BY <1>0, <1>b, <2>1, <2>3, <2>5, <2>6, CoveredNot, PurseLooks DEF Others, Spends
  <2>7. CASE res' = [res EXCEPT ![in[x]] = StartRes]
    <3>1. Solvent(in[x])' /\ \A p \in Role \ {in[x]} : res'[p] = res[p]
        BY <1>0, <2>1, <2>7, EstateAssumption DEF TypeOK, Solvent, Costs
    <3> QED BY <1>0, <1>b, <2>1, <2>3, <2>5, <3>1, PurseStores DEF IInv, Others, Spends
  <2> QED BY <2>4, <2>5, <2>6, <2>7
<1>4. ASSUME \/ CheckAttr(x) \/ MakeAttr(x) \/ CheckCity(x) \/ EnterFails(x) \/ MakeFac(x)
             \/ MakeFacFails(x) \/ \E c \in City : MakeCity(x, c)
      PROVE  Single' /\ Purse'
  <2>1. Busy(x) /\ in'[x] = in[x] /\ overlapped' = overlapped /\ res' = res
      BY <1>4 DEF CheckAttr, MakeAttr, CheckCity, EnterFails, MakeFac, MakeFacFails, MakeCity, Fails,
                  Busy, Serves
  <2>2. req'[x].op \notin Spends
    <3>1. CASE \E op \in {"makeAttr", "city", "makeCity"} : Goes(x, op)
        BY <1>0, <3>1, GoesTo, OpsAreOp DEF Spends
    <3>2. CASE Ends(x)
        BY <1>0, <3>2, GoesTo, Blanks DEF Spends
    <3>3. CASE \E c \in City : MakeCity(x, c)
      <4>1. req \in [Conn -> Request] /\ req[x] \in Request
          BY <1>0 DEF TypeOK
      <4>2. PICK c \in City : MakeCity(x, c)
          BY <3>3
      <4> DEFINE q == [req[x] EXCEPT !.op = "makeFac", !.city = c]
      <4>a. q.op = "makeFac"
          BY <4>1 DEF Request
      <4>b. req' = [req EXCEPT ![x] = q]
          BY <4>2 DEF MakeCity
      <4> HIDE DEF q
      <4>3. req'[x].op = "makeFac"
          BY <4>1, <4>a, <4>b
      <4> QED BY <4>3 DEF Spends
    <3> QED BY <1>4, <3>1, <3>2, <3>3
        DEF CheckAttr, MakeAttr, CheckCity, EnterFails, MakeFac, MakeFacFails
  <2>3. Single'
      BY <1>0, <2>1, SingleStep DEF Others
  <2>4. Purse'
      BY <1>0, <1>b, <2>1, <2>2, CoveredNot, PurseLooks DEF Others, Spends
  <2> QED BY <2>3, <2>4
<1> QED BY <1>1, <1>2, <1>3, <1>4 DEF Entering

LEMMA ManagingPurse ==
    ASSUME IInv, GeneralTypeOK', Single, Purse, NEW x \in Conn, Managing(x), UNCHANGED generalVars
    PROVE  Single' /\ Purse'
<1>0. TypeOK /\ SoundOne(x) /\ Others(x)
    BY ManagingSound DEF IInv, GeneralTypeOK, Sound
<1>a. Busy(x) => in[x] \in Role
    BY <1>0 DEF SoundOne
<1> USE DEF world, rows, cities, counters, history
<1>1. ASSUME NEW q, Looks(x, q), UNCHANGED <<in, res, torn>>,
             q.op \in {"up", "collect", "transform"},
             \A k \in Kind : res[in[x]][k] + q.delta[k] >= 0
      PROVE  Single' /\ Purse'
  <2>1. req' = [req EXCEPT ![x] = q] /\ overlapped' = overlapped \cup Doubled(x, in[x])
      BY <1>1 DEF Looks
  <2>2. req'[x] = q
      BY <1>0, <2>1, GoesTo
  <2>3. Single'
      BY <1>0, <1>1, <2>1, SingleStep DEF Others
  <2>4. Covered(x)'
      BY <1>1, <2>2 DEF Covered
  <2>5. Purse'
      BY <1>0, <1>1, <2>1, <2>4, PurseLooks DEF Others
  <2> QED BY <2>3, <2>5
<1>2. ASSUME NEW c \in City, NEW f \in Fac, UpLooks(x, c, f) PROVE Single' /\ Purse'
  <2> DEFINE delta == [k \in Kind |-> - Need[f][k]]
             snap == [fac[c] EXCEPT ![f] = Settled(fac[c][f])]
             q == [Idle EXCEPT !.op = "up", !.city = c, !.fac = f, !.seen = res[in[x]],
                               !.delta = delta, !.snap = snap]
  <2>1. Looks(x, q) /\ Enough(in[x], delta) /\ UNCHANGED <<in, res, torn>>
      BY <1>2 DEF UpLooks
  <2>2. q.op = "up" /\ q.delta = delta
      BY DEF Idle
  <2> HIDE DEF q, delta
  <2> QED BY <1>1, <2>1, <2>2 DEF Enough
<1>3. ASSUME CollectLooks(x) PROVE Single' /\ Purse'
  <2> DEFINE delta == Gold(GetYield(in[x], "gold"))
             q == [Idle EXCEPT !.op = "collect", !.at = now, !.seen = res[in[x]], !.delta = delta]
  <2>1. Looks(x, q) /\ UNCHANGED <<in, res, torn>>
      BY <1>3 DEF CollectLooks, Gold
  <2>2. q.op = "collect" /\ q.delta = delta
      BY DEF Idle
  <2>3. in[x] \in Role
      BY <1>0, <2>1 DEF TypeOK, Looks, Has
  <2>4. \A k \in Kind : delta[k] \in Nat
    <3>1. GetYield(in[x], "gold") \in Nat
        BY YieldType DEF Income
    <3> QED BY <3>1 DEF Gold, Nothing
  <2> HIDE DEF q, delta
  <2>5. CASE in[x] \in Clean
    <3>1. ASSUME NEW k \in Kind PROVE res[in[x]][k] + delta[k] >= 0
      <4>1. res[in[x]][k] >= 0
          BY <1>0, <2>5 DEF Purse, Solvent
      <4>2. res[in[x]] \in Resources
          BY <1>0, <2>3 DEF TypeOK
      <4>3. res[in[x]][k] \in Int
          BY <4>2 DEF Resources
      <4> QED BY <2>4, <4>1, <4>3
    <3> QED BY <1>1, <2>1, <2>2, <3>1
  <2>6. CASE in[x] \notin Clean
    <3>1. overlapped' = overlapped \cup Doubled(x, in[x])
        BY <2>1 DEF Looks
    <3>2. in'[x] \notin Clean'
        BY <2>1, <2>6, <3>1 DEF Clean
    <3>3. Purse'
        BY <1>0, <2>1, <3>1, <3>2, PurseLooks DEF Others
    <3>4. Single'
        BY <1>0, <2>1, <3>1, SingleStep DEF Others
    <3> QED BY <3>3, <3>4
  <2> QED BY <2>5, <2>6
<1>4. ASSUME NEW give \in [Goods -> Amounts], TransformLooks(x, give) PROVE Single' /\ Purse'
  <2> DEFINE delta == [k \in Kind |-> IF k \in Goods THEN give[k] ELSE 0]
             q == [Idle EXCEPT !.op = "transform", !.delta = delta, !.seen = res[in[x]]]
  <2>1. Looks(x, q) /\ UNCHANGED <<in, res, torn>>
        /\ \A k \in Goods : res[in[x]][k] + give[k] >= 0
      BY <1>4 DEF TransformLooks
  <2>2. q.op = "transform" /\ q.delta = delta
      BY DEF Idle
  <2>3. in[x] \in Role
      BY <1>0, <2>1 DEF TypeOK, Looks, Has
  <2>4. /\ \A k \in Goods : delta[k] = give[k]
        /\ \A k \in Kind \ Goods : delta[k] = 0
      BY DEF Kind
  <2> HIDE DEF q, delta
  <2>5. CASE in[x] \in Clean
    <3>1. res[in[x]] \in Resources
        BY <1>0, <2>3 DEF TypeOK
    <3>2. ASSUME NEW k \in Kind \ Goods PROVE res[in[x]][k] + delta[k] >= 0
        BY <2>4, <2>5, <3>1 DEF Purse, Solvent, Resources
    <3>3. \A k \in Kind : res[in[x]][k] + delta[k] >= 0
        BY <2>1, <2>4, <3>2
    <3> QED BY <1>1, <2>1, <2>2, <3>3
  <2>6. CASE in[x] \notin Clean
    <3>1. overlapped' = overlapped \cup Doubled(x, in[x])
        BY <2>1 DEF Looks
    <3>2. in'[x] \notin Clean'
        BY <2>1, <2>6, <3>1 DEF Clean
    <3>3. Purse'
        BY <1>0, <2>1, <3>1, <3>2, PurseLooks DEF Others
    <3>4. Single'
        BY <1>0, <2>1, <3>1, SingleStep DEF Others
    <3> QED BY <3>3, <3>4
  <2> QED BY <2>5, <2>6
<1>5. ASSUME UpStores(x) \/ CollectStores(x) \/ TransformStores(x) PROVE Single' /\ Purse'
  <2>1. Busy(x) /\ in'[x] = in[x] /\ in[x] \in Role /\ overlapped' = overlapped /\ Ends(x)
        /\ req[x].op \in {"up", "collect", "transform"} /\ Put(in[x], req[x].seen, req[x].delta)
      BY <1>a, <1>5 DEF UpStores, CollectStores, TransformStores, Busy, Serves
  <2>2. req'[x].op \notin Spends
      BY <1>0, <2>1, GoesTo, Blanks DEF Spends
  <2>3. req[x].seen \in Resources /\ req[x].delta \in Resources /\ res \in [Role -> Resources]
        /\ torn \subseteq Role
      BY <1>0 DEF TypeOK, Request
  <2>4. /\ torn \subseteq torn' /\ \A p \in Role \ {in[x]} : res'[p] = res[p]
        /\ in[x] \notin torn' => \A k \in Kind : res'[in[x]][k] = res[in[x]][k] + req[x].delta[k]
      BY <2>1, <2>3, PutType
  <2>5. in[x] \in Clean' => Solvent(in[x])'
      BY <2>1, <2>4 DEF Clean, Purse, Covered, Solvent
  <2>6. Single'
      BY <1>0, <2>1, SingleStep DEF Others
  <2>7. Purse'
      BY <1>0, <2>1, <2>2, <2>4, <2>5, PurseStores DEF IInv, Others, Spends
  <2> QED BY <2>6, <2>7
<1>6. ASSUME CollectTooEarly(x) PROVE Single' /\ Purse'
  <2>1. UNCHANGED <<in, req, greq, res, overlapped, torn>>
      BY <1>6 DEF CollectTooEarly, generalVars
  <2> QED BY <2>1 DEF Single, Purse, Busy, Clean, Solvent, Covered
<1>7. ASSUME TransformPanics(x) PROVE Single' /\ Purse'
  <2>1. UNCHANGED <<req, greq, res, overlapped, torn>> /\ ~Busy(x)
      BY <1>7 DEF TransformPanics, generalVars
  <2>2. Single'
      BY <1>0, <2>1, SingleStep DEF Others, Busy
  <2>3. Covered(x)'
      BY <2>1 DEF Busy, Covered
  <2>4. Purse'
      BY <1>0, <2>1, <2>3, PurseLooks DEF Others
  <2> QED BY <2>2, <2>4
<1> QED BY <1>2, <1>3, <1>4, <1>5, <1>6, <1>7 DEF Managing

LEMMA ProducingPurse ==
    ASSUME IInv, Single, Purse, Producing \/ Tick, UNCHANGED generalVars
    PROVE  Single' /\ Purse'
<1>0. TypeOK
    BY DEF IInv, GeneralTypeOK
<1> USE DEF world, rows, cities, counters, history, generalVars
<1>1. UNCHANGED <<in, req, greq, overlapped>>
    BY DEF Producing, ProduceBegins, ProduceLooks, ProduceStores, Tick
<1>2. Single'
    BY <1>1 DEF Single, Busy
<1>3. CASE UNCHANGED <<res, torn>>
    BY <1>1, <1>2, <1>3 DEF Purse, Clean, Solvent, Covered
<1>4. ASSUME NEW r \in Role, ProduceStores(r) PROVE Purse'
  <2>1. /\ res' \in [Role -> Resources] /\ torn \subseteq torn'
        /\ \A p \in Role \ {r} : res'[p] = res[p]
        /\ r \notin torn' => \A k \in Kind : res'[r][k] >= res[r][k]
      BY <1>0, <1>4, ProducedType
  <2>2. ASSUME NEW p \in Clean' PROVE \A k \in Kind : res'[p][k] >= res[p][k]
    <3>1. res[p] \in Resources /\ p \in Role /\ p \notin torn'
        BY <1>0, <2>2 DEF TypeOK, Clean
    <3>2. CASE p = r
        BY <2>1, <3>1, <3>2
    <3>3. CASE p # r
      <4>1. res'[p] = res[p]
          BY <2>1, <3>1, <3>3
      <4>2. \A k \in Kind : res[p][k] \in Int
          BY <3>1 DEF Resources
      <4> QED BY <4>1, <4>2
    <3> QED BY <3>2, <3>3
  <2>3. ASSUME NEW p \in Clean' PROVE Solvent(p)' /\ \A y \in Conn : in'[y] = p => Covered(y)'
    <3>1. p \in Clean /\ p \in Role
        BY <1>1, <2>1, <2>3 DEF Clean
    <3>2. \A k \in Kind : res[p][k] \in Int /\ res'[p][k] \in Int /\ res'[p][k] >= res[p][k]
        BY <1>0, <2>1, <2>2, <2>3, <3>1 DEF TypeOK, Resources
    <3>3. Solvent(p)'
        BY <3>1, <3>2 DEF Purse, Solvent
    <3>4. ASSUME NEW y \in Conn, in'[y] = p PROVE Covered(y)'
      <4>1. in[y] = p /\ req'[y] = req[y] /\ greq'[y] = greq[y] /\ Covered(y)
          BY <1>1, <3>1, <3>4 DEF Purse
      <4>2. req[y].delta \in Resources /\ greq[y].row \in Nat /\ "gold" \in Kind
          BY <1>0 DEF TypeOK, Request, IInv, GeneralTypeOK, About, Kind
      <4>3. req[y].op \in {"up", "collect", "transform"} =>
               \A k \in Kind : res'[p][k] + req[y].delta[k] >= 0
          BY <3>2, <4>1, <4>2 DEF Covered, Resources
      <4> DEFINE m == DrawCost * greq[y].row
      <4>4. m \in Int
          BY <4>2, GeneralAssumption
      <4>5. req[y].op \in {"draw", "drawPay"} => res[p]["gold"] >= m
          BY <4>1 DEF Covered
      <4> HIDE DEF m
      <4>6. req[y].op \in {"draw", "drawPay"} => res'[p]["gold"] >= m
          BY <3>2, <4>2, <4>4, <4>5
      <4> QED BY <1>1, <3>4, <4>1, <4>3, <4>6 DEF Covered, m
    <3> QED BY <3>3, <3>4
  <2> QED BY <2>3 DEF Purse
<1> QED BY <1>2, <1>3, <1>4 DEF Producing, ProduceBegins, ProduceLooks, Tick

\* A request of generals that begins and is not about to spend, or ends.
LEMMA BeginsPurse ==
    ASSUME IInv, Single, Purse, NEW x \in Conn, Others(x), NEW op \in Op, NEW about \in About,
           Begins(x, op, about),
           op = "draw" => res[in[x]]["gold"] >= DrawCost * about.row,
           op \notin Spends \ {"draw"}
    PROVE  Single' /\ Purse'
<1>1. req'[x].op = op /\ greq'[x] = about /\ in' = in
    BY BeginsType
<1>2. res' = res /\ torn' = torn /\ overlapped' = overlapped \cup Doubled(x, in[x])
    BY DEF Begins, Looks, LooksOnly, rows
<1>3. Single'
    BY <1>1, <1>2, SingleStep DEF Others
<1> DEFINE m == DrawCost * about.row
<1> HIDE DEF m
<1>4. Covered(x)'
    BY <1>1, <1>2 DEF Covered, Spends, m
<1>5. Purse'
    BY <1>1, <1>2, <1>4, PurseLooks DEF Others
<1> QED BY <1>3, <1>5

LEMMA KeepsPurse ==
    ASSUME IInv, Single, Purse, NEW x \in Conn, Others(x), HomeKept, UNCHANGED <<res, torn>>, Busy(x),
           req'[x].op \notin Spends
    PROVE  Single' /\ Purse'
<1>1. in' = in /\ overlapped' = overlapped
    BY DEF HomeKept, world
<1>2. Single'
    BY <1>1, SingleStep DEF Others
<1>3. Purse'
    BY <1>1, CoveredNot, PurseLooks DEF Others, Spends
<1> QED BY <1>2, <1>3

LEMMA GoldAdds ==
    ASSUME NEW r \in Role, NEW seen \in Resources, NEW n \in Int, TypeOK, Put(r, seen, Gold(n)),
           \A k \in Kind : res[r][k] >= 0, res[r]["gold"] + n >= 0, r \notin torn'
    PROVE  Solvent(r)'
<1>1. \A k \in Kind : res'[r][k] = res[r][k] + Gold(n)[k]
    BY GoldType, PutType DEF TypeOK
<1>2. ASSUME NEW k \in Kind PROVE res'[r][k] >= 0
  <2>1. Gold(n)[k] = IF k = "gold" THEN n ELSE 0
      BY DEF Gold, Nothing
  <2>2. res[r][k] \in Int
      BY DEF TypeOK, Resources
  <2> QED BY <1>1, <2>1, <2>2
<1> QED BY <1>2 DEF Solvent

LEMMA CommandingPurse ==
    ASSUME IInv, Single, Purse, NEW x \in Conn, Commanding(x)
    PROVE  Single' /\ Purse'
<1>0. TypeOK /\ SoundOne(x) /\ Others(x) /\ greq[x] \in About /\ GeneralTypeOK
    BY CommandingInductive DEF IInv, GeneralTypeOK, Sound
<1>a. Busy(x) => in[x] \in Role
    BY <1>0 DEF SoundOne
<1>d. Done(x) => req'[x].op \notin Spends
    BY DoneType, Blanks DEF Spends
<1>1. ASSUME MyLooks(x) PROVE Single' /\ Purse'
  <2>1. Begins(x, "my", Asked) /\ "my" \in Op /\ "my" \notin Spends
      BY <1>1 DEF MyLooks, Op, Spends
  <2> QED BY <1>0, <2>1, Blanks, BeginsPurse
<1>2. ASSUME NEW n \in DrawTimes, DrawLooks(x, n) PROVE Single' /\ Purse'
  <2> DEFINE about == [Asked EXCEPT !.row = n]
  <2>1. Begins(x, "draw", about) /\ "draw" \in Op /\ "draw" \notin Spends \ {"draw"}
      BY <1>2 DEF DrawLooks, Op
  <2>2. about \in About /\ about.row = n
      BY Blanks, GeneralAssumption DEF About
  <2> DEFINE m == DrawCost * n
  <2>3. res[in[x]]["gold"] >= m
      BY <1>2 DEF DrawLooks
  <2> HIDE DEF about, m
  <2>4. res[in[x]]["gold"] >= DrawCost * about.row
      BY <2>2, <2>3 DEF m
  <2> QED BY <1>0, <2>1, <2>2, <2>4, BeginsPurse
<1>3. ASSUME \/ MyMakes(x) \/ ComposeStores(x) \/ UpSkillStores(x) \/ DownSkillStores(x)
             \/ PlaceStores(x) \/ TakeOutStores(x)
      PROVE  Single' /\ Purse'
  <2>1. HomeKept /\ Done(x) /\ UNCHANGED <<res, torn>> /\ Busy(x)
      BY <1>3 DEF MyMakes, ComposeStores, UpSkillStores, DownSkillStores, PlaceStores,
                  TakeOutStores, Free, Busy, Serves
  <2> QED BY <1>0, <1>d, <2>1, KeepsPurse
<1>4. ASSUME MakeSkill(x) PROVE Single' /\ Purse'
  <2>1. HomeKept /\ UNCHANGED <<res, torn>> /\ Busy(x)
      BY <1>4 DEF MakeSkill, Free, Busy
  <2>2. PICK op \in {"upSkill", "downSkill"} : Goes(x, op)
      BY <1>4 DEF MakeSkill
  <2>3. req'[x].op = op
      BY <1>0, <2>2, GoesTo DEF Op
  <2> QED BY <1>0, <2>1, <2>3, KeepsPurse DEF Spends
<1>5. ASSUME DrawMakes(x) PROVE Single' /\ Purse'
  <2>1. HomeKept /\ UNCHANGED <<res, torn>> /\ Busy(x) /\ Serves(x, "draw")
      BY <1>5 DEF DrawMakes, Busy, Serves
  <2>2. CASE Done(x)
      BY <1>0, <1>d, <2>1, <2>2, KeepsPurse
  <2>3. CASE ~Done(x)
    <3> DEFINE q == [req[x] EXCEPT !.op = "drawPay", !.seen = res[in[x]]]
    <3>1. req' = [req EXCEPT ![x] = q] /\ greq' = greq
        BY <1>5, <2>3 DEF DrawMakes
    <3>2. q.op = "drawPay"
        BY <1>0 DEF TypeOK, Request
    <3> HIDE DEF q
    <3>3. req'[x].op = "drawPay"
        BY <1>0, <3>1, <3>2, GoesTo
    <3>4. in' = in /\ overlapped' = overlapped
        BY <2>1 DEF HomeKept, world
    <3>5. Single'
        BY <1>0, <2>1, <3>4, SingleStep DEF Others
    <3> DEFINE m == DrawCost * greq[x].row
    <3>6. ASSUME in[x] \in Clean PROVE res[in[x]]["gold"] >= m
        BY <2>1, <3>6 DEF Purse, Covered, Serves
    <3> HIDE DEF m
    <3>7. in'[x] \in Clean' => Covered(x)'
        BY <2>1, <3>1, <3>3, <3>4, <3>6 DEF Covered, m, Clean
    <3>8. Purse'
        BY <1>0, <2>1, <3>4, <3>7, PurseLooks DEF Others
    <3> QED BY <3>5, <3>8
  <2> QED BY <2>2, <2>3
<1>6. ASSUME DrawPays(x) PROVE Single' /\ Purse'
  <2> DEFINE m == DrawCost * greq[x].row
             n == -DrawCost * greq[x].row
  <2>1. HomeKept /\ Done(x) /\ Busy(x) /\ in[x] \in Role /\ Serves(x, "drawPay")
      BY <1>a, <1>6 DEF DrawPays, Busy, Serves
  <2>2. m \in Int /\ n \in Int /\ n = -m
      BY <1>0, GeneralAssumption DEF About
  <2>3. UNCHANGED <<res, torn>> \/ (Put(in[x], req[x].seen, Gold(n)) /\ ~(res[in[x]]["gold"] < m))
      BY <1>6 DEF DrawPays
  <2> HIDE DEF m, n
  <2>4. CASE UNCHANGED <<res, torn>>
      BY <1>0, <1>d, <2>1, <2>4, KeepsPurse
  <2>5. CASE Put(in[x], req[x].seen, Gold(n)) /\ ~(res[in[x]]["gold"] < m)
    <3>1. req[x].seen \in Resources /\ res \in [Role -> Resources] /\ torn \subseteq Role
        BY <1>0 DEF TypeOK, Request
    <3>2. torn \subseteq torn' /\ \A p \in Role \ {in[x]} : res'[p] = res[p]
        BY <2>1, <2>2, <2>5, <3>1, PutType, GoldType
    <3>3. res[in[x]]["gold"] + n >= 0
        BY <2>1, <2>2, <2>5, <3>1 DEF Resources, Kind
    <3>4. in' = in /\ overlapped' = overlapped
        BY <2>1 DEF HomeKept, world
    <3>5. in[x] \in Clean' => Solvent(in[x])'
      <4> SUFFICES ASSUME in[x] \in Clean' PROVE Solvent(in[x])'
          OBVIOUS
      <4>1. in[x] \in Clean /\ in[x] \notin torn'
          BY <3>2, <3>4 DEF Clean
      <4>2. \A k \in Kind : res[in[x]][k] >= 0
          BY <4>1 DEF Purse, Solvent
      <4> QED BY <1>0, <2>1, <2>2, <2>5, <3>1, <3>3, <3>4, <4>1, <4>2, GoldAdds DEF Solvent
    <3>6. Single'
        BY <1>0, <2>1, <3>4, SingleStep DEF Others
    <3>7. Purse'
        BY <1>0, <1>d, <2>1, <3>2, <3>4, <3>5, PurseStores DEF Others, Spends
    <3> QED BY <3>6, <3>7
  <2> QED BY <2>3, <2>4, <2>5
<1>7. ASSUME ConvertStores(x) PROVE Single' /\ Purse'
  <2> DEFINE n == Worth(greq[x].gens)
  <2>1. HomeKept /\ Done(x) /\ Busy(x) /\ in[x] \in Role /\ Put(in[x], res[in[x]], Gold(n))
      BY <1>a, <1>7 DEF ConvertStores, Busy, Serves
  <2>2. n \in Nat
      BY <1>0, WorthType DEF About
  <2> HIDE DEF n
  <2>3. res[in[x]] \in Resources /\ res \in [Role -> Resources] /\ torn \subseteq Role
      BY <1>0, <2>1 DEF TypeOK
  <2>4. torn \subseteq torn' /\ \A p \in Role \ {in[x]} : res'[p] = res[p]
      BY <2>1, <2>2, <2>3, PutType, GoldType
  <2>5. in' = in /\ overlapped' = overlapped
      BY <2>1 DEF HomeKept, world
  <2>6. in[x] \in Clean' => Solvent(in[x])'
    <3> SUFFICES ASSUME in[x] \in Clean' PROVE Solvent(in[x])'
        OBVIOUS
    <3>1. in[x] \in Clean /\ in[x] \notin torn'
        BY <2>4, <2>5 DEF Clean
    <3>2. \A k \in Kind : res[in[x]][k] >= 0
        BY <3>1 DEF Purse, Solvent
    <3>3. res[in[x]]["gold"] + n >= 0
        BY <2>2, <2>3, <3>2 DEF Resources, Kind
    <3> QED BY <1>0, <2>1, <2>2, <2>3, <2>5, <3>1, <3>2, <3>3, GoldAdds DEF Solvent
  <2>7. Single'
      BY <1>0, <2>1, <2>5, SingleStep DEF Others
  <2>8. Purse'
      BY <1>0, <1>d, <2>1, <2>4, <2>5, <2>6, PurseStores DEF Others, Spends
  <2> QED BY <2>7, <2>8
<1>8. ASSUME NEW g \in Gen, NEW eaten \in SUBSET Gen, ComposeLooks(x, g, eaten)
      PROVE  Single' /\ Purse'
  <2> DEFINE about == [Asked EXCEPT !.gen = g, !.gens = eaten]
  <2>1. Begins(x, "compose", about) /\ "compose" \in Op /\ "compose" \notin Spends
      BY <1>8 DEF ComposeLooks, Op, Spends
  <2>2. about \in About
      BY Blanks DEF About
  <2> HIDE DEF about
  <2> QED BY <1>0, <2>1, <2>2, BeginsPurse
<1>9. ASSUME NEW sold \in SUBSET Gen, ConvertLooks(x, sold) PROVE Single' /\ Purse'
  <2> DEFINE about == [Asked EXCEPT !.gens = sold]
  <2>1. Begins(x, "convert", about) /\ "convert" \in Op /\ "convert" \notin Spends
      BY <1>9 DEF ConvertLooks, Op, Spends
  <2>2. about \in About
      BY Blanks DEF About
  <2> HIDE DEF about
  <2> QED BY <1>0, <2>1, <2>2, BeginsPurse
<1>10. ASSUME NEW op \in {"up", "down"}, NEW g \in Gen, NEW s \in SkillCfg, NEW p \in SkillSlot,
              SkillLooks(x, op, g, s, p)
       PROVE  Single' /\ Purse'
  <2> DEFINE about == [Asked EXCEPT !.gen = g, !.skill = s, !.place = p]
  <2>1. about \in About
      BY Blanks DEF About
  <2>2. \E o \in Skilling : \/ Begins(x, o, about)
                            \/ \E i \in LastRow(in[x], s) : Begins(x, o, [about EXCEPT !.row = i])
      BY <1>10 DEF SkillLooks, Skilling
  <2> HIDE DEF about
  <2>3. \A i \in LastRow(in[x], s) : [about EXCEPT !.row = i] \in About
    <3>1. \A i \in LastRow(in[x], s) : i \in Nat
        BY <1>0 DEF LastRow, RowsOf, GeneralTypeOK
    <3> QED BY <2>1, <3>1 DEF About
  <2>4. \A o \in Skilling : o \in Op /\ o \notin Spends
      BY DEF Skilling, Op, Spends
  <2>5. PICK o \in Skilling, b \in About : Begins(x, o, b)
      BY <2>1, <2>2, <2>3
  <2>6. o \in Op /\ o \notin Spends /\ o # "draw"
      BY <2>4 DEF Spends
  <2> QED BY <1>0, <2>5, <2>6, BeginsPurse
<1>11. ASSUME NEW g \in Gen, NEW o \in Order, NEW p \in Place, PlaceLooks(x, g, o, p)
       PROVE  Single' /\ Purse'
  <2> DEFINE about == [Asked EXCEPT !.gen = g, !.order = o, !.place = p]
  <2>1. Begins(x, "place", about) /\ "place" \in Op /\ "place" \notin Spends
      BY <1>11 DEF PlaceLooks, Op, Spends
  <2>2. about \in About
      BY Blanks DEF About
  <2> HIDE DEF about
  <2> QED BY <1>0, <2>1, <2>2, BeginsPurse
<1>12. ASSUME NEW g \in Gen, NEW o \in Order, TakeOutLooks(x, g, o) PROVE Single' /\ Purse'
  <2> DEFINE about == [Asked EXCEPT !.gen = g, !.order = o]
  <2>1. Begins(x, "takeOut", about) /\ "takeOut" \in Op /\ "takeOut" \notin Spends
      BY <1>12 DEF TakeOutLooks, Op, Spends
  <2>2. about \in About
      BY Blanks DEF About
  <2> HIDE DEF about
  <2> QED BY <1>0, <2>1, <2>2, BeginsPurse
<1> QED BY <1>1, <1>2, <1>3, <1>4, <1>5, <1>6, <1>7, <1>8, <1>9, <1>10, <1>11, <1>12 DEF Commanding

LEMMA RestartPurse == ASSUME IInv, Single, Purse, GeneralRestart PROVE Single' /\ Purse'
<1>1. Restart
    BY DEF GeneralRestart
<1>2. \A x \in Conn : ~Busy(x)' /\ req'[x].op \notin Spends
    BY <1>1, Blanks DEF Restart, Busy, Spends
<1>3. UNCHANGED <<res, overlapped, torn>>
    BY <1>1 DEF Restart
<1>4. Single'
    BY <1>2 DEF Single
<1>5. Purse'
    BY <1>2, <1>3 DEF Purse, Solvent, Covered, Clean, Spends
<1> QED BY <1>4, <1>5

PurseInv == IInv /\ Born /\ Single /\ Purse

LEMMA PurseInductive == PurseInv /\ [GeneralNext]_allVars => PurseInv'
<1> SUFFICES ASSUME PurseInv, [GeneralNext]_allVars PROVE PurseInv'
    OBVIOUS
<1>0. IInv /\ Born /\ Single /\ Purse
    BY DEF PurseInv
<1>1. IInv' /\ Born'
    BY <1>0, Inductive
<1>2. GeneralTypeOK'
    BY <1>1 DEF IInv
<1>3. CASE AtHome
  <2>1. UNCHANGED generalVars
      BY <1>3 DEF AtHome
  <2> QED BY <1>0, <1>1, <1>2, <1>3, <2>1, EnteringPurse, ManagingPurse, ProducingPurse
      DEF AtHome, PurseInv
<1>4. CASE GeneralRestart
    BY <1>0, <1>1, <1>4, RestartPurse DEF PurseInv
<1>5. CASE \E x \in Conn : Commanding(x)
    BY <1>0, <1>1, <1>5, CommandingPurse DEF PurseInv
<1>6. CASE UNCHANGED allVars
  <2>1. UNCHANGED <<in, req, greq, res, overlapped, torn>>
      BY <1>6 DEF allVars, estateVars, generalVars, world, rows, history
  <2>2. Single' /\ Purse'
      BY <1>0, <2>1 DEF Single, Purse, Busy, Clean, Solvent, Covered
  <2> QED BY <1>1, <2>2 DEF PurseInv
<1> QED BY <1>3, <1>4, <1>5, <1>6 DEF GeneralNext

LEMMA PurseInit == GeneralInit => PurseInv
<1> SUFFICES ASSUME GeneralInit PROVE PurseInv
    OBVIOUS
<1>1. Single /\ Purse
    BY Blanks DEF GeneralInit, Init, Single, Busy, Purse, Solvent, Covered, Clean, Nothing
<1> QED BY <1>1, SoundInit DEF PurseInv

LEMMA PurseKept == GeneralSpec => []PurseInv
BY PurseInit, PurseInductive, PTL DEF GeneralSpec

\* Nobody ever owes anything: the check of TryUseNeed and TryUseGold and the
\* subtraction that follows are two steps, and still no amount goes below
\* zero, for any number of roles, connections and rounds of produce(), unless
\* the role had two requests at a time or an addition was lost.
THEOREM NobodyOwes == GeneralSpec => []NoOverdraft
<1>1. PurseInv => NoOverdraft
    BY DEF PurseInv, Purse, Clean, Solvent, NoOverdraft
<1> QED BY <1>1, PurseKept, PTL

\* produce() adds to whatever is there: its round starts from what it sees,
\* and stores while handlers look and store; only what tears an addition, or
\* a new start, can make an amount smaller in the step that ends a round.
THEOREM RoundsOnlyAdd == GeneralSpec => ProduceOnlyAdds
<1>1. ASSUME IInv, [GeneralNext]_allVars, NEW r \in Role, prod.role = r, prod'.role = NoRole,
             r \notin torn', restarts' = restarts
      PROVE  \A k \in Kind : res'[r][k] >= res[r][k]
  <2>0. TypeOK
      BY <1>1 DEF IInv, GeneralTypeOK
  <2>1. prod' # prod
      BY <1>1, EstateAssumption
  <2>2. ProduceStores(r)
    <3>1. CASE \E x \in Conn : Entering(x) \/ Managing(x) \/ Commanding(x)
      <4>1. prod' = prod
        <5>1. ASSUME NEW x, Entering(x) PROVE prod' = prod
            BY <5>1 DEF Entering, EnterNobody, Create, Enter, MakeRes, CheckAttr, MakeAttr, CheckCity,
                        MakeCity, EnterFails, MakeFac, MakeFacFails, Fails
        <5>2. ASSUME NEW x, Managing(x) PROVE prod' = prod
            BY <5>2 DEF Managing, UpLooks, UpStores, CollectLooks, CollectTooEarly, CollectStores,
                        TransformLooks, TransformStores, TransformPanics
        <5>3. ASSUME NEW x, Commanding(x) PROVE prod' = prod
            BY <5>3 DEF Commanding, MyLooks, MyMakes, DrawLooks, DrawMakes, DrawPays, ComposeLooks,
                        ComposeStores, ConvertLooks, ConvertStores, SkillLooks, MakeSkill,
                        UpSkillStores, DownSkillStores, PlaceLooks, PlaceStores, TakeOutLooks,
                        TakeOutStores, Begins, LooksOnly, HomeKept
        <5> QED BY <3>1, <5>1, <5>2, <5>3
      <4> QED BY <2>1, <4>1
    <3>2. CASE Tick \/ UNCHANGED allVars
        BY <2>1, <3>2 DEF Tick, allVars, estateVars
    <3>3. CASE Producing
        BY <1>1, <3>3, EstateAssumption DEF Producing, ProduceBegins, ProduceLooks, ProduceStores
    <3>4. CASE GeneralRestart
        BY <1>1, <2>0, <3>4 DEF GeneralRestart, Restart, TypeOK
    <3> QED BY <1>1, <3>1, <3>2, <3>3, <3>4 DEF GeneralNext, AtHome
  <2> QED BY <1>1, <2>0, <2>2, ProducedType
<1>2. IInv /\ [GeneralNext]_allVars =>
         [\A r \in Role : prod.role = r /\ prod'.role = NoRole /\ r \notin torn'
                          /\ restarts' = restarts =>
             \A k \in Kind : res'[r][k] >= res[r][k]]_estateVars
    BY <1>1
<1>3. GeneralSpec => []IInv /\ [][GeneralNext]_allVars
    BY Invariance, PTL DEF GeneralSpec
<1> QED BY <1>2, <1>3, PTL DEF ProduceOnlyAdds

(***************************************************************************)
(* What was drawn is paid for.  A role that is Clean has at most one draw  *)
(* that is not paid yet, and its gold is there (Purse).                    *)
(***************************************************************************)
Paying(x, r) == in[x] = r /\ Serves(x, "drawPay")

Tallied(r) ==
    \/ \E x \in Conn : Paying(x, r) /\ drawn[r] = charged[r] + greq[x].row
    \/ (\A x \in Conn : ~Paying(x, r)) /\ drawn[r] = charged[r]

Tally == \A r \in Clean : Tallied(r)

\* A step of x that is not about a payment.
LEMMA TallyOther ==
    ASSUME Tally, NEW x \in Conn, overlapped \subseteq overlapped', torn \subseteq torn',
           UNCHANGED <<drawn, charged>>, Others(x),
           \/ UNCHANGED <<req, in, greq>>
           \/ req[x].op # "drawPay" /\ req'[x].op # "drawPay"
    PROVE  Tally'
<1>1. ASSUME NEW r \in Clean' PROVE Tallied(r)'
  <2>1. Tallied(r)
      BY <1>1 DEF Clean, Tally
  <2>2. CASE UNCHANGED <<req, in, greq>>
      BY <2>1, <2>2 DEF Tallied, Paying, Serves
  <2>3. CASE req[x].op # "drawPay" /\ req'[x].op # "drawPay"
    <3>1. \A y \in Conn : Paying(y, r)' <=> Paying(y, r)
        BY <2>3 DEF Paying, Serves, Others
    <3>2. \A y \in Conn : Paying(y, r) => greq'[y] = greq[y]
        BY <2>3 DEF Paying, Serves, Others
    <3>3. CASE \A y \in Conn : ~Paying(y, r)
        BY <2>1, <3>1, <3>3 DEF Tallied
    <3>4. CASE \E y \in Conn : Paying(y, r) /\ drawn[r] = charged[r] + greq[y].row
        BY <3>1, <3>2, <3>4 DEF Tallied
    <3> QED BY <2>1, <3>3, <3>4 DEF Tallied
  <2> QED BY <2>2, <2>3
<1> QED BY <1>1 DEF Tally

LEMMA AtHomeTally ==
    ASSUME IInv, Tally, GeneralTypeOK', AtHome
    PROVE  Tally'
<1>0. TypeOK /\ UNCHANGED generalVars /\ UNCHANGED <<drawn, charged, greq>>
    BY DEF IInv, GeneralTypeOK, AtHome, generalVars, drafts
<1> USE DEF world, rows, cities, counters, history
<1>1. ASSUME NEW x \in Conn, Entering(x) PROVE Tally'
  <2>1. Others(x)
      BY <1>0, <1>1, EnteringSound
  <2>2. overlapped \subseteq overlapped' /\ torn' = torn
      BY <1>1 DEF Entering, EnterNobody, Create, Enter, MakeRes, CheckAttr, MakeAttr, CheckCity,
                  MakeCity, EnterFails, MakeFac, MakeFacFails, Fails
  <2>3. CASE EnterNobody(x) \/ \E r \in Role : Create(x, r)
      BY <1>0, <2>1, <2>2, <2>3, TallyOther DEF EnterNobody, Create
  <2>4. CASE ~(EnterNobody(x) \/ \E r \in Role : Create(x, r))
    <3>1. req[x].op # "drawPay"
        BY <1>1, <2>4 DEF Entering, Enter, MakeRes, CheckAttr, MakeAttr, CheckCity, MakeCity,
                          EnterFails, MakeFac, MakeFacFails, Busy, Serves
    <3>2. CASE \E c \in City : MakeCity(x, c)
      <4>1. req[x] \in Request
          BY <1>0 DEF TypeOK
      <4>2. PICK c \in City : MakeCity(x, c)
          BY <3>2
      <4> DEFINE q == [req[x] EXCEPT !.op = "makeFac", !.city = c]
      <4>3. q.op = "makeFac"
          BY <4>1 DEF Request
      <4>4. req' = [req EXCEPT ![x] = q]
          BY <4>2 DEF MakeCity
      <4> HIDE DEF q
      <4>5. req'[x].op # "drawPay"
          BY <1>0, <4>3, <4>4, GoesTo
      <4> QED BY <1>0, <2>1, <2>2, <3>1, <4>5, TallyOther
    <3>3. CASE ~\E c \in City : MakeCity(x, c)
      <4>1. Ends(x) \/ \E op \in {"attr", "makeRes", "makeAttr", "city", "makeCity"} : Goes(x, op)
          BY <1>1, <2>4, <3>3 DEF Entering, Enter, MakeRes, CheckAttr, MakeAttr, CheckCity,
                                  EnterFails, MakeFac, MakeFacFails, Goes
      <4>2. req'[x].op # "drawPay"
          BY <1>0, <4>1, GoesTo, OpsAreOp, Blanks
      <4> QED BY <1>0, <2>1, <2>2, <3>1, <4>2, TallyOther
    <3> QED BY <3>2, <3>3
  <2> QED BY <2>3, <2>4
<1>2. ASSUME NEW x \in Conn, Managing(x) PROVE Tally'
  <2>1. Others(x)
      BY <1>0, <1>2, ManagingSound
  <2>2. CASE CollectTooEarly(x)
      BY <1>0, <2>1, <2>2, TallyOther DEF CollectTooEarly
  <2>3. CASE TransformPanics(x)
    <3>1. req' = req /\ req[x].op # "drawPay" /\ UNCHANGED <<overlapped, torn>>
        BY <2>3 DEF TransformPanics, Busy
    <3> QED BY <1>0, <2>1, <3>1, TallyOther
  <2>4. CASE UpStores(x) \/ CollectStores(x) \/ TransformStores(x)
    <3>1. Ends(x) /\ req[x].op # "drawPay" /\ overlapped' = overlapped
          /\ \E r, seen, delta : Put(r, seen, delta)
        BY <2>4 DEF UpStores, CollectStores, TransformStores, Serves
    <3>2. torn \subseteq torn'
        BY <3>1 DEF Put
    <3>3. req'[x].op # "drawPay"
        BY <1>0, <3>1, GoesTo, Blanks
    <3> QED BY <1>0, <2>1, <3>1, <3>2, <3>3, TallyOther
  <2>5. ASSUME NEW q, Looks(x, q), q.op # "drawPay", torn' = torn PROVE Tally'
    <3>1. req'[x] = q /\ req[x].op # "drawPay" /\ overlapped \subseteq overlapped'
        BY <1>0, <2>5, GoesTo DEF Looks, Busy
    <3> QED BY <1>0, <2>1, <2>5, <3>1, TallyOther
  <2>6. ASSUME NEW c \in City, NEW f \in Fac, UpLooks(x, c, f) PROVE Tally'
      BY <2>5, <2>6 DEF UpLooks, Idle
  <2>7. CASE CollectLooks(x)
      BY <2>5, <2>7 DEF CollectLooks, Idle
  <2>8. ASSUME NEW give \in [Goods -> Amounts], TransformLooks(x, give) PROVE Tally'
      BY <2>5, <2>8 DEF TransformLooks, Idle
  <2> QED BY <1>2, <2>2, <2>3, <2>4, <2>6, <2>7, <2>8 DEF Managing
<1>3. ASSUME Producing \/ Tick PROVE Tally'
  <2>1. UNCHANGED <<in, req, overlapped>> /\ torn \subseteq torn'
      BY <1>3 DEF Producing, ProduceBegins, ProduceLooks, ProduceStores, Tick
  <2> QED BY <1>0, <2>1 DEF Tally, Tallied, Paying, Serves, Clean
<1> QED BY <1>1, <1>2, <1>3 DEF AtHome

\* Only these four steps are about a payment, or end without one.
LEMMA CommandingTally ==
    ASSUME PurseInv, Tally, NEW x \in Conn, Commanding(x)
    PROVE  Tally'
<1>0. IInv /\ GeneralTypeOK /\ TypeOK /\ SoundOne(x) /\ Others(x) /\ Single /\ Purse
      /\ greq[x] \in About
    BY CommandingInductive DEF PurseInv, IInv, GeneralTypeOK, Sound
<1>a. Busy(x) => in[x] \in Role
    BY <1>0 DEF SoundOne
<1>d. Done(x) => req'[x].op # "drawPay" /\ req'[x] = Idle
    BY <1>0, DoneType, Blanks
<1>t. drawn \in [Role -> Nat] /\ charged \in [Role -> Nat]
    BY <1>0 DEF GeneralTypeOK
<1>1. ASSUME NEW op \in Op \ {"drawPay"}, NEW about \in About, Begins(x, op, about) PROVE Tally'
  <2>1. req'[x].op = op
      BY <1>0, <1>1, BeginsType
  <2>2. ~Busy(x) /\ overlapped \subseteq overlapped' /\ torn' = torn /\ UNCHANGED <<drawn, charged>>
      BY <1>1 DEF Begins, Looks, LooksOnly, drafts
  <2> QED BY <1>0, <1>1, <2>1, <2>2, TallyOther DEF Busy
<1>2. ASSUME \/ MyMakes(x) \/ ComposeStores(x) \/ ConvertStores(x) \/ MakeSkill(x)
             \/ UpSkillStores(x) \/ DownSkillStores(x) \/ PlaceStores(x) \/ TakeOutStores(x)
      PROVE  Tally'
  <2>1. overlapped' = overlapped /\ UNCHANGED <<drawn, charged>> /\ req[x].op # "drawPay"
      BY <1>2 DEF MyMakes, ComposeStores, ConvertStores, MakeSkill, UpSkillStores, DownSkillStores,
                  PlaceStores, TakeOutStores, HomeKept, drafts, Serves
  <2>2. torn \subseteq torn'
      BY <1>2 DEF MyMakes, ComposeStores, ConvertStores, MakeSkill, UpSkillStores, DownSkillStores,
                  PlaceStores, TakeOutStores, Free, Put
  <2>3. Done(x) \/ \E op \in {"upSkill", "downSkill"} : Goes(x, op)
      BY <1>2 DEF MyMakes, ComposeStores, ConvertStores, MakeSkill, UpSkillStores, DownSkillStores,
                  PlaceStores, TakeOutStores
  <2>4. req'[x].op # "drawPay"
      BY <1>0, <1>d, <2>3, GoesTo DEF Op
  <2> QED BY <1>0, <2>1, <2>2, <2>4, TallyOther
<1>3. ASSUME DrawMakes(x) PROVE Tally'
  <2> DEFINE r == in[x]
             n == greq[x].row
             q == [req[x] EXCEPT !.op = "drawPay", !.seen = res[r]]
  <2>1. Serves(x, "draw") /\ Busy(x) /\ r \in Role /\ HomeKept /\ n \in Nat
        /\ UNCHANGED <<charged, torn>>
      BY <1>0, <1>a, <1>3 DEF DrawMakes, Busy, Serves, About
  <2>2. UNCHANGED <<in, overlapped>>
      BY <2>1 DEF HomeKept, world
  <2>3. \/ Done(x) /\ UNCHANGED drawn
        \/ /\ drawn' = [drawn EXCEPT ![r] = @ + n]
           /\ req' = [req EXCEPT ![x] = q] /\ greq' = greq
      BY <1>3 DEF DrawMakes
  <2>4. q.op = "drawPay"
      BY <1>0 DEF TypeOK, Request
  <2> HIDE DEF q, n
  <2>5. CASE Done(x) /\ UNCHANGED drawn
      BY <1>0, <1>d, <2>1, <2>2, <2>5, TallyOther DEF Serves
  <2>6. CASE /\ drawn' = [drawn EXCEPT ![r] = @ + n]
             /\ req' = [req EXCEPT ![x] = q] /\ greq' = greq
    <3>1. req'[x].op = "drawPay"
        BY <1>0, <2>4, <2>6, GoesTo
    <3>2. ASSUME NEW p \in Clean' PROVE Tallied(p)'
      <4>1. p \in Clean /\ p \in Role /\ p \notin overlapped
          BY <2>1, <2>2, <3>2 DEF Clean
      <4>2. Tallied(p)
          BY <4>1 DEF Tally
      <4>3. CASE p = r
        <5>1. \A y \in Conn : ~Paying(y, p)
          <6>1. ~Paying(x, p)
              BY <2>1 DEF Paying, Serves
          <6>2. ASSUME NEW y \in Conn \ {x} PROVE ~Paying(y, p)
              BY <1>0, <2>1, <4>1, <4>3 DEF Paying, Single, Busy, Serves
          <6> QED BY <6>1, <6>2
        <5>2. drawn[p] = charged[p]
            BY <4>2, <5>1 DEF Tallied
        <5>3. Paying(x, p)' /\ drawn'[p] = charged'[p] + greq'[x].row
            BY <1>t, <2>1, <2>2, <2>6, <3>1, <4>3, <5>2 DEF Paying, Serves, n
        <5> QED BY <5>3 DEF Tallied
      <4>4. CASE p # r
        <5>1. \A y \in Conn : Paying(y, p)' <=> Paying(y, p)
            BY <1>0, <2>1, <2>2, <4>4 DEF Paying, Others, Serves
        <5>2. drawn'[p] = drawn[p] /\ charged'[p] = charged[p] /\ greq' = greq
            BY <1>t, <2>1, <2>6, <4>1, <4>4
        <5> QED BY <4>2, <5>1, <5>2 DEF Tallied
      <4> QED BY <4>3, <4>4
    <3> QED BY <3>2 DEF Tally
  <2> QED BY <2>3, <2>5, <2>6
<1>4. ASSUME DrawPays(x) PROVE Tally'
  <2> DEFINE r == in[x]
             n == greq[x].row
             m == DrawCost * n
  <2>1. Serves(x, "drawPay") /\ Busy(x) /\ r \in Role /\ HomeKept /\ n \in Nat /\ Done(x)
        /\ UNCHANGED drawn
      BY <1>0, <1>a, <1>4 DEF DrawPays, Busy, Serves, About
  <2>2. UNCHANGED <<in, overlapped>>
      BY <2>1 DEF HomeKept, world
  <2>3. \/ res[r]["gold"] < m /\ UNCHANGED <<torn, charged>>
        \/ charged' = [charged EXCEPT ![r] = @ + n] /\ torn \subseteq torn'
      BY <1>4 DEF DrawPays, Put
  <2>4. m \in Int /\ res[r]["gold"] \in Int
    <3>1. m \in Int
        BY <2>1, GeneralAssumption
    <3>2. res[r]["gold"] \in Int
        BY <1>0, <2>1 DEF TypeOK, Resources, Kind
    <3> QED BY <3>1, <3>2
  <2>5. r \in Clean => res[r]["gold"] >= m
      BY <1>0, <2>1 DEF Purse, Covered, Serves
  <2> HIDE DEF m, n
  <2>6. torn \subseteq torn' /\ \A p \in Role \ {r} : charged'[p] = charged[p]
      BY <1>t, <2>1, <2>3
  <2>7. ASSUME NEW p \in Clean' PROVE Tallied(p)'
    <3>1. p \in Clean /\ p \in Role /\ p \notin overlapped
        BY <2>2, <2>6, <2>7 DEF Clean
    <3>2. Tallied(p)
        BY <3>1 DEF Tally
    <3>3. CASE p = r
      <4>1. charged' = [charged EXCEPT ![r] = @ + n]
          BY <2>3, <2>4, <2>5, <3>1, <3>3
      <4>2. \A y \in Conn \ {x} : ~Paying(y, p)
          BY <1>0, <2>1, <3>1, <3>3 DEF Paying, Single, Busy, Serves
      <4>3. Paying(x, p)
          BY <2>1, <3>3 DEF Paying
      <4>4. drawn[p] = charged[p] + n
          BY <3>2, <4>2, <4>3 DEF Tallied, n
      <4>5. drawn'[p] = charged'[p]
          BY <1>t, <2>1, <3>3, <4>1, <4>4
      <4>6. \A y \in Conn : ~Paying(y, p)'
        <5>1. ~Paying(x, p)'
            BY <1>d, <2>1 DEF Paying, Serves
        <5>2. ASSUME NEW y \in Conn \ {x} PROVE ~Paying(y, p)'
            BY <1>0, <4>2 DEF Paying, Others, Serves
        <5> QED BY <5>1, <5>2
      <4> QED BY <4>5, <4>6 DEF Tallied
    <3>4. CASE p # r
      <4>1. \A y \in Conn : Paying(y, p)' <=> Paying(y, p)
          BY <1>0, <2>1, <2>2, <3>4 DEF Paying, Others, Serves
      <4>2. drawn'[p] = drawn[p] /\ charged'[p] = charged[p]
          BY <2>1, <2>6, <3>1, <3>4
      <4>3. \A y \in Conn : Paying(y, p) => greq'[y] = greq[y]
          BY <1>0, <3>4 DEF Paying, Others
      <4> QED BY <3>2, <4>1, <4>2, <4>3 DEF Tallied
    <3> QED BY <3>3, <3>4
  <2> QED BY <2>7 DEF Tally
<1>5. ASSUME MyLooks(x) \/ (\E n \in DrawTimes : DrawLooks(x, n))
             \/ (\E g \in Gen, eaten \in SUBSET Gen : ComposeLooks(x, g, eaten))
             \/ (\E sold \in SUBSET Gen \ {{}} : ConvertLooks(x, sold))
             \/ (\E op \in {"up", "down"}, g \in Gen, s \in SkillCfg, p \in SkillSlot :
                    SkillLooks(x, op, g, s, p))
             \/ (\E g \in Gen, o \in Order, p \in Place : PlaceLooks(x, g, o, p))
             \/ (\E g \in Gen, o \in Order : TakeOutLooks(x, g, o))
      PROVE  Tally'
  <2>1. UNCHANGED <<drawn, charged, torn>> /\ overlapped \subseteq overlapped' /\ ~Busy(x)
      BY <1>5 DEF MyLooks, DrawLooks, ComposeLooks, ConvertLooks, SkillLooks, PlaceLooks,
                  TakeOutLooks, Begins, Looks, LooksOnly, drafts
  <2>2. PICK op \in Op \ {"drawPay"} : \E about : Begins(x, op, about)
      BY <1>5 DEF MyLooks, DrawLooks, ComposeLooks, ConvertLooks, SkillLooks, PlaceLooks,
                  TakeOutLooks, Op
  <2>3. req' = [req EXCEPT ![x] = [Idle EXCEPT !.op = op]]
      BY <2>2 DEF Begins, Looks
  <2>4. req'[x].op = op
      BY <1>0, <2>3, GoesTo, PlainRecord
  <2> QED BY <1>0, <2>1, <2>2, <2>4, TallyOther DEF Busy
<1> QED BY <1>2, <1>3, <1>4, <1>5 DEF Commanding

LEMMA RestartTally ==
    ASSUME PurseInv, Tally, GeneralRestart
    PROVE  Tally'
<1>1. Restart /\ drawn' = drawn
    BY DEF GeneralRestart
<1>2. charged \in [Role -> Nat]
    BY DEF PurseInv, IInv, GeneralTypeOK
<1>3. \A x \in Conn : req'[x] = Idle
    BY <1>1 DEF Restart
<1>4. ASSUME NEW r \in Clean' PROVE Tallied(r)'
  <2>1. r \in Clean /\ r \in Role
      BY <1>1, <1>4 DEF Restart, Clean
  <2>2. charged'[r] = IF \E x \in Conn : Paying(x, r) THEN drawn[r] ELSE charged[r]
      BY <2>1 DEF GeneralRestart, Paying
  <2>3. Tallied(r)
      BY <2>1 DEF Tally
  <2>4. drawn'[r] = charged'[r]
      BY <1>1, <2>2, <2>3 DEF Tallied
  <2>5. \A x \in Conn : ~Paying(x, r)'
      BY <1>3, Blanks DEF Paying, Serves
  <2> QED BY <2>4, <2>5 DEF Tallied
<1> QED BY <1>4 DEF Tally

LEMMA TallyInductive == PurseInv /\ Tally /\ [GeneralNext]_allVars => Tally'
<1> SUFFICES ASSUME PurseInv, Tally, [GeneralNext]_allVars PROVE Tally'
    OBVIOUS
<1>1. IInv /\ GeneralTypeOK'
    BY PurseInductive DEF PurseInv, IInv
<1>2. CASE UNCHANGED allVars
  <2>1. UNCHANGED <<in, req, greq, overlapped, torn, drawn, charged>>
      BY <1>2 DEF allVars, estateVars, generalVars, world, history, drafts
  <2> QED BY <2>1 DEF Tally, Tallied, Paying, Serves, Clean
<1> QED BY <1>1, <1>2, AtHomeTally, RestartTally, CommandingTally DEF GeneralNext

LEMMA TallyInit == GeneralInit => Tally
BY Blanks DEF GeneralInit, Init, Tally, Tallied, Paying, Serves, Clean

\* Every general that is handed out is paid for, although it is handed out
\* first, the answer of TryUseGold is dropped, and the gold was looked at in
\* an earlier step, unless the role had two requests at a time or an addition
\* was lost.
THEOREM DrawnIsPaid == GeneralSpec => []DrawsPaid
<1>1. Tally => DrawsPaid
    BY DEF Tally, Tallied, Paying, Clean, DrawsPaid
<1>2. PurseInv /\ Tally /\ [GeneralNext]_allVars => (PurseInv /\ Tally)'
    BY PurseInductive, TallyInductive
<1>3. GeneralInit => PurseInv /\ Tally
    BY PurseInit, TallyInit
<1> QED BY <1>1, <1>2, <1>3, PTL DEF GeneralSpec

(***************************************************************************)
(* Levels.  A request that is about to write the facilities of a city back *)
(* holds what was there when it looked, one level of it settled.           *)
(***************************************************************************)
Have(l) == l.lv + IF l.up > 0 THEN 1 ELSE 0

Untouched(c) == facRow[c] = "none" /\ fac[c] = Built /\ \A f \in Fac : paid[c][f] = 0

\* What was read, or what that has become.
Fresh(seen, l) == seen = l \/ (seen = Settled(l) /\ seen.up = 0)

Founding(x) == Serves(x, "makeFac") =>
    owner[req[x].city] # NoRole /\ Untouched(req[x].city)

Building(x) == Serves(x, "up") =>
    LET c == req[x].city IN
    /\ owner[c] = in[x] /\ facRow[c] # "none" /\ req[x].snap[req[x].fac].up = 0
    /\ \A g \in Fac : Have(req[x].snap[g]) <= paid[c][g]
    /\ in[x] \notin overlapped => \A g \in Fac : Fresh(req[x].snap[g], fac[c][g])

Ledger ==
    /\ \A c \in City : owner[c] = NoRole => Untouched(c)
    /\ \A x \in Conn : Founding(x) /\ Building(x)
    /\ \A x, y \in Conn : x # y /\ Serves(x, "makeFac") /\ Serves(y, "makeFac") =>
          req[x].city # req[y].city
    /\ LevelsPaid

LEMMA PaidMeans ==
    LevelsPaid <=> \A c \in City, f \in Fac : facRow[c] # "none" =>
        /\ Have(fac[c][f]) <= paid[c][f]
        /\ owner[c] \notin overlapped => Have(fac[c][f]) = paid[c][f]
BY DEF LevelsPaid, Have

LEMMA PaidMeansNext ==
    LevelsPaid' <=> \A c \in City, f \in Fac : facRow'[c] # "none" =>
        /\ Have(fac'[c][f]) <= paid'[c][f]
        /\ owner'[c] \notin overlapped' => Have(fac'[c][f]) = paid'[c][f]
BY DEF LevelsPaid, Have

\* Settling changes neither what is had, nor the level somebody sees.
LEMMA Settling ==
    ASSUME TypeOK, NEW l \in Level
    PROVE  /\ Settled(l) \in Level /\ Have(Settled(l)) = Have(l)
           /\ GetLevel(l) \in Nat /\ GetLevel(l) >= l.lv
           /\ l.up = 0 => GetLevel(l) = l.lv
           /\ \A seen \in Level : Fresh(seen, l) =>
                 /\ Have(seen) = Have(l) /\ GetLevel(seen) >= GetLevel(l)
                 /\ seen.up = 0 => seen.lv >= GetLevel(l)
<1>1. l.lv \in Nat /\ l.up \in Nat /\ now \in Nat /\ CostTime \in Nat
    BY EstateAssumption DEF Level, TypeOK
<1>2. CASE l.up > 0 /\ now >= l.up + CostTime
  <2>1. Settled(l) = [lv |-> l.lv + 1, up |-> 0]
      BY <1>2 DEF Settled
  <2>2. Settled(l) \in Level /\ Settled(l).lv = l.lv + 1 /\ Settled(l).up = 0
      BY <1>1, <2>1 DEF Level
  <2>3. Settled(Settled(l)) = Settled(l)
      BY <2>2 DEF Settled
  <2> QED BY <1>1, <1>2, <2>2, <2>3 DEF Have, GetLevel, Fresh
<1>3. CASE ~(l.up > 0 /\ now >= l.up + CostTime)
  <2>1. Settled(l) = l
      BY <1>3 DEF Settled
  <2> QED BY <1>1, <2>1 DEF Have, GetLevel, Fresh
<1> QED BY <1>2, <1>3

\* A step of x that is not about facilities.
LEMMA LedgerOther ==
    ASSUME Ledger, NEW x \in Conn, UNCHANGED <<now, owner, fac, facRow, paid>>,
           overlapped \subseteq overlapped', Others(x),
           \/ UNCHANGED <<req, in>>
           \/ req'[x].op \notin {"up", "makeFac"}
    PROVE  Ledger'
<1>1. \A y \in Conn : req'[y].op \in {"up", "makeFac"} => req'[y] = req[y] /\ in'[y] = in[y]
    BY DEF Others
<1>2. \A c \in City : owner'[c] = NoRole => Untouched(c)'
    BY DEF Ledger, Untouched
<1>3. ASSUME NEW y \in Conn PROVE Founding(y)' /\ Building(y)'
  <2>1. Founding(y)'
      BY <1>1 DEF Ledger, Founding, Untouched, Serves
  <2>2. Building(y)'
    <3> SUFFICES ASSUME Serves(y, "up")' PROVE Building(y)'
        BY DEF Building
    <3>1. req'[y] = req[y] /\ in'[y] = in[y] /\ Serves(y, "up")
        BY <1>1 DEF Serves
    <3>2. Building(y)
        BY DEF Ledger
    <3> QED BY <3>1, <3>2 DEF Building, Fresh, Settled, Have
  <2> QED BY <2>1, <2>2
<1>4. \A y, z \in Conn : y # z /\ Serves(y, "makeFac")' /\ Serves(z, "makeFac")' =>
          req'[y].city # req'[z].city
    BY <1>1 DEF Ledger, Serves
<1>5. LevelsPaid'
    BY PaidMeans, PaidMeansNext DEF Ledger
<1> QED BY <1>2, <1>3, <1>4, <1>5 DEF Ledger

\* The facilities of one city change: of the others everything stays.
LEMMA LedgerFounds ==
    ASSUME IInv, Ledger, NEW x \in Conn, Others(x), GeneralTypeOK',
           MakeFac(x) \/ MakeFacFails(x)
    PROVE  Ledger'
<1> DEFINE c == req[x].city
<1>0. TypeOK /\ c \in City /\ Serves(x, "makeFac")
    BY DEF IInv, GeneralTypeOK, Sound, SoundOne, MakeFac, MakeFacFails
<1>1. /\ UNCHANGED <<now, in, owner, fac, paid, overlapped>> /\ Ends(x)
      /\ facRow'[c] # "none" /\ \A d \in City \ {c} : facRow'[d] = facRow[d]
    BY <1>0 DEF MakeFac, MakeFacFails, Fails, world, TypeOK
<1>2. owner[c] # NoRole /\ Untouched(c)
    BY <1>0 DEF Ledger, Founding
<1>3. req'[x] = Idle /\ Idle.op = "idle" /\ \A y \in Conn \ {x} : req'[y] = req[y]
    BY <1>0, <1>1, GoesTo, Blanks
<1> HIDE DEF c
<1>4. \A d \in City : owner'[d] = NoRole => Untouched(d)'
    BY <1>1, <1>2 DEF Ledger, Untouched
<1>5. ASSUME NEW y \in Conn PROVE Founding(y)' /\ Building(y)'
  <2>1. CASE y = x
      BY <1>3, <2>1 DEF Founding, Building, Serves
  <2>2. CASE y # x
    <3>1. req'[y] = req[y] /\ in'[y] = in[y]
        BY <1>1, <1>3, <2>2
    <3>2. Serves(y, "makeFac") => req[y].city \in City \ {c}
        BY <1>0, <2>2 DEF IInv, Sound, SoundOne, Ledger, c
    <3>3. Founding(y)'
        BY <1>1, <3>1, <3>2 DEF Ledger, Founding, Untouched, Serves
    <3>4. Building(y)'
      <4> SUFFICES ASSUME Serves(y, "up")' PROVE Building(y)'
          BY DEF Building
      <4>1. Serves(y, "up") /\ Building(y) /\ req[y].city \in City
          BY <3>1 DEF Serves, Ledger, IInv, Sound, SoundOne
      <4>2. facRow'[req[y].city] # "none"
          BY <1>1, <4>1 DEF Building
      <4> QED BY <1>1, <3>1, <4>1, <4>2 DEF Building, Fresh, Settled, Have
    <3> QED BY <3>3, <3>4
  <2> QED BY <2>1, <2>2
<1>6. \A y, z \in Conn : y # z /\ Serves(y, "makeFac")' /\ Serves(z, "makeFac")' =>
          req'[y].city # req'[z].city
    BY <1>3 DEF Ledger, Serves
<1>7. LevelsPaid'
  <2>1. ASSUME NEW f \in Fac PROVE Have(fac[c][f]) = 0 /\ paid[c][f] = 0
      BY <1>2, <2>1 DEF Untouched, Built, Have
  <2>2. ASSUME NEW d \in City, NEW f \in Fac, facRow'[d] # "none"
        PROVE  /\ Have(fac'[d][f]) <= paid'[d][f]
               /\ owner'[d] \notin overlapped' => Have(fac'[d][f]) = paid'[d][f]
    <3>1. CASE d = c
        BY <1>1, <2>1, <3>1
    <3>2. CASE d # c
        BY <1>1, <2>2, <3>2, PaidMeans DEF Ledger
    <3> QED BY <3>1, <3>2
  <2> QED BY <2>2, PaidMeansNext
<1> QED BY <1>4, <1>5, <1>6, <1>7 DEF Ledger

LEMMA LedgerCity ==
    ASSUME IInv, Ledger, NEW x \in Conn, Others(x), NEW c \in City, MakeCity(x, c)
    PROVE  Ledger'
<1>0. TypeOK /\ in[x] \in Role /\ req[x] \in Request
    BY DEF IInv, GeneralTypeOK, TypeOK, Sound, SoundOne, MakeCity, Busy, Serves
<1> DEFINE q == [req[x] EXCEPT !.op = "makeFac", !.city = c]
<1>1. q.op = "makeFac" /\ q.city = c
    BY <1>0 DEF Request
<1>2. req' = [req EXCEPT ![x] = q]
    BY DEF MakeCity
<1> HIDE DEF q
<1>3. req'[x] = q /\ \A y \in Conn \ {x} : req'[y] = req[y]
    BY <1>0, <1>2, GoesTo
<1>4. /\ owner[c] = NoRole /\ owner'[c] = in[x] /\ in[x] # NoRole
      /\ \A d \in City \ {c} : owner'[d] = owner[d]
      /\ UNCHANGED <<now, in, fac, facRow, paid, overlapped>>
    BY <1>0, EstateAssumption DEF MakeCity, world, history, TypeOK
<1>5. Untouched(c)
    BY <1>4 DEF Ledger
<1>6. \A d \in City : owner'[d] = NoRole => Untouched(d)'
    BY <1>4 DEF Ledger, Untouched
<1>7. ASSUME NEW y \in Conn \ {x} PROVE Founding(y)' /\ Building(y)'
  <2>1. req'[y] = req[y] /\ in'[y] = in[y]
      BY <1>3, <1>4
  <2>2. Founding(y)'
    <3> SUFFICES ASSUME Serves(y, "makeFac")' PROVE Founding(y)'
        BY DEF Founding
    <3>1. Serves(y, "makeFac") /\ Founding(y) /\ req[y].city \in City
        BY <2>1 DEF Serves, Ledger, IInv, Sound, SoundOne
    <3>2. req[y].city # c
        BY <1>4, <3>1 DEF Founding
    <3> QED BY <1>4, <2>1, <3>1, <3>2 DEF Founding, Untouched
  <2>3. Building(y)'
    <3> SUFFICES ASSUME Serves(y, "up")' PROVE Building(y)'
        BY DEF Building
    <3>1. Serves(y, "up") /\ Building(y) /\ req[y].city \in City /\ in[y] \in Role
        BY <2>1 DEF Serves, Busy, Ledger, IInv, Sound, SoundOne
    <3>2. req[y].city # c
        BY <1>4, <3>1, EstateAssumption DEF Building
    <3> QED BY <1>4, <2>1, <3>1, <3>2 DEF Building, Fresh, Settled, Have
  <2> QED BY <2>2, <2>3
<1>8. Founding(x)' /\ Building(x)'
    BY <1>1, <1>3, <1>4, <1>5 DEF Founding, Building, Serves, Untouched
<1>9. ASSUME NEW y \in Conn \ {x}, Serves(y, "makeFac")' PROVE req'[y].city # c
    BY <1>3, <1>4, <1>9 DEF Ledger, Founding, Serves
<1>10. \A y, z \in Conn : y # z /\ Serves(y, "makeFac")' /\ Serves(z, "makeFac")' =>
          req'[y].city # req'[z].city
    BY <1>1, <1>3, <1>9 DEF Ledger, Serves
<1>11. LevelsPaid'
  <2>1. ASSUME NEW d \in City, NEW f \in Fac, facRow'[d] # "none"
        PROVE  /\ Have(fac'[d][f]) <= paid'[d][f]
               /\ owner'[d] \notin overlapped' => Have(fac'[d][f]) = paid'[d][f]
    <3>1. d # c
        BY <1>4, <1>5, <2>1 DEF Untouched
    <3> QED BY <1>4, <2>1, <3>1, PaidMeans DEF Ledger
  <2> QED BY <2>1, PaidMeansNext
<1> QED BY <1>6, <1>7, <1>8, <1>10, <1>11 DEF Ledger

LEMMA LedgerLooks ==
    ASSUME IInv, Ledger, NEW x \in Conn, Others(x), NEW c \in City, NEW f \in Fac, UpLooks(x, c, f)
    PROVE  Ledger'
<1> DEFINE l == Settled(fac[c][f])
           snap == [fac[c] EXCEPT ![f] = l]
           q == [Idle EXCEPT !.op = "up", !.city = c, !.fac = f, !.seen = res[in[x]],
                             !.delta = [k \in Kind |-> - Need[f][k]], !.snap = snap]
<1>0. TypeOK /\ fac[c] \in [Fac -> Level]
    BY DEF IInv, GeneralTypeOK, TypeOK
<1>1. Looks(x, q) /\ owner[c] = in[x] /\ facRow[c] # "none" /\ l.up = 0
    BY DEF UpLooks
<1>2. UNCHANGED <<now, in, owner, fac, facRow, paid>>
    BY DEF UpLooks, world, cities
<1>3. q.op = "up" /\ q.city = c /\ q.fac = f /\ q.snap = snap
    BY DEF Idle
<1>4. ASSUME NEW g \in Fac
      PROVE  Fresh(snap[g], fac[c][g]) /\ Have(snap[g]) = Have(fac[c][g])
  <2>1. snap[g] = IF g = f THEN l ELSE fac[c][g]
      BY <1>0
  <2>2. fac[c][g] \in Level /\ Have(Settled(fac[c][g])) = Have(fac[c][g])
      BY <1>0, Settling
  <2> HIDE DEF snap
  <2> QED BY <1>1, <2>1, <2>2 DEF Fresh
<1>5. snap[f] = l
    BY <1>0
<1>b. PICK held : held = snap
    OBVIOUS
<1> HIDE DEF q, snap, l
<1>6. req' = [req EXCEPT ![x] = q] /\ overlapped \subseteq overlapped'
    BY <1>1 DEF Looks
<1>7. req'[x] = q /\ \A y \in Conn \ {x} : req'[y] = req[y]
    BY <1>0, <1>6, GoesTo
<1>8. \A d \in City : owner'[d] = NoRole => Untouched(d)'
    BY <1>2 DEF Ledger, Untouched
<1>9. ASSUME NEW y \in Conn \ {x} PROVE Founding(y)' /\ Building(y)'
  <2>1. req'[y] = req[y] /\ in'[y] = in[y] /\ Founding(y) /\ Building(y)
      BY <1>2, <1>7 DEF Ledger
  <2>2. Founding(y)'
      BY <1>2, <2>1 DEF Founding, Untouched, Serves
  <2>3. Building(y)'
    <3> SUFFICES ASSUME Serves(y, "up")' PROVE Building(y)'
        BY DEF Building
    <3> QED BY <1>2, <1>6, <2>1 DEF Building, Serves, Fresh, Settled, Have
  <2> QED BY <2>2, <2>3
<1>10. Founding(x)'
    BY <1>3, <1>7 DEF Founding, Serves
<1>11. Building(x)'
  <2>1. \A g \in Fac : Have(fac[c][g]) <= paid[c][g]
      BY <1>1, PaidMeans DEF Ledger
  <2>2. \A g \in Fac : Have(held[g]) <= paid[c][g] /\ Fresh(held[g], fac[c][g])
      BY <1>4, <1>b, <2>1
  <2>3. req'[x].city = c /\ req'[x].fac = f /\ req'[x].snap = held /\ held[f].up = 0
      BY <1>1, <1>3, <1>5, <1>7, <1>b
  <2> QED BY <1>1, <1>2, <2>2, <2>3 DEF Building, Have, Fresh, Settled
<1>12. \A y, z \in Conn : y # z /\ Serves(y, "makeFac")' /\ Serves(z, "makeFac")' =>
          req'[y].city # req'[z].city
    BY <1>3, <1>7 DEF Ledger, Serves
<1>13. LevelsPaid'
    BY <1>2, <1>6, PaidMeans, PaidMeansNext DEF Ledger
<1> QED BY <1>8, <1>9, <1>10, <1>11, <1>12, <1>13 DEF Ledger

\* The facilities of the city of a request, before and after they are written back.
LEMMA Written ==
    ASSUME IInv, Ledger, NEW x \in Conn, UpStores(x)
    PROVE  LET c == req[x].city
               f == req[x].fac
           IN  /\ c \in City /\ f \in Fac /\ in[x] \in Role
               /\ owner[c] = in[x] /\ facRow[c] # "none"
               /\ UNCHANGED <<now, in, owner, facRow, overlapped>>
               /\ \A d \in City \ {c} : fac'[d] = fac[d] /\ paid'[d] = paid[d]
               /\ paid'[c][f] = paid[c][f] + 1 /\ \A g \in Fac \ {f} : paid'[c][g] = paid[c][g]
               /\ \A g \in Fac : paid[c][g] \in Nat /\ fac[c][g] \in Level /\ req[x].snap[g] \in Level
               /\ \A g \in Fac \ {f} : fac'[c][g] = req[x].snap[g]
               /\ fac'[c][f] \in Level /\ fac'[c][f].lv = req[x].snap[f].lv /\ fac'[c][f].up = now
               /\ req[x].snap[f].up = 0
<1> DEFINE c == req[x].city
           f == req[x].fac
           snap == req[x].snap
           l == [snap[f] EXCEPT !.up = now]
           g1 == [snap EXCEPT ![f] = l]
<1>0. TypeOK /\ req[x] \in Request /\ Serves(x, "up") /\ now \in Nat
    BY DEF IInv, GeneralTypeOK, TypeOK, UpStores
<1>1. c \in City /\ f \in Fac /\ in[x] \in Role /\ owner[c] = in[x] /\ facRow[c] # "none"
      /\ snap[f].up = 0
    BY <1>0 DEF IInv, Sound, SoundOne, Busy, Serves, Ledger, Building
<1>2. snap \in [Fac -> Level] /\ fac \in [City -> [Fac -> Level]] /\ paid \in [City -> [Fac -> Nat]]
    BY <1>0 DEF Request, TypeOK
<1>3. UNCHANGED <<now, in, owner, facRow, overlapped>>
    BY DEF UpStores, world
<1>4. fac' = [fac EXCEPT ![c] = g1] /\ paid' = [paid EXCEPT ![c] = [paid[c] EXCEPT ![f] = @ + 1]]
    BY DEF UpStores
<1> HIDE DEF c, f, snap
<1>5. l \in Level /\ l.lv = snap[f].lv /\ l.up = now
    BY <1>0, <1>1, <1>2 DEF Level
<1> HIDE DEF l
<1>6. /\ \A d \in City \ {c} : fac'[d] = fac[d] /\ paid'[d] = paid[d]
      /\ paid'[c] = [paid[c] EXCEPT ![f] = @ + 1] /\ fac'[c] = g1
    BY <1>1, <1>2, <1>4
<1>7. paid[c] \in [Fac -> Nat] /\ fac[c] \in [Fac -> Level]
    BY <1>1, <1>2
<1>8. paid'[c][f] = paid[c][f] + 1 /\ \A g \in Fac \ {f} : paid'[c][g] = paid[c][g]
    BY <1>1, <1>6, <1>7
<1>9. g1[f] = l /\ \A g \in Fac \ {f} : g1[g] = snap[g]
    BY <1>1, <1>2
<1> HIDE DEF g1
<1> QED BY <1>1, <1>2, <1>3, <1>5, <1>6, <1>7, <1>8, <1>9 DEF c, f, snap

LEMMA LedgerStores ==
    ASSUME IInv, Single, Ledger, NEW x \in Conn, Others(x), UpStores(x)
    PROVE  Ledger'
<1> DEFINE c == req[x].city
           f == req[x].fac
           snap == req[x].snap
<1>0. TypeOK /\ Serves(x, "up") /\ Ends(x) /\ now \in Nat \ {0}
    BY DEF IInv, GeneralTypeOK, TypeOK, UpStores
<1>1. /\ c \in City /\ f \in Fac /\ in[x] \in Role
      /\ owner[c] = in[x] /\ facRow[c] # "none"
      /\ UNCHANGED <<now, in, owner, facRow, overlapped>>
      /\ \A d \in City \ {c} : fac'[d] = fac[d] /\ paid'[d] = paid[d]
      /\ paid'[c][f] = paid[c][f] + 1 /\ \A g \in Fac \ {f} : paid'[c][g] = paid[c][g]
      /\ \A g \in Fac : paid[c][g] \in Nat /\ fac[c][g] \in Level /\ snap[g] \in Level
      /\ \A g \in Fac \ {f} : fac'[c][g] = snap[g]
      /\ fac'[c][f] \in Level /\ fac'[c][f].lv = snap[f].lv /\ fac'[c][f].up = now
      /\ snap[f].up = 0
    BY Written
<1>2. /\ \A g \in Fac : Have(snap[g]) <= paid[c][g]
      /\ in[x] \notin overlapped => \A g \in Fac : Fresh(snap[g], fac[c][g])
    BY <1>0 DEF Ledger, Building
<1>3. req'[x] = Idle /\ Idle.op = "idle" /\ \A y \in Conn \ {x} : req'[y] = req[y]
    BY <1>0, GoesTo, Blanks
<1> HIDE DEF c, f, snap
<1>4. \A d \in City : owner'[d] = NoRole => Untouched(d)'
  <2>1. owner[c] # NoRole
      BY <1>1, EstateAssumption
  <2> QED BY <1>1, <2>1 DEF Ledger, Untouched
<1>5. ASSUME NEW y \in Conn PROVE Founding(y)' /\ Building(y)'
  <2>1. CASE y = x
      BY <1>3, <2>1 DEF Founding, Building, Serves
  <2>2. CASE y # x
    <3>1. req'[y] = req[y] /\ in'[y] = in[y] /\ Founding(y) /\ Building(y)
        BY <1>1, <1>3, <2>2 DEF Ledger
    <3>2. Founding(y)'
      <4> SUFFICES ASSUME Serves(y, "makeFac")' PROVE Founding(y)'
          BY DEF Founding
      <4>1. Serves(y, "makeFac") /\ req[y].city \in City
          BY <3>1 DEF Serves, IInv, Sound, SoundOne
      <4>2. req[y].city # c
          BY <1>1, <3>1, <4>1 DEF Founding, Untouched
      <4> QED BY <1>1, <3>1, <4>1, <4>2 DEF Founding, Untouched
    <3>3. Building(y)'
      <4> SUFFICES ASSUME Serves(y, "up")' PROVE Building(y)'
          BY DEF Building
      <4>1. Serves(y, "up") /\ req[y].city \in City /\ Busy(y) /\ Busy(x)
          BY <1>0, <3>1 DEF Serves, Busy, IInv, Sound, SoundOne
      <4>2. CASE req[y].city # c
          BY <1>1, <3>1, <4>1, <4>2 DEF Building, Fresh, Settled, Have
      <4>3. CASE req[y].city = c
        <5>1. in[y] = in[x]
            BY <1>1, <3>1, <4>1, <4>3 DEF Building
        <5>2. in[y] \in overlapped
            BY <2>2, <4>1, <5>1 DEF Single
        <5>3. ASSUME NEW g \in Fac PROVE Have(req[y].snap[g]) <= paid'[c][g]
          <6>1. Have(req[y].snap[g]) <= paid[c][g]
              BY <3>1, <4>1, <4>3 DEF Building
          <6>2. req[y].snap[g] \in Level
              BY <1>0 DEF TypeOK, Request
          <6>3. Have(req[y].snap[g]) \in Nat
              BY <6>2 DEF Have, Level
          <6>4. CASE g = f
              BY <1>1, <6>1, <6>3, <6>4
          <6>5. CASE g # f
              BY <1>1, <6>1, <6>5
          <6> QED BY <6>4, <6>5
        <5>4. owner'[c] = in[y] /\ facRow'[c] # "none" /\ req[y].snap[req[y].fac].up = 0
            BY <1>1, <3>1, <4>1, <4>3, <5>1 DEF Building
        <5> QED BY <1>1, <3>1, <4>3, <5>2, <5>3, <5>4 DEF Building, Have
      <4> QED BY <4>2, <4>3
    <3> QED BY <3>2, <3>3
  <2> QED BY <2>1, <2>2
<1>6. \A y, z \in Conn : y # z /\ Serves(y, "makeFac")' /\ Serves(z, "makeFac")' =>
          req'[y].city # req'[z].city
    BY <1>3 DEF Ledger, Serves
<1>7. LevelsPaid'
  <2>1. ASSUME NEW g \in Fac
        PROVE  /\ Have(fac'[c][g]) <= paid'[c][g]
               /\ owner'[c] \notin overlapped' => Have(fac'[c][g]) = paid'[c][g]
    <3>1. /\ Have(snap[g]) <= paid[c][g] /\ Have(snap[g]) \in Nat /\ paid[c][g] \in Nat
          /\ snap[g] \in Level
        BY <1>1, <1>2 DEF Have, Level
    <3>2. owner'[c] \notin overlapped' => Have(snap[g]) = paid[c][g]
      <4> SUFFICES ASSUME owner'[c] \notin overlapped' PROVE Have(snap[g]) = paid[c][g]
          OBVIOUS
      <4>1. in[x] \notin overlapped
          BY <1>1
      <4>2. Fresh(snap[g], fac[c][g])
          BY <1>2, <4>1
      <4>3. Have(snap[g]) = Have(fac[c][g])
          BY <1>0, <1>1, <4>2, Settling
      <4>4. Have(fac[c][g]) = paid[c][g]
          BY <1>1, <4>1, PaidMeans DEF Ledger
      <4> QED BY <4>3, <4>4
    <3>3. CASE g = f
      <4>1. Have(snap[f]) = snap[f].lv /\ Have(fac'[c][f]) = snap[f].lv + 1 /\ snap[f].lv \in Nat
          BY <1>0, <1>1, <3>1, <3>3 DEF Have, Level
      <4> QED BY <1>1, <3>1, <3>2, <3>3, <4>1
    <3>4. CASE g # f
        BY <1>1, <3>1, <3>2, <3>4
    <3> QED BY <3>3, <3>4
  <2>2. ASSUME NEW d \in City, NEW g \in Fac, facRow'[d] # "none"
        PROVE  /\ Have(fac'[d][g]) <= paid'[d][g]
               /\ owner'[d] \notin overlapped' => Have(fac'[d][g]) = paid'[d][g]
    <3>1. CASE d = c
        BY <2>1, <3>1
    <3>2. CASE d # c
        BY <1>1, <2>2, <3>2, PaidMeans DEF Ledger
    <3> QED BY <3>1, <3>2
  <2> QED BY <2>2, PaidMeansNext
<1> QED BY <1>4, <1>5, <1>6, <1>7 DEF Ledger

\* Nothing of all this changes.
LEMMA LedgerSame ==
    ASSUME Ledger, UNCHANGED <<now, in, req, owner, fac, facRow, paid, overlapped>>
    PROVE  Ledger'
<1>1. \A c \in City : owner'[c] = NoRole => Untouched(c)'
    BY DEF Ledger, Untouched
<1>2. ASSUME NEW x \in Conn PROVE Founding(x)' /\ Building(x)'
    BY DEF Ledger, Founding, Building, Untouched, Serves, Fresh, Settled, Have
<1>3. LevelsPaid'
    BY PaidMeans, PaidMeansNext DEF Ledger
<1> QED BY <1>1, <1>2, <1>3 DEF Ledger, Serves

\* An upgrade that is over stays over.
LEMMA LedgerTick ==
    ASSUME IInv, Ledger, Tick
    PROVE  Ledger'
<1>0. TypeOK /\ Sound
    BY DEF IInv, GeneralTypeOK
<1>1. UNCHANGED <<in, req, owner, fac, facRow, paid, overlapped>>
    BY DEF Tick, cities, history
<1>2. now \in Nat /\ now' = now + 1 /\ CostTime \in Nat
    BY <1>0, EstateAssumption DEF TypeOK, Tick
<1>3. ASSUME NEW seen, NEW l \in Level, Fresh(seen, l)
      PROVE  \/ seen = l
             \/ /\ seen = IF l.up > 0 /\ now' >= l.up + CostTime
                          THEN [lv |-> l.lv + 1, up |-> 0] ELSE l
                /\ seen.up = 0
  <2>1. l.up \in Nat
      BY DEF Level
  <2> QED BY <1>2, <1>3, <2>1 DEF Fresh, Settled
<1>4. \A c \in City : owner'[c] = NoRole => Untouched(c)'
    BY <1>1 DEF Ledger, Untouched
<1>5. ASSUME NEW x \in Conn PROVE Founding(x)' /\ Building(x)'
  <2>1. Founding(x)'
      BY <1>1 DEF Ledger, Founding, Untouched, Serves
  <2>2. Building(x)'
    <3> SUFFICES ASSUME Serves(x, "up")' PROVE Building(x)'
        BY DEF Building
    <3>1. Serves(x, "up") /\ Building(x)
        BY <1>1 DEF Serves, Ledger
    <3>2. PICK c \in City : c = req[x].city
        BY <1>0, <3>1 DEF Sound, SoundOne
    <3>3. \A g \in Fac : fac[c][g] \in Level
        BY <1>0 DEF TypeOK
    <3>4. in'[x] \notin overlapped' => \A g \in Fac : Fresh(req[x].snap[g], fac[c][g])
        BY <1>1, <3>1, <3>2 DEF Building
    <3>5. in'[x] \notin overlapped' => \A g \in Fac :
             \/ req[x].snap[g] = fac[c][g]
             \/ /\ req[x].snap[g] = IF fac[c][g].up > 0 /\ now' >= fac[c][g].up + CostTime
                                    THEN [lv |-> fac[c][g].lv + 1, up |-> 0] ELSE fac[c][g]
                /\ req[x].snap[g].up = 0
        BY <1>3, <3>3, <3>4
    <3> QED BY <1>1, <3>1, <3>2, <3>5 DEF Building, Fresh, Settled, Have
  <2> QED BY <2>1, <2>2
<1>6. LevelsPaid'
    BY <1>1, PaidMeans, PaidMeansNext DEF Ledger
<1> QED BY <1>1, <1>4, <1>5, <1>6 DEF Ledger, Serves

\* What has a row is as it was; what has none is as if it had never been.
LEMMA LedgerRestart ==
    ASSUME Ledger, Restart
    PROVE  Ledger'
<1>1. UNCHANGED <<owner, paid, overlapped>> /\ \A x \in Conn : req'[x] = Idle
    BY DEF Restart
<1>2. ASSUME NEW c \in City
      PROVE  /\ facRow[c] = "none" => facRow'[c] = "none"
             /\ facRow'[c] # "none" => facRow[c] # "none" /\ fac'[c] = fac[c]
             /\ facRow'[c] = "none" => fac'[c] = Built
    BY DEF Restart
<1>3. \A c \in City : owner'[c] = NoRole => Untouched(c)'
    BY <1>1, <1>2 DEF Ledger, Untouched
<1>4. LevelsPaid'
    BY <1>1, <1>2, PaidMeans, PaidMeansNext DEF Ledger
<1>5. \A x \in Conn : ~Serves(x, "makeFac")' /\ ~Serves(x, "up")'
    BY <1>1, Blanks DEF Serves
<1> QED BY <1>3, <1>4, <1>5 DEF Ledger, Founding, Building

LEMMA AtHomeLedger ==
    ASSUME IInv, Single, Ledger, GeneralTypeOK', AtHome
    PROVE  Ledger'
<1>0. TypeOK /\ UNCHANGED generalVars
    BY DEF IInv, GeneralTypeOK, AtHome
<1> USE DEF world, rows, cities, counters, history
<1>1. ASSUME NEW x \in Conn, Entering(x) PROVE Ledger'
  <2>1. Others(x)
      BY <1>0, <1>1, EnteringSound
  <2>2. CASE EnterNobody(x) \/ \E r \in Role : Create(x, r)
      BY <2>2, LedgerSame DEF EnterNobody, Create
  <2>3. CASE \E c \in City : MakeCity(x, c)
      BY <2>1, <2>3, LedgerCity
  <2>4. CASE MakeFac(x) \/ MakeFacFails(x)
      BY <2>1, <2>4, LedgerFounds
  <2>5. CASE \/ \E r \in Role : Enter(x, r)
             \/ MakeRes(x) \/ CheckAttr(x) \/ MakeAttr(x) \/ CheckCity(x) \/ EnterFails(x)
    <3>1. UNCHANGED <<now, owner, fac, facRow, paid>> /\ overlapped \subseteq overlapped'
        BY <2>5 DEF Enter, MakeRes, CheckAttr, MakeAttr, CheckCity, EnterFails, Fails
    <3>2. Ends(x) \/ \E op \in {"attr", "makeRes", "makeAttr", "city", "makeCity"} : Goes(x, op)
        BY <2>5 DEF Enter, MakeRes, CheckAttr, MakeAttr, CheckCity, EnterFails, Goes
    <3>3. req'[x].op \notin {"up", "makeFac"}
        BY <1>0, <3>2, GoesTo, OpsAreOp, Blanks
    <3> QED BY <2>1, <3>1, <3>3, LedgerOther
  <2> QED BY <1>1, <2>2, <2>3, <2>4, <2>5 DEF Entering
<1>2. ASSUME NEW x \in Conn, Managing(x) PROVE Ledger'
  <2>1. Others(x)
      BY <1>0, <1>2, ManagingSound
  <2>2. CASE CollectTooEarly(x)
      BY <2>2, LedgerSame DEF CollectTooEarly
  <2>3. CASE TransformPanics(x)
    <3>1. req'[x].op \notin {"up", "makeFac"} /\ UNCHANGED <<now, owner, fac, facRow, paid, overlapped>>
        BY <2>3 DEF TransformPanics, Busy
    <3> QED BY <2>1, <3>1, LedgerOther
  <2>4. CASE CollectStores(x) \/ TransformStores(x)
    <3>1. Ends(x) /\ UNCHANGED <<now, owner, fac, facRow, paid, overlapped>>
        BY <2>4 DEF CollectStores, TransformStores
    <3>2. req'[x].op \notin {"up", "makeFac"}
        BY <1>0, <3>1, GoesTo, Blanks
    <3> QED BY <2>1, <3>1, <3>2, LedgerOther
  <2>5. ASSUME NEW q, Looks(x, q), q.op \notin {"up", "makeFac"},
               UNCHANGED <<now, owner, fac, facRow, paid>>
        PROVE  Ledger'
    <3>1. req'[x] = q /\ overlapped \subseteq overlapped'
        BY <1>0, <2>5, GoesTo DEF Looks
    <3> QED BY <2>1, <2>5, <3>1, LedgerOther
  <2>6. ASSUME NEW c \in City, NEW f \in Fac, UpLooks(x, c, f) PROVE Ledger'
      BY <2>1, <2>6, LedgerLooks
  <2>7. CASE CollectLooks(x)
      BY <2>5, <2>7 DEF CollectLooks, Idle
  <2>8. ASSUME NEW give \in [Goods -> Amounts], TransformLooks(x, give) PROVE Ledger'
      BY <2>5, <2>8 DEF TransformLooks, Idle
  <2>9. CASE UpStores(x)
      BY <2>1, <2>9, LedgerStores
  <2> QED BY <1>2, <2>2, <2>3, <2>4, <2>6, <2>7, <2>8, <2>9 DEF Managing
<1>3. ASSUME Producing PROVE Ledger'
    BY <1>3, LedgerSame DEF Producing, ProduceBegins, ProduceLooks, ProduceStores
<1> QED BY <1>1, <1>2, <1>3, LedgerTick DEF AtHome

\* The facilities are not the business of generals.
LEMMA CommandingKeeps ==
    ASSUME IInv, NEW x \in Conn, Commanding(x)
    PROVE  /\ UNCHANGED <<now, owner, fac, facRow, paid>> /\ overlapped \subseteq overlapped'
           /\ req'[x].op \notin {"up", "makeFac"}
<1>0. TypeOK
    BY DEF IInv, GeneralTypeOK
<1>1. CASE \/ MyLooks(x) \/ (\E n \in DrawTimes : DrawLooks(x, n))
           \/ (\E g \in Gen, eaten \in SUBSET Gen : ComposeLooks(x, g, eaten))
           \/ (\E sold \in SUBSET Gen \ {{}} : ConvertLooks(x, sold))
           \/ (\E op \in {"up", "down"}, g \in Gen, s \in SkillCfg, p \in SkillSlot :
                  SkillLooks(x, op, g, s, p))
           \/ (\E g \in Gen, o \in Order, p \in Place : PlaceLooks(x, g, o, p))
           \/ (\E g \in Gen, o \in Order : TakeOutLooks(x, g, o))
  <2>1. PICK op \in Op \ {"up", "makeFac"} : \E about : Begins(x, op, about)
      BY <1>1 DEF MyLooks, DrawLooks, ComposeLooks, ConvertLooks, SkillLooks, PlaceLooks,
                  TakeOutLooks, Op
  <2>2. req' = [req EXCEPT ![x] = [Idle EXCEPT !.op = op]]
      BY <2>1 DEF Begins, Looks
  <2>3. req'[x].op = op
      BY <1>0, <2>2, GoesTo, PlainRecord
  <2> QED BY <2>1, <2>3 DEF Begins, Looks, LooksOnly, world, cities
<1>2. CASE \/ MyMakes(x) \/ DrawMakes(x) \/ DrawPays(x) \/ ComposeStores(x) \/ ConvertStores(x)
           \/ MakeSkill(x) \/ UpSkillStores(x) \/ DownSkillStores(x) \/ PlaceStores(x)
           \/ TakeOutStores(x)
  <2>1. UNCHANGED <<now, owner, fac, facRow, paid, overlapped>>
      BY <1>2 DEF MyMakes, DrawMakes, DrawPays, ComposeStores, ConvertStores, MakeSkill,
                  UpSkillStores, DownSkillStores, PlaceStores, TakeOutStores, HomeKept, world,
                  cities
  <2>2. \/ Ends(x) \/ (\E op \in {"upSkill", "downSkill"} : Goes(x, op))
        \/ \E q : q.op = "drawPay" /\ req' = [req EXCEPT ![x] = q]
    <3>1. CASE ~DrawMakes(x)
        BY <1>2, <3>1 DEF MyMakes, DrawPays, ComposeStores, ConvertStores, MakeSkill,
                  UpSkillStores, DownSkillStores, PlaceStores, TakeOutStores, Done
    <3>2. CASE DrawMakes(x)
      <4> DEFINE q == [req[x] EXCEPT !.op = "drawPay", !.seen = res[in[x]]]
      <4>1. q.op = "drawPay"
          BY <1>0 DEF TypeOK, Request
      <4>2. Done(x) \/ req' = [req EXCEPT ![x] = q]
          BY <3>2 DEF DrawMakes
      <4> QED BY <4>1, <4>2 DEF Done
    <3> QED BY <3>1, <3>2
  <2>3. req'[x].op \notin {"up", "makeFac"}
      BY <1>0, <2>2, GoesTo, Blanks DEF Op
  <2> QED BY <2>1, <2>3
<1> QED BY <1>1, <1>2 DEF Commanding

LEMMA LedgerInductive == PurseInv /\ Ledger /\ [GeneralNext]_allVars => Ledger'
<1> SUFFICES ASSUME PurseInv, Ledger, [GeneralNext]_allVars PROVE Ledger'
    OBVIOUS
<1>1. IInv /\ Single /\ GeneralTypeOK'
    BY PurseInductive DEF PurseInv, IInv
<1>2. CASE UNCHANGED allVars
    BY <1>2, LedgerSame DEF allVars, estateVars, world, cities, history
<1>3. ASSUME NEW x \in Conn, Commanding(x) PROVE Ledger'
  <2>1. Others(x)
      BY <1>1, <1>3, CommandingInductive
  <2> QED BY <1>1, <1>3, <2>1, CommandingKeeps, LedgerOther
<1>4. CASE GeneralRestart
    BY <1>4, LedgerRestart DEF GeneralRestart
<1> QED BY <1>1, <1>2, <1>3, <1>4, AtHomeLedger DEF GeneralNext

LEMMA LedgerInit == GeneralInit => Ledger
<1> SUFFICES ASSUME GeneralInit PROVE Ledger
    OBVIOUS
<1>1. \A c \in City : Untouched(c) /\ facRow[c] = "none"
    BY DEF GeneralInit, Init, Untouched
<1>2. \A x \in Conn : ~Serves(x, "makeFac") /\ ~Serves(x, "up")
    BY Blanks DEF GeneralInit, Init, Serves
<1>3. LevelsPaid
    BY <1>1, PaidMeans
<1> QED BY <1>1, <1>2, <1>3 DEF Ledger, Founding, Building

\* The levels of a city's facilities are those paid for, no more, and no less
\* for a role whose requests come one at a time, however long nobody looks at
\* an upgrade that is over, and through any number of new starts.
THEOREM LevelsArePaid == GeneralSpec => []LevelsPaid
<1>1. Ledger => LevelsPaid
    BY DEF Ledger
<1>2. PurseInv /\ Ledger /\ [GeneralNext]_allVars => (PurseInv /\ Ledger)'
    BY PurseInductive, LedgerInductive
<1>3. GeneralInit => PurseInv /\ Ledger
    BY PurseInit, LedgerInit
<1> QED BY <1>1, <1>2, <1>3, PTL DEF GeneralSpec

\* In all steps but these three facilities and time stay as they are.
LEMMA FacKept ==
    ASSUME IInv, [GeneralNext]_allVars, ~Tick, ~GeneralRestart, \A x \in Conn : ~UpStores(x)
    PROVE  UNCHANGED <<now, fac>>
<1> USE DEF world, rows, cities, counters, history
<1>1. ASSUME NEW x \in Conn, Entering(x) PROVE UNCHANGED <<now, fac>>
    BY <1>1 DEF Entering, EnterNobody, Create, Enter, MakeRes, CheckAttr, MakeAttr, CheckCity,
                MakeCity, EnterFails, MakeFac, MakeFacFails, Fails
<1>2. ASSUME NEW x \in Conn, Managing(x) PROVE UNCHANGED <<now, fac>>
    BY <1>2 DEF Managing, UpLooks, CollectLooks, CollectTooEarly, CollectStores, TransformLooks,
                TransformStores, TransformPanics
<1>3. ASSUME Producing PROVE UNCHANGED <<now, fac>>
    BY <1>3 DEF Producing, ProduceBegins, ProduceLooks, ProduceStores
<1>4. ASSUME UNCHANGED allVars PROVE UNCHANGED <<now, fac>>
    BY <1>4 DEF allVars, estateVars
<1> QED BY <1>1, <1>2, <1>3, <1>4, CommandingKeeps DEF GeneralNext, AtHome

\* A level that was reached is never lost, neither by the next upgrade, which
\* writes back what the request read of every facility of the city, nor by
\* time, nor by a new start for a city whose facilities have a row.
THEOREM LevelsStay == GeneralSpec => LevelsKept
<1>1. ASSUME PurseInv, Ledger, [GeneralNext]_allVars, NEW c \in City, NEW f \in Fac,
             facRow'[c] # "none", owner[c] \notin overlapped'
      PROVE  GetLevel(fac[c][f])' >= GetLevel(fac[c][f])
  <2>1. IInv /\ TypeOK /\ fac[c] \in [Fac -> Level] /\ now \in Nat /\ CostTime \in Nat
      BY <1>1, EstateAssumption DEF PurseInv, IInv, GeneralTypeOK, TypeOK
  <2>2. fac[c][f] \in Level /\ GetLevel(fac[c][f]) \in Nat
      BY <2>1, Settling
  <2>3. now' = now => GetLevel(fac[c][f])' = GetLevel(fac'[c][f])
      BY DEF GetLevel, Settled
  <2>4. CASE UNCHANGED <<now, fac>>
      BY <2>2, <2>3, <2>4
  <2>5. CASE Tick
    <3>1. fac' = fac /\ now' = now + 1
        BY <2>5 DEF Tick, cities
    <3>2. fac[c][f].lv \in Nat /\ fac[c][f].up \in Nat
        BY <2>2 DEF Level
    <3> QED BY <2>1, <3>1, <3>2 DEF GetLevel, Settled
  <2>6. CASE GeneralRestart
    <3>1. fac'[c] = fac[c] /\ now' = now
        BY <1>1, <2>6 DEF GeneralRestart, Restart
    <3> QED BY <2>2, <2>3, <3>1
  <2>7. ASSUME NEW x \in Conn, UpStores(x)
        PROVE  GetLevel(fac[c][f])' >= GetLevel(fac[c][f])
    <3> DEFINE snap == req[x].snap
               g == req[x].fac
    <3>1. now' = now /\ overlapped' = overlapped
        BY <1>1, <2>1, <2>7, Written
    <3>2. CASE c # req[x].city
      <4>1. fac'[c] = fac[c]
          BY <1>1, <2>1, <2>7, <3>2, Written
      <4> QED BY <2>2, <2>3, <3>1, <4>1
    <3>3. CASE c = req[x].city
      <4>1. /\ owner[c] = in[x] /\ snap[f] \in Level /\ snap[g].up = 0
            /\ f # g => fac'[c][f] = snap[f]
            /\ f = g => fac'[c][f] \in Level /\ fac'[c][f].lv = snap[f].lv
          BY <1>1, <2>1, <2>7, <3>3, Written
      <4>2. Fresh(snap[f], fac[c][f])
        <5>1. Serves(x, "up") /\ in[x] \notin overlapped
            BY <1>1, <2>7, <3>1, <4>1 DEF UpStores
        <5> QED BY <1>1, <3>3, <5>1 DEF Ledger, Building
      <4>3. /\ GetLevel(snap[f]) >= GetLevel(fac[c][f])
            /\ snap[f].up = 0 => snap[f].lv >= GetLevel(fac[c][f])
          BY <2>1, <2>2, <4>1, <4>2, Settling
      <4>4. CASE f # g
        <5>1. GetLevel(fac'[c][f]) = GetLevel(snap[f])
            BY <4>1, <4>4
        <5> QED BY <2>3, <3>1, <4>3, <5>1
      <4>5. CASE f = g
        <5>1. GetLevel(fac'[c][f]) \in Nat /\ GetLevel(fac'[c][f]) >= fac'[c][f].lv
              /\ fac'[c][f].lv \in Nat
            BY <2>1, <4>1, <4>5, Settling DEF Level
        <5>3. snap[f].up = 0
            BY <4>1, <4>5
        <5>2. fac'[c][f].lv >= GetLevel(fac[c][f])
            BY <4>1, <4>3, <4>5, <5>3
        <5> QED BY <2>2, <2>3, <3>1, <5>1, <5>2
      <4> QED BY <4>4, <4>5
    <3> QED BY <3>2, <3>3
  <2> QED BY <1>1, <2>1, <2>4, <2>5, <2>6, <2>7, FacKept
<1>2. PurseInv /\ Ledger /\ [GeneralNext]_allVars =>
          [\A c \in City, f \in Fac :
              facRow'[c] # "none" /\ owner[c] \notin overlapped' =>
                  GetLevel(fac[c][f])' >= GetLevel(fac[c][f])]_estateVars
    BY <1>1
<1>3. PurseInv /\ Ledger /\ [GeneralNext]_allVars => (PurseInv /\ Ledger)'
    BY PurseInductive, LedgerInductive
<1>4. GeneralInit => PurseInv /\ Ledger
    BY PurseInit, LedgerInit
<1> QED BY <1>2, <1>3, <1>4, PTL DEF GeneralSpec, LevelsKept

(***************************************************************************)
(* Entering.  What the stages of enterServer have found or made is there   *)
(* at the next ones, and nobody but the connection that makes a city is    *)
(* about to give it its facilities.                                        *)
(***************************************************************************)
Staged(x) ==
    /\ req[x].op \in {"attr", "makeAttr", "city", "makeCity", "makeFac"} => in[x] \in resRow
    /\ req[x].op \in {"city", "makeCity", "makeFac"} => cur[in[x]] # 0
    /\ Serves(x, "makeFac") => owner[req[x].city] = in[x]
    /\ in[x] \notin overlapped /\ req[x].op \in {"makeCity", "makeFac"} => in[x] \notin entered
    /\ in[x] \notin overlapped /\ Serves(x, "makeCity") => \A c \in City : owner[c] # in[x]

Housed(r) ==
    /\ r \in entered => r \in resRow /\ cur[r] # 0 /\ \E c \in City : owner[c] = r
    /\ r \notin overlapped => \A c, d \in City : owner[c] = r /\ owner[d] = r => c = d

Founded(c) == owner[c] # NoRole =>
    \/ facRow[c] = "saved" \/ owner[c] \in cut
    \/ \E x \in Conn : Serves(x, "makeFac") /\ req[x].city = c

Complete ==
    /\ \A x \in Conn : Staged(x)
    /\ \A r \in Role : Housed(r)
    /\ \A c \in City : Founded(c)

LEMMA CompleteMeans == ASSUME IInv, Complete PROVE EntryComplete
<1> SUFFICES ASSUME NEW r \in entered \ (overlapped \cup cut)
             PROVE  /\ r \in resRow /\ cur[r] # 0
                    /\ \E c \in City : CitiesOf(r) = {c} /\ facRow[c] = "saved"
    BY DEF EntryComplete
<1>1. r \in Role
    BY DEF IInv, GeneralTypeOK, TypeOK
<1>2. r \in resRow /\ cur[r] # 0
    BY <1>1 DEF Complete, Housed
<1>3. PICK c \in City : owner[c] = r
    BY <1>1 DEF Complete, Housed
<1>4. CitiesOf(r) = {c}
    BY <1>1, <1>3 DEF Complete, Housed, CitiesOf
<1>5. ASSUME NEW x \in Conn, Serves(x, "makeFac"), req[x].city = c PROVE FALSE
    BY <1>3, <1>5 DEF Complete, Staged, Serves
<1>6. facRow[c] = "saved"
    BY <1>1, <1>3, <1>5, EstateAssumption DEF Complete, Founded
<1> QED BY <1>2, <1>4, <1>6

\* A step of x while it serves r, or one that begins: the others know what they knew.
LEMMA StageStep ==
    ASSUME IInv, Single, Complete, NEW x \in Conn, NEW r \in Role, Others(x),
           overlapped \subseteq overlapped', resRow \subseteq resRow', cut \subseteq cut',
           entered \subseteq entered', entered' \subseteq entered \cup {r},
           \A c \in City : owner'[c] = owner[c] \/ (owner[c] = NoRole /\ owner'[c] = r),
           \A c \in City : facRow[c] = "saved" =>
               facRow'[c] = "saved" \/ (Serves(x, "makeFac") /\ req[x].city = c),
           (Busy(x) /\ in[x] = r) \/ UNCHANGED <<owner, entered>>,
           Staged(x)', Housed(r)',
           \A c \in City : (owner'[c] # owner[c]) \/ (Serves(x, "makeFac") /\ req[x].city = c) =>
               Founded(c)'
    PROVE  Complete'
<1>1. ASSUME NEW y \in Conn PROVE Staged(y)'
  <2>1. CASE y = x
      BY <2>1
  <2>2. CASE y # x
    <3>1. in'[y] = in[y] /\ req'[y] = req[y] /\ Staged(y) /\ SoundOne(y)
        BY <2>2 DEF Others, Complete, IInv, Sound
    <3>2. Busy(y) => in[y] \in Role
        BY <3>1 DEF SoundOne
    <3>3. Busy(y) /\ in[y] \notin overlapped' => in[y] # r \/ UNCHANGED <<owner, entered>>
        BY <2>2 DEF Single
    <3>4. req'[y].op \in {"city", "makeCity", "makeFac"} => cur'[in'[y]] # 0
        BY <3>1, <3>2 DEF Staged, Others, Busy
    <3>5. Serves(y, "makeFac")' => owner'[req'[y].city] = in'[y]
      <4>1. Serves(y, "makeFac") => in[y] \in Role /\ req[y].city \in City
          BY <3>1, <3>2 DEF SoundOne, Serves, Busy
      <4> QED BY <3>1, <4>1, EstateAssumption DEF Staged, Serves
    <3>6. in'[y] \notin overlapped' /\ req'[y].op \in {"makeCity", "makeFac"} => in'[y] \notin entered'
        BY <3>1, <3>3 DEF Staged, Busy
    <3>7. in'[y] \notin overlapped' /\ Serves(y, "makeCity")' => \A c \in City : owner'[c] # in'[y]
        BY <3>1, <3>3 DEF Staged, Busy, Serves
    <3> QED BY <3>1, <3>4, <3>5, <3>6, <3>7 DEF Staged
  <2> QED BY <2>1, <2>2
<1>2. ASSUME NEW p \in Role PROVE Housed(p)'
  <2>1. CASE p = r
      BY <2>1
  <2>2. CASE p # r
    <3>1. \A c \in City : owner'[c] = p <=> owner[c] = p
        BY <2>2, EstateAssumption
    <3>2. Housed(p)
        BY DEF Complete
    <3> QED BY <2>2, <3>1, <3>2 DEF Housed, Others
  <2> QED BY <2>1, <2>2
<1>3. ASSUME NEW c \in City PROVE Founded(c)'
  <2>1. CASE owner'[c] # owner[c] \/ (Serves(x, "makeFac") /\ req[x].city = c)
      BY <2>1
  <2>2. CASE owner'[c] = owner[c] /\ ~(Serves(x, "makeFac") /\ req[x].city = c)
    <3>1. Founded(c)
        BY DEF Complete
    <3> QED BY <2>2, <3>1 DEF Founded, Others, Serves
  <2> QED BY <2>1, <2>2
<1> QED BY <1>1, <1>2, <1>3 DEF Complete

\* One of another kind.
LEMMA StageOther ==
    ASSUME IInv, Single, Complete, NEW x \in Conn, Others(x), overlapped \subseteq overlapped',
           UNCHANGED <<resRow, owner, facRow, entered, cut>>, ~Serves(x, "makeFac"),
           Staged(x)'
    PROVE  Complete'
<1>1. ASSUME NEW r \in Role PROVE Housed(r)'
    BY DEF Complete, Housed, Others
<1>2. CASE Role # {}
  <2>1. PICK r \in Role : TRUE
      BY <1>2
  <2> QED BY <1>1, StageStep
<1>3. CASE Role = {}
  <2>1. \A c \in City : Founded(c)'
      BY DEF Complete, Founded, Others, Serves
  <2>2. ASSUME NEW y \in Conn PROVE Staged(y)'
    <3>1. y # x => ~Busy(y) /\ req'[y] = req[y]
        BY <1>3 DEF IInv, Sound, SoundOne, Others
    <3> QED BY <3>1 DEF Staged, Busy, Serves
  <2> QED BY <1>1, <2>1, <2>2 DEF Complete
<1> QED BY <1>2, <1>3

Stages == {"makeRes", "attr", "makeAttr", "city", "makeCity", "makeFac"}

\* What is no stage knows nothing of entering.
LEMMA StagedNot == ASSUME NEW x, req'[x].op \notin Stages PROVE Staged(x)'
BY DEF Staged, Stages, Serves

\* The steps of entering.
LEMMA EnteringComplete ==
    ASSUME IInv, Single, Complete, GeneralTypeOK', NEW x \in Conn, Entering(x), UNCHANGED generalVars
    PROVE  Complete'
<1>0. TypeOK /\ TypeOK' /\ Others(x) /\ Staged(x) /\ SoundOne(x)
    BY EnteringSound DEF IInv, GeneralTypeOK, Complete, Sound
<1>a. Busy(x) => in[x] \in Role
    BY <1>0 DEF SoundOne
<1>b. \A r \in Role : Housed(r)
    BY DEF Complete
<1> USE DEF world, rows, cities, counters, history
<1>1. CASE EnterNobody(x) \/ \E r \in Role : Create(x, r)
  <2>1. UNCHANGED <<req, in, resRow, cur, owner, facRow, entered, cut, overlapped>> /\ ~Busy(x)
      BY <1>1 DEF EnterNobody, Create
  <2>2. Staged(x)'
      BY <1>0, <2>1 DEF Staged, Serves
  <2> QED BY <1>0, <2>1, <2>2, StageOther DEF Serves, Busy
<1>2. ASSUME NEW r \in Role, Enter(x, r) PROVE Complete'
  <2>1. /\ UNCHANGED <<resRow, cur, owner, facRow, entered, cut>> /\ ~Serves(x, "makeFac")
        /\ overlapped \subseteq overlapped' /\ in'[x] = r
        /\ Goes(x, IF r \in resRow THEN "attr" ELSE "makeRes")
      BY <1>0, <1>2 DEF Enter, Busy, Serves, TypeOK, Goes
  <2>2. req'[x].op = (IF r \in resRow THEN "attr" ELSE "makeRes")
      BY <1>0, <2>1, GoesTo, OpsAreOp
  <2>3. Staged(x)'
      BY <2>1, <2>2 DEF Staged, Serves
  <2> QED BY <1>0, <2>1, <2>3, StageOther
<1>3. CASE MakeRes(x)
  <2>r. PICK r \in Role : r = in[x] /\ Busy(x)
      BY <1>3, <1>a DEF MakeRes, Serves, Busy
  <2>1. /\ Serves(x, "makeRes") /\ r \in Role /\ Busy(x) /\ resRow \subseteq resRow'
        /\ UNCHANGED <<in, owner, facRow, entered, cut, cur, overlapped>>
        /\ Ends(x) \/ (Goes(x, "attr") /\ r \in resRow')
      BY <2>r, <1>3, <1>a DEF MakeRes, Serves, Busy
  <2>2. req'[x] = Idle \/ (req'[x].op = "attr" /\ r \in resRow')
      BY <1>0, <2>r, <2>1, GoesTo, OpsAreOp
  <2>3. Staged(x)'
      BY <2>r, <2>1, <2>2, Blanks DEF Staged, Serves
  <2>4. Housed(r)'
      BY <1>b, <2>1 DEF Housed
  <2> QED BY <1>0, <2>r, <2>1, <2>3, <2>4, StageStep DEF Serves
<1>4. CASE CheckAttr(x)
  <2>1. /\ Serves(x, "attr") /\ Goes(x, IF cur[in[x]] = 0 THEN "makeAttr" ELSE "city")
        /\ UNCHANGED <<in, resRow, cur, owner, facRow, entered, cut, overlapped>>
      BY <1>4 DEF CheckAttr
  <2>2. req'[x].op = (IF cur[in[x]] = 0 THEN "makeAttr" ELSE "city")
      BY <1>0, <2>1, GoesTo, OpsAreOp
  <2>3. Staged(x)'
      BY <1>0, <2>1, <2>2 DEF Staged, Serves
  <2> QED BY <1>0, <2>1, <2>3, StageOther DEF Serves
<1>5. CASE MakeAttr(x)
  <2>1. /\ Serves(x, "makeAttr") /\ Goes(x, "city") /\ in[x] \in Role
        /\ UNCHANGED <<in, resRow, owner, facRow, entered, cut, overlapped>>
        /\ cur' = [cur EXCEPT ![in[x]] = Len(attrRows[in[x]]) + 1]
      BY <1>5, <1>a DEF MakeAttr, Busy, Serves
  <2>2. req'[x].op = "city"
      BY <1>0, <2>1, GoesTo, OpsAreOp
  <2>3. cur'[in[x]] # 0
      BY <1>0, <2>1 DEF TypeOK
  <2>4. Staged(x)'
      BY <1>0, <2>1, <2>2, <2>3 DEF Staged, Serves
  <2> QED BY <1>0, <2>1, <2>4, StageOther DEF Serves
<1>6. CASE CheckCity(x)
  <2>r. PICK r \in Role : r = in[x] /\ Busy(x)
      BY <1>6, <1>a DEF CheckCity, Serves, Busy
  <2>1. /\ Serves(x, "city") /\ r \in Role /\ Busy(x)
        /\ UNCHANGED <<in, resRow, owner, facRow, cut, cur, overlapped>>
        /\ \/ Goes(x, "makeCity") /\ CitiesOf(r) = {} /\ entered' = entered
           \/ Ends(x) /\ CitiesOf(r) # {} /\ entered' = entered \cup {r}
      BY <2>r, <1>6, <1>a DEF CheckCity, Serves, Busy
  <2>2. r \in resRow /\ cur[r] # 0
      BY <2>r, <1>0, <2>1 DEF Staged, Serves
  <2>3. CASE Goes(x, "makeCity") /\ CitiesOf(r) = {} /\ entered' = entered
    <3>1. req'[x].op = "makeCity"
        BY <1>0, <2>3, GoesTo, OpsAreOp
    <3>2. \A c \in City : owner[c] # r
        BY <2>3 DEF CitiesOf
    <3>3. r \notin entered
        BY <1>b, <2>r, <2>1, <3>2 DEF Housed
    <3>4. Staged(x)'
        BY <2>r, <2>1, <2>2, <2>3, <3>1, <3>2, <3>3 DEF Staged, Serves
    <3> QED BY <1>0, <2>r, <2>1, <2>3, <3>4, StageOther DEF Serves
  <2>4. CASE Ends(x) /\ CitiesOf(r) # {} /\ entered' = entered \cup {r}
    <3>1. Staged(x)'
        BY <1>0, <2>4, GoesTo, Blanks DEF Staged, Serves
    <3>2. \E c \in City : owner[c] = r
        BY <2>4 DEF CitiesOf
    <3>3. Housed(r)'
        BY <1>b, <2>r, <2>1, <2>2, <3>2 DEF Housed
    <3> QED BY <1>0, <2>r, <2>1, <2>4, <3>1, <3>3, StageStep DEF Serves
  <2> QED BY <2>r, <2>1, <2>3, <2>4
<1>7. ASSUME NEW c \in City, MakeCity(x, c) PROVE Complete'
  <2>r. PICK r \in Role : r = in[x] /\ Busy(x)
      BY <1>7, <1>a DEF MakeCity, Serves, Busy
  <2> DEFINE q == [req[x] EXCEPT !.op = "makeFac", !.city = c]
  <2>0. q.op = "makeFac" /\ q.city = c
      BY <1>0 DEF TypeOK, Request
  <2>1. /\ Serves(x, "makeCity") /\ r \in Role /\ Busy(x) /\ owner[c] = NoRole
        /\ UNCHANGED <<in, resRow, facRow, cut, cur, entered, overlapped>>
        /\ req' = [req EXCEPT ![x] = q]
        /\ owner' = [owner EXCEPT ![c] = r]
      BY <2>r, <1>7, <1>a DEF MakeCity, Serves, Busy
  <2>2. owner'[c] = r /\ \A d \in City \ {c} : owner'[d] = owner[d]
      BY <1>0, <2>1 DEF TypeOK
  <2> HIDE DEF q
  <2>3. req'[x] = q
      BY <1>0, <2>r, <2>1, GoesTo
  <2>4. Staged(x)'
      BY <1>0, <2>0, <2>r, <2>1, <2>2, <2>3 DEF Staged, Serves
  <2>5. Housed(r)'
    <3>1. r \notin overlapped => \A d \in City : owner[d] # r
        BY <2>r, <1>0, <2>1 DEF Staged
    <3>2. r \in entered => r \in resRow /\ cur[r] # 0
        BY <1>b, <2>1 DEF Housed
    <3> QED BY <2>r, <2>1, <2>2, <3>1, <3>2 DEF Housed
  <2>6. Founded(c)'
      BY <2>0, <2>3 DEF Founded, Serves
  <2>7. \A d \in City : owner'[d] # owner[d] \/ (Serves(x, "makeFac") /\ req[x].city = d) => d = c
      BY <2>r, <2>1, <2>2 DEF Serves
  <2> QED BY <1>0, <2>r, <2>1, <2>2, <2>4, <2>5, <2>6, <2>7, StageStep
<1>8. CASE EnterFails(x)
  <2>1. /\ ~Serves(x, "makeFac") /\ Ends(x)
        /\ UNCHANGED <<in, resRow, cur, owner, facRow, entered, cut, overlapped>>
      BY <1>8 DEF EnterFails, Fails, Serves
  <2>2. Staged(x)'
      BY <1>0, <2>1, GoesTo, Blanks DEF Staged, Serves
  <2> QED BY <1>0, <2>1, <2>2, StageOther
<1>9. CASE MakeFac(x) \/ MakeFacFails(x)
  <2>r. PICK r \in Role : r = in[x] /\ Busy(x)
      BY <1>9, <1>a DEF MakeFac, MakeFacFails, Serves, Busy
  <2>c. PICK c \in City : c = req[x].city
      BY <1>0, <1>9 DEF MakeFac, MakeFacFails, SoundOne
  <2>1. /\ Serves(x, "makeFac") /\ r \in Role /\ Busy(x) /\ Ends(x) /\ c \in City
        /\ UNCHANGED <<in, resRow, owner, cur, overlapped>>
        /\ entered' = entered \cup {r} /\ cut \subseteq cut'
      BY <2>r, <2>c, <1>0, <1>9, <1>a DEF MakeFac, MakeFacFails, Fails, Serves, Busy, SoundOne
  <2>2. owner[c] = r /\ r \in resRow /\ cur[r] # 0
      BY <2>r, <2>c, <1>0, <2>1 DEF Staged, Serves
  <2>3. Staged(x)'
      BY <1>0, <2>r, <2>1, GoesTo, Blanks DEF Staged, Serves
  <2>4. Housed(r)'
      BY <1>b, <2>r, <2>1, <2>2 DEF Housed
  <2>5. facRow'[c] = "saved" \/ r \in cut'
      BY <2>r, <2>c, <1>0, <1>9, <2>1 DEF MakeFac, MakeFacFails, TypeOK
  <2>6. \A d \in City : facRow[d] = "saved" => facRow'[d] = "saved" \/ d = c
      BY <2>r, <2>c, <1>0, <1>9, <2>1 DEF MakeFac, MakeFacFails, TypeOK
  <2>7. Founded(c)'
      BY <2>r, <2>1, <2>2, <2>5 DEF Founded
  <2> QED BY <1>0, <2>r, <2>c, <2>1, <2>3, <2>4, <2>6, <2>7, StageStep DEF Serves
<1> QED BY <1>1, <1>2, <1>3, <1>4, <1>5, <1>6, <1>7, <1>8, <1>9 DEF Entering

\* Managing, and generals, are other requests.
LEMMA ManagingOther ==
    ASSUME IInv, NEW x \in Conn, Managing(x)
    PROVE  /\ UNCHANGED <<resRow, cur, owner, facRow, entered, cut>>
           /\ overlapped \subseteq overlapped' /\ ~Serves(x, "makeFac") /\ req'[x].op \notin Stages
<1>0. TypeOK
    BY DEF IInv, GeneralTypeOK
<1> USE DEF world, rows, cities, counters, history
<1>1. ASSUME NEW q, Looks(x, q), q.op \notin Stages
      PROVE  /\ overlapped \subseteq overlapped' /\ ~Serves(x, "makeFac")
             /\ req'[x].op \notin Stages
    BY <1>0, <1>1, GoesTo DEF Looks, Busy, Serves
<1>2. ASSUME NEW c \in City, NEW f \in Fac, UpLooks(x, c, f)
      PROVE  /\ UNCHANGED <<resRow, cur, owner, facRow, entered, cut>>
             /\ overlapped \subseteq overlapped' /\ ~Serves(x, "makeFac")
             /\ req'[x].op \notin Stages
    BY <1>1, <1>2 DEF UpLooks, Idle, Stages
<1>3. CASE CollectLooks(x)
    BY <1>1, <1>3 DEF CollectLooks, Idle, Stages
<1>4. ASSUME NEW give \in [Goods -> Amounts], TransformLooks(x, give)
      PROVE  /\ UNCHANGED <<resRow, cur, owner, facRow, entered, cut>>
             /\ overlapped \subseteq overlapped' /\ ~Serves(x, "makeFac")
             /\ req'[x].op \notin Stages
    BY <1>1, <1>4 DEF TransformLooks, Idle, Stages
<1>5. CASE CollectTooEarly(x) \/ TransformPanics(x)
    BY <1>5 DEF CollectTooEarly, TransformPanics, Busy, Serves, Stages
<1>6. CASE UpStores(x) \/ CollectStores(x) \/ TransformStores(x)
  <2>1. Ends(x) /\ ~Serves(x, "makeFac") /\ overlapped' = overlapped
        /\ UNCHANGED <<resRow, cur, owner, facRow, entered, cut>>
      BY <1>6 DEF UpStores, CollectStores, TransformStores, Serves
  <2>2. req'[x].op \notin Stages
      BY <1>0, <2>1, GoesTo, Blanks DEF Stages
  <2> QED BY <2>1, <2>2
<1> QED BY <1>2, <1>3, <1>4, <1>5, <1>6 DEF Managing

LEMMA CommandingOther ==
    ASSUME IInv, NEW x \in Conn, Commanding(x)
    PROVE  /\ UNCHANGED <<in, resRow, attrRows, cur, owner, facRow, entered, cut, now, collected>>
           /\ overlapped \subseteq overlapped' /\ req[x].op \notin Stages \cup {"collect"}
           /\ req'[x].op \notin Stages \cup {"collect"}
<1>0. TypeOK
    BY DEF IInv, GeneralTypeOK
<1>1. CASE \/ MyLooks(x) \/ (\E n \in DrawTimes : DrawLooks(x, n))
           \/ (\E g \in Gen, eaten \in SUBSET Gen : ComposeLooks(x, g, eaten))
           \/ (\E sold \in SUBSET Gen \ {{}} : ConvertLooks(x, sold))
           \/ (\E op \in {"up", "down"}, g \in Gen, s \in SkillCfg, p \in SkillSlot :
                  SkillLooks(x, op, g, s, p))
           \/ (\E g \in Gen, o \in Order, p \in Place : PlaceLooks(x, g, o, p))
           \/ (\E g \in Gen, o \in Order : TakeOutLooks(x, g, o))
  <2>1. PICK op \in Op \ (Stages \cup {"collect"}) : \E about : Begins(x, op, about)
      BY <1>1 DEF MyLooks, DrawLooks, ComposeLooks, ConvertLooks, SkillLooks, PlaceLooks,
                  TakeOutLooks, Op, Stages
  <2>2. req' = [req EXCEPT ![x] = [Idle EXCEPT !.op = op]] /\ ~Busy(x)
        /\ UNCHANGED <<in, resRow, attrRows, cur, owner, facRow, entered, cut, now, collected>>
        /\ overlapped \subseteq overlapped'
      BY <2>1 DEF Begins, Looks, LooksOnly, world, rows, cities
  <2>3. req'[x].op = op
      BY <1>0, <2>2, GoesTo, PlainRecord
  <2> QED BY <2>1, <2>2, <2>3 DEF Busy, Stages
<1>2. CASE \/ MyMakes(x) \/ DrawMakes(x) \/ DrawPays(x) \/ ComposeStores(x) \/ ConvertStores(x)
           \/ MakeSkill(x) \/ UpSkillStores(x) \/ DownSkillStores(x) \/ PlaceStores(x)
           \/ TakeOutStores(x)
  <2>1. /\ UNCHANGED <<in, resRow, attrRows, cur, owner, facRow, entered, cut, now, collected,
                       overlapped>>
        /\ req[x].op \notin Stages \cup {"collect"}
      BY <1>2 DEF MyMakes, DrawMakes, DrawPays, ComposeStores, ConvertStores, MakeSkill,
                  UpSkillStores, DownSkillStores, PlaceStores, TakeOutStores, HomeKept, world,
                  cities, Serves, Stages
  <2>2. \/ Ends(x) \/ (\E op \in {"upSkill", "downSkill"} : Goes(x, op))
        \/ \E q : q.op = "drawPay" /\ req' = [req EXCEPT ![x] = q]
    <3>1. CASE ~DrawMakes(x)
        BY <1>2, <3>1 DEF MyMakes, DrawPays, ComposeStores, ConvertStores, MakeSkill,
                  UpSkillStores, DownSkillStores, PlaceStores, TakeOutStores, Done
    <3>2. CASE DrawMakes(x)
      <4> DEFINE q == [req[x] EXCEPT !.op = "drawPay", !.seen = res[in[x]]]
      <4>1. q.op = "drawPay"
          BY <1>0 DEF TypeOK, Request
      <4>2. Done(x) \/ req' = [req EXCEPT ![x] = q]
          BY <3>2 DEF DrawMakes
      <4> QED BY <4>1, <4>2 DEF Done
    <3> QED BY <3>1, <3>2
  <2>3. req'[x].op \notin Stages \cup {"collect"}
      BY <1>0, <2>2, GoesTo, Blanks DEF Op, Stages
  <2> QED BY <2>1, <2>3
<1> QED BY <1>1, <1>2 DEF Commanding

LEMMA CompleteSame ==
    ASSUME Complete, UNCHANGED <<req, in, resRow, cur, owner, facRow, entered, cut, overlapped>>
    PROVE  Complete'
BY DEF Complete, Staged, Housed, Founded, Serves

LEMMA CompleteRestart == ASSUME IInv, Complete, Restart PROVE Complete'
<1>0. TypeOK
    BY DEF IInv, GeneralTypeOK
<1>1. /\ UNCHANGED <<resRow, owner, entered, overlapped>> /\ cut \subseteq cut'
      /\ \A x \in Conn : req'[x] = Idle
    BY DEF Restart
<1>2. ASSUME NEW r \in Role, cur[r] # 0 PROVE cur'[r] # 0
  <2>1. attrRows[r] # <<>> /\ DOMAIN attrRows[r] = 1..Len(attrRows[r])
      BY <1>0, <1>2 DEF TypeOK
  <2> QED BY <2>1 DEF Restart
<1>3. ASSUME NEW c \in City PROVE Founded(c)'
  <2>1. facRow[c] = "saved" => facRow'[c] = "saved"
      BY DEF Restart
  <2>2. ASSUME NEW x \in Conn, Serves(x, "makeFac"), req[x].city = c PROVE owner[c] \in cut'
    <3>1. owner[c] = in[x]
        BY <2>2 DEF Complete, Staged
    <3> QED BY <2>2, <3>1 DEF Restart
  <2>3. Founded(c)
      BY DEF Complete
  <2> QED BY <1>1, <2>1, <2>2, <2>3 DEF Founded
<1>4. ASSUME NEW r \in Role PROVE Housed(r)'
    BY <1>1, <1>2 DEF Complete, Housed
<1>5. ASSUME NEW x \in Conn PROVE Staged(x)'
    BY <1>1, Blanks, StagedNot DEF Stages
<1> QED BY <1>3, <1>4, <1>5 DEF Complete

LEMMA CompleteInductive == PurseInv /\ Complete /\ [GeneralNext]_allVars => Complete'
<1> SUFFICES ASSUME PurseInv, Complete, [GeneralNext]_allVars PROVE Complete'
    OBVIOUS
<1>0. IInv /\ Single /\ GeneralTypeOK'
    BY PurseInductive DEF PurseInv, IInv
<1>1. CASE UNCHANGED allVars
    BY <1>1, CompleteSame DEF allVars, estateVars, world, rows, cities, history
<1>2. ASSUME NEW x \in Conn, Commanding(x) PROVE Complete'
  <2>1. Others(x)
      BY <1>0, <1>2, CommandingInductive
  <2>2. ~Serves(x, "makeFac") /\ Staged(x)'
      BY <1>0, <1>2, CommandingOther, StagedNot DEF Serves, Stages
  <2> QED BY <1>0, <1>2, <2>1, <2>2, CommandingOther, StageOther
<1>3. CASE GeneralRestart
    BY <1>0, <1>3, CompleteRestart DEF GeneralRestart
<1>4. ASSUME NEW x \in Conn, Entering(x), UNCHANGED generalVars PROVE Complete'
    BY <1>0, <1>4, EnteringComplete
<1>5. ASSUME NEW x \in Conn, Managing(x), UNCHANGED generalVars PROVE Complete'
  <2>1. Others(x)
      BY <1>0, <1>5, ManagingSound
  <2> QED BY <1>0, <1>5, <2>1, ManagingOther, StagedNot, StageOther
<1>6. CASE Producing \/ Tick
    BY <1>6, CompleteSame DEF Producing, ProduceBegins, ProduceLooks, ProduceStores, Tick, world,
                              rows, cities, history
<1> QED BY <1>1, <1>2, <1>3, <1>4, <1>5, <1>6 DEF GeneralNext, AtHome

LEMMA CompleteInit == GeneralInit => Complete
<1> SUFFICES ASSUME GeneralInit PROVE Complete
    OBVIOUS
<1>1. /\ entered = {} /\ \A c \in City : owner[c] = NoRole
      /\ \A x \in Conn : req[x].op = "idle"
    BY Blanks DEF GeneralInit, Init
<1> QED BY <1>1, EstateAssumption DEF Complete, Staged, Housed, Founded, Serves

\* Who was let in has what later requests take for granted, however many
\* entries before that failed half-way or were cut off by a new start: a row
\* of resources, attributes and one city with facilities, for a role whose
\* entries come one at a time and whose facilities could be inserted.
THEOREM EntriesAreComplete == GeneralSpec => []EntryComplete
<1>1. PurseInv /\ Complete => EntryComplete
    BY CompleteMeans DEF PurseInv
<1>2. PurseInv /\ Complete /\ [GeneralNext]_allVars => (PurseInv /\ Complete)'
    BY PurseInductive, CompleteInductive
<1>3. GeneralInit => PurseInv /\ Complete
    BY PurseInit, CompleteInit
<1> QED BY <1>1, <1>2, <1>3, PTL DEF GeneralSpec

(***************************************************************************)
(* Collecting.  Of a role whose requests come one at a time there is one   *)
(* row of attributes at most, and what it says of the last collection is   *)
(* so, unless that was on an earlier day and has been forgotten.           *)
(***************************************************************************)
LEMMA DayGrows ==
    ASSUME NEW s \in Nat, NEW t \in Nat, s <= t
    PROVE  Day(s) \in Nat /\ Day(t) \in Nat /\ Day(s) <= Day(t)
<1> DEFINE d == DayLength
           m == Day(s)
           n == Day(t)
<1>1. d \in Nat /\ d > 0
    BY EstateAssumption
<1>2. m \in Nat /\ n \in Nat
    BY DayType
<1>3. m * d <= s /\ t < n * d + d
    BY <1>1 DEF Day
<1>4. ASSUME m >= n + 1 PROVE FALSE
  <2> HIDE DEF d, m, n
  <2>1. m * d >= (n + 1) * d
      BY <1>1, <1>2, <1>4
  <2>2. (n + 1) * d = n * d + d
      BY <1>1, <1>2
  <2>3. m * d \in Nat /\ n * d \in Nat
      BY <1>1, <1>2
  <2> QED BY <1>1, <1>3, <2>1, <2>2, <2>3
<1> QED BY <1>2, <1>4

\* What a row of attributes says, c being what has been collected and day the
\* day on which somebody looks at it.
Says(a, c, day) ==
    \/ a.last # 0 /\ Day(a.last) = c.day /\ a.times = c.times
    \/ a.last = 0 /\ a.times = 0 /\ (c.times = 0 \/ c.day < day)

Reckoned(r) == r \notin overlapped =>
    /\ Len(attrRows[r]) <= 1 /\ cur[r] = Len(attrRows[r])
    /\ collected[r].times <= CollectTimesLimit /\ collected[r].day <= Day(now)
    /\ cur[r] = 0 => collected[r].times = 0
    /\ cur[r] # 0 => Attr(r).last <= now /\ Says(Attr(r), collected[r], Day(now))

Reckoning(x) == in[x] \notin overlapped =>
    /\ Serves(x, "makeAttr") => cur[in[x]] = 0
    /\ Serves(x, "collect") =>
          LET a == Attr(in[x])
              at == req[x].at
          IN  /\ at # 0 /\ at <= now /\ a.times < CollectTimesLimit
              /\ Says(a, collected[in[x]], Day(at))
              /\ a.last # 0 => Day(a.last) = Day(at) /\ a.last + CollectTimesLimit <= at

Reckon == (\A r \in Role : Reckoned(r)) /\ \A x \in Conn : Reckoning(x)

\* A step of x that changes what is known of r alone, while nobody else counts on it.
LEMMA ReckonStep ==
    ASSUME IInv, Reckon, NEW x \in Conn, NEW r \in Role, Others(x), now' = now,
           overlapped \subseteq overlapped',
           \A p \in Role \ {r} : attrRows'[p] = attrRows[p] /\ cur'[p] = cur[p]
                                 /\ collected'[p] = collected[p],
           \A y \in Conn \ {x} : in[y] = r /\ r \notin overlapped' =>
               req[y].op \notin {"makeAttr", "collect"},
           Reckoned(r)', Reckoning(x)'
    PROVE  Reckon'
<1>1. ASSUME NEW p \in Role PROVE Reckoned(p)'
  <2>1. CASE p = r
      BY <2>1
  <2>2. CASE p # r
      BY <2>2 DEF Reckon, Reckoned, Attr, Says, Day
  <2> QED BY <2>1, <2>2
<1>2. ASSUME NEW y \in Conn PROVE Reckoning(y)'
  <2>1. CASE y = x
      BY <2>1
  <2>2. CASE y # x
    <3> SUFFICES ASSUME in'[y] \notin overlapped', Serves(y, "makeAttr")' \/ Serves(y, "collect")'
                 PROVE  Reckoning(y)'
        BY DEF Reckoning
    <3>1. in'[y] = in[y] /\ req'[y] = req[y] /\ Reckoning(y) /\ SoundOne(y)
        BY <2>2 DEF Others, Reckon, IInv, Sound
    <3>2. in[y] \in Role
        BY <3>1 DEF SoundOne, Serves, Busy
    <3>3. in[y] # r
        BY <2>2, <3>1 DEF Serves
    <3> QED BY <3>1, <3>2, <3>3 DEF Reckoning, Attr, Says, Day, Serves
  <2> QED BY <2>1, <2>2
<1> QED BY <1>1, <1>2 DEF Reckon

\* One that changes none of it.
LEMMA ReckonOther ==
    ASSUME Reckon, NEW x \in Conn, Others(x), overlapped \subseteq overlapped',
           UNCHANGED <<now, attrRows, cur, collected>>, Reckoning(x)'
    PROVE  Reckon'
<1>1. ASSUME NEW p \in Role PROVE Reckoned(p)'
    BY DEF Reckon, Reckoned, Attr, Says, Day
<1>2. ASSUME NEW y \in Conn PROVE Reckoning(y)'
  <2>1. CASE y = x
      BY <2>1
  <2>2. CASE y # x
      BY <2>2 DEF Others, Reckon, Reckoning, Attr, Says, Day, Serves
  <2> QED BY <2>1, <2>2
<1> QED BY <1>1, <1>2 DEF Reckon

LEMMA ReckoningNot ==
    ASSUME NEW x, req'[x].op \notin {"makeAttr", "collect"} PROVE Reckoning(x)'
BY DEF Reckoning, Serves

LEMMA EnteringReckon ==
    ASSUME IInv, Single, Reckon, NEW x \in Conn, Entering(x), Others(x)
    PROVE  Reckon'
<1>0. TypeOK /\ SoundOne(x) /\ Reckoning(x)
    BY DEF IInv, GeneralTypeOK, Sound, Reckon
<1> USE DEF world, rows, cities, counters, history
<1>1. CASE EnterNobody(x) \/ \E r \in Role : Create(x, r)
  <2>1. UNCHANGED <<now, req, in, attrRows, cur, collected, overlapped>>
      BY <1>1 DEF EnterNobody, Create
  <2> QED BY <2>1 DEF Reckon, Reckoned, Reckoning, Attr, Says, Day, Serves
<1>2. ASSUME NEW c \in City, MakeCity(x, c) PROVE Reckon'
  <2> DEFINE q == [req[x] EXCEPT !.op = "makeFac", !.city = c]
  <2>1. q.op = "makeFac"
      BY <1>0 DEF TypeOK, Request
  <2>2. req' = [req EXCEPT ![x] = q] /\ UNCHANGED <<now, attrRows, cur, collected, overlapped>>
      BY <1>2 DEF MakeCity
  <2> HIDE DEF q
  <2>3. Reckoning(x)'
      BY <1>0, <2>1, <2>2, GoesTo, ReckoningNot
  <2> QED BY <2>2, <2>3, ReckonOther
<1>3. CASE CheckAttr(x)
  <2>1. /\ UNCHANGED <<in, now, attrRows, cur, collected, overlapped>>
        /\ Goes(x, IF cur[in[x]] = 0 THEN "makeAttr" ELSE "city")
      BY <1>3 DEF CheckAttr
  <2>2. req'[x].op = IF cur[in[x]] = 0 THEN "makeAttr" ELSE "city"
      BY <1>0, <2>1, GoesTo, OpsAreOp
  <2>3. Reckoning(x)'
      BY <2>1, <2>2 DEF Reckoning, Serves
  <2> QED BY <2>1, <2>3, ReckonOther
<1>4. CASE \/ MakeRes(x) \/ CheckCity(x) \/ EnterFails(x) \/ MakeFac(x) \/ MakeFacFails(x)
           \/ \E r \in Role : Enter(x, r)
  <2>1. /\ UNCHANGED <<now, attrRows, cur, collected>> /\ overlapped \subseteq overlapped'
        /\ Ends(x) \/ \E op \in {"attr", "makeRes", "makeCity"} : Goes(x, op)
      BY <1>4 DEF MakeRes, CheckCity, EnterFails, Fails, MakeFac, MakeFacFails, Enter, Goes
  <2>2. Reckoning(x)'
      BY <1>0, <2>1, GoesTo, OpsAreOp, Blanks, ReckoningNot
  <2> QED BY <2>1, <2>2, ReckonOther
<1>5. CASE MakeAttr(x)
  <2>0. PICK r \in Role : r = in[x] /\ Busy(x)
      BY <1>0, <1>5 DEF MakeAttr, SoundOne, Serves, Busy
  <2> DEFINE row == [times |-> 0, last |-> 0]
  <2>1. /\ UNCHANGED <<in, now, collected, overlapped>> /\ Goes(x, "city") /\ Serves(x, "makeAttr")
        /\ attrRows' = [attrRows EXCEPT ![r] = Append(@, row)]
        /\ cur' = [cur EXCEPT ![r] = Len(attrRows[r]) + 1]
      BY <1>5, <2>0 DEF MakeAttr
  <2>2. row.last = 0 /\ row.times = 0 /\ row \in Attribute
      BY DEF Attribute
  <2> HIDE DEF row
  <2>3. Reckoning(x)'
      BY <1>0, <2>1, GoesTo, OpsAreOp, ReckoningNot
  <2>4. \A y \in Conn \ {x} : in[y] = r /\ r \notin overlapped' =>
            req[y].op \notin {"makeAttr", "collect"}
      BY <2>0, <2>1 DEF Single, Busy
  <2>5. /\ \A p \in Role \ {r} : attrRows'[p] = attrRows[p] /\ cur'[p] = cur[p]
        /\ attrRows'[r] = Append(attrRows[r], row) /\ cur'[r] = Len(attrRows[r]) + 1
        /\ attrRows[r] \in Seq(Attribute)
      BY <1>0, <2>1 DEF TypeOK
  <2>6. Reckoned(r)'
    <3> SUFFICES ASSUME r \notin overlapped PROVE Reckoned(r)'
        BY <2>1 DEF Reckoned
    <3>1. cur[r] = 0 /\ Len(attrRows[r]) = 0 /\ collected[r].times = 0
          /\ collected[r].times <= CollectTimesLimit /\ collected[r].day <= Day(now)
        BY <1>0, <2>0, <2>1 DEF Reckoning, Reckon, Reckoned
    <3>2. Len(attrRows'[r]) = 1 /\ cur'[r] = 1 /\ attrRows'[r][1] = row
        BY <2>2, <2>5, <3>1
    <3>3. Attr(r)' = row
        BY <3>2 DEF Attr
    <3>4. 0 <= now'
        BY <1>0, <2>1 DEF TypeOK
    <3>5. Says(row, collected'[r], Day(now'))
        BY <2>1, <2>2, <3>1 DEF Says
    <3> QED BY <2>1, <2>2, <3>1, <3>2, <3>3, <3>4, <3>5 DEF Reckoned, Day, Says
  <2> QED BY <2>1, <2>3, <2>4, <2>5, <2>6, ReckonStep
<1> QED BY <1>1, <1>2, <1>3, <1>4, <1>5 DEF Entering

\* The row that is the object is replaced.
LEMMA AttrPut ==
    ASSUME TypeOK, NEW r \in Role, cur[r] # 0, NEW a,
           attrRows' = [attrRows EXCEPT ![r][cur[r]] = a], cur' = cur
    PROVE  /\ Attr(r)' = a /\ Len(attrRows'[r]) = Len(attrRows[r])
           /\ \A p \in Role \ {r} : attrRows'[p] = attrRows[p]
<1>1. cur[r] \in 1..Len(attrRows[r]) /\ attrRows[r] \in Seq(Attribute)
    BY AttrType
<1> DEFINE s == [attrRows[r] EXCEPT ![cur[r]] = a]
<1>2. Len(s) = Len(attrRows[r]) /\ s[cur[r]] = a
    BY <1>1
<1>3. attrRows' = [attrRows EXCEPT ![r] = s]
    OBVIOUS
<1> HIDE DEF s
<1>4. attrRows'[r] = s /\ \A p \in Role \ {r} : attrRows'[p] = attrRows[p]
    BY <1>3 DEF TypeOK
<1> QED BY <1>2, <1>4 DEF Attr

\* What a look at the attributes makes of them says the same, of today.
LEMMA TodaySays ==
    ASSUME TypeOK, NEW r \in Role, cur[r] # 0, Attr(r).last <= now,
           Says(Attr(r), collected[r], Day(now)), collected[r].day <= Day(now)
    PROVE  LET a == Today(Attr(r))
           IN  /\ a.last <= now /\ Says(a, collected[r], Day(now))
               /\ a.last # 0 => a = Attr(r) /\ Day(a.last) = Day(now)
<1>1. Attr(r) \in Attribute /\ now \in Nat /\ collected[r] \in [day : Nat, times : Nat]
    BY AttrType DEF TypeOK
<1>2. Attr(r).last \in Nat /\ collected[r].day \in Nat
    BY <1>1 DEF Attribute
<1>3. Day(Attr(r).last) \in Nat /\ Day(now) \in Nat
    BY <1>1, <1>2, DayType
<1> DEFINE b == [times |-> 0, last |-> 0]
<1>4. b.times = 0 /\ b.last = 0
    OBVIOUS
<1> HIDE DEF b
<1>5. Today(Attr(r)) = IF Attr(r).last = 0 \/ Day(Attr(r).last) # Day(now) THEN b ELSE Attr(r)
    BY DEF Today, b
<1>6. CASE Attr(r).last = 0 \/ Day(Attr(r).last) # Day(now)
  <2>1. collected[r].times = 0 \/ collected[r].day < Day(now)
      BY <1>2, <1>3, <1>6 DEF Says
  <2>2. Says(b, collected[r], Day(now))
      BY <1>4, <2>1 DEF Says
  <2> QED BY <1>1, <1>4, <1>5, <1>6, <2>2
<1>7. CASE ~(Attr(r).last = 0 \/ Day(Attr(r).last) # Day(now))
    BY <1>5, <1>7
<1> QED BY <1>6, <1>7

LEMMA CollectLooksReckon ==
    ASSUME IInv, Single, Single', Reckon, NEW x \in Conn, CollectLooks(x), Others(x)
    PROVE  Reckon'
<1>0. TypeOK
    BY DEF IInv, GeneralTypeOK
<1>1. PICK r \in Role : r = in[x] /\ cur[r] # 0
    BY <1>0 DEF CollectLooks, Has, TypeOK
<1> DEFINE a == Today(Attr(r))
           q == [Idle EXCEPT !.op = "collect", !.at = now, !.seen = res[r],
                             !.delta = [Nothing EXCEPT !["gold"] = GetYield(r, "gold")]]
<1>2. q.op = "collect" /\ q.at = now
    BY DEF Idle
<1>b. PICK b : b = a
    OBVIOUS
<1>3. /\ Looks(x, q) /\ b.times < CollectTimesLimit /\ ~Cooling(Attr(r))
      /\ attrRows' = [attrRows EXCEPT ![r][cur[r]] = b]
      /\ UNCHANGED <<now, in, cur, collected>>
    BY <1>1, <1>b DEF CollectLooks, world
<1> HIDE DEF a, q
<1>4. req'[x] = q /\ overlapped \subseteq overlapped'
    BY <1>0, <1>3, GoesTo DEF Looks
<1>5. /\ Attr(r)' = b /\ Len(attrRows'[r]) = Len(attrRows[r])
      /\ \A p \in Role \ {r} : attrRows'[p] = attrRows[p]
    BY <1>0, <1>1, <1>3, AttrPut
<1>6. r \notin overlapped' => \A y \in Conn \ {x} : in[y] = r => ~Busy(y)
    BY <1>1, <1>3 DEF Looks, Doubled
<1>7. ASSUME r \notin overlapped'
      PROVE  /\ Reckoned(r) /\ b.last <= now /\ Says(b, collected[r], Day(now))
             /\ b.last # 0 => b = Attr(r) /\ Day(b.last) = Day(now)
    BY <1>0, <1>1, <1>4, <1>7, <1>b, TodaySays DEF Reckon, Reckoned, a
<1>8. Reckoned(r)'
    BY <1>1, <1>3, <1>4, <1>5, <1>7 DEF Reckoned, Says, Day
<1>9. Reckoning(x)'
  <2> SUFFICES ASSUME r \notin overlapped' PROVE Reckoning(x)'
      BY <1>1, <1>3 DEF Reckoning
  <2>1. now \in Nat \ {0} /\ Attr(r) \in Attribute /\ CollectTimesLimit \in Nat
      BY <1>0, <1>1, AttrType, EstateAssumption DEF TypeOK
  <2>2. b.last # 0 => b.last + CollectTimesLimit <= now
      BY <1>3, <1>7, <2>1 DEF Cooling, Attribute
  <2>3. Attr(in[x])' = b
      BY <1>1, <1>3, <1>5 DEF Attr
  <2> QED BY <1>1, <1>2, <1>3, <1>4, <1>7, <2>1, <2>2, <2>3 DEF Reckoning, Serves, Says, Day
<1> QED BY <1>0, <1>3, <1>4, <1>5, <1>6, <1>8, <1>9, ReckonStep DEF Busy

\* Nobody is about to collect: the last collection is not long enough ago.
LEMMA TooEarlyReckon ==
    ASSUME IInv, Reckon, NEW x \in Conn, CollectTooEarly(x), Others(x)
    PROVE  Reckon'
<1>0. TypeOK /\ now \in Nat /\ CollectTimesLimit \in Nat
    BY EstateAssumption DEF IInv, GeneralTypeOK, TypeOK
<1>1. PICK r \in Role : r = in[x] /\ cur[r] # 0
    BY <1>0 DEF CollectTooEarly, Has, TypeOK
<1>b. PICK b : b = Today(Attr(r))
    OBVIOUS
<1>3. /\ ~Busy(x) /\ Cooling(Attr(r))
      /\ attrRows' = [attrRows EXCEPT ![r][cur[r]] = b]
      /\ UNCHANGED <<now, in, cur, req, overlapped, collected>>
    BY <1>1, <1>b DEF CollectTooEarly, world, history
<1>5. /\ Attr(r)' = b /\ Len(attrRows'[r]) = Len(attrRows[r])
      /\ \A p \in Role \ {r} : attrRows'[p] = attrRows[p]
    BY <1>0, <1>1, <1>3, AttrPut
<1>6. ASSUME NEW y \in Conn, in[y] = r, r \notin overlapped, Serves(y, "collect") PROVE FALSE
  <2>1. Reckoning(y) /\ req[y].at \in Nat /\ Attr(r).last \in Nat
      BY <1>0, <1>1, AttrType DEF Reckon, TypeOK, Request, Attribute
  <2>2. Attr(r).last # 0 => Attr(r).last + CollectTimesLimit <= req[y].at /\ req[y].at <= now
      BY <1>6, <2>1 DEF Reckoning
  <2> QED BY <1>0, <1>3, <2>1, <2>2 DEF Cooling
<1>7. ASSUME NEW y \in Conn, in[y] = r, r \notin overlapped, Serves(y, "makeAttr") PROVE FALSE
    BY <1>1, <1>7 DEF Reckon, Reckoning
<1>8. Reckoned(r)'
  <2>1. ASSUME r \notin overlapped
        PROVE  Reckoned(r) /\ b.last <= now /\ Says(b, collected[r], Day(now))
      BY <1>0, <1>1, <1>b, <2>1, TodaySays DEF Reckon, Reckoned
  <2> QED BY <1>1, <1>3, <1>5, <2>1 DEF Reckoned, Says, Day
<1>9. Reckoning(x)'
    BY <1>3, ReckoningNot DEF Busy
<1> QED BY <1>0, <1>3, <1>5, <1>6, <1>7, <1>8, <1>9, ReckonStep DEF Serves

LEMMA CollectStoresReckon ==
    ASSUME IInv, Single, Reckon, NEW x \in Conn, CollectStores(x), Others(x)
    PROVE  Reckon'
<1>0. TypeOK /\ SoundOne(x) /\ Reckoning(x) /\ req[x] \in Request
    BY DEF IInv, GeneralTypeOK, Sound, Reckon, TypeOK
<1>1. PICK r \in Role : r = in[x] /\ cur[r] # 0 /\ Serves(x, "collect")
    BY <1>0 DEF CollectStores, SoundOne, Serves, Busy
<1> DEFINE at == req[x].at
           c == collected[r]
           n == IF c.day = Day(at) THEN c.times + 1 ELSE 1
           next == [day |-> Day(at), times |-> n]
           a == [times |-> Attr(r).times + 1, last |-> at]
<1>b. PICK b, d : b = a /\ d = next
    OBVIOUS
<1>2. /\ Ends(x) /\ UNCHANGED <<now, in, cur, overlapped>>
      /\ attrRows' = [attrRows EXCEPT ![r][cur[r]] = b]
      /\ collected' = [collected EXCEPT ![r] = d]
  <2>1. attrRows' = [attrRows EXCEPT ![r][cur[r]] = [times |-> @.times + 1, last |-> at]]
      BY <1>1 DEF CollectStores
  <2>2. attrRows' = [attrRows EXCEPT ![r][cur[r]] = b]
      BY <1>b, <2>1 DEF Attr
  <2> QED BY <1>1, <1>b, <2>2 DEF CollectStores, world
<1>3. /\ Attr(r)' = b /\ Len(attrRows'[r]) = Len(attrRows[r])
      /\ \A p \in Role \ {r} : attrRows'[p] = attrRows[p]
    BY <1>0, <1>1, <1>2, AttrPut
<1>4. collected'[r] = d /\ \A p \in Role \ {r} : collected'[p] = collected[p]
    BY <1>0, <1>2 DEF TypeOK
<1>5. \A y \in Conn \ {x} : in[y] = r /\ r \notin overlapped' => ~Busy(y)
    BY <1>1, <1>2 DEF Single, Busy, Serves
<1>6. Reckoning(x)'
    BY <1>0, <1>2, GoesTo, Blanks, ReckoningNot
<1>7. Reckoned(r)'
  <2> SUFFICES ASSUME r \notin overlapped PROVE Reckoned(r)'
      BY <1>2 DEF Reckoned
  <2>1. /\ at # 0 /\ at <= now /\ Attr(r).times < CollectTimesLimit
        /\ Says(Attr(r), c, Day(at))
        /\ Attr(r).last # 0 => Day(Attr(r).last) = Day(at)
      BY <1>0, <1>1 DEF Reckoning
  <2>2. /\ Attr(r) \in Attribute /\ now \in Nat /\ c \in [day : Nat, times : Nat]
        /\ at \in Nat /\ CollectTimesLimit \in Nat
      BY <1>0, <1>1, AttrType, EstateAssumption DEF TypeOK, Request
  <2>3. Day(at) \in Nat /\ Day(now) \in Nat /\ Day(at) <= Day(now)
      BY <2>1, <2>2, DayGrows
  <2>4. Attr(r).times \in Nat /\ c.times \in Nat /\ c.day \in Nat
      BY <2>2 DEF Attribute
  <2>5. n = Attr(r).times + 1
      BY <2>1, <2>3, <2>4 DEF Says
  <2>6. b.times = n /\ b.last = at /\ d.day = Day(at) /\ d.times = n
    <3> HIDE DEF n, at
    <3>1. b.times = Attr(r).times + 1 /\ b.last = at
        BY <1>b
    <3>2. d.day = Day(at) /\ d.times = n
        BY <1>b
    <3> QED BY <2>5, <3>1, <3>2
  <2>7. Says(b, d, Day(now)) /\ d.times <= CollectTimesLimit /\ d.day <= Day(now)
      BY <2>1, <2>2, <2>3, <2>4, <2>5, <2>6 DEF Says
  <2>8. Reckoned(r)
      BY DEF Reckon
  <2> HIDE DEF a, n, next, c, at
  <2> QED BY <1>1, <1>2, <1>3, <1>4, <2>1, <2>6, <2>7, <2>8 DEF Reckoned, Says, Day
<1> QED BY <1>0, <1>2, <1>3, <1>4, <1>5, <1>6, <1>7, ReckonStep DEF Busy

LEMMA ManagingReckon ==
    ASSUME IInv, Single, Single', Reckon, NEW x \in Conn, Managing(x), Others(x)
    PROVE  Reckon'
<1>0. TypeOK
    BY DEF IInv, GeneralTypeOK
<1> USE DEF world, rows, cities, counters, history
<1>1. ASSUME NEW q, Looks(x, q), q.op \notin {"makeAttr", "collect"},
             UNCHANGED <<now, attrRows, cur, collected>>
      PROVE  Reckon'
  <2>1. req'[x] = q /\ overlapped \subseteq overlapped'
      BY <1>0, <1>1, GoesTo DEF Looks
  <2> QED BY <1>1, <2>1, ReckoningNot, ReckonOther
<1>2. ASSUME NEW c \in City, NEW f \in Fac, UpLooks(x, c, f) PROVE Reckon'
    BY <1>1, <1>2 DEF UpLooks, Idle
<1>3. ASSUME NEW give \in [Goods -> Amounts], TransformLooks(x, give) PROVE Reckon'
    BY <1>1, <1>3 DEF TransformLooks, Idle
<1>4. CASE UpStores(x) \/ TransformStores(x)
  <2>1. Ends(x) /\ UNCHANGED <<now, attrRows, cur, collected, overlapped>>
      BY <1>4 DEF UpStores, TransformStores
  <2> QED BY <1>0, <2>1, GoesTo, Blanks, ReckoningNot, ReckonOther
<1>5. CASE TransformPanics(x)
  <2>1. ~Busy(x) /\ UNCHANGED <<now, req, attrRows, cur, collected, overlapped>>
      BY <1>5 DEF TransformPanics
  <2> QED BY <2>1, ReckoningNot, ReckonOther DEF Busy
<1> QED BY <1>2, <1>3, <1>4, <1>5, CollectLooksReckon, TooEarlyReckon, CollectStoresReckon
    DEF Managing

LEMMA ReckonTick == ASSUME IInv, Reckon, Tick PROVE Reckon'
<1>1. UNCHANGED <<in, req, attrRows, cur, collected, overlapped>> /\ now' = now + 1
    BY DEF Tick, rows, history
<1>2. TypeOK /\ now \in Nat
    BY DEF IInv, GeneralTypeOK, TypeOK
<1>3. Day(now) \in Nat /\ Day(now + 1) \in Nat /\ Day(now) <= Day(now + 1)
    BY <1>2, DayGrows
<1>4. ASSUME NEW r \in Role PROVE Reckoned(r)'
  <2>1. collected[r].day \in Nat /\ (cur[r] # 0 => Attr(r).last \in Nat)
      BY <1>2, AttrType DEF TypeOK, Attribute
  <2>2. Reckoned(r) /\ Day(now)' = Day(now + 1) /\ Attr(r)' = Attr(r)
      BY <1>1 DEF Reckon, Attr, Day
  <2>3. Says(Attr(r), collected[r], Day(now)) => Says(Attr(r), collected[r], Day(now + 1))
      BY <1>3, <2>1 DEF Says
  <2> QED BY <1>1, <1>2, <1>3, <2>1, <2>2, <2>3 DEF Reckoned, Says, Day
<1>5. ASSUME NEW x \in Conn PROVE Reckoning(x)'
  <2>1. Reckoning(x) /\ req[x].at \in Nat
      BY <1>2 DEF Reckon, TypeOK, Request
  <2> QED BY <1>1, <1>2, <2>1 DEF Reckoning, Serves, Attr, Says, Day
<1> QED BY <1>4, <1>5 DEF Reckon

\* The only row there is is kept.
LEMMA ReckonRestart == ASSUME IInv, Reckon, Restart PROVE Reckon'
<1>0. TypeOK
    BY DEF IInv, GeneralTypeOK
<1>1. UNCHANGED <<now, attrRows, collected, overlapped>> /\ \A x \in Conn : req'[x] = Idle
    BY DEF Restart
<1>2. ASSUME NEW r \in Role PROVE Reckoned(r)'
  <2> SUFFICES ASSUME r \notin overlapped PROVE Reckoned(r)'
      BY <1>1 DEF Reckoned
  <2>1. Reckoned(r) /\ attrRows[r] \in Seq(Attribute) /\ Len(attrRows[r]) \in Nat
        /\ DOMAIN attrRows[r] = 1..Len(attrRows[r])
      BY <1>0 DEF Reckon, TypeOK
  <2>2. cur'[r] \in IF attrRows[r] = <<>> THEN {0} ELSE DOMAIN attrRows[r]
      BY DEF Restart
  <2>3. attrRows[r] = <<>> <=> Len(attrRows[r]) = 0
      BY <2>1
  <2>4. cur'[r] = cur[r]
      BY <2>1, <2>2, <2>3 DEF Reckoned
  <2> QED BY <1>1, <2>1, <2>4 DEF Reckoned, Attr, Says, Day
<1>3. ASSUME NEW x \in Conn PROVE Reckoning(x)'
    BY <1>1, Blanks, ReckoningNot
<1> QED BY <1>2, <1>3 DEF Reckon

LEMMA ReckonInductive == PurseInv /\ Reckon /\ [GeneralNext]_allVars => Reckon'
<1> SUFFICES ASSUME PurseInv, Reckon, [GeneralNext]_allVars PROVE Reckon'
    OBVIOUS
<1>0. IInv /\ Single /\ Single' /\ GeneralTypeOK'
    BY PurseInductive DEF PurseInv, IInv
<1>1. ASSUME UNCHANGED <<now, req, in, attrRows, cur, collected, overlapped>> PROVE Reckon'
    BY <1>1 DEF Reckon, Reckoned, Reckoning, Attr, Says, Day, Serves
<1>2. CASE UNCHANGED allVars \/ Producing
    BY <1>1, <1>2 DEF allVars, estateVars, world, rows, history, Producing, ProduceBegins,
                      ProduceLooks, ProduceStores
<1>3. ASSUME NEW x \in Conn, Commanding(x) PROVE Reckon'
  <2>1. Others(x)
      BY <1>0, <1>3, CommandingInductive
  <2>2. Reckoning(x)'
      BY <1>0, <1>3, CommandingOther, ReckoningNot DEF Stages
  <2> QED BY <1>0, <1>3, <2>1, <2>2, CommandingOther, ReckonOther
<1>4. ASSUME NEW x \in Conn, Entering(x), UNCHANGED generalVars PROVE Reckon'
    BY <1>0, <1>4, EnteringSound, EnteringReckon
<1>5. ASSUME NEW x \in Conn, Managing(x), UNCHANGED generalVars PROVE Reckon'
    BY <1>0, <1>5, ManagingSound, ManagingReckon
<1> QED BY <1>0, <1>2, <1>3, <1>4, <1>5, ReckonTick, ReckonRestart
    DEF GeneralNext, AtHome, GeneralRestart

LEMMA ReckonInit == GeneralInit => Reckon
<1> SUFFICES ASSUME GeneralInit PROVE Reckon
    OBVIOUS
<1>1. /\ now = 1 /\ \A x \in Conn : req[x].op = "idle"
      /\ \A r \in Role : /\ attrRows[r] = <<>> /\ cur[r] = 0
                         /\ collected[r].day = 0 /\ collected[r].times = 0
    BY Blanks DEF GeneralInit, Init
<1>2. Len(<<>>) = 0 /\ CollectTimesLimit \in Nat /\ Day(1) \in Nat
    BY EstateAssumption, DayType
<1> QED BY <1>1, <1>2 DEF Reckon, Reckoned, Reckoning, Serves

\* No role collects more often than a day allows, if it asks once at a time:
\* neither by collecting across midnight, nor by a refused attempt that makes
\* its attributes forget the last time, nor after a new start.
THEOREM CollectionsAreLimited == GeneralSpec => []CollectLimit
<1>1. PurseInv /\ Reckon => CollectLimit
    BY DEF Reckon, Reckoned, CollectLimit
<1>2. PurseInv /\ Reckon /\ [GeneralNext]_allVars => (PurseInv /\ Reckon)'
    BY PurseInductive, ReckonInductive
<1>3. GeneralInit => PurseInv /\ Reckon
    BY PurseInit, ReckonInit
<1> QED BY <1>1, <1>2, <1>3, PTL DEF GeneralSpec

(***************************************************************************)
(* Skills.  A general wears a row in one slot at most, and wears nothing   *)
(* before it is made: so the row it puts on or takes off is in no other    *)
(* slot, and who wears a row changes by that general alone.                *)
(***************************************************************************)
Dressed ==
    /\ \A g \in Gen, p \in SkillSlot :
          /\ gen[g].worn[p] <= Len(skill)
          /\ gen[g].state = "none" => gen[g].worn[p] = NoSkill
          /\ \A q \in SkillSlot : gen[g].worn[p] = gen[g].worn[q] /\ p # q => gen[g].worn[p] = NoSkill
    /\ \A x \in Conn : req[x].op \in Skilling => gen[greq[x].gen].state # "none"
    /\ \A i \in DOMAIN skill :
          skill[i].gens \subseteq Wearers(i) /\ (restarts = 0 => skill[i].gens = Wearers(i))

\* A step in which nobody puts anything on or takes it off.
LEMMA DressedSame ==
    ASSUME IInv, Dressed, skill' = skill, restarts' = restarts,
           \A g \in Gen : \A p \in SkillSlot : gen'[g].worn[p] = gen[g].worn[p],
           \A g \in Gen : gen'[g].state = "none" => gen[g].state = "none",
           \A x \in Conn : req'[x].op \in Skilling =>
               \/ req[x].op \in Skilling /\ greq'[x].gen = greq[x].gen
               \/ greq'[x].gen \in Gen /\ gen'[greq'[x].gen].state # "none"
    PROVE  Dressed'
<1>1. \A i : Wearers(i)' = Wearers(i)
    BY DEF Wearers
<1>2. ASSUME NEW x \in Conn, req'[x].op \in Skilling PROVE gen'[greq'[x].gen].state # "none"
  <2>1. req[x].op \in Skilling => greq[x].gen \in Gen /\ gen[greq[x].gen].state # "none"
      BY DEF IInv, Sound, SoundOne, Dressed
  <2> QED BY <1>2, <2>1
<1>3. \A g \in Gen, p \in SkillSlot :
          /\ gen'[g].worn[p] <= Len(skill')
          /\ gen'[g].state = "none" => gen'[g].worn[p] = NoSkill
          /\ \A q \in SkillSlot :
                gen'[g].worn[p] = gen'[g].worn[q] /\ p # q => gen'[g].worn[p] = NoSkill
    BY DEF Dressed
<1>4. \A i \in DOMAIN skill' :
          skill'[i].gens \subseteq Wearers(i)' /\ (restarts' = 0 => skill'[i].gens = Wearers(i)')
    BY <1>1 DEF Dressed
<1> QED BY <1>2, <1>3, <1>4 DEF Dressed

\* The fields of a general after the handlers, one by one.
LEMMA ComposeEdits ==
    ASSUME IInv, NEW x \in Conn, ComposeStores(x), NEW g \in Gen
    PROVE  /\ gen'[g].rid = gen[g].rid /\ gen'[g].worn = gen[g].worn /\ gen'[g].order = gen[g].order
           /\ g \in greq[x].gens => /\ gen'[g].state = "composed" /\ gen'[g].parent = greq[x].gen
                                    /\ gen'[g].starLv = gen[g].starLv
           /\ g \notin greq[x].gens =>
                 /\ gen'[g].state = gen[g].state /\ gen'[g].parent = gen[g].parent
                 /\ gen'[g].starLv = IF g = greq[x].gen
                                     THEN gen[g].starLv + Cardinality(greq[x].gens)
                                     ELSE gen[g].starLv
<1> DEFINE n == gen[g].starLv + Cardinality(greq[x].gens)
           who == greq[x].gen
           a == [gen[g] EXCEPT !.state = "composed", !.parent = who]
           b == [gen[g] EXCEPT !.starLv = n]
<1>1. gen'[g] = IF g \in greq[x].gens THEN a ELSE IF g = who THEN b ELSE gen[g]
    BY DEF ComposeStores
<1>2. gen[g] \in GenRec
    BY DEF IInv, GeneralTypeOK
<1>3. /\ a.rid = gen[g].rid /\ a.worn = gen[g].worn /\ a.order = gen[g].order
      /\ a.state = "composed" /\ a.parent = who /\ a.starLv = gen[g].starLv
    BY <1>2 DEF GenRec
<1>4. /\ b.rid = gen[g].rid /\ b.worn = gen[g].worn /\ b.order = gen[g].order
      /\ b.state = gen[g].state /\ b.parent = gen[g].parent /\ b.starLv = n
    BY <1>2 DEF GenRec
<1> HIDE DEF a, b
<1> QED BY <1>1, <1>3, <1>4

LEMMA ConvertEdits ==
    ASSUME IInv, NEW x \in Conn, ConvertStores(x), NEW g \in Gen
    PROVE  /\ gen'[g].rid = gen[g].rid /\ gen'[g].worn = gen[g].worn /\ gen'[g].order = gen[g].order
           /\ gen'[g].parent = gen[g].parent /\ gen'[g].starLv = gen[g].starLv
           /\ gen'[g].state = IF g \in greq[x].gens THEN "converted" ELSE gen[g].state
<1> DEFINE a == [gen[g] EXCEPT !.state = "converted"]
<1>1. gen'[g] = IF g \in greq[x].gens THEN a ELSE gen[g]
    BY DEF ConvertStores
<1>2. gen[g] \in GenRec
    BY DEF IInv, GeneralTypeOK
<1>3. /\ a.rid = gen[g].rid /\ a.worn = gen[g].worn /\ a.order = gen[g].order
      /\ a.state = "converted" /\ a.parent = gen[g].parent /\ a.starLv = gen[g].starLv
    BY <1>2 DEF GenRec
<1> HIDE DEF a
<1> QED BY <1>1, <1>3

LEMMA OrderEdits ==
    ASSUME IInv, NEW x \in Conn, PlaceStores(x) \/ TakeOutStores(x), NEW g \in Gen
    PROVE  /\ gen'[g].rid = gen[g].rid /\ gen'[g].worn = gen[g].worn
           /\ gen'[g].state = gen[g].state /\ gen'[g].parent = gen[g].parent
           /\ gen'[g].starLv = gen[g].starLv
           /\ PlaceStores(x) =>
                 gen'[g].order = IF g = greq[x].gen THEN greq[x].order
                                 ELSE IF g = army[in[x]][greq[x].order][greq[x].place] THEN 0
                                 ELSE gen[g].order
           /\ TakeOutStores(x) => gen'[g].order = IF g = greq[x].gen THEN 0 ELSE gen[g].order
<1> DEFINE a(o) == [gen[g] EXCEPT !.order = o]
<1>1. gen[g] \in GenRec
    BY DEF IInv, GeneralTypeOK
<1>2. ASSUME NEW o
      PROVE  /\ a(o).rid = gen[g].rid /\ a(o).worn = gen[g].worn /\ a(o).order = o
             /\ a(o).state = gen[g].state /\ a(o).parent = gen[g].parent
             /\ a(o).starLv = gen[g].starLv
    BY <1>1 DEF GenRec
<1>3. CASE PlaceStores(x)
  <2> DEFINE o == greq[x].order
             old == army[in[x]][greq[x].order][greq[x].place]
  <2>1. gen'[g] = IF g = greq[x].gen THEN a(o) ELSE IF g = old THEN a(0) ELSE gen[g]
      BY <1>3 DEF PlaceStores
  <2>2. ~TakeOutStores(x)
      BY <1>3 DEF PlaceStores, TakeOutStores, Serves
  <2> HIDE DEF a
  <2> QED BY <1>2, <2>1, <2>2
<1>4. CASE TakeOutStores(x)
  <2>1. gen' = [gen EXCEPT ![greq[x].gen] = [gen[greq[x].gen] EXCEPT !.order = 0]]
      BY <1>4 DEF TakeOutStores
  <2>2. gen'[g] = IF g = greq[x].gen THEN a(0) ELSE gen[g]
      BY <2>1 DEF IInv, GeneralTypeOK
  <2>3. ~PlaceStores(x)
      BY <1>4 DEF PlaceStores, TakeOutStores, Serves
  <2> HIDE DEF a
  <2> QED BY <1>2, <2>2, <2>3
<1> QED BY <1>3, <1>4

LEMMA MadeEdits ==
    ASSUME NEW r, NEW new, NEW n, Made(r, new, n), NEW g \in Gen
    PROVE  /\ g \notin new => gen'[g] = gen[g]
           /\ g \in new => /\ gen[g].state = "none" /\ gen'[g].state = "normal" /\ gen'[g].rid = r
                           /\ gen'[g].starLv = 0 /\ gen'[g].parent = NoGen /\ gen'[g].order = 0
                           /\ \A p \in SkillSlot : gen'[g].worn[p] = NoSkill
<1> DEFINE made == [Unborn EXCEPT !.rid = r, !.state = "normal"]
<1>1. /\ made.state = "normal" /\ made.rid = r /\ made.starLv = 0 /\ made.parent = NoGen
      /\ made.order = 0 /\ \A p \in SkillSlot : made.worn[p] = NoSkill
    BY DEF Unborn
<1>2. gen'[g] = (IF g \in new THEN made ELSE gen[g]) /\ (g \in new => gen[g].state = "none")
    BY DEF Made, Unused
<1> HIDE DEF made
<1> QED BY <1>1, <1>2

LEMMA WornSlots ==
    ASSUME IInv, NEW x \in Conn, UpSkillStores(x) \/ DownSkillStores(x)
    PROVE  LET g == greq[x].gen
               i == greq[x].row
               p == greq[x].place
               n == IF Serves(x, "upSkill") THEN i ELSE NoSkill
           IN  /\ g \in Gen /\ p \in SkillSlot /\ i \in DOMAIN skill /\ i # 0
               /\ \A h \in Gen \ {g} : gen'[h] = gen[h]
               /\ gen'[g].state = gen[g].state /\ gen'[g].rid = gen[g].rid
               /\ gen'[g].order = gen[g].order /\ gen'[g].parent = gen[g].parent
               /\ gen'[g].starLv = gen[g].starLv
               /\ \A q \in SkillSlot \ {p} : gen'[g].worn[q] = gen[g].worn[q]
               /\ \/ skill' = skill /\ gen'[g].worn[p] = gen[g].worn[p]
                  \/ /\ gen'[g].worn[p] = n
                     /\ IF Serves(x, "upSkill")
                        THEN /\ gen[g].worn[p] = NoSkill /\ \A q \in SkillSlot : gen[g].worn[q] # i
                             /\ skill' = [skill EXCEPT ![i] = [skill[i] EXCEPT !.gens = @ \cup {g}]]
                        ELSE /\ gen[g].worn[p] = i
                             /\ skill' = [skill EXCEPT ![i] = [skill[i] EXCEPT !.gens = @ \ {g}]]
<1> DEFINE g == greq[x].gen
           i == greq[x].row
           p == greq[x].place
           a(n) == [gen[g] EXCEPT !.worn = [gen[g].worn EXCEPT ![p] = n]]
<1>1. req[x].op \in {"upSkill", "downSkill"} /\ SoundOne(x) /\ skill \in Seq(SkillRec)
      /\ gen \in [Gen -> GenRec]
    BY DEF IInv, Sound, UpSkillStores, DownSkillStores, Serves, GeneralTypeOK, SkillRec
<1>2. g \in Gen /\ p \in SkillSlot /\ i \in 1..Len(skill) /\ DOMAIN skill = 1..Len(skill)
    BY <1>1 DEF SoundOne, Skilling
<1>3. gen[g] \in GenRec /\ gen[g].worn \in [SkillSlot -> Nat]
    BY <1>1, <1>2 DEF GenRec
<1>4. ASSUME NEW n
      PROVE  /\ a(n).state = gen[g].state /\ a(n).rid = gen[g].rid /\ a(n).order = gen[g].order
             /\ a(n).parent = gen[g].parent /\ a(n).starLv = gen[g].starLv /\ a(n).worn[p] = n
             /\ \A q \in SkillSlot \ {p} : a(n).worn[q] = gen[g].worn[q]
    BY <1>2, <1>3 DEF GenRec
<1>5. CASE UpSkillStores(x)
  <2>1. \/ UNCHANGED <<gen, skill>>
        \/ /\ gen' = [gen EXCEPT ![g] = a(i)]
           /\ gen[g].worn[p] = NoSkill /\ \A q \in SkillSlot : gen[g].worn[q] # i
           /\ skill' = [skill EXCEPT ![i] = [skill[i] EXCEPT !.gens = @ \cup {g}]]
      BY <1>5 DEF UpSkillStores
  <2>2. Serves(x, "upSkill")
      BY <1>5 DEF UpSkillStores
  <2> HIDE DEF a, g, i, p
  <2> QED BY <1>1, <1>2, <1>4, <2>1, <2>2 DEF g, i, p
<1>6. CASE DownSkillStores(x)
  <2>1. \/ UNCHANGED <<gen, skill>>
        \/ /\ gen' = [gen EXCEPT ![g] = a(NoSkill)] /\ gen[g].worn[p] = i
           /\ skill' = [skill EXCEPT ![i] = [skill[i] EXCEPT !.gens = @ \ {g}]]
      BY <1>6 DEF DownSkillStores
  <2>2. ~Serves(x, "upSkill")
      BY <1>6 DEF DownSkillStores, Serves
  <2> HIDE DEF a, g, i, p
  <2> QED BY <1>1, <1>2, <1>4, <2>1, <2>2 DEF g, i, p
<1> QED BY <1>5, <1>6

\* A general puts a row on, or takes it off.
LEMMA SlotsDressed ==
    ASSUME IInv, Dressed, NEW x \in Conn, UpSkillStores(x) \/ DownSkillStores(x), Others(x),
           req'[x] = Idle, restarts' = restarts
    PROVE  Dressed'
<1>0. skill \in Seq(SkillRec) /\ DOMAIN skill = 1..Len(skill) /\ Len(skill) \in Nat
    BY DEF IInv, GeneralTypeOK, SkillRec
<1>1. PICK g \in Gen, p \in SkillSlot, i \in DOMAIN skill :
        g = greq[x].gen /\ p = greq[x].place /\ i = greq[x].row /\ i # 0
    BY WornSlots
<1>2. /\ \A h \in Gen \ {g} : gen'[h] = gen[h]
      /\ gen'[g].state = gen[g].state
      /\ \A q \in SkillSlot \ {p} : gen'[g].worn[q] = gen[g].worn[q]
    BY <1>1, WornSlots
<1>3. \A y \in Conn : req'[y].op \in Skilling =>
          /\ req[y].op \in Skilling /\ greq'[y].gen = greq[y].gen
          /\ gen'[greq'[y].gen].state # "none"
  <2>1. ASSUME NEW y \in Conn, req'[y].op \in Skilling
        PROVE  /\ req[y].op \in Skilling /\ greq'[y].gen = greq[y].gen
               /\ gen'[greq'[y].gen].state # "none"
    <3>1. y # x
        BY <2>1, Blanks DEF Skilling
    <3>2. req'[y] = req[y] /\ greq'[y] = greq[y]
        BY <3>1 DEF Others
    <3>3. greq[y].gen \in Gen /\ gen[greq[y].gen].state # "none"
        BY <2>1, <3>2 DEF IInv, Sound, SoundOne, Dressed
    <3> QED BY <1>2, <2>1, <3>2, <3>3
  <2> QED BY <2>1
<1>4. CASE skill' = skill /\ gen'[g].worn[p] = gen[g].worn[p]
  <2>1. \A h \in Gen : \A q \in SkillSlot : gen'[h].worn[q] = gen[h].worn[q]
      BY <1>2, <1>4
  <2>2. \A h \in Gen : gen'[h].state = "none" => gen[h].state = "none"
      BY <1>2
  <2> QED BY <1>3, <1>4, <2>1, <2>2, DressedSame
<1>5. ASSUME NEW n \in {NoSkill, i}, gen'[g].worn[p] = n,
             \A q \in SkillSlot \ {p} : n # NoSkill => gen[g].worn[q] # n,
             NEW s, skill' = [skill EXCEPT ![i] = [skill[i] EXCEPT !.gens = s]],
             gen[g].state # "none",
             Wearers(i)' = (IF n = i THEN Wearers(i) \cup {g} ELSE Wearers(i) \ {g}),
             s = (IF n = i THEN skill[i].gens \cup {g} ELSE skill[i].gens \ {g}),
             \A j \in DOMAIN skill \ {i} : Wearers(j)' = Wearers(j)
      PROVE  Dressed'
  <2>1. DOMAIN skill' = DOMAIN skill /\ Len(skill') = Len(skill)
      BY <1>0, <1>5
  <2>2. skill'[i].gens = s /\ \A j \in DOMAIN skill \ {i} : skill'[j] = skill[j]
    <3>1. skill[i] \in SkillRec
        BY <1>0
    <3>2. [skill[i] EXCEPT !.gens = s].gens = s
        BY <3>1 DEF SkillRec
    <3> QED BY <1>0, <1>5, <3>2
  <2>3. ASSUME NEW h \in Gen, NEW q \in SkillSlot
        PROVE  /\ gen'[h].worn[q] <= Len(skill')
               /\ gen'[h].state = "none" => gen'[h].worn[q] = NoSkill
               /\ \A t \in SkillSlot :
                     gen'[h].worn[q] = gen'[h].worn[t] /\ q # t => gen'[h].worn[q] = NoSkill
    <3>1. CASE h # g
        BY <1>2, <2>1, <3>1 DEF Dressed
    <3>2. CASE h = g
      <4>1. n <= Len(skill)
          BY <1>0 DEF NoSkill
      <4>2. \A t \in SkillSlot : gen'[g].worn[t] = IF t = p THEN n ELSE gen[g].worn[t]
          BY <1>2, <1>5
      <4>3. gen'[h].worn[q] <= Len(skill')
          BY <2>1, <3>2, <4>1, <4>2 DEF Dressed
      <4>4. \A t \in SkillSlot :
                gen'[h].worn[q] = gen'[h].worn[t] /\ q # t => gen'[h].worn[q] = NoSkill
          BY <1>5, <3>2, <4>2 DEF Dressed
      <4> QED BY <1>2, <1>5, <3>2, <4>3, <4>4
    <3> QED BY <3>1, <3>2
  <2>4. ASSUME NEW j \in DOMAIN skill'
        PROVE  skill'[j].gens \subseteq Wearers(j)' /\ (restarts' = 0 => skill'[j].gens = Wearers(j)')
    <3>1. skill[j].gens \subseteq Wearers(j) /\ (restarts = 0 => skill[j].gens = Wearers(j))
        BY <2>1 DEF Dressed
    <3> QED BY <1>5, <2>1, <2>2, <3>1
  <2> QED BY <1>3, <2>3, <2>4 DEF Dressed
<1>6. gen[g].state # "none"
    BY <1>1 DEF Dressed, UpSkillStores, DownSkillStores, Serves, Skilling
<1>7. ASSUME NEW j \in DOMAIN skill \ {i}, gen[g].worn[p] \in {NoSkill, i},
             gen'[g].worn[p] \in {NoSkill, i}
      PROVE  Wearers(j)' = Wearers(j)
  <2>1. j # 0
      BY <1>0
  <2>2. ASSUME NEW h \in Gen, NEW q \in SkillSlot
        PROVE  gen'[h].worn[q] = j <=> gen[h].worn[q] = j
      BY <1>2, <1>7, <2>1 DEF NoSkill
  <2> QED BY <2>2 DEF Wearers
<1>8. CASE /\ gen'[g].worn[p] = i /\ gen[g].worn[p] = NoSkill
           /\ \A q \in SkillSlot : gen[g].worn[q] # i
           /\ skill' = [skill EXCEPT ![i] = [skill[i] EXCEPT !.gens = skill[i].gens \cup {g}]]
  <2>1. Wearers(i)' = Wearers(i) \cup {g}
      BY <1>2, <1>8 DEF Wearers
  <2> QED BY <1>5, <1>6, <1>7, <1>8, <2>1
<1>9. CASE /\ gen'[g].worn[p] = NoSkill /\ gen[g].worn[p] = i
           /\ skill' = [skill EXCEPT ![i] = [skill[i] EXCEPT !.gens = skill[i].gens \ {g}]]
  <2>1. \A q \in SkillSlot \ {p} : gen[g].worn[q] # i
      BY <1>1, <1>9 DEF Dressed, NoSkill
  <2>2. Wearers(i)' = Wearers(i) \ {g}
      BY <1>1, <1>2, <1>9, <2>1 DEF Wearers, NoSkill
  <2> QED BY <1>1, <1>5, <1>6, <1>7, <1>9, <2>2 DEF NoSkill
<1>10. \/ skill' = skill /\ gen'[g].worn[p] = gen[g].worn[p]
       \/ /\ gen'[g].worn[p] = i /\ gen[g].worn[p] = NoSkill
          /\ \A q \in SkillSlot : gen[g].worn[q] # i
          /\ skill' = [skill EXCEPT ![i] = [skill[i] EXCEPT !.gens = skill[i].gens \cup {g}]]
       \/ /\ gen'[g].worn[p] = NoSkill /\ gen[g].worn[p] = i
          /\ skill' = [skill EXCEPT ![i] = [skill[i] EXCEPT !.gens = skill[i].gens \ {g}]]
    BY <1>1, WornSlots
<1> QED BY <1>4, <1>8, <1>9, <1>10

\* A new row: nobody wears it yet.
LEMMA MadeRow ==
    ASSUME IInv, Dressed, NEW x \in Conn, MakeSkill(x), Others(x)
    PROVE  Dressed'
<1> DEFINE row == [rid |-> in[x], cfg |-> greq[x].skill, gens |-> {}]
<1>0. skill \in Seq(SkillRec) /\ Len(skill) \in Nat /\ TypeOK
    BY DEF IInv, GeneralTypeOK, SkillRec
<1>1. skill' = Append(skill, row) /\ row.gens = {} /\ gen' = gen /\ restarts' = restarts
    BY DEF MakeSkill, HomeKept, generals
<1> HIDE DEF row
<1>a. row \in SkillRec
  <2>1. in[x] \in Role /\ greq[x].skill \in SkillCfg
      BY DEF IInv, Sound, SoundOne, MakeSkill, Skilling, Busy
  <2> QED BY <2>1 DEF SkillRec, row
<1>2. /\ DOMAIN skill' = 1..(Len(skill) + 1) /\ Len(skill') = Len(skill) + 1
      /\ skill'[Len(skill) + 1] = row /\ \A i \in 1..Len(skill) : skill'[i] = skill[i]
    BY <1>0, <1>1, <1>a
<1>3. \A i : Wearers(i)' = Wearers(i)
    BY <1>1 DEF Wearers
<1>4. Wearers(Len(skill) + 1) = {}
  <2>1. ASSUME NEW g \in Gen, NEW p \in SkillSlot PROVE gen[g].worn[p] # Len(skill) + 1
    <3>1. gen[g].worn[p] \in Nat /\ gen[g].worn[p] <= Len(skill)
        BY DEF Dressed, IInv, GeneralTypeOK, GenRec
    <3> QED BY <1>0, <3>1
  <2> QED BY <2>1 DEF Wearers
<1>5. ASSUME NEW i \in DOMAIN skill'
      PROVE  skill'[i].gens \subseteq Wearers(i)' /\ (restarts' = 0 => skill'[i].gens = Wearers(i)')
  <2>1. CASE i = Len(skill) + 1
      BY <1>1, <1>2, <1>3, <1>4, <2>1
  <2>2. CASE i # Len(skill) + 1
    <3>1. i \in 1..Len(skill) /\ i \in DOMAIN skill
        BY <1>0, <1>2, <2>2
    <3> QED BY <1>1, <1>2, <1>3, <3>1 DEF Dressed
  <2> QED BY <2>1, <2>2
<1>6. ASSUME NEW g \in Gen, NEW p \in SkillSlot
      PROVE  /\ gen'[g].worn[p] <= Len(skill')
             /\ gen'[g].state = "none" => gen'[g].worn[p] = NoSkill
             /\ \A q \in SkillSlot :
                   gen'[g].worn[p] = gen'[g].worn[q] /\ p # q => gen'[g].worn[p] = NoSkill
  <2>1. gen[g].worn[p] \in Nat /\ gen[g].worn[p] <= Len(skill)
      BY DEF Dressed, IInv, GeneralTypeOK, GenRec
  <2> QED BY <1>0, <1>1, <1>2, <2>1 DEF Dressed
<1>7. ASSUME NEW y \in Conn, req'[y].op \in Skilling PROVE gen'[greq'[y].gen].state # "none"
  <2>1. CASE y = x
    <3>1. greq'[x].gen = greq[x].gen /\ req[x].op \in Skilling
      <4>1. greq' = [greq EXCEPT ![x] = [greq[x] EXCEPT !.row = Len(skill) + 1]] /\ greq[x] \in About
            /\ greq \in [Conn -> About]
          BY DEF MakeSkill, IInv, GeneralTypeOK
      <4>2. greq'[x] = [greq[x] EXCEPT !.row = Len(skill) + 1]
          BY <4>1
      <4> QED BY <4>1, <4>2 DEF About, MakeSkill, Skilling
    <3> QED BY <1>1, <2>1, <3>1 DEF Dressed
  <2>2. CASE y # x
      BY <1>1, <1>7, <2>2 DEF Others, Dressed
  <2> QED BY <2>1, <2>2
<1> QED BY <1>5, <1>6, <1>7 DEF Dressed

\* What is asked at home is not about generals.
AtHomeOps == Stages \cup {"idle", "up", "collect", "transform"}

LEMMA HomeAsks ==
    ASSUME IInv, NEW x \in Conn, Entering(x) \/ Managing(x)
    PROVE  /\ req'[x].op \in AtHomeOps \/ (UNCHANGED <<req, in>> /\ ~Busy(x))
           /\ restarts' = restarts /\ overlapped \subseteq overlapped'
<1>0. TypeOK
    BY DEF IInv, GeneralTypeOK
<1> USE DEF world, rows, cities, counters, history
<1>1. CASE Entering(x)
  <2>1. restarts' = restarts /\ overlapped \subseteq overlapped'
      BY <1>1 DEF Entering, EnterNobody, Create, Enter, MakeRes, CheckAttr, MakeAttr, CheckCity,
                  MakeCity, EnterFails, MakeFac, MakeFacFails, Fails
  <2>2. CASE EnterNobody(x) \/ \E r \in Role : Create(x, r)
      BY <2>1, <2>2 DEF EnterNobody, Create
  <2>3. ASSUME NEW c \in City, MakeCity(x, c) PROVE req'[x].op \in AtHomeOps
    <3> DEFINE q == [req[x] EXCEPT !.op = "makeFac", !.city = c]
    <3>1. q.op = "makeFac"
        BY <1>0 DEF TypeOK, Request
    <3>2. req' = [req EXCEPT ![x] = q]
        BY <2>3 DEF MakeCity
    <3> HIDE DEF q
    <3>3. req'[x].op = "makeFac"
        BY <1>0, <3>1, <3>2, GoesTo
    <3> QED BY <3>3 DEF AtHomeOps, Stages
  <2>4. CASE \/ MakeRes(x) \/ CheckAttr(x) \/ MakeAttr(x) \/ CheckCity(x) \/ EnterFails(x)
             \/ MakeFac(x) \/ MakeFacFails(x) \/ \E r \in Role : Enter(x, r)
    <3>1. Ends(x) \/ \E op \in {"attr", "makeRes", "makeAttr", "city", "makeCity"} : Goes(x, op)
        BY <2>4 DEF Enter, MakeRes, CheckAttr, MakeAttr, CheckCity, EnterFails, MakeFac,
                    MakeFacFails, Goes
    <3>2. req'[x].op \in AtHomeOps
        BY <1>0, <3>1, GoesTo, OpsAreOp, Blanks DEF AtHomeOps, Stages
    <3> QED BY <2>1, <3>2
  <2> QED BY <1>1, <2>1, <2>2, <2>3, <2>4 DEF Entering
<1>2. CASE Managing(x)
  <2>1. restarts' = restarts /\ overlapped \subseteq overlapped'
    <3>1. restarts' = restarts
        BY <1>2 DEF Managing, UpLooks, UpStores, CollectLooks, CollectTooEarly, CollectStores,
                    TransformLooks, TransformStores, TransformPanics
    <3> QED BY <1>2, <3>1, ManagingOther
  <2>2. ASSUME NEW q, Looks(x, q), q.op \in {"up", "collect", "transform"}
        PROVE  req'[x].op \in AtHomeOps
      BY <1>0, <2>2, GoesTo DEF Looks, AtHomeOps
  <2>3. ASSUME NEW c \in City, NEW f \in Fac, UpLooks(x, c, f) PROVE req'[x].op \in AtHomeOps
      BY <2>2, <2>3 DEF UpLooks, Idle
  <2>4. CASE CollectLooks(x)
      BY <2>1, <2>2, <2>4 DEF CollectLooks, Idle
  <2>5. ASSUME NEW give \in [Goods -> Amounts], TransformLooks(x, give)
        PROVE  req'[x].op \in AtHomeOps
      BY <2>2, <2>5 DEF TransformLooks, Idle
  <2>6. CASE UpStores(x) \/ CollectStores(x) \/ TransformStores(x)
    <3>1. Ends(x)
        BY <2>6 DEF UpStores, CollectStores, TransformStores
    <3>2. req'[x].op \in AtHomeOps
        BY <1>0, <3>1, GoesTo, Blanks DEF AtHomeOps
    <3> QED BY <2>1, <3>2
  <2>7. CASE CollectTooEarly(x) \/ TransformPanics(x)
    <3>1. req' = req /\ ~Busy(x)
        BY <2>7 DEF CollectTooEarly, TransformPanics
    <3>2. req'[x].op \in AtHomeOps
        BY <3>1 DEF Busy, AtHomeOps
    <3> QED BY <2>1, <3>2
  <2> QED BY <1>2, <2>1, <2>3, <2>4, <2>5, <2>6, <2>7 DEF Managing
<1> QED BY <1>1, <1>2

LEMMA CommandingDressed ==
    ASSUME IInv, Dressed, NEW x \in Conn, Commanding(x)
    PROVE  Dressed'
<1>0. TypeOK /\ Others(x)
    BY CommandingInductive DEF IInv, GeneralTypeOK
<1>1. ASSUME NEW op \in Op, NEW about \in About, Begins(x, op, about),
             op \in Skilling => about.gen \in Gen /\ gen[about.gen].state # "none"
      PROVE  Dressed'
  <2>1. /\ UNCHANGED <<gen, skill, restarts>> /\ req'[x].op = op /\ greq'[x] = about
      BY <1>1, BeginsType DEF Begins, LooksOnly, generals
  <2> QED BY <1>0, <1>1, <2>1, DressedSame DEF Others
<1>2. ASSUME NEW op \in Op \ Skilling, NEW about, Begins(x, op, about) PROVE Dressed'
  <2>1. UNCHANGED <<gen, skill, restarts>> /\ req' = [req EXCEPT ![x] = [Idle EXCEPT !.op = op]]
      BY <1>2 DEF Begins, Looks, LooksOnly, generals
  <2>2. req'[x].op = op
      BY <1>0, <2>1, GoesTo, PlainRecord
  <2> QED BY <1>0, <1>2, <2>1, <2>2, DressedSame DEF Others
<1>3. CASE \/ MyLooks(x) \/ (\E n \in DrawTimes : DrawLooks(x, n))
           \/ (\E g \in Gen, eaten \in SUBSET Gen : ComposeLooks(x, g, eaten))
           \/ (\E sold \in SUBSET Gen \ {{}} : ConvertLooks(x, sold))
           \/ (\E g \in Gen, o \in Order, p \in Place : PlaceLooks(x, g, o, p))
           \/ (\E g \in Gen, o \in Order : TakeOutLooks(x, g, o))
  <2>1. PICK op \in {"my", "draw", "compose", "convert", "place", "takeOut"} :
            \E about : Begins(x, op, about)
      BY <1>3 DEF MyLooks, DrawLooks, ComposeLooks, ConvertLooks, PlaceLooks, TakeOutLooks
  <2>2. op \in Op \ Skilling
      BY DEF Op, Skilling
  <2> QED BY <1>2, <2>1, <2>2
<1>4. ASSUME NEW op \in {"up", "down"}, NEW g \in Gen, NEW s \in SkillCfg, NEW p \in SkillSlot,
             SkillLooks(x, op, g, s, p)
      PROVE  Dressed'
  <2> DEFINE about == [Asked EXCEPT !.gen = g, !.skill = s, !.place = p]
             of(i) == [about EXCEPT !.row = i]
  <2>1. about \in About /\ about.gen = g
      BY DEF Asked, About, NoSkill
  <2>2. \A i \in Nat : of(i) \in About /\ of(i).gen = g
      BY <2>1 DEF About
  <2>3. gen[g].state # "none"
      BY <1>4 DEF SkillLooks, Mine
  <2>4. \E o \in Skilling : Begins(x, o, about) \/ \E i \in DOMAIN skill : Begins(x, o, of(i))
      BY <1>4 DEF SkillLooks, Skilling, LastRow, RowsOf
  <2>5. \A i \in DOMAIN skill : i \in Nat
      BY DEF IInv, GeneralTypeOK
  <2>6. Skilling \subseteq Op
      BY DEF Skilling, Op
  <2> HIDE DEF about, of
  <2> QED BY <1>1, <2>1, <2>2, <2>3, <2>4, <2>5, <2>6
<1>5. ASSUME restarts' = restarts, skill' = skill, req'[x].op \notin Skilling,
             \A g \in Gen : \A p \in SkillSlot : gen'[g].worn[p] = gen[g].worn[p],
             \A g \in Gen : gen'[g].state = "none" => gen[g].state = "none"
      PROVE  Dressed'
    BY <1>0, <1>5, DressedSame DEF Others
<1>6. CASE MyMakes(x) \/ DrawMakes(x)
  <2>1. PICK new, n : Made(in[x], new, n)
      BY <1>6 DEF MyMakes, DrawMakes
  <2>2. /\ \A g \in Gen : \A p \in SkillSlot : gen'[g].worn[p] = gen[g].worn[p]
        /\ \A g \in Gen : gen'[g].state = "none" => gen[g].state = "none"
      BY <2>1, MadeEdits DEF Dressed
  <2>3. restarts' = restarts /\ skill' = skill
      BY <1>6 DEF MyMakes, DrawMakes, HomeKept
  <2>4. req'[x].op \notin Skilling
    <3> DEFINE q == [req[x] EXCEPT !.op = "drawPay", !.seen = res[in[x]]]
    <3>1. q.op = "drawPay"
        BY <1>0 DEF TypeOK, Request
    <3>2. Ends(x) \/ req' = [req EXCEPT ![x] = q]
        BY <1>6 DEF MyMakes, DrawMakes, Done
    <3> HIDE DEF q
    <3> QED BY <1>0, <3>1, <3>2, GoesTo, Blanks DEF Skilling
  <2> QED BY <1>5, <2>2, <2>3, <2>4
<1>7. CASE DrawPays(x) \/ ComposeStores(x) \/ ConvertStores(x) \/ PlaceStores(x) \/ TakeOutStores(x)
  <2>1. req'[x].op \notin Skilling
    <3>1. Done(x)
        BY <1>7 DEF DrawPays, ComposeStores, ConvertStores, PlaceStores, TakeOutStores
    <3> QED BY <3>1, DoneType, Blanks DEF Skilling
  <2>2. restarts' = restarts /\ skill' = skill
      BY <1>7 DEF DrawPays, ComposeStores, ConvertStores, PlaceStores, TakeOutStores, HomeKept
  <2>3. ASSUME NEW g \in Gen
        PROVE  gen'[g].worn = gen[g].worn /\ (gen'[g].state = "none" => gen[g].state = "none")
    <3>1. CASE DrawPays(x)
        BY <3>1 DEF DrawPays, generals
    <3> QED BY <1>7, <3>1, ComposeEdits, ConvertEdits, OrderEdits
  <2> QED BY <1>5, <2>1, <2>2, <2>3
<1>8. CASE UpSkillStores(x) \/ DownSkillStores(x)
  <2>1. Done(x) /\ restarts' = restarts
      BY <1>8 DEF UpSkillStores, DownSkillStores, HomeKept
  <2> QED BY <1>0, <1>8, <2>1, DoneType, SlotsDressed
<1> QED BY <1>0, <1>3, <1>4, <1>6, <1>7, <1>8, MadeRow DEF Commanding

\* Everybody takes off, as far as the rows know.
LEMMA RestartDressed == ASSUME IInv, Dressed, GeneralRestart PROVE Dressed'
<1>1. /\ gen' = gen /\ restarts' = restarts + 1 /\ \A x \in Conn : req'[x] = Idle
      /\ skill' = [i \in DOMAIN skill |-> [skill[i] EXCEPT !.gens = {}]]
    BY DEF GeneralRestart, Restart
<1>2. skill \in Seq(SkillRec) /\ restarts \in Nat /\ DOMAIN skill = 1..Len(skill)
      /\ Len(skill) \in Nat
    BY DEF IInv, GeneralTypeOK, TypeOK, SkillRec
<1>3. ASSUME NEW i \in DOMAIN skill PROVE skill'[i].gens = {}
  <2>1. skill[i] \in SkillRec
      BY <1>2
  <2>2. [skill[i] EXCEPT !.gens = {}].gens = {}
      BY <2>1 DEF SkillRec
  <2> QED BY <1>1, <2>2
<1>4. DOMAIN skill' = DOMAIN skill /\ Len(skill') = Len(skill)
    BY <1>1, <1>2
<1>5. restarts' # 0
    BY <1>1, <1>2
<1>6. \A x \in Conn : req'[x].op \notin Skilling
    BY <1>1, Blanks DEF Skilling
<1> QED BY <1>1, <1>3, <1>4, <1>5, <1>6 DEF Dressed

LEMMA DressedInductive == IInv /\ Born /\ Dressed /\ [GeneralNext]_allVars => Dressed'
<1> SUFFICES ASSUME IInv, Born, Dressed, [GeneralNext]_allVars PROVE Dressed'
    OBVIOUS
<1>0. GeneralTypeOK'
    BY Inductive DEF IInv
<1>1. ASSUME NEW x \in Conn, Entering(x) \/ Managing(x), UNCHANGED generalVars PROVE Dressed'
  <2>1. Others(x)
      BY <1>0, <1>1, EnteringSound, ManagingSound
  <2>2. UNCHANGED <<gen, skill, greq>>
      BY <1>1 DEF generalVars, generals
  <2>3. req'[x].op \in Skilling => req[x].op \in Skilling
      BY <1>1, HomeAsks DEF AtHomeOps, Stages, Skilling
  <2> QED BY <1>1, <2>1, <2>2, <2>3, HomeAsks, DressedSame DEF Others
<1>2. CASE AtHome /\ (Producing \/ Tick)
  <2>1. UNCHANGED <<req, restarts, gen, skill, greq>>
      BY <1>2 DEF AtHome, generalVars, generals, Producing, ProduceBegins, ProduceLooks,
                  ProduceStores, Tick, counters
  <2> QED BY <2>1, DressedSame
<1>3. CASE UNCHANGED allVars
  <2>1. UNCHANGED <<req, restarts, gen, skill, greq>>
      BY <1>3 DEF allVars, estateVars, counters, generalVars, generals
  <2> QED BY <2>1, DressedSame
<1> QED BY <1>1, <1>2, <1>3, CommandingDressed, RestartDressed DEF GeneralNext, AtHome

LEMMA DressedInit == GeneralInit => Dressed
<1> SUFFICES ASSUME GeneralInit PROVE Dressed
    OBVIOUS
<1>1. /\ skill = <<>> /\ \A x \in Conn : req[x].op = "idle"
      /\ \A g \in Gen : \A p \in SkillSlot : gen[g].worn[p] = 0
    BY Blanks DEF GeneralInit, Init, Unborn, NoSkill
<1>2. Len(<<>>) = 0 /\ DOMAIN <<>> = {}
    OBVIOUS
<1> QED BY <1>1, <1>2 DEF Dressed, Skilling, NoSkill

\* A general and the row it wears agree, although they are written one after
\* the other and a slot and a limit are looked at before: who is listed wears
\* it, and until the first new start who wears it is listed.
THEOREM WearersAreListed == GeneralSpec => []SkillsAgree
<1>1. Dressed => SkillsAgree
    BY DEF Dressed, SkillsAgree
<1>2. IInv /\ Born /\ Dressed /\ [GeneralNext]_allVars => (IInv /\ Born /\ Dressed)'
    BY Inductive, DressedInductive
<1>3. GeneralInit => IInv /\ Born /\ Dressed
    BY SoundInit, DressedInit
<1> QED BY <1>1, <1>2, <1>3, PTL DEF GeneralSpec

(***************************************************************************)
(* Armies and stars.  A general that stands somewhere stands where its     *)
(* order says, and one that was composed into another is a star of it.     *)
(* The second half of a request finds its generals as the first half left  *)
(* them, for a role whose requests come one at a time.                     *)
(***************************************************************************)
Enlisted ==
    \A r \in Role, o \in Order, p \in Place : \A g \in Gen :
        army[r][o][p] = g => gen[g].state # "none" /\ gen[g].rid = r

Posted(r, g) ==
    gen[g].state # "none" /\ gen[g].rid = r /\ r \notin overlapped /\ g \notin strayed =>
        \A o \in Order, p \in Place : army[r][o][p] = g =>
            /\ gen[g].order = o /\ gen[g].state # "converted"
            /\ \A q \in Place : army[r][o][q] = g => q = p

Descent ==
    \A h \in Gen :
        /\ gen[h].state = "none" => gen[h].starLv = 0
        /\ gen[h].parent # NoGen =>
              /\ gen[h].state \in {"composed", "converted"}
              /\ gen[gen[h].parent].state # "none" /\ gen[gen[h].parent].rid = gen[h].rid

Family(g) == {h \in Gen : gen[h].parent = g}

Starred(g) ==
    gen[g].rid \notin overlapped /\ (\A h \in strayed : gen[h].parent # g) =>
        /\ gen[g].starLv = Cardinality(Family(g)) /\ gen[g].starLv <= Star[CfgOf[g]]
        /\ \A h \in Family(g) : gen[h].state = "composed"

\* What a request knows of the generals it is about.
Ordering(x) ==
    /\ req[x].op \in {"place", "takeOut"} =>
          gen[greq[x].gen].state # "none" /\ gen[greq[x].gen].rid = in[x]
    /\ Serves(x, "place") /\ in[x] \notin overlapped =>
          /\ gen[greq[x].gen].order = 0
          /\ greq[x].gen \notin strayed => gen[greq[x].gen].state # "converted"
    /\ Serves(x, "convert") /\ in[x] \notin overlapped =>
          \A g \in greq[x].gens : gen[g].rid = in[x] => gen[g].order = 0

Trading(x) ==
    /\ Serves(x, "compose") =>
          /\ gen[greq[x].gen].state # "none" /\ gen[greq[x].gen].rid = in[x]
          /\ greq[x].gen \notin greq[x].gens /\ \A h \in greq[x].gens : gen[h].rid = in[x]
          /\ in[x] \notin overlapped =>
                /\ \A h \in greq[x].gens : gen[h].parent = NoGen
                /\ gen[greq[x].gen].starLv + Cardinality(greq[x].gens) <= Star[CfgOf[greq[x].gen]]
    /\ Serves(x, "convert") /\ in[x] \notin overlapped =>
          \A h \in greq[x].gens : gen[h].rid = in[x] => gen[h].parent = NoGen

Posts == Enlisted /\ \A r \in Role, g \in Gen : Posted(r, g)
Stars == Descent /\ \A g \in Gen : Starred(g)
Errands == \A x \in Conn : Ordering(x) /\ Trading(x)
Ranks == Posts /\ Stars /\ Errands

LEMMA RanksMean == ASSUME IInv, Ranks PROVE ArmyOnce /\ StarsEarned
<1>1. ASSUME NEW r \in Role, NEW g \in Gen, r \notin overlapped, g \notin strayed
      PROVE  /\ Cardinality(Standing(r, g)) <= 1
             /\ Standing(r, g) # {} => gen[g].state # "converted"
  <2>1. CASE Standing(r, g) = {}
      BY <2>1, FS_EmptySet
  <2>2. CASE Standing(r, g) # {}
    <3>1. PICK u : u \in Standing(r, g)
        BY <2>2
    <3>2. PICK o \in Order, p \in Place : u = <<o, p>> /\ army[r][o][p] = g
        BY <3>1 DEF Standing
    <3>3. Posted(r, g) /\ gen[g].state # "none" /\ gen[g].rid = r
        BY <3>2 DEF Ranks, Posts, Enlisted
    <3>4. ASSUME NEW v \in Standing(r, g) PROVE v = u
      <4>1. PICK b \in Order, q \in Place : v = <<b, q>> /\ army[r][b][q] = g
          BY DEF Standing
      <4>2. b = o
          BY <1>1, <3>2, <3>3, <4>1 DEF Posted
      <4>3. q = p
          BY <1>1, <3>2, <3>3, <4>1, <4>2 DEF Posted
      <4> QED BY <3>2, <4>1, <4>2, <4>3
    <3>5. Standing(r, g) = {u}
        BY <3>1, <3>4
    <3>6. Cardinality(Standing(r, g)) = 1
        BY <3>5, FS_Singleton
    <3> QED BY <1>1, <3>2, <3>3, <3>6 DEF Posted
  <2> QED BY <2>1, <2>2
<1>2. ASSUME NEW g \in Gen, gen[g].rid \notin overlapped, {h \in strayed : gen[h].parent = g} = {}
      PROVE  /\ gen[g].starLv =
                    Cardinality({h \in Gen : gen[h].parent = g /\ gen[h].state = "composed"})
             /\ gen[g].starLv <= Star[CfgOf[g]]
  <2>1. Starred(g) /\ \A h \in strayed : gen[h].parent # g
      BY <1>2 DEF Ranks, Stars
  <2>2. {h \in Gen : gen[h].parent = g /\ gen[h].state = "composed"} = Family(g)
      BY <1>2, <2>1 DEF Starred, Family
  <2> QED BY <1>2, <2>1, <2>2 DEF Starred
<1> QED BY <1>1, <1>2 DEF ArmyOnce, StarsEarned

\* A step that changes of the generals made before only what they wear and
\* where they are ordered.
LEMMA StarsSame ==
    ASSUME IInv, Stars, overlapped \subseteq overlapped', strayed \subseteq strayed',
           \A g \in Gen :
              /\ gen'[g].parent = gen[g].parent /\ gen'[g].starLv = gen[g].starLv
              /\ gen[g].state # "none" => gen'[g].state = gen[g].state /\ gen'[g].rid = gen[g].rid
              /\ gen[g].state = "none" => gen'[g].state \in {"none", "normal"}
    PROVE  Stars'
<1>0. \A g \in Gen : gen[g].parent \in Gen \cup {NoGen}
    BY DEF IInv, GeneralTypeOK, GenRec
<1>1. Descent'
  <2>1. ASSUME NEW h \in Gen, gen[h].parent # NoGen
        PROVE  /\ gen'[h].state \in {"composed", "converted"}
               /\ gen'[gen[h].parent].state # "none" /\ gen'[gen[h].parent].rid = gen'[h].rid
      BY <1>0, <2>1 DEF Stars, Descent
  <2>2. \A h \in Gen : gen'[h].state = "none" => gen'[h].starLv = 0
      BY DEF Stars, Descent
  <2> QED BY <2>1, <2>2 DEF Descent
<1>2. \A g : Family(g)' = Family(g)
    BY DEF Family
<1>3. ASSUME NEW g \in Gen PROVE Starred(g)'
  <2>1. CASE gen[g].state = "none"
    <3>1. Family(g) = {} /\ gen[g].starLv = 0 /\ Star[CfgOf[g]] \in Nat
        BY <2>1, GeneralAssumption DEF Stars, Descent, Family
    <3>2. gen'[g].starLv = 0 /\ Family(g)' = {} /\ Cardinality({}) = 0
        BY <1>2, <3>1, FS_EmptySet
    <3> QED BY <3>1, <3>2 DEF Starred
  <2>2. CASE gen[g].state # "none"
    <3>1. \A h \in Family(g) : gen[h].state = "composed" => gen'[h].state = "composed"
        BY DEF Family
    <3>2. Starred(g) /\ strayed \subseteq Gen
        BY DEF Stars, IInv, GeneralTypeOK
    <3>3. gen'[g].rid = gen[g].rid /\ gen'[g].starLv = gen[g].starLv
        BY <2>2
    <3>4. ASSUME gen'[g].rid \notin overlapped', \A h \in strayed' : gen'[h].parent # g
          PROVE  /\ gen'[g].starLv = Cardinality(Family(g)) /\ gen'[g].starLv <= Star[CfgOf[g]]
                 /\ \A h \in Family(g) : gen'[h].state = "composed"
      <4>1. gen[g].rid \notin overlapped
          BY <3>3, <3>4
      <4>2. \A h \in strayed : gen[h].parent # g
          BY <3>2, <3>4
      <4> QED BY <3>1, <3>2, <3>3, <4>1, <4>2 DEF Starred
    <3> QED BY <1>2, <3>4 DEF Starred
  <2> QED BY <2>1, <2>2
<1> QED BY <1>1, <1>3 DEF Stars

\* A step of x that changes no general that was made before, but for what it wears.
LEMMA RanksSame ==
    ASSUME IInv, Born, Ranks, NEW x \in Conn, Others(x), army' = army,
           overlapped \subseteq overlapped', strayed \subseteq strayed',
           \A g \in Gen :
              /\ gen'[g].parent = gen[g].parent /\ gen'[g].starLv = gen[g].starLv
              /\ gen[g].state # "none" => /\ gen'[g].state = gen[g].state /\ gen'[g].rid = gen[g].rid
                                          /\ gen'[g].order = gen[g].order
              /\ gen[g].state = "none" => gen'[g].state \in {"none", "normal"},
           Ordering(x)', Trading(x)'
    PROVE  Ranks'
<1>1. Posts'
  <2>1. Enlisted'
      BY DEF Ranks, Posts, Enlisted
  <2>2. ASSUME NEW r \in Role, NEW g \in Gen PROVE Posted(r, g)'
    <3>1. CASE gen[g].state = "none"
        BY <3>1 DEF Ranks, Posts, Enlisted, Posted
    <3>2. CASE gen[g].state # "none"
      <4>1. Posted(r, g)
          BY DEF Ranks, Posts
      <4> QED BY <3>2, <4>1 DEF Posted
    <3> QED BY <3>1, <3>2
  <2> QED BY <2>1, <2>2 DEF Posts
<1>2. Stars'
    BY StarsSame DEF Ranks
<1>3. ASSUME NEW y \in Conn \ {x} PROVE Ordering(y)' /\ Trading(y)'
  <2>1. in'[y] = in[y] /\ req'[y] = req[y] /\ greq'[y] = greq[y] /\ Ordering(y) /\ Trading(y)
      BY DEF Others, Ranks, Errands
  <2>2. \A g \in greq[y].gens : g \in Gen /\ gen[g].state # "none"
      BY DEF Born, IInv, GeneralTypeOK, About
  <2>3. req[y].op \in {"place", "takeOut", "compose"} => greq[y].gen \in Gen
      BY DEF IInv, Sound, SoundOne, Serves
  <2>4. Ordering(y)'
      BY <2>1, <2>2, <2>3 DEF Ordering, Serves
  <2>5. Trading(y)'
      BY <2>1, <2>2, <2>3 DEF Trading, Serves
  <2> QED BY <2>4, <2>5
<1> QED BY <1>1, <1>2, <1>3 DEF Ranks, Errands

\* While x stores, the other requests know what they knew.
LEMMA ErrandsStore ==
    ASSUME IInv, Born, Single, Ranks, NEW x \in Conn, Others(x), Busy(x), req'[x] = Idle,
           overlapped' = overlapped, strayed \subseteq strayed',
           \A g \in Gen : gen[g].state # "none" =>
              /\ gen'[g].state # "none" /\ gen'[g].rid = gen[g].rid
              /\ gen[g].rid # in[x] =>
                    /\ gen'[g].order = gen[g].order /\ gen'[g].parent = gen[g].parent
                    /\ gen'[g].starLv = gen[g].starLv
                    /\ gen'[g].state = "converted" => gen[g].state = "converted" \/ g \in strayed'
    PROVE  Errands'
<1>1. ASSUME NEW y \in Conn \ {x} PROVE Ordering(y)' /\ Trading(y)'
  <2>1. in'[y] = in[y] /\ req'[y] = req[y] /\ greq'[y] = greq[y] /\ Ordering(y) /\ Trading(y)
      BY DEF Others, Ranks, Errands
  <2>2. \A g \in greq[y].gens : g \in Gen /\ gen[g].state # "none"
      BY DEF Born, IInv, GeneralTypeOK, About
  <2>3. req[y].op \in {"place", "takeOut", "compose"} => greq[y].gen \in Gen
      BY DEF IInv, Sound, SoundOne, Serves
  <2>4. Busy(y) /\ in[y] \notin overlapped => in[y] # in[x]
      BY DEF Single
  <2>5. Ordering(y)'
      BY <2>1, <2>2, <2>3, <2>4 DEF Ordering, Serves, Busy
  <2>6. Trading(y)'
      BY <2>1, <2>2, <2>3, <2>4 DEF Trading, Serves, Busy
  <2> QED BY <2>5, <2>6
<1>2. Ordering(x)' /\ Trading(x)'
    BY Blanks DEF Ordering, Trading, Serves
<1> QED BY <1>1, <1>2 DEF Errands
\* What a request is about when it begins.
Errand == {"place", "takeOut", "convert", "compose"}

\* One that is not about posts and stars.
LEMMA RanksOther ==
    ASSUME IInv, Born, Ranks, NEW x \in Conn, Others(x), army' = army,
           overlapped \subseteq overlapped', strayed \subseteq strayed', req'[x].op \notin Errand,
           \A g \in Gen :
              /\ gen'[g].parent = gen[g].parent /\ gen'[g].starLv = gen[g].starLv
              /\ gen[g].state # "none" => /\ gen'[g].state = gen[g].state /\ gen'[g].rid = gen[g].rid
                                          /\ gen'[g].order = gen[g].order
              /\ gen[g].state = "none" => gen'[g].state \in {"none", "normal"}
    PROVE  Ranks'
<1>1. Ordering(x)' /\ Trading(x)'
    BY DEF Ordering, Trading, Serves, Errand
<1> QED BY <1>1, RanksSame

LEMMA LooksRanks ==
    ASSUME IInv, Born, Ranks, NEW x \in Conn, NEW op \in Op, NEW about \in About,
           Begins(x, op, about),
           op \in {"place", "takeOut", "compose"} => about.gen \in Gen /\ Mine(x, about.gen),
           op = "place" => gen[about.gen].order = 0,
           op = "convert" => \A g \in about.gens : gen[g].state = "normal" /\ gen[g].order = 0,
           op = "compose" =>
              /\ about.gen \notin about.gens /\ \A h \in about.gens : Mine(x, h)
              /\ gen[about.gen].starLv + Cardinality(about.gens) <= Star[CfgOf[about.gen]]
    PROVE  Ranks'
<1>1. /\ Others(x) /\ in' = in /\ req'[x].op = op /\ greq'[x] = about
      /\ UNCHANGED <<gen, army, strayed>>
    BY BeginsType DEF Begins, LooksOnly, generals
<1>2. overlapped \subseteq overlapped'
    BY DEF Begins, Looks
<1>3. \A g \in Gen : gen[g].state = "normal" => gen[g].parent = NoGen
    BY DEF Ranks, Stars, Descent
<1>4. about.gens \subseteq Gen
    BY DEF About
<1>5. Ordering(x)'
    BY <1>1 DEF Ordering, Serves, Mine
<1>6. Trading(x)'
    BY <1>1, <1>3, <1>4 DEF Trading, Serves, Mine
<1> QED BY <1>1, <1>2, <1>5, <1>6, RanksSame

LEMMA BeginsRanks ==
    ASSUME IInv, Born, Ranks, NEW x \in Conn, Others(x), NEW op \in Op \ Errand, NEW about,
           Begins(x, op, about)
    PROVE  Ranks'
<1>1. UNCHANGED <<gen, army, strayed>> /\ req' = [req EXCEPT ![x] = [Idle EXCEPT !.op = op]]
      /\ overlapped \subseteq overlapped'
    BY DEF Begins, Looks, LooksOnly, generals
<1>2. req'[x].op = op
    BY <1>1, GoesTo, PlainRecord DEF IInv, GeneralTypeOK
<1> QED BY <1>1, <1>2, RanksOther

\* Those eaten become the stars of another general of the role.
LEMMA ComposeRanks ==
    ASSUME IInv, Born, Single, Ranks, NEW x \in Conn, Others(x), ComposeStores(x)
    PROVE  Ranks'
<1> DEFINE r == in[x]
           g == greq[x].gen
           eaten == greq[x].gens
<1>0. Done(x) /\ Serves(x, "compose") /\ Busy(x) /\ Ordering(x) /\ Trading(x)
    BY DEF ComposeStores, Ranks, Errands, Serves, Busy
<1>1. UNCHANGED <<army, overlapped, strayed>> /\ req'[x] = Idle
    BY <1>0, DoneType DEF ComposeStores, HomeKept
<1>2. /\ g \in Gen /\ eaten \subseteq Gen /\ g \notin eaten /\ g # NoGen
      /\ gen[g].state # "none" /\ gen[g].rid = r
      /\ \A h \in eaten : gen[h].state # "none" /\ gen[h].rid = r
      /\ r \notin overlapped =>
            /\ \A h \in eaten : gen[h].parent = NoGen
            /\ gen[g].starLv + Cardinality(eaten) <= Star[CfgOf[g]]
  <2>1. g \in Gen /\ eaten \subseteq Gen
      BY <1>0 DEF IInv, Sound, SoundOne, GeneralTypeOK, About
  <2> QED BY <1>0, <2>1, GeneralAssumption DEF Trading, Born
<1>3. ASSUME NEW h \in Gen
      PROVE  /\ gen'[h].rid = gen[h].rid /\ gen'[h].order = gen[h].order
             /\ h \in eaten => /\ gen'[h].state = "composed" /\ gen'[h].parent = g
                               /\ gen'[h].starLv = gen[h].starLv
             /\ h \notin eaten =>
                   /\ gen'[h].state = gen[h].state /\ gen'[h].parent = gen[h].parent
                   /\ gen'[h].starLv = IF h = g THEN gen[g].starLv + Cardinality(eaten)
                                       ELSE gen[h].starLv
    BY ComposeEdits
<1>4. \A h \in Gen : gen[h].parent \in Gen \cup {NoGen}
    BY DEF IInv, GeneralTypeOK, GenRec
<1> HIDE DEF r, g, eaten
<1>5. Posts'
  <2>1. \A h \in Gen : gen[h].state # "none" => gen'[h].state # "none"
      BY <1>3
  <2>2. Enlisted'
      BY <1>1, <1>3, <2>1 DEF Ranks, Posts, Enlisted
  <2>3. ASSUME NEW s \in Role, NEW h \in Gen PROVE Posted(s, h)'
    <3>1. Posted(s, h) /\ (gen'[h].state # "none" => gen[h].state # "none")
        BY <1>2, <1>3 DEF Ranks, Posts
    <3>2. gen'[h].state = "converted" => gen[h].state = "converted"
        BY <1>3
    <3> QED BY <1>1, <1>3, <3>1, <3>2 DEF Posted
  <2> QED BY <2>2, <2>3 DEF Posts
<1>6. Descent'
  <2>1. ASSUME NEW h \in Gen, gen'[h].parent # NoGen
        PROVE  /\ gen'[h].state \in {"composed", "converted"}
               /\ gen'[gen'[h].parent].state # "none" /\ gen'[gen'[h].parent].rid = gen'[h].rid
    <3>1. CASE h \in eaten
        BY <1>2, <1>3, <3>1
    <3>2. CASE h \notin eaten
      <4>1. PICK q \in Gen : q = gen[h].parent /\ q = gen'[h].parent
          BY <1>3, <1>4, <2>1, <3>2
      <4>2. gen[h].state \in {"composed", "converted"} /\ gen[q].state # "none" /\ gen[q].rid = gen[h].rid
          BY <1>3, <2>1, <3>2, <4>1 DEF Ranks, Stars, Descent
      <4>3. gen'[q].state # "none" /\ gen'[q].rid = gen'[h].rid
          BY <1>3, <4>1, <4>2
      <4> QED BY <1>3, <3>2, <4>1, <4>2, <4>3
    <3> QED BY <3>1, <3>2
  <2>2. \A h \in Gen : gen'[h].state = "none" => gen'[h].starLv = 0
      BY <1>2, <1>3 DEF Ranks, Stars, Descent
  <2> QED BY <2>1, <2>2 DEF Descent
<1>7. ASSUME NEW q \in Gen, gen[q].rid \notin overlapped, \A h \in strayed : gen'[h].parent # q
      PROVE  /\ gen'[q].starLv = Cardinality(Family(q)') /\ gen'[q].starLv <= Star[CfgOf[q]]
             /\ \A h \in Family(q)' : gen'[h].state = "composed"
  <2>1. eaten \cap Family(q) = {}
    <3>1. ASSUME NEW h \in eaten, gen[h].parent = q PROVE FALSE
      <4>1. h \in Gen /\ q # NoGen
          BY <1>2, GeneralAssumption
      <4>2. gen[q].rid = gen[h].rid
          BY <3>1, <4>1 DEF Ranks, Stars, Descent
      <4>3. r \notin overlapped /\ gen[h].parent = NoGen
          BY <1>2, <1>7, <4>2
      <4> QED BY <3>1, <4>1, <4>3
    <3> QED BY <3>1 DEF Family
  <2>2. Family(q)' = IF q = g THEN Family(g) \cup eaten ELSE Family(q)
    <3>1. ASSUME NEW h \in Gen
          PROVE  gen'[h].parent = q <=> IF q = g THEN h \in Family(g) \cup eaten ELSE h \in Family(q)
        BY <1>2, <1>3, <2>1 DEF Family
    <3>2. Family(q) \subseteq Gen /\ Family(g) \subseteq Gen
        BY DEF Family
    <3>3. Family(q)' = {h \in Gen : gen'[h].parent = q}
        BY DEF Family
    <3> QED BY <1>2, <3>1, <3>2, <3>3
  <2>3. \A h \in strayed : gen[h].parent # q
    <3>1. strayed \subseteq Gen
        BY DEF IInv, GeneralTypeOK
    <3> QED BY <1>3, <1>7, <2>1, <3>1 DEF Family
  <2>4. /\ gen[q].starLv = Cardinality(Family(q)) /\ gen[q].starLv <= Star[CfgOf[q]]
        /\ \A h \in Family(q) : gen[h].state = "composed"
      BY <1>7, <2>3 DEF Ranks, Stars, Starred
  <2>5. \A h \in Family(q) : gen'[h].state = "composed"
      BY <1>3, <2>4 DEF Family
  <2>6. CASE q = g
    <3>1. /\ IsFiniteSet(eaten) /\ IsFiniteSet(Family(q))
        BY <1>2, FS_Subset, GeneralAssumption DEF Family
    <3>2. /\ Cardinality(Family(q)) \in Nat /\ Cardinality(eaten) \in Nat
          /\ Cardinality(Family(q) \cup eaten) =
                Cardinality(Family(q)) + Cardinality(eaten) - Cardinality(Family(q) \cap eaten)
        BY <3>1, FS_Union, FS_CardinalityType
    <3>3. Cardinality(Family(q) \cap eaten) = 0
      <4>1. Family(q) \cap eaten = {}
          BY <2>1
      <4> QED BY <4>1, FS_EmptySet
    <3>4. g \notin eaten /\ gen[g].rid = r
        BY <1>2
    <3>5. gen'[q].starLv = gen[q].starLv + Cardinality(eaten)
        BY <1>3, <2>6, <3>4
    <3>6. gen'[q].starLv = Cardinality(Family(q) \cup eaten)
        BY <2>4, <3>2, <3>3, <3>5
    <3>7. gen'[q].starLv <= Star[CfgOf[q]]
        BY <1>2, <1>7, <2>6, <3>4, <3>5
    <3> QED BY <1>2, <1>3, <2>2, <2>5, <2>6, <3>6, <3>7
  <2>7. CASE q # g
    <3>1. gen'[q].starLv = gen[q].starLv
        BY <1>3, <2>7
    <3> QED BY <2>2, <2>4, <2>5, <2>7, <3>1
  <2> QED BY <2>6, <2>7
<1>8. Stars'
  <2>1. ASSUME NEW q \in Gen PROVE Starred(q)'
      BY <1>1, <1>3, <1>7 DEF Starred
  <2> QED BY <1>6, <2>1 DEF Stars
<1>9. Errands'
  <2>1. ASSUME NEW h \in Gen, gen[h].state # "none"
        PROVE  /\ gen'[h].state # "none" /\ gen'[h].rid = gen[h].rid
               /\ gen[h].rid # in[x] =>
                     /\ gen'[h].order = gen[h].order /\ gen'[h].parent = gen[h].parent
                     /\ gen'[h].starLv = gen[h].starLv
                     /\ gen'[h].state = "converted" => gen[h].state = "converted" \/ h \in strayed'
      BY <1>2, <1>3, <2>1 DEF r
  <2> QED BY <1>0, <1>1, <2>1, ErrandsStore
<1> QED BY <1>5, <1>8, <1>9 DEF Ranks

\* Those sold stood nowhere and were nobody's stars, but those of another role.
LEMMA ConvertRanks ==
    ASSUME IInv, Born, Single, Ranks, NEW x \in Conn, Others(x), ConvertStores(x)
    PROVE  Ranks'
<1> DEFINE r == in[x]
           sold == greq[x].gens
<1>0. Done(x) /\ Serves(x, "convert") /\ Busy(x) /\ Ordering(x) /\ Trading(x)
    BY DEF ConvertStores, Ranks, Errands, Serves, Busy
<1>1. /\ UNCHANGED <<army, overlapped>> /\ req'[x] = Idle
      /\ strayed' = strayed \cup {g \in sold : gen[g].rid # r}
    BY <1>0, DoneType DEF ConvertStores, HomeKept
<1>2. /\ sold \subseteq Gen /\ \A h \in sold : gen[h].state # "none"
      /\ r \notin overlapped =>
            \A h \in sold : gen[h].rid = r => gen[h].order = 0 /\ gen[h].parent = NoGen
  <2>1. sold \subseteq Gen
      BY DEF IInv, GeneralTypeOK, About
  <2> QED BY <1>0, <2>1 DEF Ordering, Trading, Born
<1>3. ASSUME NEW h \in Gen
      PROVE  /\ gen'[h].rid = gen[h].rid /\ gen'[h].order = gen[h].order
             /\ gen'[h].parent = gen[h].parent /\ gen'[h].starLv = gen[h].starLv
             /\ gen'[h].state = IF h \in sold THEN "converted" ELSE gen[h].state
    BY ConvertEdits
<1>4. \A h \in Gen : gen[h].parent \in Gen \cup {NoGen}
    BY DEF IInv, GeneralTypeOK, GenRec
<1> HIDE DEF r, sold
<1>a. \A h \in Gen : gen'[h].state = "none" <=> gen[h].state = "none"
    BY <1>2, <1>3
<1>5. Posts'
  <2>1. Enlisted'
      BY <1>1, <1>3, <1>a DEF Ranks, Posts, Enlisted
  <2>2. ASSUME NEW s \in Role, NEW h \in Gen PROVE Posted(s, h)'
    <3>1. Posted(s, h)
        BY DEF Ranks, Posts
    <3>2. CASE h \notin sold
        BY <1>1, <1>3, <3>1, <3>2 DEF Posted
    <3>3. CASE h \in sold /\ h \notin strayed' /\ gen[h].rid = s /\ s \notin overlapped
      <4>1. gen[h].order = 0 /\ gen[h].state # "none"
          BY <1>1, <1>2, <3>3
      <4>2. \A o \in Order, p \in Place : army[s][o][p] # h
          BY <1>1, <3>1, <3>3, <4>1, GeneralAssumption DEF Posted
      <4> QED BY <1>1, <4>2 DEF Posted
    <3> QED BY <1>1, <1>3, <3>2, <3>3 DEF Posted
  <2> QED BY <2>1, <2>2 DEF Posts
<1>6. Descent'
  <2>1. ASSUME NEW h \in Gen, gen[h].parent # NoGen
        PROVE  /\ gen'[h].state \in {"composed", "converted"}
               /\ gen'[gen[h].parent].state # "none" /\ gen'[gen[h].parent].rid = gen'[h].rid
    <3>1. /\ gen[h].state \in {"composed", "converted"} /\ gen[h].parent \in Gen
          /\ gen[gen[h].parent].state # "none" /\ gen[gen[h].parent].rid = gen[h].rid
        BY <1>4, <2>1 DEF Ranks, Stars, Descent
    <3> QED BY <1>3, <1>a, <3>1
  <2>2. \A h \in Gen : gen'[h].state = "none" => gen'[h].starLv = 0
      BY <1>3, <1>a DEF Ranks, Stars, Descent
  <2> QED BY <1>3, <2>1, <2>2 DEF Descent
<1>7. ASSUME NEW q \in Gen PROVE Starred(q)'
  <2>1. Family(q)' = Family(q) /\ strayed \subseteq Gen /\ Starred(q)
      BY <1>3 DEF Family, IInv, GeneralTypeOK, Ranks, Stars
  <2>2. ASSUME gen[q].rid \notin overlapped, \A h \in strayed' : gen'[h].parent # q,
               NEW h \in Family(q)
        PROVE  h \notin sold
    <3>1. h \in Gen /\ gen[h].parent = q /\ q # NoGen
        BY GeneralAssumption DEF Family
    <3>2. gen[q].rid = gen[h].rid
        BY <3>1 DEF Ranks, Stars, Descent
    <3>3. h \notin strayed'
        BY <1>3, <2>2, <3>1
    <3>4. h \in sold => gen[h].rid = r
        BY <1>1, <3>3
    <3> QED BY <1>2, <2>2, <3>1, <3>2, <3>4
  <2>3. ASSUME gen[q].rid \notin overlapped, \A h \in strayed' : gen'[h].parent # q
        PROVE  /\ gen'[q].starLv = Cardinality(Family(q)) /\ gen'[q].starLv <= Star[CfgOf[q]]
               /\ \A h \in Family(q) : gen'[h].state = "composed"
    <3>1. \A h \in strayed : gen[h].parent # q
        BY <1>1, <1>3, <2>1, <2>3
    <3>2. /\ gen[q].starLv = Cardinality(Family(q)) /\ gen[q].starLv <= Star[CfgOf[q]]
          /\ \A h \in Family(q) : gen[h].state = "composed"
        BY <2>1, <2>3, <3>1 DEF Starred
    <3>3. \A h \in Family(q) : gen'[h].state = "composed"
        BY <1>3, <2>2, <2>3, <3>2 DEF Family
    <3> QED BY <1>3, <3>2, <3>3
  <2> QED BY <1>1, <1>3, <2>1, <2>3 DEF Starred
<1>8. Errands'
  <2>1. ASSUME NEW h \in Gen, gen[h].state # "none"
        PROVE  /\ gen'[h].state # "none" /\ gen'[h].rid = gen[h].rid
               /\ gen[h].rid # in[x] =>
                     /\ gen'[h].order = gen[h].order /\ gen'[h].parent = gen[h].parent
                     /\ gen'[h].starLv = gen[h].starLv
                     /\ gen'[h].state = "converted" => gen[h].state = "converted" \/ h \in strayed'
      BY <1>1, <1>3, <1>a, <2>1 DEF r
  <2> QED BY <1>0, <1>1, <2>1, ErrandsStore
<1> QED BY <1>5, <1>6, <1>7, <1>8 DEF Ranks, Stars

\* Who is put into a place stood nowhere; who stood there stands nowhere then.
LEMMA PlaceRanks ==
    ASSUME IInv, Born, Single, Ranks, NEW x \in Conn, Others(x), PlaceStores(x)
    PROVE  Ranks'
<1> DEFINE r == in[x]
           g == greq[x].gen
           o == greq[x].order
           p == greq[x].place
           old == army[r][o][p]
<1>0. Done(x) /\ Serves(x, "place") /\ Busy(x) /\ Ordering(x)
    BY DEF PlaceStores, Ranks, Errands, Serves, Busy
<1>1. /\ UNCHANGED <<overlapped, strayed>> /\ req'[x] = Idle
    BY <1>0, DoneType DEF PlaceStores, HomeKept
<1>2. /\ r \in Role /\ g \in Gen /\ o \in Order /\ p \in Place
      /\ gen[g].state # "none" /\ gen[g].rid = r
      /\ r \notin overlapped => gen[g].order = 0 /\ (g \notin strayed => gen[g].state # "converted")
  <2>1. r \in Role /\ g \in Gen /\ o \in Order /\ p \in Place
      BY <1>0 DEF IInv, Sound, SoundOne
  <2> QED BY <1>0, <2>1 DEF Ordering, Serves
<1>3. ASSUME NEW s \in Role, NEW b \in Order, NEW q \in Place
      PROVE  army'[s][b][q] = IF s = r /\ b = o /\ q = p THEN g ELSE army[s][b][q]
  <2>1. army' = [army EXCEPT ![r] = [army[r] EXCEPT ![o] = [army[r][o] EXCEPT ![p] = g]]]
      BY DEF PlaceStores
  <2> QED BY <1>2, <2>1 DEF IInv, GeneralTypeOK
<1>4. ASSUME NEW h \in Gen
      PROVE  /\ gen'[h].rid = gen[h].rid /\ gen'[h].state = gen[h].state
             /\ gen'[h].parent = gen[h].parent /\ gen'[h].starLv = gen[h].starLv
             /\ gen'[h].order = IF h = g THEN o ELSE IF h = old THEN 0 ELSE gen[h].order
  <2>1. PlaceStores(x)
      OBVIOUS
  <2> QED BY <2>1, OrderEdits
<1>5. old \in Gen => gen[old].rid = r /\ army[r][o][p] = old
    BY <1>2 DEF Ranks, Posts, Enlisted
<1> HIDE DEF r, g, o, p, old
<1>6. Enlisted'
    BY <1>2, <1>3, <1>4 DEF Ranks, Posts, Enlisted
<1>7. ASSUME NEW s \in Role, NEW h \in Gen, gen[h].state # "none", gen[h].rid = s,
             s \notin overlapped, h \notin strayed,
             NEW b \in Order, NEW q \in Place, army'[s][b][q] = h
      PROVE  gen'[h].order = b /\ gen'[h].state # "converted"
             /\ \A k \in Place : army'[s][b][k] = h => k = q
  <2>0. Posted(s, h)
      BY DEF Ranks, Posts
  <2>1. CASE s # r
    <3>1. h # g /\ (h # old \/ old \notin Gen)
        BY <1>2, <1>5, <1>7, <2>1
    <3> QED BY <1>3, <1>4, <1>7, <2>0, <2>1, <3>1 DEF Posted
  <2>2. CASE s = r /\ h = g
    <3>1. \A a \in Order, k \in Place : army[r][a][k] # g
        BY <1>2, <1>7, <2>0, <2>2, GeneralAssumption DEF Posted
    <3>2. b = o /\ \A k \in Place : army'[s][b][k] = h => k = p
        BY <1>3, <1>7, <2>2, <3>1
    <3> QED BY <1>2, <1>4, <1>7, <2>2, <3>2
  <2>3. CASE s = r /\ h # g
    <3>1. army[r][b][q] = h /\ ~(b = o /\ q = p)
        BY <1>3, <1>7, <2>3
    <3>2. h # old
      <4>1. SUFFICES ASSUME h = old PROVE FALSE
          OBVIOUS
      <4>2. gen[h].order = b /\ gen[h].order = o
          BY <1>2, <1>5, <1>7, <2>0, <2>3, <3>1, <4>1 DEF Posted
      <4> QED BY <1>2, <1>5, <1>7, <2>0, <2>3, <3>1, <4>1, <4>2 DEF Posted
    <3>3. \A k \in Place : army'[s][b][k] = h => army[s][b][k] = h
        BY <1>3, <2>3
    <3> QED BY <1>4, <1>7, <2>0, <2>3, <3>1, <3>2, <3>3 DEF Posted
  <2> QED BY <2>1, <2>2, <2>3
<1>8. ASSUME NEW s \in Role, NEW h \in Gen PROVE Posted(s, h)'
    BY <1>1, <1>4, <1>7 DEF Posted
<1>9. Stars'
    BY <1>1, <1>4, StarsSame DEF Ranks
<1>10. Errands'
  <2>1. ASSUME NEW h \in Gen, gen[h].state # "none"
        PROVE  /\ gen'[h].state # "none" /\ gen'[h].rid = gen[h].rid
               /\ gen[h].rid # in[x] =>
                     /\ gen'[h].order = gen[h].order /\ gen'[h].parent = gen[h].parent
                     /\ gen'[h].starLv = gen[h].starLv
                     /\ gen'[h].state = "converted" => gen[h].state = "converted" \/ h \in strayed'
      BY <1>2, <1>4, <1>5, <2>1 DEF r
  <2> QED BY <1>0, <1>1, <2>1, ErrandsStore
<1> QED BY <1>6, <1>8, <1>9, <1>10 DEF Ranks, Posts

\* Who is taken out of an army stands in no other, or is counted among the strayed.
LEMMA TakeOutRanks ==
    ASSUME IInv, Born, Single, Ranks, NEW x \in Conn, Others(x), TakeOutStores(x)
    PROVE  Ranks'
<1> DEFINE r == in[x]
           g == greq[x].gen
           o == greq[x].order
<1>0. Done(x) /\ Serves(x, "takeOut") /\ Busy(x) /\ Ordering(x)
    BY DEF TakeOutStores, Ranks, Errands, Serves, Busy
<1>1. /\ UNCHANGED overlapped /\ req'[x] = Idle
      /\ strayed' = IF \E u \in Standing(r, g) : u[1] # o THEN strayed \cup {g} ELSE strayed
    BY <1>0, DoneType DEF TakeOutStores, HomeKept
<1>2. r \in Role /\ g \in Gen /\ o \in Order /\ gen[g].state # "none" /\ gen[g].rid = r
  <2>1. r \in Role /\ g \in Gen /\ o \in Order
      BY <1>0 DEF IInv, Sound, SoundOne
  <2> QED BY <1>0, <2>1 DEF Ordering, Serves
<1>3. ASSUME NEW s \in Role, NEW b \in Order, NEW q \in Place
      PROVE  army'[s][b][q] = IF s = r /\ b = o /\ army[r][o][q] = g THEN NoGen ELSE army[s][b][q]
  <2> DEFINE row == [k \in Place |-> IF army[r][o][k] = g THEN NoGen ELSE army[r][o][k]]
  <2>1. army' = [army EXCEPT ![r] = [army[r] EXCEPT ![o] = row]]
      BY DEF TakeOutStores
  <2>2. row[q] = IF army[r][o][q] = g THEN NoGen ELSE army[r][o][q]
      OBVIOUS
  <2> HIDE DEF row
  <2> QED BY <1>2, <2>1, <2>2 DEF IInv, GeneralTypeOK
<1>4. ASSUME NEW h \in Gen
      PROVE  /\ gen'[h].rid = gen[h].rid /\ gen'[h].state = gen[h].state
             /\ gen'[h].parent = gen[h].parent /\ gen'[h].starLv = gen[h].starLv
             /\ gen'[h].order = IF h = g THEN 0 ELSE gen[h].order
  <2>1. TakeOutStores(x)
      OBVIOUS
  <2> QED BY <2>1, OrderEdits
<1>5. \A b \in Order \ {o}, q \in Place : army[r][b][q] = g => g \in strayed'
  <2>1. ASSUME NEW b \in Order \ {o}, NEW q \in Place, army[r][b][q] = g PROVE g \in strayed'
    <3>1. <<b, q>> \in Standing(r, g) /\ <<b, q>>[1] # o
        BY <2>1 DEF Standing
    <3> QED BY <1>1, <3>1
  <2> QED BY <2>1
<1> HIDE DEF r, g, o
<1>6. Enlisted'
    BY <1>3, <1>4, GeneralAssumption DEF Ranks, Posts, Enlisted
<1>7. ASSUME NEW s \in Role, NEW h \in Gen PROVE Posted(s, h)'
  <2>0. Posted(s, h) /\ h # NoGen
      BY GeneralAssumption DEF Ranks, Posts
  <2>1. \A b \in Order, q \in Place : army'[s][b][q] = h => army[s][b][q] = h
      BY <1>3, <2>0
  <2>2. CASE h = g
    <3>1. gen[h].rid = s /\ h \notin strayed' => \A b \in Order, q \in Place : army'[s][b][q] # h
        BY <1>2, <1>3, <1>5, <2>0, <2>2
    <3> QED BY <1>4, <3>1 DEF Posted
  <2>3. CASE h # g
      BY <1>1, <1>4, <2>0, <2>1, <2>3 DEF Posted
  <2> QED BY <2>2, <2>3
<1>8. Stars'
    BY <1>1, <1>4, StarsSame DEF Ranks
<1>9. Errands'
  <2>1. ASSUME NEW h \in Gen, gen[h].state # "none"
        PROVE  /\ gen'[h].state # "none" /\ gen'[h].rid = gen[h].rid
               /\ gen[h].rid # in[x] =>
                     /\ gen'[h].order = gen[h].order /\ gen'[h].parent = gen[h].parent
                     /\ gen'[h].starLv = gen[h].starLv
                     /\ gen'[h].state = "converted" => gen[h].state = "converted" \/ h \in strayed'
      BY <1>2, <1>4, <2>1 DEF r
  <2> QED BY <1>0, <1>1, <2>1, ErrandsStore
<1> QED BY <1>6, <1>7, <1>8, <1>9 DEF Ranks, Posts

LEMMA CommandingRanks ==
    ASSUME IInv, Born, Single, Ranks, NEW x \in Conn, Commanding(x)
    PROVE  Ranks'
<1>0. TypeOK /\ Others(x)
    BY CommandingInductive DEF IInv, GeneralTypeOK
<1>1. CASE MyLooks(x) \/ \E n \in DrawTimes : DrawLooks(x, n)
  <2>1. PICK op \in {"my", "draw"} : \E about : Begins(x, op, about)
      BY <1>1 DEF MyLooks, DrawLooks
  <2>2. op \in Op \ Errand
      BY DEF Op, Errand
  <2> QED BY <1>0, <2>1, <2>2, BeginsRanks
<1>2. ASSUME NEW op \in {"up", "down"}, NEW g \in Gen, NEW s \in SkillCfg, NEW p \in SkillSlot,
             SkillLooks(x, op, g, s, p)
      PROVE  Ranks'
  <2>1. PICK q \in Skilling : \E about : Begins(x, q, about)
      BY <1>2 DEF SkillLooks, Skilling
  <2>2. q \in Op \ Errand
      BY DEF Op, Errand, Skilling
  <2> QED BY <1>0, <2>1, <2>2, BeginsRanks
<1>3. ASSUME NEW g \in Gen, NEW eaten \in SUBSET Gen, ComposeLooks(x, g, eaten) PROVE Ranks'
  <2> DEFINE about == [Asked EXCEPT !.gen = g, !.gens = eaten]
  <2>1. about \in About /\ about.gen = g /\ about.gens = eaten
      BY DEF Asked, About, NoSkill
  <2>2. Begins(x, "compose", about) /\ Mine(x, g) /\ g \notin eaten /\ \A h \in eaten : Mine(x, h)
      BY <1>3 DEF ComposeLooks
  <2>3. gen[g].starLv + Cardinality(eaten) <= Star[CfgOf[g]]
    <3>1. Cardinality(eaten) \in Nat /\ gen[g].starLv \in Nat /\ Star[CfgOf[g]] \in Nat
        BY FS_Subset, FS_CardinalityType, GeneralAssumption DEF IInv, GeneralTypeOK, GenRec
    <3> QED BY <1>3, <3>1 DEF ComposeLooks
  <2>4. "compose" \in Op
      BY DEF Op
  <2> HIDE DEF about
  <2> QED BY <2>1, <2>2, <2>3, <2>4, LooksRanks
<1>4. ASSUME NEW sold \in SUBSET Gen, ConvertLooks(x, sold) PROVE Ranks'
  <2> DEFINE about == [Asked EXCEPT !.gens = sold]
  <2>1. about \in About /\ about.gens = sold
      BY DEF Asked, About, NoSkill
  <2>2. Begins(x, "convert", about) /\ \A g \in sold : gen[g].state = "normal" /\ gen[g].order = 0
      BY <1>4 DEF ConvertLooks
  <2>3. "convert" \in Op
      BY DEF Op
  <2> HIDE DEF about
  <2> QED BY <2>1, <2>2, <2>3, LooksRanks
<1>5. ASSUME NEW g \in Gen, NEW o \in Order, NEW p \in Place, PlaceLooks(x, g, o, p) PROVE Ranks'
  <2> DEFINE about == [Asked EXCEPT !.gen = g, !.order = o, !.place = p]
  <2>1. about \in About /\ about.gen = g
      BY DEF Asked, About, NoSkill
  <2>2. Begins(x, "place", about) /\ Mine(x, g) /\ gen[g].order = 0
      BY <1>5 DEF PlaceLooks
  <2>3. "place" \in Op
      BY DEF Op
  <2> HIDE DEF about
  <2> QED BY <2>1, <2>2, <2>3, LooksRanks
<1>6. ASSUME NEW g \in Gen, NEW o \in Order, TakeOutLooks(x, g, o) PROVE Ranks'
  <2> DEFINE about == [Asked EXCEPT !.gen = g, !.order = o]
  <2>1. about \in About /\ about.gen = g
      BY DEF Asked, About, NoSkill
  <2>2. Begins(x, "takeOut", about) /\ Mine(x, g)
      BY <1>6 DEF TakeOutLooks
  <2>3. "takeOut" \in Op
      BY DEF Op
  <2> HIDE DEF about
  <2> QED BY <2>1, <2>2, <2>3, LooksRanks
<1>7. CASE MyMakes(x) \/ DrawMakes(x)
  <2>1. PICK new, n : Made(in[x], new, n)
      BY <1>7 DEF MyMakes, DrawMakes
  <2>2. ASSUME NEW g \in Gen
        PROVE  /\ gen'[g].parent = gen[g].parent /\ gen'[g].starLv = gen[g].starLv
               /\ gen[g].state # "none" => /\ gen'[g].state = gen[g].state /\ gen'[g].rid = gen[g].rid
                                           /\ gen'[g].order = gen[g].order
               /\ gen[g].state = "none" => gen'[g].state \in {"none", "normal"}
    <3>1. gen[g].state = "none" => gen[g].parent = NoGen /\ gen[g].starLv = 0
        BY DEF Ranks, Stars, Descent
    <3> QED BY <2>1, <3>1, MadeEdits
  <2>3. UNCHANGED <<army, strayed, overlapped>>
      BY <1>7 DEF MyMakes, DrawMakes, HomeKept
  <2>4. req'[x].op \notin Errand
    <3> DEFINE q == [req[x] EXCEPT !.op = "drawPay", !.seen = res[in[x]]]
    <3>1. q.op = "drawPay"
        BY <1>0 DEF TypeOK, Request
    <3>2. Ends(x) \/ req' = [req EXCEPT ![x] = q]
        BY <1>7 DEF MyMakes, DrawMakes, Done
    <3> HIDE DEF q
    <3> QED BY <1>0, <3>1, <3>2, GoesTo, Blanks DEF Errand
  <2> QED BY <1>0, <2>2, <2>3, <2>4, RanksOther
<1>8. CASE DrawPays(x) \/ MakeSkill(x) \/ UpSkillStores(x) \/ DownSkillStores(x)
  <2>1. UNCHANGED <<army, strayed, overlapped>>
      BY <1>8 DEF DrawPays, MakeSkill, UpSkillStores, DownSkillStores, HomeKept
  <2>2. req'[x].op \notin Errand
    <3>1. Ends(x) \/ \E op \in Skilling : Goes(x, op)
        BY <1>8 DEF DrawPays, MakeSkill, UpSkillStores, DownSkillStores, Done, Skilling
    <3>2. Skilling \subseteq Op \ Errand
        BY DEF Skilling, Op, Errand
    <3> QED BY <1>0, <3>1, <3>2, GoesTo, Blanks DEF Errand
  <2>3. CASE DrawPays(x) \/ MakeSkill(x)
    <3>1. gen' = gen
        BY <2>3 DEF DrawPays, MakeSkill, generals
    <3> QED BY <1>0, <2>1, <2>2, <3>1, RanksOther
  <2>4. CASE UpSkillStores(x) \/ DownSkillStores(x)
    <3>1. \A h \in Gen :
              /\ gen'[h].state = gen[h].state /\ gen'[h].rid = gen[h].rid
              /\ gen'[h].order = gen[h].order /\ gen'[h].parent = gen[h].parent
              /\ gen'[h].starLv = gen[h].starLv
        BY <2>4, WornSlots
    <3> QED BY <1>0, <2>1, <2>2, <3>1, RanksOther
  <2> QED BY <1>8, <2>3, <2>4
<1> QED BY <1>0, <1>1, <1>2, <1>3, <1>4, <1>5, <1>6, <1>7, <1>8, ComposeRanks, ConvertRanks,
           PlaceRanks, TakeOutRanks DEF Commanding

\* No request is about generals, and nobody is put anywhere.
LEMMA RanksKept ==
    ASSUME Ranks, gen' = gen, strayed' = strayed, overlapped \subseteq overlapped',
           \A r \in Role, o \in Order, p \in Place :
               army'[r][o][p] \in Gen => army'[r][o][p] = army[r][o][p],
           UNCHANGED <<in, req, greq, overlapped>> \/ \A x \in Conn : req'[x] = Idle
    PROVE  Ranks'
<1>1. Enlisted'
    BY DEF Ranks, Posts, Enlisted
<1>2. ASSUME NEW r \in Role, NEW g \in Gen PROVE Posted(r, g)'
  <2>1. Posted(r, g) /\ \A o \in Order, p \in Place : army'[r][o][p] = g => army[r][o][p] = g
      BY DEF Ranks, Posts
  <2> QED BY <2>1 DEF Posted
<1>3. Stars'
  <2>1. \A g : Family(g)' = Family(g)
      BY DEF Family
  <2>2. ASSUME NEW g \in Gen PROVE Starred(g)'
    <3>1. Starred(g)
        BY DEF Ranks, Stars
    <3> QED BY <2>1, <3>1 DEF Starred
  <2>3. Descent'
      BY DEF Ranks, Stars, Descent
  <2> QED BY <2>2, <2>3 DEF Stars
<1>4. Errands'
  <2>1. CASE UNCHANGED <<in, req, greq, overlapped>>
      BY <2>1 DEF Ranks, Errands, Ordering, Trading, Serves
  <2>2. CASE \A x \in Conn : req'[x] = Idle
      BY <2>2, Blanks DEF Errands, Ordering, Trading, Serves
  <2> QED BY <2>1, <2>2
<1> QED BY <1>1, <1>2, <1>3, <1>4 DEF Ranks, Posts

LEMMA RanksInductive == PurseInv /\ Ranks /\ [GeneralNext]_allVars => Ranks'
<1> SUFFICES ASSUME PurseInv, Ranks, [GeneralNext]_allVars PROVE Ranks'
    OBVIOUS
<1>0. IInv /\ Born /\ Single /\ GeneralTypeOK'
    BY Inductive DEF PurseInv, IInv
<1>1. ASSUME NEW x \in Conn, Entering(x) \/ Managing(x), UNCHANGED generalVars PROVE Ranks'
  <2>1. Others(x)
      BY <1>0, <1>1, EnteringSound, ManagingSound
  <2>2. UNCHANGED <<gen, army, strayed>>
      BY <1>1 DEF generalVars, generals
  <2>3. req'[x].op \notin Errand /\ overlapped \subseteq overlapped'
      BY <1>0, <1>1, HomeAsks DEF AtHomeOps, Stages, Errand, Busy
  <2> QED BY <1>0, <2>1, <2>2, <2>3, RanksOther
<1>2. CASE AtHome /\ (Producing \/ Tick)
  <2>1. UNCHANGED <<in, req, greq, overlapped, gen, army, strayed>>
      BY <1>2 DEF AtHome, generalVars, generals, Producing, ProduceBegins, ProduceLooks,
                  ProduceStores, Tick, counters, world, history
  <2> QED BY <2>1, RanksKept
<1>3. CASE UNCHANGED allVars
  <2>1. UNCHANGED <<in, req, greq, overlapped, gen, army, strayed>>
      BY <1>3 DEF allVars, estateVars, counters, generalVars, generals, world, history
  <2> QED BY <2>1, RanksKept
<1>4. CASE GeneralRestart
  <2>1. /\ UNCHANGED <<gen, strayed, overlapped>> /\ \A x \in Conn : req'[x] = Idle
      BY <1>4 DEF GeneralRestart, Restart
  <2>2. \A r \in Role, o \in Order, p \in Place :
            army'[r][o][p] \in Gen => army'[r][o][p] = army[r][o][p]
      BY <1>4, GeneralAssumption DEF GeneralRestart
  <2> QED BY <2>1, <2>2, RanksKept
<1> QED BY <1>0, <1>1, <1>2, <1>3, <1>4, CommandingRanks DEF GeneralNext, AtHome

LEMMA RanksInit == GeneralInit => Ranks
<1> SUFFICES ASSUME GeneralInit PROVE Ranks
    OBVIOUS
<1>1. /\ \A r \in Role, o \in Order, p \in Place : army[r][o][p] = NoGen
      /\ \A g \in Gen : gen[g].state = "none" /\ gen[g].starLv = 0 /\ gen[g].parent = NoGen
      /\ \A x \in Conn : req[x].op = "idle"
    BY Blanks DEF GeneralInit, Init, Unborn
<1>2. \A g \in Gen : Family(g) = {}
    BY <1>1, GeneralAssumption DEF Family
<1>3. ASSUME NEW g \in Gen PROVE Starred(g)
  <2>1. Star[CfgOf[g]] \in Nat /\ Cardinality({}) = 0
      BY GeneralAssumption, FS_EmptySet
  <2>2. Family(g) = {} /\ gen[g].starLv = 0
      BY <1>1, <1>2
  <2>3. gen[g].starLv = Cardinality(Family(g)) /\ gen[g].starLv <= Star[CfgOf[g]]
      BY <2>1, <2>2
  <2> QED BY <2>2, <2>3 DEF Starred
<1>4. Posts
    BY <1>1, GeneralAssumption DEF Posts, Enlisted, Posted
<1>5. Errands /\ Descent
    BY <1>1 DEF Errands, Ordering, Trading, Serves, Descent
<1> QED BY <1>3, <1>4, <1>5 DEF Ranks, Stars

LEMMA RanksHold == GeneralSpec => [](IInv /\ Ranks)
<1>1. PurseInv /\ Ranks /\ [GeneralNext]_allVars => (PurseInv /\ Ranks)'
    BY PurseInductive, RanksInductive
<1>2. GeneralInit => PurseInv /\ Ranks
    BY PurseInit, RanksInit
<1>3. PurseInv => IInv
    BY DEF PurseInv
<1> QED BY <1>1, <1>2, <1>3, PTL DEF GeneralSpec

\* A general stands in one place of one army at most and is not sold while it
\* stands, although its order and the armies are changed by dispose, by
\* conversion and by a new start, one or the other of them.
THEOREM GeneralsStandOnce == GeneralSpec => []ArmyOnce
<1>1. IInv /\ Ranks => ArmyOnce
    BY RanksMean
<1> QED BY <1>1, RanksHold, PTL

\* The stars of a general are the generals composed into it, although they are
\* counted before the request that adds them is carried out.
THEOREM StarsAreEarned == GeneralSpec => []StarsEarned
<1>1. IInv /\ Ranks => StarsEarned
    BY RanksMean
<1> QED BY <1>1, RanksHold, PTL

(***************************************************************************)
(* The limit of a skill.  It is counted in the row and looked at before    *)
(* the general puts the skill on, so a role whose requests come one at a   *)
(* time must have one row of a kind, and the row a request is about must   *)
(* not fill meanwhile.  With Dressed the row knows its wearers, until the  *)
(* first new start.                                                        *)
(***************************************************************************)
Making == {"makeUpSkill", "makeDownSkill"}

OneRow(r) ==
    \A i, j \in DOMAIN skill :
        skill[i].rid = r /\ skill[j].rid = r /\ skill[i].cfg = skill[j].cfg => i = j

Fitting(x) ==
    /\ req[x].op \in {"upSkill", "downSkill"} => skill[greq[x].row].rid = in[x]
    /\ in[x] \notin overlapped =>
          /\ req[x].op \in Making => RowsOf(in[x], greq[x].skill) = {}
          /\ Serves(x, "upSkill") => InLimit(greq[x].row)

Fitted ==
    /\ \A r \in Role \ overlapped : OneRow(r)
    /\ \A i \in DOMAIN skill : skill[i].rid \notin overlapped =>
           Cardinality(skill[i].gens) <= SkillCap
    /\ \A x \in Conn : Fitting(x)

LEMMA RowTypes ==
    ASSUME IInv
    PROVE  /\ skill \in Seq(SkillRec) /\ DOMAIN skill = 1..Len(skill) /\ Len(skill) \in Nat
           /\ \A i \in DOMAIN skill :
                  /\ skill[i] \in SkillRec /\ IsFiniteSet(skill[i].gens)
                  /\ skill[i].gens \in SUBSET Gen /\ Cardinality(skill[i].gens) \in Nat
           /\ \A x \in Conn : req[x].op \in {"upSkill", "downSkill"} => greq[x].row \in DOMAIN skill
<1>1. skill \in Seq(SkillRec) /\ DOMAIN skill = 1..Len(skill) /\ Len(skill) \in Nat
  BY DEF IInv, GeneralTypeOK, SkillRec
<1>2. ASSUME NEW i \in DOMAIN skill
      PROVE  /\ skill[i] \in SkillRec /\ IsFiniteSet(skill[i].gens)
             /\ skill[i].gens \in SUBSET Gen /\ Cardinality(skill[i].gens) \in Nat
  <2>1. skill[i] \in SkillRec BY <1>1
  <2>2. skill[i].gens \in SUBSET Gen BY <2>1 DEF SkillRec
  <2>3. IsFiniteSet(skill[i].gens) BY <2>2, FS_Subset, GeneralAssumption
  <2> QED BY <2>1, <2>2, <2>3, FS_CardinalityType
<1>3. \A x \in Conn : req[x].op \in {"upSkill", "downSkill"} => greq[x].row \in DOMAIN skill
  BY <1>1 DEF IInv, Sound, SoundOne
<1> QED BY <1>1, <1>2, <1>3

\* No row is made or changed, and nobody begins to put one on or take it off.
LEMMA FittedSame ==
    ASSUME Fitted, skill' = skill, overlapped \subseteq overlapped',
           \A x \in Conn : \/ req'[x].op \notin Skilling
                           \/ req'[x] = req[x] /\ greq'[x] = greq[x] /\ in'[x] = in[x]
    PROVE  Fitted'
<1>1. ASSUME NEW x \in Conn PROVE Fitting(x)'
  <2>1. CASE req'[x].op \notin Skilling BY <2>1 DEF Fitting, Serves, Skilling, Making
  <2>2. CASE req'[x] = req[x] /\ greq'[x] = greq[x] /\ in'[x] = in[x]
    <3>1. Fitting(x) BY DEF Fitted
    <3> QED BY <2>2, <3>1 DEF Fitting, Serves, RowsOf, InLimit
  <2> QED BY <2>1, <2>2
<1>2. \A r \in Role \ overlapped' : OneRow(r)' BY DEF Fitted, OneRow
<1> QED BY <1>1, <1>2 DEF Fitted

\* The row is looked for: it has room, or there is none.
LEMMA LooksFitted ==
    ASSUME IInv, Fitted, NEW x \in Conn, NEW op \in {"up", "down"}, NEW g \in Gen,
           NEW s \in SkillCfg, NEW p \in SkillSlot, SkillLooks(x, op, g, s, p)
    PROVE  Fitted'
<1> DEFINE about == [Asked EXCEPT !.gen = g, !.skill = s, !.place = p]
           of(i) == [about EXCEPT !.row = i]
           r == in[x]
<1>1. about \in About /\ about.skill = s
  BY DEF Asked, About, NoSkill
<1>2. \A i \in Nat : of(i) \in About /\ of(i).row = i
  BY <1>1 DEF About
<1>3. Skilling \subseteq Op BY DEF Skilling, Op
<1>4. \A i \in DOMAIN skill : i \in Nat BY RowTypes
<1>5. PICK q \in Skilling, b \in About :
          /\ Begins(x, q, b)
          /\ \/ q \in Making /\ RowsOf(r, s) = {} /\ b.skill = s
             \/ /\ q \notin Making /\ b.row \in RowsOf(r, s)
                /\ q = "upSkill" => InLimit(b.row)
  <2>1. CASE RowsOf(r, s) = {}
    <3>1. \E q \in Making : Begins(x, q, about) BY <2>1 DEF SkillLooks, Making
    <3>2. Making \subseteq Skilling BY DEF Making, Skilling
    <3> HIDE DEF about
    <3> QED BY <1>1, <2>1, <3>1, <3>2
  <2>2. CASE RowsOf(r, s) # {}
    <3>1. PICK i \in RowsOf(r, s) :
              /\ op = "up" => InLimit(i)
              /\ Begins(x, IF op = "up" THEN "upSkill" ELSE "downSkill", of(i))
      BY <2>2 DEF SkillLooks, LastRow
    <3>2. i \in DOMAIN skill BY DEF RowsOf
    <3>3. of(i) \in About /\ of(i).row = i BY <1>2, <1>4, <3>2
    <3> HIDE DEF of, about, r
    <3>4. {"upSkill", "downSkill"} \subseteq Skilling \ Making BY DEF Making, Skilling
    <3>5. CASE op = "up" BY <3>1, <3>3, <3>4, <3>5
    <3>6. CASE op # "up" BY <3>1, <3>3, <3>4, <3>6
    <3> QED BY <3>5, <3>6
  <2> QED BY <2>1, <2>2
<1> HIDE DEF about, of
<1>6. /\ Others(x) /\ in' = in /\ req'[x].op = q /\ greq'[x] = b /\ skill' = skill
  BY <1>3, <1>5, BeginsType
<1>7. overlapped \subseteq overlapped' BY <1>5 DEF Begins, Looks
<1>8. Fitting(x)'
  <2>1. RowsOf(r, s)' = RowsOf(r, s) /\ \A i : InLimit(i)' = InLimit(i)
    BY <1>6 DEF RowsOf, InLimit
  <2>2. CASE q \in Making
    BY <1>5, <1>6, <2>1, <2>2 DEF Fitting, Serves, Making, RowsOf
  <2>3. CASE q \notin Making
    <3>1. skill[b.row].rid = r BY <1>5, <2>3 DEF RowsOf
    <3> QED BY <1>5, <1>6, <2>1, <2>3, <3>1 DEF Fitting, Serves, Making
  <2> QED BY <2>2, <2>3
<1>9. ASSUME NEW y \in Conn \ {x} PROVE Fitting(y)'
  <2>1. Fitting(y) BY DEF Fitted
  <2> QED BY <1>6, <1>7, <2>1 DEF Others, Fitting, Serves, RowsOf, InLimit
<1>10. \A t \in Role \ overlapped' : OneRow(t)' BY <1>6, <1>7 DEF Fitted, OneRow
<1> QED BY <1>6, <1>7, <1>8, <1>9, <1>10 DEF Fitted

\* A row is made where there was none.
LEMMA MakesFitted ==
    ASSUME SkillCap # 0, IInv, Single, Fitted, NEW x \in Conn, MakeSkill(x), Others(x)
    PROVE  Fitted'
<1> DEFINE row == [rid |-> in[x], cfg |-> greq[x].skill, gens |-> {}]
           n == Len(skill) + 1
<1>0. TypeOK BY DEF IInv, GeneralTypeOK
<1>1. skill' = Append(skill, row) /\ overlapped' = overlapped /\ in' = in
  BY DEF MakeSkill, HomeKept, world
<1>2. row.rid = in[x] /\ row.cfg = greq[x].skill /\ row.gens = {} OBVIOUS
<1>3. in[x] \in Role /\ greq[x].skill \in SkillCfg /\ req[x].op \in Making /\ Busy(x)
  BY DEF IInv, Sound, SoundOne, MakeSkill, Skilling, Busy, Making
<1>4. row \in SkillRec BY <1>3 DEF SkillRec
<1> HIDE DEF row
<1>5. /\ DOMAIN skill' = 1..n /\ skill'[n] = row /\ n \notin DOMAIN skill /\ n \in Nat
      /\ \A i \in DOMAIN skill : i \in DOMAIN skill' /\ skill'[i] = skill[i]
      /\ \A i \in DOMAIN skill' : i = n \/ i \in DOMAIN skill
  BY <1>1, <1>4, RowTypes
<1>6. in[x] \notin overlapped => RowsOf(in[x], greq[x].skill) = {}
  BY <1>3 DEF Fitted, Fitting
<1>7. Cardinality({}) = 0 /\ SkillCap \in Nat /\ 0 < SkillCap
  BY FS_EmptySet, GeneralAssumption
<1> HIDE DEF n
<1>8. ASSUME NEW r \in Role \ overlapped PROVE OneRow(r)'
  <2>1. OneRow(r) BY DEF Fitted
  <2>2. \A i \in DOMAIN skill : skill[i].rid = in[x] /\ skill[i].cfg = greq[x].skill => r # in[x]
    BY <1>6 DEF RowsOf
  <2> SUFFICES ASSUME NEW i \in DOMAIN skill', NEW j \in DOMAIN skill',
                      skill'[i].rid = r, skill'[j].rid = r, skill'[i].cfg = skill'[j].cfg
               PROVE  i = j
    BY DEF OneRow
  <2> QED BY <1>2, <1>5, <2>1, <2>2 DEF OneRow
<1>9. ASSUME NEW i \in DOMAIN skill', skill'[i].rid \notin overlapped
      PROVE  Cardinality(skill'[i].gens) <= SkillCap
  <2>1. CASE i = n
    <3>1. skill'[i].gens = {} BY <1>2, <1>5, <2>1
    <3>2. Cardinality(skill'[i].gens) = 0 BY <1>7, <3>1
    <3> QED BY <1>7, <3>2
  <2>2. CASE i # n BY <1>5, <1>9, <2>2 DEF Fitted
  <2> QED BY <2>1, <2>2
<1>10. Fitting(x)'
  <2>1. req'[x].op \in {"upSkill", "downSkill"}
    <3>1. \E op \in {"upSkill", "downSkill"} : Goes(x, op) BY DEF MakeSkill
    <3>2. {"upSkill", "downSkill"} \subseteq Op BY DEF Op
    <3> QED BY <1>0, <3>1, <3>2, GoesTo
  <2>2. greq'[x].row = n
    <3>1. greq' = [greq EXCEPT ![x] = [greq[x] EXCEPT !.row = n]] /\ greq[x] \in About
          /\ greq \in [Conn -> About]
      BY DEF MakeSkill, IInv, GeneralTypeOK, n
    <3>2. greq'[x] = [greq[x] EXCEPT !.row = n] BY <3>1
    <3> QED BY <3>1, <3>2 DEF About
  <2>3. req'[x].op \notin Making BY <2>1 DEF Making
  <2> QED BY <1>1, <1>2, <1>5, <1>7, <2>1, <2>2, <2>3 DEF Fitting, InLimit
<1>11. ASSUME NEW y \in Conn \ {x} PROVE Fitting(y)'
  <2>1. /\ Fitting(y) /\ in'[y] = in[y] /\ req'[y] = req[y] /\ greq'[y] = greq[y]
    BY DEF Fitted, Others
  <2>2. req[y].op \in {"upSkill", "downSkill"} =>
            greq[y].row \in DOMAIN skill /\ skill'[greq[y].row] = skill[greq[y].row]
    BY <1>5, RowTypes
  <2>3. Busy(y) /\ in[y] \notin overlapped => in[y] # in[x] BY <1>3 DEF Single
  <2>4. in[y] # in[x] => RowsOf(in[y], greq[y].skill)' = RowsOf(in[y], greq[y].skill)
    BY <1>2, <1>5, <2>1 DEF RowsOf
  <2>5. req[y].op \in Making => Busy(y) BY DEF Making, Busy
  <2>6. Serves(y, "upSkill") => InLimit(greq[y].row)' = InLimit(greq[y].row)
    BY <2>1, <2>2 DEF InLimit, Serves
  <2>7. req'[y].op \in {"upSkill", "downSkill"} => skill'[greq'[y].row].rid = in'[y]
    BY <2>1, <2>2 DEF Fitting
  <2>8. ASSUME in[y] \notin overlapped, req[y].op \in Making
        PROVE  RowsOf(in[y], greq[y].skill)' = {}
    BY <2>1, <2>3, <2>4, <2>5, <2>8 DEF Fitting
  <2>9. ASSUME in[y] \notin overlapped, Serves(y, "upSkill") PROVE InLimit(greq[y].row)'
    BY <2>1, <2>6, <2>9 DEF Fitting
  <2> QED BY <1>1, <2>1, <2>7, <2>8, <2>9 DEF Fitting, Serves
<1> QED BY <1>1, <1>8, <1>9, <1>10, <1>11 DEF Fitted

\* A general puts the row on, which had room, or takes it off.
LEMMA StoresFitted ==
    ASSUME IInv, Single, Fitted, NEW x \in Conn, UpSkillStores(x) \/ DownSkillStores(x), Others(x)
    PROVE  Fitted'
<1> DEFINE i == greq[x].row
<1>1. /\ i \in DOMAIN skill /\ req[x].op \in {"upSkill", "downSkill"} /\ Busy(x)
      /\ skill[i].rid = in[x] /\ overlapped' = overlapped /\ in' = in
      /\ in[x] \notin overlapped /\ Serves(x, "upSkill") => InLimit(i)
  <2>1. Fitting(x) /\ req[x].op \in {"upSkill", "downSkill"}
    BY DEF Fitted, UpSkillStores, DownSkillStores, Serves
  <2>2. overlapped' = overlapped /\ in' = in
    BY DEF UpSkillStores, DownSkillStores, HomeKept, world
  <2> QED BY <2>1, <2>2, RowTypes DEF Fitting, Busy
<1>2. req'[x] = Idle
  <2>1. Done(x) BY DEF UpSkillStores, DownSkillStores
  <2> QED BY <2>1, DoneType
<1>3. CASE skill' = skill
  BY <1>1, <1>2, <1>3, FittedSame, Blanks DEF Others, Skilling
<1>4. ASSUME NEW s \in SUBSET Gen, skill' = [skill EXCEPT ![i] = [skill[i] EXCEPT !.gens = s]],
             in[x] \notin overlapped => Cardinality(s) <= SkillCap
      PROVE  Fitted'
  <2>1. /\ DOMAIN skill' = DOMAIN skill
        /\ \A j \in DOMAIN skill : /\ skill'[j].rid = skill[j].rid /\ skill'[j].cfg = skill[j].cfg
                                   /\ j # i => skill'[j] = skill[j]
        /\ skill'[i].gens = s
    <3>1. skill[i] \in SkillRec BY <1>1, RowTypes
    <3> DEFINE a == [skill[i] EXCEPT !.gens = s]
    <3>2. a.rid = skill[i].rid /\ a.cfg = skill[i].cfg /\ a.gens = s BY <3>1 DEF SkillRec
    <3>3. skill' = [skill EXCEPT ![i] = a] BY <1>4
    <3> HIDE DEF a, i
    <3> QED BY <1>1, <3>2, <3>3, RowTypes
  <2> HIDE DEF i
  <2>2. \A r \in Role \ overlapped : OneRow(r)' BY <2>1 DEF Fitted, OneRow
  <2>3. ASSUME NEW j \in DOMAIN skill', skill'[j].rid \notin overlapped
        PROVE  Cardinality(skill'[j].gens) <= SkillCap
    <3>1. CASE j = i BY <1>1, <1>4, <2>1, <2>3, <3>1
    <3>2. CASE j # i BY <2>1, <2>3, <3>2 DEF Fitted
    <3> QED BY <3>1, <3>2
  <2>4. Fitting(x)' BY <1>2, Blanks DEF Fitting, Serves, Making
  <2>5. ASSUME NEW y \in Conn \ {x} PROVE Fitting(y)'
    <3>1. /\ Fitting(y) /\ in'[y] = in[y] /\ req'[y] = req[y] /\ greq'[y] = greq[y]
      BY DEF Fitted, Others
    <3>2. Busy(y) /\ in[y] \notin overlapped => in[y] # in[x] BY <1>1 DEF Single
    <3>3. req[y].op \in {"upSkill", "downSkill"} => Busy(y) /\ greq[y].row \in DOMAIN skill
      BY RowTypes DEF Busy
    <3>4. RowsOf(in[y], greq[y].skill)' = RowsOf(in[y], greq[y].skill)
      BY <2>1, <3>1 DEF RowsOf
    <3>5. req'[y].op \in {"upSkill", "downSkill"} => skill'[greq'[y].row].rid = in'[y]
      BY <2>1, <3>1, <3>3 DEF Fitting
    <3>6. ASSUME in[y] \notin overlapped, Serves(y, "upSkill") PROVE InLimit(greq[y].row)'
      <4>1. InLimit(greq[y].row) /\ skill[greq[y].row].rid = in[y] /\ greq[y].row \in DOMAIN skill
        BY <3>1, <3>3, <3>6 DEF Fitting, Serves
      <4>2. greq[y].row # i BY <1>1, <3>2, <3>3, <3>6, <4>1 DEF Serves
      <4>3. skill'[greq[y].row] = skill[greq[y].row] BY <2>1, <4>1, <4>2
      <4> QED BY <3>1, <4>1, <4>3 DEF InLimit
    <3> QED BY <1>1, <3>1, <3>4, <3>5, <3>6 DEF Fitting, Serves
  <2> QED BY <1>1, <2>2, <2>3, <2>4, <2>5 DEF Fitted
<1>5. PICK g \in Gen :
          \/ skill' = skill
          \/ /\ Serves(x, "upSkill")
             /\ skill' = [skill EXCEPT ![i] = [skill[i] EXCEPT !.gens = skill[i].gens \cup {g}]]
          \/ skill' = [skill EXCEPT ![i] = [skill[i] EXCEPT !.gens = skill[i].gens \ {g}]]
  <2>1. greq[x].gen \in Gen BY WornSlots
  <2> QED BY <2>1, WornSlots
<1>6. /\ skill[i].gens \in SUBSET Gen /\ IsFiniteSet(skill[i].gens)
      /\ Cardinality(skill[i].gens) \in Nat /\ SkillCap \in Nat
  BY <1>1, RowTypes, GeneralAssumption
<1>7. /\ Cardinality(skill[i].gens \cup {g}) =
            IF g \in skill[i].gens THEN Cardinality(skill[i].gens) ELSE Cardinality(skill[i].gens) + 1
      /\ Cardinality(skill[i].gens \ {g}) =
            IF g \in skill[i].gens THEN Cardinality(skill[i].gens) - 1 ELSE Cardinality(skill[i].gens)
  <2> DEFINE S == skill[i].gens
  <2>1. IsFiniteSet(S) BY <1>6
  <2> HIDE DEF S
  <2>2. /\ Cardinality(S \cup {g}) = IF g \in S THEN Cardinality(S) ELSE Cardinality(S) + 1
        /\ Cardinality(S \ {g}) = IF g \in S THEN Cardinality(S) - 1 ELSE Cardinality(S)
    BY <2>1, FS_AddElement, FS_RemoveElement
  <2> QED BY <2>2 DEF S
<1>8. /\ Cardinality(skill[i].gens \cup {g}) \in Nat
      /\ Cardinality(skill[i].gens \cup {g}) <= Cardinality(skill[i].gens) + 1
      /\ Cardinality(skill[i].gens \ {g}) \in Int
      /\ Cardinality(skill[i].gens \ {g}) <= Cardinality(skill[i].gens)
  BY <1>6, <1>7
<1>9. in[x] \notin overlapped => Cardinality(skill[i].gens) <= SkillCap
  BY <1>1 DEF Fitted
<1>10. CASE /\ Serves(x, "upSkill")
            /\ skill' = [skill EXCEPT ![i] = [skill[i] EXCEPT !.gens = skill[i].gens \cup {g}]]
  <2>1. in[x] \notin overlapped => Cardinality(skill[i].gens) < SkillCap
    BY <1>1, <1>10 DEF InLimit
  <2>2. in[x] \notin overlapped => Cardinality(skill[i].gens \cup {g}) <= SkillCap
    BY <1>6, <1>8, <2>1
  <2>3. skill[i].gens \cup {g} \in SUBSET Gen BY <1>6
  <2> HIDE DEF i
  <2> QED BY <1>4, <1>10, <2>2, <2>3
<1>11. CASE skill' = [skill EXCEPT ![i] = [skill[i] EXCEPT !.gens = skill[i].gens \ {g}]]
  <2>1. in[x] \notin overlapped => Cardinality(skill[i].gens \ {g}) <= SkillCap
    BY <1>6, <1>8, <1>9
  <2>2. skill[i].gens \ {g} \in SUBSET Gen BY <1>6
  <2> HIDE DEF i
  <2> QED BY <1>4, <1>11, <2>1, <2>2
<1> QED BY <1>3, <1>5, <1>10, <1>11

LEMMA CommandingFitted ==
    ASSUME SkillCap # 0, IInv, Single, Fitted, NEW x \in Conn, Commanding(x)
    PROVE  Fitted'
<1>0. TypeOK /\ Others(x) /\ overlapped \subseteq overlapped'
  BY CommandingInductive, CommandingOther DEF IInv, GeneralTypeOK
<1>1. CASE \/ MyLooks(x) \/ (\E n \in DrawTimes : DrawLooks(x, n))
           \/ (\E g \in Gen, eaten \in SUBSET Gen : ComposeLooks(x, g, eaten))
           \/ (\E sold \in SUBSET Gen \ {{}} : ConvertLooks(x, sold))
           \/ (\E g \in Gen, o \in Order, p \in Place : PlaceLooks(x, g, o, p))
           \/ (\E g \in Gen, o \in Order : TakeOutLooks(x, g, o))
  <2>1. PICK op \in {"my", "draw", "compose", "convert", "place", "takeOut"} :
            \E about : Begins(x, op, about)
    BY <1>1 DEF MyLooks, DrawLooks, ComposeLooks, ConvertLooks, PlaceLooks, TakeOutLooks
  <2>2. op \in Op \ Skilling BY DEF Op, Skilling
  <2>3. skill' = skill /\ req' = [req EXCEPT ![x] = [Idle EXCEPT !.op = op]]
    BY <2>1 DEF Begins, Looks, LooksOnly
  <2>4. req'[x].op = op BY <1>0, <2>2, <2>3, GoesTo, PlainRecord
  <2> QED BY <1>0, <2>2, <2>3, <2>4, FittedSame DEF Others
<1>2. CASE \/ MyMakes(x) \/ DrawMakes(x) \/ DrawPays(x) \/ ComposeStores(x)
           \/ ConvertStores(x) \/ PlaceStores(x) \/ TakeOutStores(x)
  <2>1. skill' = skill
    BY <1>2 DEF MyMakes, DrawMakes, DrawPays, ComposeStores, ConvertStores, PlaceStores,
                TakeOutStores
  <2>2. req'[x].op \notin Skilling
    <3> DEFINE q == [req[x] EXCEPT !.op = "drawPay", !.seen = res[in[x]]]
    <3>1. q.op = "drawPay" BY <1>0 DEF TypeOK, Request
    <3>2. Ends(x) \/ req' = [req EXCEPT ![x] = q]
      BY <1>2 DEF MyMakes, DrawMakes, DrawPays, ComposeStores, ConvertStores, PlaceStores,
                  TakeOutStores, Done
    <3> HIDE DEF q
    <3> QED BY <1>0, <3>1, <3>2, GoesTo, Blanks DEF Skilling
  <2> QED BY <1>0, <2>1, <2>2, FittedSame DEF Others
<1> QED BY <1>0, <1>1, <1>2, LooksFitted, MakesFitted, StoresFitted DEF Commanding

LEMMA RestartFitted == ASSUME IInv, Fitted, GeneralRestart PROVE Fitted'
<1>1. /\ overlapped' = overlapped /\ \A x \in Conn : req'[x] = Idle
      /\ skill' = [i \in DOMAIN skill |-> [skill[i] EXCEPT !.gens = {}]]
  BY DEF GeneralRestart, Restart
<1>2. ASSUME NEW i \in DOMAIN skill
      PROVE  skill'[i].gens = {} /\ skill'[i].rid = skill[i].rid /\ skill'[i].cfg = skill[i].cfg
  <2>1. skill[i] \in SkillRec BY RowTypes
  <2> DEFINE a == [skill[i] EXCEPT !.gens = {}]
  <2>2. a.gens = {} /\ a.rid = skill[i].rid /\ a.cfg = skill[i].cfg BY <2>1 DEF SkillRec
  <2>3. skill'[i] = a BY <1>1
  <2> HIDE DEF a
  <2> QED BY <2>2, <2>3
<1>3. DOMAIN skill' = DOMAIN skill BY <1>1
<1>4. Cardinality({}) = 0 /\ SkillCap \in Nat BY FS_EmptySet, GeneralAssumption
<1>5. \A x \in Conn : Fitting(x)' BY <1>1, Blanks DEF Fitting, Serves, Making
<1>6. \A r \in Role \ overlapped' : OneRow(r)' BY <1>1, <1>2, <1>3 DEF Fitted, OneRow
<1>7. ASSUME NEW i \in DOMAIN skill' PROVE Cardinality(skill'[i].gens) <= SkillCap
  <2>1. skill'[i].gens = {} BY <1>2, <1>3
  <2>2. Cardinality(skill'[i].gens) = 0 BY <1>4, <2>1
  <2> QED BY <1>4, <2>2
<1> QED BY <1>5, <1>6, <1>7 DEF Fitted

LEMMA FittedInductive ==
    ASSUME SkillCap # 0, PurseInv, Fitted, [GeneralNext]_allVars
    PROVE  Fitted'
<1>0. IInv /\ Single /\ GeneralTypeOK'
  BY Inductive DEF PurseInv, IInv
<1>1. ASSUME NEW x \in Conn, Entering(x) \/ Managing(x), UNCHANGED generalVars PROVE Fitted'
  <2>1. Others(x) BY <1>0, <1>1, EnteringSound, ManagingSound
  <2>2. skill' = skill BY <1>1 DEF generalVars
  <2>3. req'[x].op \notin Skilling /\ overlapped \subseteq overlapped'
    BY <1>0, <1>1, HomeAsks DEF AtHomeOps, Stages, Skilling, Busy
  <2> QED BY <2>1, <2>2, <2>3, FittedSame DEF Others
<1>2. CASE AtHome /\ (Producing \/ Tick)
  <2>1. UNCHANGED <<in, req, greq, overlapped, skill>>
    BY <1>2 DEF AtHome, generalVars, Producing, ProduceBegins, ProduceLooks, ProduceStores, Tick,
                counters, world, history
  <2> QED BY <2>1, FittedSame
<1>3. CASE UNCHANGED allVars
  <2>1. UNCHANGED <<in, req, greq, overlapped, skill>>
    BY <1>3 DEF allVars, estateVars, counters, generalVars, world, history
  <2> QED BY <2>1, FittedSame
<1> QED BY <1>0, <1>1, <1>2, <1>3, CommandingFitted, RestartFitted DEF GeneralNext, AtHome

LEMMA FittedInit == GeneralInit => Fitted
<1> SUFFICES ASSUME GeneralInit PROVE Fitted OBVIOUS
<1>1. skill = <<>> /\ \A x \in Conn : req[x].op = "idle"
  BY Blanks DEF GeneralInit, Init
<1>2. DOMAIN <<>> = {} OBVIOUS
<1> QED BY <1>1, <1>2 DEF Fitted, Fitting, OneRow, Serves, Making

\* SkillLimit, as long as the server runs (AfterSet of Skill forgets who wears a
\* skill, and counts from zero): no more generals of a role wear a skill than may
\* ("how many generals may be equipped with it", skill_conf.go:49), although
\* the limit is looked at before the skill is put on and rows are made on the way.
THEOREM OnlyARestartBreaksTheLimit ==
    ASSUME SkillCap # 0
    PROVE  GeneralSpec => [](restarts = 0 => SkillLimit)
<1> DEFINE Inv == PurseInv /\ Dressed /\ Fitted
<1>1. Inv => (restarts = 0 => SkillLimit)
  <2> SUFFICES ASSUME Inv, restarts = 0, NEW r \in Role \ overlapped, NEW s \in SkillCfg
               PROVE  Cardinality({g \in Gen : \E i \in RowsOf(r, s) : g \in Wearers(i)}) <= SkillCap
    BY DEF SkillLimit
  <2>1. OneRow(r) BY DEF Fitted
  <2>2. CASE RowsOf(r, s) = {}
    <3>1. {g \in Gen : \E i \in RowsOf(r, s) : g \in Wearers(i)} = {} BY <2>2
    <3>2. Cardinality({}) = 0 /\ SkillCap \in Nat BY FS_EmptySet, GeneralAssumption
    <3> QED BY <3>1, <3>2
  <2>3. CASE RowsOf(r, s) # {}
    <3>1. PICK i \in RowsOf(r, s) : TRUE BY <2>3
    <3>2. \A j \in RowsOf(r, s) : j = i BY <2>1, <3>1 DEF RowsOf, OneRow
    <3>3. i \in DOMAIN skill /\ skill[i].rid = r BY <3>1 DEF RowsOf
    <3>4. Wearers(i) = skill[i].gens BY <3>3 DEF Dressed
    <3>5. Wearers(i) \subseteq Gen BY DEF Wearers
    <3>6. {g \in Gen : \E j \in RowsOf(r, s) : g \in Wearers(j)} = skill[i].gens
      BY <3>1, <3>2, <3>4, <3>5
    <3>7. Cardinality(skill[i].gens) <= SkillCap BY <3>3 DEF Fitted
    <3> QED BY <3>6, <3>7
  <2> QED BY <2>2, <2>3
<1>2. Inv /\ [GeneralNext]_allVars => Inv'
  <2>1. PurseInv => IInv /\ Born BY DEF PurseInv
  <2> QED BY <2>1, PurseInductive, DressedInductive, FittedInductive
<1>3. GeneralInit => Inv BY PurseInit, DressedInit, FittedInit
<1> QED BY <1>1, <1>2, <1>3, PTL DEF GeneralSpec

=============================================================================
