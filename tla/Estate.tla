------------------------------- MODULE Estate -------------------------------
(***************************************************************************)
(* What a role owns at home: its resources, the row of its attributes, its *)
(* cities and their facilities.  controller/role.go, interior.go and       *)
(* city.go, with the managers role_res_mgr, role_attribute_mgr,            *)
(* role_city_mgr and city_facility_mgr they call.                          *)
(*                                                                         *)
(* A connection serves its requests one after the other; a role may be on  *)
(* several connections, and produce() is a goroutine of its own.  The      *)
(* mutexes of the managers guard the maps only, never the objects in them: *)
(* a handler looks (its last check and what it reads for it) and stores    *)
(* later, in two steps, and others step in between.  Fields are added to   *)
(* without a lock, so an addition starts from the value of either step.    *)
(*                                                                         *)
(* A row is written as soon as its object is (the delay of the writers is  *)
(* the subject of Union).  Refused requests change nothing and are no      *)
(* steps.  Operators named ..._Bug are mutants of what follows them.       *)
(***************************************************************************)
EXTENDS Integers, Sequences, FiniteSets

CONSTANTS
    Conn,              \* connections
    Role, NoRole,      \* role ids
    Account,           \* uids
    AccountOf, UidOf,  \* the account of a connection's session, and of a role
    City, NoCity,      \* city ids
    Fac, NoFac,        \* types of facilities
    JiShi,             \* the market
    Goods,             \* wood, iron, stone and grain
    MaxLevel,          \* number of levels of a facility
    CostTime,          \* seconds an upgrade takes
    Need,              \* [Fac -> what its next level costs]
    StartRes,          \* what a new role has
    RoleYield,         \* what a role makes without facilities, per round
    FacYield,          \* [Fac -> what each of its levels adds to that]
    BaseCapacity, FacCapacity, \* room of the depot, and what a level adds to it
    MaxUnits,          \* bound: of what a facility adds
    DecreeLimit, DecreeRounds, \* a decree is given every sixth round (6)
    RecoveryTime,      \* seconds between rounds of produce()
    CollectTimesLimit, \* collections a day (and the seconds between two)
    DayLength,         \* seconds of a day
    Amounts,           \* what a transformation may add to a kind of goods
    MaxEntries, MaxRequests, MaxFailures, MaxRestarts, MaxNow  \* bounds

Kind == Goods \cup {"gold", "decree"}
Income == Goods \cup {"gold"}
Resources == [Kind -> Int]
Costs == [Kind -> Nat]

ASSUME EstateAssumption ==
    /\ NoRole \notin Role /\ NoCity \notin City /\ NoFac \notin Fac
    /\ IsFiniteSet(City) /\ IsFiniteSet(Fac) /\ JiShi \in Fac
    /\ "gold" \notin Goods /\ "decree" \notin Goods
    /\ AccountOf \in [Conn -> Account] /\ UidOf \in [Role -> Account]
    /\ MaxLevel \in Nat /\ CostTime \in Nat
    /\ Need \in [Fac -> Costs] /\ StartRes \in Costs
    /\ RoleYield \in [Income -> Nat] /\ FacYield \in [Fac -> [Income -> Nat]]
    /\ BaseCapacity \in Nat /\ FacCapacity \in [Fac -> Nat] /\ MaxUnits \in Nat
    /\ DecreeLimit \in Nat /\ DecreeRounds \in Nat \ {0}
    /\ RecoveryTime \in Nat /\ CollectTimesLimit \in Nat /\ DayLength \in Nat \ {0}
    /\ Amounts \subseteq Int
    /\ {MaxEntries, MaxRequests, MaxFailures, MaxRestarts, MaxNow} \subseteq Nat

VARIABLES
    now,
    roles,      \* the rows of tb_role
    known,      \* connections with the property "uid"
    in,         \* [Conn -> the property "role", or NoRole]
    resRow,     \* the roles that have a row of resources
    res,        \* [Role -> that row]
    attrRows,   \* [Role -> its rows of tb_role_attribute, in the order of insertion]
    cur,        \* [Role -> which of them is the object in memory; 0: none]
    owner,      \* [City -> the role whose city it is]
    fac,        \* [City -> [Fac -> level and begin of the upgrade; 0: none]]
    facRow,     \* [City -> are there facilities, and a row of them]
    listed,     \* the cities in facilitiesByRId, which Load alone fills
    req,        \* [Conn -> the request being served]
    prod,       \* produce(): its round and the roles left in it
    entries, asked, failures, restarts  \* counters for the bounds

VARIABLES  \* auxiliary: what has happened
    overlapped, \* roles that had two requests served at a time
    torn,       \* roles of which an addition started from an old value
    cut,        \* roles left without the row of facilities of their city
    entered,    \* roles whose enterServer was answered with OK
    paid,       \* [City -> [Fac -> levels paid for]]
    collected   \* [Role -> the day of its last collection and their number]

world == <<now, roles, known, in>>
rows == <<resRow, res, attrRows, cur>>
cities == <<owner, fac, facRow, listed>>
counters == <<entries, asked, failures, restarts>>
history == <<overlapped, torn, cut, entered, paid, collected>>
estateVars == <<world, rows, cities, req, prod, counters, history>>

Level == [lv : Nat, up : Nat]
Built == [f \in Fac |-> [lv |-> 0, up |-> 0]]
Nothing == [k \in Kind |-> 0]
Idle == [op |-> "idle", delta |-> Nothing, seen |-> Nothing, city |-> NoCity,
         fac |-> NoFac, snap |-> Built, at |-> 0]
\* What a request has come to, those of General too.
Op == {"idle", "makeRes", "attr", "makeAttr", "city", "makeCity", "makeFac", "up", "collect",
       "transform", "my", "draw", "drawPay", "compose", "convert", "makeUpSkill",
       "makeDownSkill", "upSkill", "downSkill", "place", "takeOut"}
Request == [op : Op, delta : Resources, seen : Resources, city : City \cup {NoCity},
            fac : Fac \cup {NoFac}, snap : [Fac -> Level], at : Nat]
Attribute == [times : Nat, last : Nat]

TypeOK ==
    /\ now \in Nat \ {0} /\ roles \subseteq Role /\ known \subseteq Conn
    /\ in \in [Conn -> Role \cup {NoRole}]
    /\ resRow \subseteq Role /\ res \in [Role -> Resources]
    /\ attrRows \in [Role -> Seq(Attribute)]
    /\ cur \in [Role -> Nat] /\ \A r \in Role : cur[r] <= Len(attrRows[r])
    /\ owner \in [City -> Role \cup {NoRole}]
    /\ fac \in [City -> [Fac -> Level]]
    /\ facRow \in [City -> {"none", "cached", "saved"}] /\ listed \subseteq City
    /\ req \in [Conn -> Request]
    /\ prod \in [next : Nat, index : Nat, left : SUBSET Role, role : Role \cup {NoRole},
                 seen : Resources]
    /\ {entries, asked, failures, restarts} \subseteq Nat
    /\ {overlapped, torn, cut, entered} \in SUBSET (SUBSET Role)
    /\ paid \in [City -> [Fac -> Nat]]
    /\ collected \in [Role -> [day : Nat, times : Nat]]

-----------------------------------------------------------------------------
(* Facilities *)

\* GetLevel: an upgrade is over once somebody looks after its time.
Settled(l) == IF l.up > 0 /\ now >= l.up + CostTime
              THEN [lv |-> l.lv + 1, up |-> 0] ELSE l
GetLevel(l) == Settled(l).lv

Facilities(c) == IF facRow[c] = "none" THEN Built ELSE fac[c]

\* What the facilities that are listed for a role add up to, each level of f
\* counting per[f]: as many units as there are elements.
Sum(r, per) ==
    Cardinality({u \in City \X Fac \X (1..MaxUnits) :
                    /\ u[1] \in listed /\ owner[u[1]] = r
                    /\ u[3] <= GetLevel(fac[u[1]][u[2]]) * per[u[2]]})

GetYield(r, k) == RoleYield[k] + Sum(r, [f \in Fac |-> FacYield[f][k]])
GetDepotCapacity(r) == BaseCapacity + Sum(r, FacCapacity)

CitiesOf(r) == {c \in City : owner[c] = r}

-----------------------------------------------------------------------------
(* Requests *)

Busy(x) == req[x].op # "idle"
Has(x) == in[x] # NoRole

\* The roles served twice once x serves r.
Doubled(x, r) == {p \in {r} : \E y \in Conn \ {x} : in[y] = p /\ Busy(y)}

\* x has looked and will store later.
Looks(x, record) ==
    /\ Has(x) /\ ~Busy(x) /\ asked < MaxRequests
    /\ asked' = asked + 1
    /\ req' = [req EXCEPT ![x] = record]
    /\ overlapped' = overlapped \cup Doubled(x, in[x])

Ends(x) == req' = [req EXCEPT ![x] = Idle]
Goes(x, op) == req' = [req EXCEPT ![x].op = op]
Serves(x, op) == req[x].op = op

\* rr.Gold += gold and the like: the kinds in stale start from what was seen.
Put(r, seen, delta) ==
    \E stale \in SUBSET {k \in Kind : delta[k] # 0 /\ seen[k] # res[r][k]} :
        /\ res' = [res EXCEPT ![r] =
               [k \in Kind |-> (IF k \in stale THEN seen[k] ELSE res[r][k]) + delta[k]]]
        /\ torn' = IF stale = {} THEN torn ELSE torn \cup {r}

Enough_Bug(r, delta) == \A k \in Goods : res[r][k] + delta[k] >= 0
Enough(r, delta) == \A k \in Kind : res[r][k] + delta[k] >= 0

-----------------------------------------------------------------------------
(* enterServer and create.  Get of a slice finds nothing, so create always *)
(* inserts: what it cannot insert is the same name for the same uid.       *)

EnterNobody(x) ==
    /\ ~Busy(x) /\ \A r \in roles : UidOf[r] # AccountOf[x]
    /\ known' = known \cup {x}
    /\ UNCHANGED <<now, roles, in, rows, cities, req, prod, counters, history>>

Create(x, r) ==
    /\ ~Busy(x) /\ x \in known /\ UidOf[r] = AccountOf[x] /\ r \notin roles
    /\ roles' = roles \cup {r}
    /\ UNCHANGED <<now, known, in, rows, cities, req, prod, counters, history>>

\* The session is valid; the properties are set before anything is looked for.
Enter(x, r) ==
    /\ ~Busy(x) /\ r \in roles /\ UidOf[r] = AccountOf[x]
    /\ entries < MaxEntries /\ entries' = entries + 1
    /\ known' = known \cup {x}
    /\ in' = [in EXCEPT ![x] = r]
    /\ req' = [req EXCEPT ![x].op = IF r \in resRow THEN "attr" ELSE "makeRes"]
    /\ overlapped' = overlapped \cup Doubled(x, r)
    /\ UNCHANGED <<now, roles, rows, cities, prod, asked, failures, restarts,
                   torn, cut, entered, paid, collected>>

\* An insertion that fails.
Fails(x) ==
    /\ failures < MaxFailures /\ failures' = failures + 1
    /\ UNCHANGED <<world, rows, prod, entries, asked, restarts, overlapped, torn, paid,
                   collected>>

MakeRes_Bug(x) ==
    /\ Serves(x, "makeRes") /\ in[x] \notin resRow
    /\ resRow' = resRow \cup {in[x]}
    /\ res' = [res EXCEPT ![in[x]] = StartRes]
    /\ Ends(x) /\ entered' = entered \cup {in[x]}
    /\ UNCHANGED <<world, attrRows, cur, cities, prod, counters, overlapped, torn, cut, paid,
                   collected>>
\* One row of resources for a role: tb_role_res has it unique.
MakeRes(x) ==
    /\ Serves(x, "makeRes")
    /\ LET r == in[x] IN
       IF r \in resRow THEN Ends(x) /\ UNCHANGED rows
       ELSE /\ resRow' = resRow \cup {r}
            /\ res' = [res EXCEPT ![r] = StartRes]
            /\ Goes(x, "attr") /\ UNCHANGED <<attrRows, cur>>
    /\ UNCHANGED <<world, cities, prod, counters, history>>

CheckAttr(x) ==
    /\ Serves(x, "attr")
    /\ Goes(x, IF cur[in[x]] = 0 THEN "makeAttr" ELSE "city")
    /\ UNCHANGED <<world, rows, cities, prod, counters, history>>

MakeAttr_Bug(x) ==
    /\ Serves(x, "makeAttr")
    /\ cur' = [cur EXCEPT ![in[x]] = Len(attrRows[in[x]]) + 1]
    /\ Goes(x, "city")
    /\ UNCHANGED <<world, resRow, res, attrRows, cities, prod, counters, history>>
\* TryCreate does not look again under its lock, and rows are not unique.
MakeAttr(x) ==
    /\ Serves(x, "makeAttr")
    /\ LET r == in[x] IN
       /\ attrRows' = [attrRows EXCEPT ![r] = Append(@, [times |-> 0, last |-> 0])]
       /\ cur' = [cur EXCEPT ![r] = Len(attrRows[r]) + 1]
    /\ Goes(x, "city")
    /\ UNCHANGED <<world, resRow, res, cities, prod, counters, history>>

CheckCity(x) ==
    /\ Serves(x, "city")
    /\ IF CitiesOf(in[x]) = {} THEN Goes(x, "makeCity") /\ UNCHANGED entered
       ELSE Ends(x) /\ entered' = entered \cup {in[x]}
    /\ UNCHANGED <<world, rows, cities, prod, counters, overlapped, torn, cut, paid, collected>>

MakeCity(x, c) ==
    /\ Serves(x, "makeCity") /\ owner[c] = NoRole
    /\ owner' = [owner EXCEPT ![c] = in[x]]
    /\ req' = [req EXCEPT ![x].op = "makeFac", ![x].city = c]
    /\ UNCHANGED <<world, rows, fac, facRow, listed, prod, counters, history>>

\* An error of these three is answered with DBError.
EnterFails(x) ==
    /\ req[x].op \in {"makeRes", "makeAttr", "makeCity"}
    /\ Ends(x) /\ Fails(x)
    /\ UNCHANGED <<cities, cut, entered>>

MakeFac(x) ==
    /\ Serves(x, "makeFac")
    /\ facRow' = [facRow EXCEPT ![req[x].city] = "saved"]
    /\ Ends(x) /\ entered' = entered \cup {in[x]}
    /\ UNCHANGED <<world, rows, owner, fac, listed, prod, counters, overlapped, torn, cut, paid,
                   collected>>

\* The error of this one is dropped: the object has no id and is never written.
MakeFacFails(x) ==
    /\ Serves(x, "makeFac")
    /\ facRow' = [facRow EXCEPT ![req[x].city] = "cached"]
    /\ Ends(x) /\ Fails(x)
    /\ entered' = entered \cup {in[x]} /\ cut' = cut \cup {in[x]}
    /\ UNCHANGED <<owner, fac, listed>>

-----------------------------------------------------------------------------
(* upFacility *)

\* UpFacility up to the check of TryUseNeed: the facilities of the city are
\* read from the row's text, all of them, and that of the request is settled.
UpLooks_Bug(x, c, f) ==
    /\ Has(x) /\ owner[c] = in[x] /\ facRow[c] # "none"
    /\ LET l == Settled(fac[c][f])
           delta == [k \in Kind |-> - Need[f][k]]
       IN  /\ l.up = 0 /\ l.lv < MaxLevel
           /\ Enough(in[x], delta)
           /\ Looks(x, [Idle EXCEPT !.op = "up", !.city = c, !.fac = f, !.seen = res[in[x]],
                                    !.delta = delta, !.snap = fac[c]])
    /\ UNCHANGED <<world, rows, cities, prod, entries, failures, restarts, torn, cut, entered,
                   paid, collected>>
UpLooks(x, c, f) ==
    /\ Has(x) /\ owner[c] = in[x] /\ facRow[c] # "none"
    /\ LET l == Settled(fac[c][f])
           delta == [k \in Kind |-> - Need[f][k]]
       IN  /\ l.up = 0 /\ l.lv < MaxLevel
           /\ Enough(in[x], delta)
           /\ Looks(x, [Idle EXCEPT !.op = "up", !.city = c, !.fac = f, !.seen = res[in[x]],
                                    !.delta = delta, !.snap = [fac[c] EXCEPT ![f] = l]])
    /\ UNCHANGED <<world, rows, cities, prod, entries, failures, restarts, torn, cut, entered,
                   paid, collected>>

\* TryUseNeed subtracts, then all the facilities are written back as they were read.
UpStores(x) ==
    /\ Serves(x, "up")
    /\ Put(in[x], req[x].seen, req[x].delta)
    /\ LET c == req[x].city
           f == req[x].fac
       IN  /\ fac' = [fac EXCEPT ![c] = [req[x].snap EXCEPT ![f].up = now]]
           /\ paid' = [paid EXCEPT ![c][f] = @ + 1]
    /\ Ends(x)
    /\ UNCHANGED <<world, resRow, attrRows, cur, owner, facRow, listed, prod, counters,
                   overlapped, cut, entered, collected>>

-----------------------------------------------------------------------------
(* collect and transform *)

Day(t) == t \div DayLength
Attr(r) == attrRows[r][cur[r]]

\* A day's first collection starts counting again.
Today(a) == IF a.last = 0 \/ Day(a.last) # Day(now) THEN [times |-> 0, last |-> 0] ELSE a

\* The seconds between two are the number of collections, not CollectInterval.
Cooling(a) == a.last # 0 /\ now < a.last + CollectTimesLimit

CollectLooks(x) ==
    /\ Has(x)
    /\ LET r == in[x]
           a == Today(Attr(r))
       IN  /\ r \in resRow /\ cur[r] # 0
           /\ a.times < CollectTimesLimit /\ ~Cooling(Attr(r))
           /\ attrRows' = [attrRows EXCEPT ![r][cur[r]] = a]
           /\ Looks(x, [Idle EXCEPT !.op = "collect", !.at = now, !.seen = res[r],
                            !.delta = [Nothing EXCEPT !["gold"] = GetYield(r, "gold")]])
    /\ UNCHANGED <<world, resRow, res, cur, cities, prod, entries, failures, restarts,
                   torn, cut, entered, paid, collected>>

\* Refused for the seconds since the last one, when that was yesterday: the
\* time of it is forgotten all the same.
CollectTooEarly(x) ==
    /\ Has(x) /\ ~Busy(x) /\ asked < MaxRequests
    /\ LET r == in[x]
           a == Today(Attr(r))
       IN  /\ r \in resRow /\ cur[r] # 0
           /\ a # Attr(r) /\ Cooling(Attr(r))
           /\ attrRows' = [attrRows EXCEPT ![r][cur[r]] = a]
    /\ asked' = asked + 1
    /\ UNCHANGED <<world, resRow, res, cur, cities, req, prod, entries, failures, restarts,
                   history>>

CollectStores_Bug(x) ==
    /\ Serves(x, "collect")
    /\ LET r == in[x]
           c == collected[r]
       IN  /\ Put(r, req[x].seen, req[x].delta)
           /\ attrRows' = [attrRows EXCEPT ![r][cur[r]].last = req[x].at]
           /\ collected' = [collected EXCEPT ![r] =
                  [day |-> Day(req[x].at),
                   times |-> IF c.day = Day(req[x].at) THEN c.times + 1 ELSE 1]]
    /\ Ends(x)
    /\ UNCHANGED <<world, resRow, cur, cities, prod, counters, overlapped, cut, entered, paid>>
CollectStores(x) ==
    /\ Serves(x, "collect")
    /\ LET r == in[x]
           c == collected[r]
       IN  /\ Put(r, req[x].seen, req[x].delta)
           /\ attrRows' = [attrRows EXCEPT ![r][cur[r]] =
                               [times |-> @.times + 1, last |-> req[x].at]]
           /\ collected' = [collected EXCEPT ![r] =
                  [day |-> Day(req[x].at),
                   times |-> IF c.day = Day(req[x].at) THEN c.times + 1 ELSE 1]]
    /\ Ends(x)
    /\ UNCHANGED <<world, resRow, cur, cities, prod, counters, overlapped, cut, entered, paid>>

\* The client says what is added to, or taken from, each kind of goods.
TransformLooks(x, give) ==
    /\ Has(x) /\ in[x] \in resRow
    /\ \E c \in CitiesOf(in[x]) : GetLevel(Facilities(c)[JiShi]) > 0
    /\ LET delta == [k \in Kind |-> IF k \in Goods THEN give[k] ELSE 0]
       IN  /\ \A k \in Goods : res[in[x]][k] + give[k] >= 0
           /\ Looks(x, [Idle EXCEPT !.op = "transform", !.delta = delta, !.seen = res[in[x]]])
    /\ UNCHANGED <<world, rows, cities, prod, entries, failures, restarts, torn, cut, entered,
                   paid, collected>>

TransformStores(x) ==
    /\ Serves(x, "transform")
    /\ Put(in[x], req[x].seen, req[x].delta)
    /\ Ends(x)
    /\ UNCHANGED <<world, resRow, attrRows, cur, cities, prod, counters, overlapped, cut,
                   entered, paid, collected>>

\* Without a main city the handler panics, and its connection is closed.
TransformPanics(x) ==
    /\ Has(x) /\ ~Busy(x) /\ in[x] \in resRow /\ CitiesOf(in[x]) = {}
    /\ in' = [in EXCEPT ![x] = NoRole]
    /\ known' = known \ {x}
    /\ UNCHANGED <<now, roles, rows, cities, req, prod, counters, history>>

-----------------------------------------------------------------------------
(* produce *)

ProduceBegins ==
    /\ prod.left = {} /\ prod.role = NoRole /\ now >= prod.next
    /\ prod' = [prod EXCEPT !.left = resRow, !.next = now + RecoveryTime, !.index = @ + 1]
    /\ UNCHANGED <<world, rows, cities, req, counters, history>>

ProduceLooks(r) ==
    /\ r \in prod.left /\ prod.role = NoRole
    /\ prod' = [prod EXCEPT !.left = @ \ {r}, !.role = r, !.seen = res[r]]
    /\ UNCHANGED <<world, rows, cities, req, counters, history>>

Less(a, b) == IF a < b THEN a ELSE b

Grown_Bug(r, have, k) ==
    IF k = "decree" THEN have ELSE Less(have + GetYield(r, k), GetDepotCapacity(r))
\* What a round makes of an amount: nothing is added to a full depot.
Grown(r, have, k) ==
    IF k = "decree"
    THEN IF prod.index % DecreeRounds = 0 /\ have < DecreeLimit THEN have + 1 ELSE have
    ELSE IF have < GetDepotCapacity(r)
         THEN Less(have + GetYield(r, k), GetDepotCapacity(r)) ELSE have

ProduceStores(r) ==
    /\ prod.role = r
    /\ \E stale \in SUBSET {k \in Kind : prod.seen[k] # res[r][k]
                                /\ Grown(r, prod.seen[k], k) # prod.seen[k]} :
        /\ res' = [res EXCEPT ![r] = [k \in Kind |->
                      IF k \in stale THEN Grown(r, prod.seen[k], k) ELSE Grown(r, res[r][k], k)]]
        /\ torn' = IF stale = {} THEN torn ELSE torn \cup {r}
    /\ prod' = [prod EXCEPT !.role = NoRole, !.seen = Nothing]
    /\ UNCHANGED <<world, resRow, attrRows, cur, cities, req, counters, overlapped, cut,
                   entered, paid, collected>>

-----------------------------------------------------------------------------
(* Time, and a stop and a new start: the rows are loaded. *)

Tick ==
    /\ now < MaxNow /\ now' = now + 1
    /\ UNCHANGED <<roles, known, in, rows, cities, req, prod, counters, history>>

Resting(t) == [next |-> t + RecoveryTime, index |-> 0, left |-> {}, role |-> NoRole,
               seen |-> Nothing]

\* Of several rows of attributes the last one ranged over is kept.
Restart ==
    /\ restarts < MaxRestarts /\ restarts' = restarts + 1
    /\ req' = [x \in Conn |-> Idle]
    /\ in' = [x \in Conn |-> NoRole] /\ known' = {}
    /\ prod' = Resting(now)
    /\ \E pick \in [Role -> 0..MaxEntries] :
        /\ \A r \in Role : pick[r] \in (IF attrRows[r] = <<>> THEN {0} ELSE DOMAIN attrRows[r])
        /\ cur' = pick
    /\ facRow' = [c \in City |-> IF facRow[c] = "saved" THEN "saved" ELSE "none"]
    /\ fac' = [c \in City |-> IF facRow[c] = "saved" THEN fac[c] ELSE Built]
    /\ listed' = {c \in City : facRow[c] = "saved"}
    /\ cut' = cut \cup {in[x] : x \in {y \in Conn : Serves(y, "makeFac")}}
    /\ UNCHANGED <<now, roles, resRow, res, attrRows, owner, entries, asked, failures,
                   overlapped, torn, entered, paid, collected>>

Init ==
    /\ now = 1 /\ roles = {} /\ known = {} /\ in = [x \in Conn |-> NoRole]
    /\ resRow = {} /\ res = [r \in Role |-> Nothing]
    /\ attrRows = [r \in Role |-> <<>>] /\ cur = [r \in Role |-> 0]
    /\ owner = [c \in City |-> NoRole] /\ fac = [c \in City |-> Built]
    /\ facRow = [c \in City |-> "none"] /\ listed = {}
    /\ req = [x \in Conn |-> Idle]
    /\ prod = Resting(now)
    /\ entries = 0 /\ asked = 0 /\ failures = 0 /\ restarts = 0
    /\ overlapped = {} /\ torn = {} /\ cut = {} /\ entered = {}
    /\ paid = [c \in City |-> [f \in Fac |-> 0]]
    /\ collected = [r \in Role |-> [day |-> 0, times |-> 0]]

Entering(x) ==
    \/ EnterNobody(x)
    \/ \E r \in Role : Create(x, r) \/ Enter(x, r)
    \/ MakeRes(x) \/ CheckAttr(x) \/ MakeAttr(x) \/ CheckCity(x)
    \/ \E c \in City : MakeCity(x, c)
    \/ EnterFails(x) \/ MakeFac(x) \/ MakeFacFails(x)

Managing(x) ==
    \/ \E c \in City, f \in Fac : UpLooks(x, c, f)
    \/ UpStores(x)
    \/ CollectLooks(x) \/ CollectTooEarly(x) \/ CollectStores(x)
    \/ \E give \in [Goods -> Amounts] : TransformLooks(x, give)
    \/ TransformStores(x) \/ TransformPanics(x)

Producing == ProduceBegins \/ \E r \in Role : ProduceLooks(r) \/ ProduceStores(r)

Next ==
    \/ \E x \in Conn : Entering(x) \/ Managing(x)
    \/ Producing \/ Tick \/ Restart

Spec == Init /\ [][Next]_estateVars

-----------------------------------------------------------------------------
(* Properties *)

\* Nothing is spent that is not there: a role whose requests come one at a
\* time, and of which no addition is lost, never owes anything, although the
\* check and the subtraction of TryUseNeed are two steps and produce() adds
\* in between.
NoOverdraft ==
    \A r \in Role \ (overlapped \cup torn) : \A k \in Kind : res[r][k] >= 0

\* No level for nothing, and no cost for nothing: levels are finished only
\* when somebody looks at them (GetLevel), all facilities of a city are
\* written back together, and restarts happen in between; still what was
\* paid is what is there or being built.
LevelsPaid ==
    \A c \in City, f \in Fac :
        LET have == fac[c][f].lv + IF fac[c][f].up > 0 THEN 1 ELSE 0 IN
        /\ facRow[c] # "none" => have <= paid[c][f]
        /\ facRow[c] # "none" /\ owner[c] \notin overlapped => have = paid[c][f]

\* A level that was reached is never lost, neither by the next upgrade, which
\* overwrites the time of the last one, nor by a restart, unless the row of
\* facilities could not be inserted.
LevelsKept ==
    [][\A c \in City, f \in Fac :
          facRow'[c] # "none" /\ owner[c] \notin overlapped' =>
              GetLevel(fac[c][f])' >= GetLevel(fac[c][f])]_estateVars

\* A role collects at most CollectTimesLimit times a day, also when the
\* server starts again on that day, if it asks once at a time.
CollectLimit ==
    \A r \in Role \ overlapped : collected[r].times <= CollectTimesLimit

\* Who was let in has everything later requests take for granted: a row of
\* resources, the attributes, and one city with facilities, also after
\* entries that failed half-way, unless one left the city without them.
EntryComplete ==
    \A r \in entered \ (overlapped \cup cut) :
        /\ r \in resRow /\ cur[r] # 0
        /\ \E c \in City : CitiesOf(r) = {c} /\ facRow[c] = "saved"

\* produce() never takes away, whatever is in the depot (the code: 加判断是
\* 因为爆仓了，资源不无故减少), unless a handler stored while it calculated.
ProduceOnlyAdds ==
    [][\A r \in Role : prod.role = r /\ prod'.role = NoRole /\ r \notin torn' /\ restarts' = restarts =>
          \A k \in Kind : res'[r][k] >= res[r][k]]_estateVars

=============================================================================
