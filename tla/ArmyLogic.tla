----------------------------- MODULE ArmyLogic -----------------------------
(***************************************************************************)
(* The march of the armies in the game server (slgserver):                 *)
(* logic/army/army_logic.go with the order handlers of controller/army.go, *)
(* the battle of logic/war/army_war.go and the sweeps of logic/init.go.    *)
(*                                                                         *)
(* Four kinds of goroutine share the Army objects.  A connection goroutine *)
(* per role runs the order handlers.  check() moves the entries of         *)
(* endTimeArmys that are due to the channel arriveArmys.  running() serves *)
(* the four channels one message at a time.  The sweep of AfterInit gives  *)
(* up and tears down cells and tells running() about it.                   *)
(*                                                                         *)
(* One step is one handler, except where another goroutine can get in      *)
(* between: an order is a step that checks and a step that acts, and a     *)
(* handler of running() that sends several armies home takes one step per  *)
(* army.  Time counts whole seconds, as the keys of endTimeArmys do.       *)
(* Definitions named *_Bug are slips one could make in the one that        *)
(* follows; each is used to see that a property catches it.                *)
(***************************************************************************)
EXTENDS Integers, FiniteSets, SequencesExt

CONSTANTS
    Role,            \* role ids
    Army,            \* army ids; a role and an army may have the same number
    RIdOf,           \* [Army -> Role] the owner of each army (Army.RId)
    Cell,            \* map cells that can be taken, given up and built on
    CityPos,         \* [Role -> place] where the city of each role stands
    UnionOf,         \* [Role -> Nat] the role's union, 0 when it has none
    Near,            \* pairs <<p, q>>: p is in reach of what lies at q
    TravelTime,      \* [place -> [place -> Nat]] mgr.TravelTime, in seconds
    MaxTravel,       \* the longest way of this map
    ReclamationTime, \* how long an army works the land
    BuildLimit,      \* cells a role may own
    HoldArmyCnt,     \* armies a fortress holds
    InitOwner,       \* [Cell -> Role or NoRole] who owns the cells at the start
    InitFort,        \* cells that carry a fortress at the start
    Orders,          \* the orders the players of this instance give
    MaxOrders,       \* bound: orders given in one behaviour
    MaxSweeps,       \* bound: cells given up or torn down in one behaviour
    MaxNow           \* bound: the clock stops here

NoRole == 0
City == {CityPos[r] : r \in Role}
Place == Cell \cup City
CityOf(a) == CityPos[RIdOf[a]]
Horizon == MaxNow + MaxTravel + ReclamationTime   \* last key of endTimeArmys

Marches == {"Attack", "Defend", "Reclamation", "Transfer"}
Cmd == Marches \cup {"Idle", "Back", "Conscript"}
State == {"Stop", "Running"}

ASSUME ConstantsAssumption ==
    /\ Role \subseteq Nat \ {NoRole} /\ Army \subseteq Nat
    /\ RIdOf \in [Army -> Role]
    /\ CityPos \in [Role -> City]
    /\ Cell \cap City = {}
    /\ \A r, s \in Role : CityPos[r] = CityPos[s] => r = s
    /\ UnionOf \in [Role -> Nat]
    /\ Near \subseteq Place \X Place
    /\ MaxTravel \in Nat /\ TravelTime \in [Place -> [Place -> 0..MaxTravel]]
    /\ InitOwner \in [Cell -> Role \cup {NoRole}] /\ InitFort \subseteq Cell
    /\ Orders \subseteq Marches \cup {"Back", "Conscript", "ConscriptNone"}
    /\ ReclamationTime \in Nat /\ BuildLimit \in Nat /\ HoldArmyCnt \in Nat
    /\ MaxOrders \in Nat /\ MaxSweeps \in Nat /\ MaxNow \in Nat

VARIABLES
    now,            \* time.Now().Unix()
    army,           \* the shared Army objects
    endTimeArmys,   \* key: time of arrival, value: the armies, in order
    arriveArmys,    \* channel from check() to running()
    updateArmys,    \* channel into running() from everyone, itself included
    giveUpId,       \* channel from the sweep: cells that were given up
    interruptId,    \* channel from the sweep: cells whose fortress is gone
    outArmys,       \* "armies outside the city"
    stopInPosArmys, \* armies that stay at a place
    owner,          \* MapRoleBuild.RId of the cells, the role of the cities
    fort,           \* cells whose build has transfer authority
    parent,         \* RoleAttribute.ParentId: the union that captured the role
    asking,         \* an order that passed its checks and has not acted yet
    job,            \* what running() is in the middle of
    orders, sweeps  \* counters behind MaxOrders and MaxSweeps

mapVars == <<owner, fort, parent>>
channels == <<arriveArmys, updateArmys, giveUpId, interruptId>>
vars == <<now, army, endTimeArmys, channels, outArmys, stopInPosArmys,
          mapVars, asking, job, orders, sweeps>>

ArmyRec == [cmd : Cmd, state : State, from : Place, to : Place,
            start : 0..MaxNow, end : 0..MaxNow + MaxTravel]
NoOrder == [cmd |-> "None"]
OrderRec == [cmd : Marches, army : Army, to : Place]
NoJob == [kind |-> "None"]
\* A battle: who attacks, the place, the enemies still to fight, and whether
\* the last fight was won ("None" before the first one).
BattleRec == [kind : {"Battle"}, army : Army, place : Place,
              garrison : SUBSET Army, idle : SUBSET Army,
              last : {"None", "Win", "NotWin"}]
\* Sending home the armies that a give-up or an interrupt concerns.
ReturnRec == [kind : {"GiveUp", "Interrupt"}, place : Place, left : SUBSET Army]

TypeOK ==
    /\ now \in 0..MaxNow
    /\ army \in [Army -> ArmyRec]
    /\ endTimeArmys \in [0..Horizon -> Seq(Army)]
    /\ arriveArmys \in Seq(Army) /\ updateArmys \in Seq(Army)
    /\ giveUpId \in Seq(Cell) /\ interruptId \in Seq(Cell)
    /\ outArmys \subseteq Army
    /\ stopInPosArmys \in [Place -> SUBSET Army]
    /\ owner \in [Place -> Role \cup {NoRole}]
    /\ fort \subseteq Cell
    /\ parent \in [Role -> Nat]
    /\ asking \in [Role -> OrderRec \cup {NoOrder}]
    /\ job \in BattleRec \cup ReturnRec \cup {NoJob}
    /\ orders \in 0..MaxOrders /\ sweeps \in 0..MaxSweeps

-----------------------------------------------------------------------------
(* What the handlers ask about the map. *)

UnionId(r) == IF r = NoRole THEN 0 ELSE UnionOf[r]
ParentId(r) == IF r = NoRole THEN 0 ELSE parent[r]

\* check.IsCanArrive: something near p belongs to r or to its union's people.
IsCanArrive(p, r) ==
    \E q \in Place :
        /\ <<p, q>> \in Near
        /\ \/ owner[q] = r
           \/ UnionId(r) # 0 /\ UnionId(r) \in {UnionId(owner[q]), ParentId(owner[q])}

\* check.IsCanDefend: p belongs to r, to its union, or to a captive of its union.
IsCanDefend(p, r) ==
    LET o == owner[p] IN
    \/ o = r
    \/ UnionId(o) > 0 /\ UnionId(o) = UnionId(r)
    \/ UnionId(o) = 0 /\ ParentId(o) > 0 /\ ParentId(o) = UnionId(r)

BuildIsRId(p, r) == p \in Cell /\ owner[p] = r

BelongPosArmyCnt_Bug(r, p) ==   \* armies still on their way are not counted
    Cardinality({a \in Army : RIdOf[a] = r /\ army[a].from = p})

BelongPosArmyCnt(r, p) ==
    Cardinality({a \in Army :
        /\ RIdOf[a] = r
        /\ army[a].from = p \/ (army[a].cmd = "Transfer" /\ army[a].to = p)})

BuildCnt(r) == Cardinality({p \in Cell : owner[p] = r})

-----------------------------------------------------------------------------
(* Scheduling: addAction, PushAction and ArmyBack. *)

addAction(actions, t, a) == [actions EXCEPT ![t] = Append(@, a)]

TurnedBack_Bug(a) ==   \* an army that had arrived is charged for its waiting too
    LET r == [army[a] EXCEPT !.state = "Running", !.cmd = "Back", !.start = now]
    IN  IF r.from = r.to
        THEN [r EXCEPT !.from = CityOf(a), !.end = now + TravelTime[CityOf(a)][r.to]]
        ELSE [r EXCEPT !.end = now + (now - army[a].start)]

\* The army after ArmyBack: it turns round now.  An army that rests away from
\* its city (From = To) goes back to the city; any other one needs as long as
\* it has been under way, or the whole way when it had arrived.
TurnedBack(a) ==
    LET r == [army[a] EXCEPT !.state = "Running", !.cmd = "Back", !.start = now]
        home == CityOf(a)
        passed == IF now < r.end THEN now - army[a].start ELSE r.end - army[a].start
    IN  IF r.from = r.to
        THEN [r EXCEPT !.from = home, !.end = now + TravelTime[home][r.to]]
        ELSE [r EXCEPT !.end = now + passed]

ArmyBack_Bug(a) ==   \* every army of the key is taken out
    /\ army' = [army EXCEPT ![a] = TurnedBack(a)]
    /\ endTimeArmys' = addAction([endTimeArmys EXCEPT ![army[a].end] = << >>],
                                 TurnedBack(a).end, a)
    /\ updateArmys' = Append(updateArmys, a)

ArmyBack(a) ==
    LET r == TurnedBack(a)
        t == army[a].end
    IN  /\ army' = [army EXCEPT ![a] = r]
        /\ endTimeArmys' = addAction([endTimeArmys EXCEPT ![t] = RemoveFirst(@, a)], r.end, a)
        /\ updateArmys' = Append(updateArmys, a)

addStopArmy(a) ==
    stopInPosArmys' = [stopInPosArmys EXCEPT ![army[a].to] = @ \cup {a}]

-----------------------------------------------------------------------------
(* The connection goroutines: Army.assign and Army.conscript. *)

\* __pre__ and the checks of __attack__, __defend__, __reclamation__ and
\* __transfer__.  A refused order changes nothing, so only an order that
\* passes is a step.  Whether the target is under truce (IsWarFree) depends on
\* when it was taken, which is not tracked: an attack may be refused for it.
AssignChecks(r, a, cmd, p) ==
    /\ cmd \in Orders /\ orders < MaxOrders
    /\ asking[r] = NoOrder /\ RIdOf[a] = r
    /\ army[a].cmd = "Idle"
    /\ IsCanArrive(p, r)
    /\ cmd = "Attack" => ~IsCanDefend(p, r)
    /\ cmd = "Defend" => IsCanDefend(p, r)
    /\ cmd = "Reclamation" => BuildIsRId(p, r)
    /\ cmd = "Transfer" => /\ BuildIsRId(p, r) /\ army[a].from # p
                           /\ p \in fort
                           /\ HoldArmyCnt > BelongPosArmyCnt(r, p)
    /\ asking' = [asking EXCEPT ![r] = [cmd |-> cmd, army |-> a, to |-> p]]
    /\ orders' = orders + 1
    /\ UNCHANGED <<now, army, endTimeArmys, channels, outArmys, stopInPosArmys,
                   mapVars, job, sweeps>>

\* __after__: nothing is checked again before the army marches.  It stops short
\* when physical power or decrees do not suffice (both are spent elsewhere).
AssignActs(r) ==
    /\ asking[r] # NoOrder
    /\ asking' = [asking EXCEPT ![r] = NoOrder]
    /\ LET a == asking[r].army
           p == asking[r].to
           end == now + TravelTime[army[a].from][p]
       IN  \/ UNCHANGED <<army, endTimeArmys, updateArmys>>
           \/ /\ army' = [army EXCEPT ![a] =
                   [@ EXCEPT !.cmd = asking[r].cmd, !.state = "Running",
                             !.to = p, !.start = now, !.end = end]]
              /\ endTimeArmys' = addAction(endTimeArmys, end, a)
              /\ updateArmys' = Append(updateArmys, a)
    /\ UNCHANGED <<now, arriveArmys, giveUpId, interruptId, outArmys,
                   stopInPosArmys, mapVars, job, orders, sweeps>>

\* __back__: a march other than a transfer is recalled, and so is an idle army
\* that rests away from its city.
AssignBack(r, a) ==
    /\ "Back" \in Orders /\ orders < MaxOrders
    /\ asking[r] = NoOrder /\ RIdOf[a] = r
    /\ \/ army[a].cmd \in {"Attack", "Defend", "Reclamation"}
       \/ army[a].cmd = "Idle" /\ army[a].from # CityOf(a)
    /\ ArmyBack(a)
    /\ orders' = orders + 1
    /\ UNCHANGED <<now, arriveArmys, giveUpId, interruptId, outArmys,
                   stopInPosArmys, mapVars, asking, job, sweeps>>

\* conscript: PositionCanModify is asked only for the positions that get men,
\* so a request for none passes whatever the army is doing.
Conscript(r, a) ==
    /\ orders < MaxOrders
    /\ asking[r] = NoOrder /\ RIdOf[a] = r
    /\ \/ "Conscript" \in Orders /\ army[a].cmd \in {"Idle", "Conscript"}
       \/ "ConscriptNone" \in Orders
    /\ army' = [army EXCEPT ![a].cmd = "Conscript"]
    /\ orders' = orders + 1
    /\ UNCHANGED <<now, endTimeArmys, channels, outArmys, stopInPosArmys,
                   mapVars, asking, job, sweeps>>

\* CheckConscript: looking the army up completes a conscription that is due.
CheckConscript(a) ==
    /\ army[a].cmd = "Conscript"
    /\ army' = [army EXCEPT ![a].cmd = "Idle"]
    /\ UNCHANGED <<now, endTimeArmys, channels, outArmys, stopInPosArmys,
                   mapVars, asking, job, orders, sweeps>>

-----------------------------------------------------------------------------
(* The check goroutine and the sweep of AfterInit. *)

\* check(): the armies of a key that is due go to arriveArmys in their order.
CheckDue(t) ==
    /\ t <= now /\ endTimeArmys[t] # << >>
    /\ arriveArmys' = arriveArmys \o endTimeArmys[t]
    /\ endTimeArmys' = [endTimeArmys EXCEPT ![t] = << >>]
    /\ UNCHANGED <<now, army, updateArmys, giveUpId, interruptId, outArmys,
                   stopInPosArmys, mapVars, asking, job, orders, sweeps>>

\* RBMgr.CheckGiveUp takes the cell from its role, then GiveUp tells running().
SweepGiveUp(p) ==
    /\ sweeps < MaxSweeps /\ owner[p] # NoRole
    /\ owner' = [owner EXCEPT ![p] = NoRole]
    /\ fort' = fort \ {p}
    /\ giveUpId' = Append(giveUpId, p)
    /\ sweeps' = sweeps + 1
    /\ UNCHANGED <<now, army, endTimeArmys, arriveArmys, updateArmys, interruptId,
                   outArmys, stopInPosArmys, parent, asking, job, orders>>

\* RBMgr.CheckDestroy turns the fortress back into land, then Interrupt.
SweepDestroy(p) ==
    /\ sweeps < MaxSweeps /\ p \in fort
    /\ fort' = fort \ {p}
    /\ interruptId' = Append(interruptId, p)
    /\ sweeps' = sweeps + 1
    /\ UNCHANGED <<now, army, endTimeArmys, arriveArmys, updateArmys, giveUpId,
                   outArmys, stopInPosArmys, owner, parent, asking, job, orders>>

-----------------------------------------------------------------------------
(* running(): exeUpdate. *)

\* The entry is dropped under the key of the role, not of the army.
exeUpdate ==
    /\ job = NoJob /\ updateArmys # << >>
    /\ updateArmys' = Tail(updateArmys)
    /\ LET a == Head(updateArmys) IN
       /\ stopInPosArmys' = IF army[a].cmd = "Back"
                            THEN [stopInPosArmys EXCEPT ![army[a].to] = @ \ {a}]
                            ELSE stopInPosArmys
       /\ outArmys' = IF army[a].cmd # "Idle" THEN outArmys \cup {a}
                                              ELSE outArmys \ {RIdOf[a]}
    /\ UNCHANGED <<now, army, endTimeArmys, arriveArmys, giveUpId, interruptId,
                   mapVars, asking, job, orders, sweeps>>

-----------------------------------------------------------------------------
(* running(): exeArrive, by the command the army has when it is served. *)

Arriving(cmd) ==
    /\ job = NoJob /\ arriveArmys # << >>
    /\ army[Head(arriveArmys)].cmd = cmd
    /\ arriveArmys' = Tail(arriveArmys)
    /\ UNCHANGED <<now, giveUpId, interruptId, outArmys, mapVars, asking,
                   orders, sweeps>>

\* The place can be fought over: Battle.run collects the enemies.  At a city
\* those are the armies that stop there and the idle armies of that city.
ArriveAttack ==
    /\ Arriving("Attack")
    /\ LET a == Head(arriveArmys)
           p == army[a].to
       IN  /\ IsCanArrive(p, RIdOf[a]) /\ ~IsCanDefend(p, RIdOf[a])
           /\ job' = [kind |-> "Battle", army |-> a, place |-> p,
                      garrison |-> stopInPosArmys[p],
                      idle |-> {b \in Army : CityOf(b) = p /\ army[b].cmd = "Idle"},
                      last |-> "None"]
    /\ UNCHANGED <<army, endTimeArmys, updateArmys, stopInPosArmys>>

\* Out of reach, under truce, or friendly by now: home again without a fight.
\* A truce follows an occupation: of a cell, or of a city that was captured.
ArriveAttackInVain ==
    /\ Arriving("Attack")
    /\ LET a == Head(arriveArmys)
           p == army[a].to
       IN  /\ \/ ~IsCanArrive(p, RIdOf[a])
              \/ IsCanDefend(p, RIdOf[a])
              \/ p \in Cell \/ ParentId(owner[p]) > 0
           /\ ArmyBack(a)
    /\ UNCHANGED <<stopInPosArmys, job>>

ArriveDefend_Bug ==   \* the state is left as it was on the march
    /\ Arriving("Defend")
    /\ LET a == Head(arriveArmys) IN
       IF IsCanDefend(army[a].to, RIdOf[a])
       THEN addStopArmy(a) /\ updateArmys' = Append(updateArmys, a)
            /\ UNCHANGED <<army, endTimeArmys>>
       ELSE ArmyBack(a) /\ UNCHANGED stopInPosArmys
    /\ UNCHANGED job

ArriveDefend ==
    /\ Arriving("Defend")
    /\ LET a == Head(arriveArmys) IN
       IF IsCanDefend(army[a].to, RIdOf[a])
       THEN /\ army' = [army EXCEPT ![a].state = "Stop"]
            /\ addStopArmy(a)
            /\ updateArmys' = Append(updateArmys, a)
            /\ UNCHANGED endTimeArmys
       ELSE ArmyBack(a) /\ UNCHANGED stopInPosArmys
    /\ UNCHANGED job

ArriveReclamation_Bug ==   \* the end of the work is not scheduled
    /\ Arriving("Reclamation")
    /\ LET a == Head(arriveArmys) IN
       /\ army[a].state = "Running"
       /\ IF BuildIsRId(army[a].to, RIdOf[a])
          THEN /\ army' = [army EXCEPT ![a].state = "Stop"]
               /\ addStopArmy(a)
               /\ updateArmys' = Append(updateArmys, a)
               /\ UNCHANGED endTimeArmys
          ELSE ArmyBack(a) /\ UNCHANGED stopInPosArmys
    /\ UNCHANGED job

\* The army starts to work the land, if the cell is still its role's own; the
\* end of the work is scheduled under its own key while Army.End stays.
ArriveReclamation ==
    /\ Arriving("Reclamation")
    /\ LET a == Head(arriveArmys) IN
       /\ army[a].state = "Running"
       /\ IF BuildIsRId(army[a].to, RIdOf[a])
          THEN /\ army' = [army EXCEPT ![a].state = "Stop"]
               /\ addStopArmy(a)
               /\ endTimeArmys' = addAction(endTimeArmys, army[a].end + ReclamationTime, a)
               /\ updateArmys' = Append(updateArmys, a)
          ELSE ArmyBack(a) /\ UNCHANGED stopInPosArmys
    /\ UNCHANGED job

\* The work is done: home with the yield (resources are not modelled here).
ReclamationDone ==
    /\ Arriving("Reclamation")
    /\ LET a == Head(arriveArmys) IN army[a].state = "Stop" /\ ArmyBack(a)
    /\ UNCHANGED <<stopInPosArmys, job>>

ArriveBack_Bug ==   \* the army keeps the place it was sent to
    /\ Arriving("Back")
    /\ LET a == Head(arriveArmys) IN
       /\ army' = [army EXCEPT ![a] = [@ EXCEPT !.state = "Stop", !.cmd = "Idle"]]
       /\ updateArmys' = Append(updateArmys, a)
    /\ UNCHANGED <<endTimeArmys, stopInPosArmys, job>>

ArriveBack ==
    /\ Arriving("Back")
    /\ LET a == Head(arriveArmys) IN
       /\ army' = [army EXCEPT ![a] =
             [@ EXCEPT !.state = "Stop", !.cmd = "Idle", !.to = army[a].from]]
       /\ updateArmys' = Append(updateArmys, a)
    /\ UNCHANGED <<endTimeArmys, stopInPosArmys, job>>

\* The fortress becomes the army's base, if it still stands.
ArriveTransfer ==
    /\ Arriving("Transfer")
    /\ LET a == Head(arriveArmys)
           p == army[a].to
       IN  /\ army[a].state = "Running"
           /\ IF BuildIsRId(p, RIdOf[a]) /\ p \in fort
              THEN /\ army' = [army EXCEPT ![a] =
                         [@ EXCEPT !.state = "Stop", !.cmd = "Idle", !.from = p]]
                   /\ addStopArmy(a)
                   /\ updateArmys' = Append(updateArmys, a)
                   /\ UNCHANGED endTimeArmys
              ELSE ArmyBack(a) /\ UNCHANGED stopInPosArmys
    /\ UNCHANGED job

\* exeArrive has no case for the army: the entry is consumed.
ArriveIgnored ==
    /\ \E cmd \in {"Idle", "Conscript", "Transfer"} : Arriving(cmd)
    /\ LET a == Head(arriveArmys) IN army[a].cmd = "Transfer" => army[a].state = "Stop"
    /\ UNCHANGED <<army, endTimeArmys, updateArmys, stopInPosArmys, job>>

-----------------------------------------------------------------------------
(* running(): Battle.trigger, one step per enemy, and what follows. *)

Fighting == job # NoJob /\ job.kind = "Battle"

\* One fight.  A beaten enemy goes home, and with it every army is struck from
\* the list of those that stop at the place.
Fight(b) ==
    /\ Fighting
    /\ b \in (IF job.garrison # {} THEN job.garrison ELSE job.idle)
    /\ \E last \in {"Win", "NotWin"} :
        /\ job' = [job EXCEPT !.last = last,
                     !.garrison = @ \ {b},
                     !.idle = IF job.garrison # {} THEN @ ELSE @ \ {b}]
        /\ IF last = "Win"
           THEN /\ stopInPosArmys' = [stopInPosArmys EXCEPT ![job.place] = {}]
                /\ ArmyBack(b)
           ELSE UNCHANGED <<stopInPosArmys, army, endTimeArmys, updateArmys>>
    /\ UNCHANGED <<now, arriveArmys, giveUpId, interruptId, outArmys, mapVars,
                   asking, orders, sweeps>>

\* checkCityOccupy: a city without durability falls to the attacker's union.
CityFalls(p, r) ==
    /\ parent' \in {parent, [parent EXCEPT ![owner[p]] =
                               IF UnionOf[r] # 0 THEN UnionOf[r] ELSE @]}
    /\ UNCHANGED <<owner, fort>>

\* executeBuild after a victory: a cell of a role changes hands when its
\* durability is used up, a cell of the system at once, within BuildLimit.
CellFalls(p, r) ==
    /\ \/ /\ BuildCnt(r) < BuildLimit
          /\ owner' = [owner EXCEPT ![p] = r]
          /\ fort' = IF owner[p] # NoRole THEN fort \ {p} ELSE fort
       \/ /\ owner[p] # NoRole \/ BuildCnt(r) >= BuildLimit
          /\ UNCHANGED <<owner, fort>>
    /\ UNCHANGED parent

\* All enemies are fought: occupation, then the attacker goes home.  A cell
\* where no army stopped is held by the system's armies; that fight is here.
BattleEnds ==
    /\ Fighting /\ job.garrison = {} /\ job.idle = {}
    /\ LET r == RIdOf[job.army] IN
       \/ job.last \in {"Win", "None"} /\ job.place \in City /\ CityFalls(job.place, r)
       \/ job.last \in {"Win", "None"} /\ job.place \in Cell /\ CellFalls(job.place, r)
       \/ (job.last = "NotWin" \/ (job.last = "None" /\ job.place \in Cell))
          /\ UNCHANGED mapVars
    /\ ArmyBack(job.army)
    /\ job' = NoJob
    /\ UNCHANGED <<now, arriveArmys, giveUpId, interruptId, outArmys,
                   stopInPosArmys, asking, orders, sweeps>>

-----------------------------------------------------------------------------
(* running(): cells that were given up or torn down. *)

\* Everyone who garrisons the cell, or was moved there, has to go back.
ServeGiveUp ==
    /\ job = NoJob /\ giveUpId # << >>
    /\ giveUpId' = Tail(giveUpId)
    /\ LET p == Head(giveUpId) IN
       job' = [kind |-> "GiveUp", place |-> p, left |-> stopInPosArmys[p]]
    /\ UNCHANGED <<now, army, endTimeArmys, arriveArmys, updateArmys, interruptId,
                   outArmys, stopInPosArmys, mapVars, asking, orders, sweeps>>

\* Only armies that were moved to the cell have to go back.
ServeInterrupt ==
    /\ job = NoJob /\ interruptId # << >>
    /\ interruptId' = Tail(interruptId)
    /\ LET p == Head(interruptId)
           targets == {a \in stopInPosArmys[p] : army[a].from = army[a].to}
       IN  /\ job' = [kind |-> "Interrupt", place |-> p, left |-> targets]
           /\ stopInPosArmys' = [stopInPosArmys EXCEPT ![p] = @ \ targets]
    /\ UNCHANGED <<now, army, endTimeArmys, arriveArmys, updateArmys, giveUpId,
                   outArmys, mapVars, asking, orders, sweeps>>

Returning == job # NoJob /\ job.kind \in {"GiveUp", "Interrupt"}

ReturnOne(a) ==
    /\ Returning /\ a \in job.left
    /\ ArmyBack(a)
    /\ job' = [job EXCEPT !.left = @ \ {a}]
    /\ UNCHANGED <<now, arriveArmys, giveUpId, interruptId, outArmys,
                   stopInPosArmys, mapVars, asking, orders, sweeps>>

ReturnEnds ==
    /\ Returning /\ job.left = {}
    /\ job' = NoJob
    /\ stopInPosArmys' = IF job.kind = "GiveUp"
                         THEN [stopInPosArmys EXCEPT ![job.place] = {}]
                         ELSE stopInPosArmys
    /\ UNCHANGED <<now, army, endTimeArmys, channels, outArmys, mapVars, asking,
                   orders, sweeps>>

-----------------------------------------------------------------------------
\* The clock.  Idle time that nothing in endTimeArmys waits for is skipped.
Tick ==
    /\ now < MaxNow
    /\ \E t \in now + 1 .. Horizon : endTimeArmys[t] # << >>
    /\ now' = now + 1
    /\ UNCHANGED <<army, endTimeArmys, channels, outArmys, stopInPosArmys,
                   mapVars, asking, job, orders, sweeps>>

Init ==
    /\ now = 0
    /\ army = [a \in Army |-> [cmd |-> "Idle", state |-> "Stop", from |-> CityOf(a),
                               to |-> CityOf(a), start |-> 0, end |-> 0]]
    /\ endTimeArmys = [t \in 0..Horizon |-> << >>]
    /\ arriveArmys = << >> /\ updateArmys = << >>
    /\ giveUpId = << >> /\ interruptId = << >>
    /\ outArmys = {}
    /\ stopInPosArmys = [p \in Place |-> {}]
    /\ owner = [p \in Place |-> IF p \in Cell THEN InitOwner[p]
                                ELSE CHOOSE r \in Role : CityPos[r] = p]
    /\ fort = InitFort
    /\ parent = [r \in Role |-> 0]
    /\ asking = [r \in Role |-> NoOrder]
    /\ job = NoJob
    /\ orders = 0 /\ sweeps = 0

Players ==
    \E r \in Role, a \in Army :
        \/ \E cmd \in Marches, p \in Place : AssignChecks(r, a, cmd, p)
        \/ AssignBack(r, a)
        \/ Conscript(r, a)
Acts == \E r \in Role : AssignActs(r)
Lookup == \E a \in Army : CheckConscript(a)
Check == \E t \in 0..Horizon : CheckDue(t)
Sweep == \E p \in Cell : SweepGiveUp(p) \/ SweepDestroy(p)
exeArrive ==
    \/ ArriveAttack \/ ArriveAttackInVain \/ ArriveDefend
    \/ ArriveReclamation \/ ReclamationDone \/ ArriveBack
    \/ ArriveTransfer \/ ArriveIgnored
Serve ==
    \/ ServeGiveUp \/ ServeInterrupt \/ ReturnEnds \/ BattleEnds
    \/ \E a \in Army : Fight(a) \/ ReturnOne(a)

Next ==
    \/ Players \/ Acts \/ Lookup \/ Check \/ Sweep \/ Tick
    \/ exeUpdate \/ exeArrive \/ Serve

Spec == Init /\ [][Next]_vars

\* The same system when running() keeps up: it has nothing left to do whenever
\* check() (every 100 ms) looks at the clock.  A long battle breaks that.
Quiet == job = NoJob /\ arriveArmys = << >> /\ updateArmys = << >>
         /\ giveUpId = << >> /\ interruptId = << >>
PromptNext ==
    \/ Players \/ Acts \/ Lookup \/ Sweep \/ exeUpdate \/ exeArrive \/ Serve
    \/ Quiet /\ (Check \/ Tick)
PromptSpec == Init /\ [][PromptNext]_vars

\* The goroutines keep running and so does the clock; select picks among the
\* channels that are ready at random, so none is passed over for ever.  Nothing
\* is assumed of the players and of the sweep.
Fairness ==
    /\ WF_vars(Acts) /\ WF_vars(Check) /\ WF_vars(Tick)
    /\ SF_vars(exeUpdate) /\ SF_vars(exeArrive) /\ WF_vars(Serve)
FairSpec == Spec /\ Fairness

-----------------------------------------------------------------------------
(* Properties. *)

Listed(a) == \/ \E t \in 0..Horizon : Contains(endTimeArmys[t], a)
             \/ Contains(arriveArmys, a)

\* An army that marches, or works the land, is never forgotten: its arrival is
\* still scheduled, or on its way to running(), or its battle is being fought.
\* Otherwise it would march for ever (its owner cannot even order it back when
\* it is on its way home).  ArmyBack re-schedules under concurrent arrivals.
UnderWay(a) == \/ army[a].cmd \in Marches \cup {"Back"} /\ army[a].state = "Running"
               \/ army[a].cmd = "Reclamation"
NoArmyLost ==
    \A a \in Army : UnderWay(a) => Listed(a) \/ (Fighting /\ job.army = a)

\* No way takes longer than the longest way of the map, however often and when
\* an army is turned back: ArmyBack computes the way home from the times of the
\* way out, which is over when check() or running() is late.
WayIsBounded ==
    \A a \in Army : /\ army[a].start <= now /\ army[a].start <= army[a].end
                    /\ army[a].end <= army[a].start + MaxTravel

\* An idle army is at its base (From = To): PushAction and the interrupt tell a
\* resting army by that, and would send any other one home along a wrong way.
IdleAtBase ==
    \A a \in Army : army[a].cmd \in {"Idle", "Conscript"} => army[a].from = army[a].to

\* A fortress never holds more armies than it has room for, although room is
\* looked for when the order is given and taken when the army arrives.
HoldLimit ==
    \A r \in Role, p \in Cell : BelongPosArmyCnt(r, p) <= HoldArmyCnt

\* Whoever is listed as stopping at a place (and will be fought there, or sent
\* home when the place is given up) does stand there, once running() has seen
\* the last change of the army.
NoGhostGarrison ==
    \A p \in Place : \A a \in stopInPosArmys[p] :
        ~Contains(updateArmys, a) =>
            army[a].to = p /\ army[a].cmd = "Defend" /\ army[a].state = "Stop"

\* Every march comes to an end: an army on its way comes to a stop somewhere,
\* whatever is recalled, re-scheduled, fought or given up in the meantime.
MarchEnds == \A a \in Army : (army[a].state = "Running") ~> (army[a].state = "Stop")

\* An army that works the land stops working some day.
WorkEnds ==
    \A a \in Army : (army[a].cmd = "Reclamation") ~> (army[a].cmd # "Reclamation")

-----------------------------------------------------------------------------
(* What comments of the code say of this state. *)

\* "outArmys: armies outside the city" (army_logic.go:57).
OutArmysAreOutside ==
    \A a \in outArmys : ~Contains(updateArmys, a) => army[a].cmd # "Idle"

\* "endTimeArmys: the key is the time of arrival" (army_logic.go:58).
KeyIsArrivalTime ==
    \A t \in 0..Horizon, a \in Army :
        Contains(endTimeArmys[t], a) /\ army[a].cmd \in {"Attack", "Defend", "Transfer"}
            => army[a].end = t

\* "Those garrisoned at the place, and those moved there, all have to go back"
\* (army_logic.go:141): so none is left when a give-up has been served.
GiveUpReturnsAll ==
    job # NoJob /\ job.kind = "GiveUp" /\ job.left = {} =>
        \A a \in Army : ~(army[a].cmd = "Defend" /\ army[a].state = "Stop"
                           /\ army[a].to = job.place)

\* "The idle armies inside the city are fought" (army_war.go:107).
IdleEnemiesAreInside ==
    Fighting => \A a \in job.idle : army[a].from = job.place \/ army[a].cmd # "Idle"

=============================================================================
