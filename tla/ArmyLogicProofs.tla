-------------------------- MODULE ArmyLogicProofs --------------------------
(***************************************************************************)
(* What holds of the march of the armies for every map, every set of roles *)
(* and armies, every order and every bound: the types, the bounded ways,   *)
(* that no army is lost, that an idle army is at its base, and that a      *)
(* fortress never holds more armies than it has room for.                  *)
(***************************************************************************)
EXTENDS ArmyLogic, SequenceLemmas, FiniteSetTheorems

\* The inductive invariant.  NoArmyLost needs the types (the keys under which
\* ArmyBack looks must be keys of endTimeArmys), and the type of Army.end needs
\* the bound on the ways.
IInv == TypeOK /\ WayIsBounded /\ NoArmyLost

-----------------------------------------------------------------------------
(* The pieces the actions are made of. *)

\* Cities are places, so every army has a home on the map.
LEMMA HomeIsPlace ==
    \A a \in Army : RIdOf[a] \in Role /\ CityOf(a) \in City /\ CityOf(a) \in Place
  BY ConstantsAssumption DEF CityOf, City, Place

\* The latest key of endTimeArmys covers every arrival and every end of work.
LEMMA KeysCover ==
    /\ MaxNow \in Nat /\ MaxTravel \in Nat /\ ReclamationTime \in Nat
    /\ Horizon \in Nat
    /\ \A t \in 0..MaxNow + MaxTravel : t \in 0..Horizon /\ t + ReclamationTime \in 0..Horizon
  BY ConstantsAssumption DEF Horizon

\* A schedule with one more entry: the entry is there and none is gone.
LEMMA AddActionKeeps ==
    ASSUME NEW e \in [0..Horizon -> Seq(Army)], NEW t \in 0..Horizon, NEW a \in Army
    PROVE  /\ addAction(e, t, a) \in [0..Horizon -> Seq(Army)]
           /\ Contains(addAction(e, t, a)[t], a)
           /\ \A b : \A u \in 0..Horizon : Contains(e[u], b) => Contains(addAction(e, t, a)[u], b)
<1>1. e[t] \in Seq(Army)
  OBVIOUS
<1>2. /\ Append(e[t], a) \in Seq(Army) /\ Contains(Append(e[t], a), a)
      /\ \A b : Contains(e[t], b) => Contains(Append(e[t], a), b)
  BY <1>1, AppendKeeps
<1>3. /\ addAction(e, t, a)[t] = Append(e[t], a)
      /\ \A u \in 0..Horizon : u # t => addAction(e, t, a)[u] = e[u]
  BY DEF addAction
<1>4. addAction(e, t, a) \in [0..Horizon -> Seq(Army)]
  BY <1>2 DEF addAction
<1> QED BY <1>2, <1>3, <1>4

\* A schedule from which one entry of a is taken keeps all other armies.
LEMMA TakeOutKeeps ==
    ASSUME NEW e \in [0..Horizon -> Seq(Army)], NEW t \in 0..Horizon, NEW a \in Army
    PROVE  /\ [e EXCEPT ![t] = RemoveFirst(@, a)] \in [0..Horizon -> Seq(Army)]
           /\ \A b : \A u \in 0..Horizon :
                 b # a /\ Contains(e[u], b) => Contains([e EXCEPT ![t] = RemoveFirst(@, a)][u], b)
<1>1. e[t] \in Seq(Army)
  OBVIOUS
<1>2. /\ RemoveFirst(e[t], a) \in Seq(Army)
      /\ \A b : b # a /\ Contains(e[t], b) => Contains(RemoveFirst(e[t], a), b)
  BY <1>1, RemoveFirstKeeps
<1> QED BY <1>2

\* The way back is bounded like every other one, and starts now.
LEMMA TurnedBackType ==
    ASSUME TypeOK, WayIsBounded, NEW a \in Army
    PROVE  /\ TurnedBack(a) \in ArmyRec
           /\ TurnedBack(a).cmd = "Back" /\ TurnedBack(a).state = "Running"
           /\ TurnedBack(a).start <= now /\ TurnedBack(a).start <= TurnedBack(a).end
           /\ TurnedBack(a).end <= TurnedBack(a).start + MaxTravel
           /\ TurnedBack(a).end \in 0..Horizon /\ army[a].end \in 0..Horizon
<1> DEFINE r == [army[a] EXCEPT !.state = "Running", !.cmd = "Back", !.start = now]
           home == CityOf(a)
           passed == IF now < r.end THEN now - army[a].start ELSE r.end - army[a].start
<1>1. /\ army[a] \in ArmyRec /\ now \in 0..MaxNow
      /\ army[a].start <= now /\ army[a].start <= army[a].end
      /\ army[a].end <= army[a].start + MaxTravel
  BY DEF TypeOK, WayIsBounded
<1>2. /\ r \in ArmyRec /\ r.cmd = "Back" /\ r.state = "Running" /\ r.start = now
      /\ r.end = army[a].end /\ r.to \in Place /\ r.from \in Place
  BY <1>1 DEF ArmyRec, Cmd, State
<1>3. /\ army[a].start \in 0..MaxNow /\ army[a].end \in 0..MaxNow + MaxTravel
  BY <1>1 DEF ArmyRec
<1>4. passed \in 0..MaxTravel
  BY <1>1, <1>2, <1>3, KeysCover
<1>5. home \in Place /\ TravelTime[home][r.to] \in 0..MaxTravel
  BY <1>2, HomeIsPlace, ConstantsAssumption
<1>6. TurnedBack(a) = IF r.from = r.to
                      THEN [r EXCEPT !.from = home, !.end = now + TravelTime[home][r.to]]
                      ELSE [r EXCEPT !.end = now + passed]
  BY DEF TurnedBack
<1> HIDE DEF r, home, passed
<1>7. CASE r.from = r.to
  <2> DEFINE s == [r EXCEPT !.from = home, !.end = now + TravelTime[home][r.to]]
  <2>1. now + TravelTime[home][r.to] \in 0..MaxNow + MaxTravel
    BY <1>1, <1>5, KeysCover
  <2>2. /\ s \in ArmyRec /\ s.cmd = "Back" /\ s.state = "Running" /\ s.start = now
        /\ s.end = now + TravelTime[home][r.to]
    BY <1>2, <1>5, <2>1 DEF ArmyRec
  <2> QED BY <1>1, <1>3, <1>5, <1>6, <1>7, <2>1, <2>2, KeysCover
<1>8. CASE r.from # r.to
  <2> DEFINE s == [r EXCEPT !.end = now + passed]
  <2>1. now + passed \in 0..MaxNow + MaxTravel
    BY <1>1, <1>4, KeysCover
  <2>2. /\ s \in ArmyRec /\ s.cmd = "Back" /\ s.state = "Running" /\ s.start = now
        /\ s.end = now + passed
    BY <1>2, <2>1 DEF ArmyRec
  <2> QED BY <1>1, <1>3, <1>4, <1>6, <1>8, <2>1, <2>2, KeysCover
<1> QED BY <1>7, <1>8

\* ArmyBack re-schedules one army and disturbs no other.
LEMMA ArmyBackKeeps ==
    ASSUME TypeOK, WayIsBounded, NEW a \in Army, ArmyBack(a)
    PROVE  /\ army' \in [Army -> ArmyRec]
           /\ endTimeArmys' \in [0..Horizon -> Seq(Army)]
           /\ updateArmys' \in Seq(Army)
           /\ army'[a].cmd = "Back" /\ army'[a].state = "Running"
           /\ army'[a].start <= now /\ army'[a].start <= army'[a].end
           /\ army'[a].end <= army'[a].start + MaxTravel
           /\ \A b \in Army : b # a => army'[b] = army[b]
           /\ \E t \in 0..Horizon : Contains(endTimeArmys'[t], a)
           /\ \A b \in Army, t \in 0..Horizon :
                 b # a /\ Contains(endTimeArmys[t], b) => Contains(endTimeArmys'[t], b)
<1> DEFINE r == TurnedBack(a)
           e == [endTimeArmys EXCEPT ![army[a].end] = RemoveFirst(@, a)]
<1>1. /\ r \in ArmyRec /\ r.cmd = "Back" /\ r.state = "Running"
      /\ r.start <= now /\ r.start <= r.end /\ r.end <= r.start + MaxTravel
      /\ r.end \in 0..Horizon /\ army[a].end \in 0..Horizon
  BY TurnedBackType
<1>2. /\ endTimeArmys \in [0..Horizon -> Seq(Army)] /\ updateArmys \in Seq(Army)
      /\ army \in [Army -> ArmyRec]
  BY DEF TypeOK
<1>3. /\ army' = [army EXCEPT ![a] = r] /\ endTimeArmys' = addAction(e, r.end, a)
      /\ updateArmys' = Append(updateArmys, a)
  BY DEF ArmyBack
<1> HIDE DEF r
<1>4. /\ e \in [0..Horizon -> Seq(Army)]
      /\ \A b : \A u \in 0..Horizon : b # a /\ Contains(endTimeArmys[u], b) => Contains(e[u], b)
  BY <1>1, <1>2, TakeOutKeeps
<1> HIDE DEF e
<1>5. /\ endTimeArmys' \in [0..Horizon -> Seq(Army)]
      /\ Contains(endTimeArmys'[r.end], a)
      /\ \A b : \A u \in 0..Horizon : Contains(e[u], b) => Contains(endTimeArmys'[u], b)
  BY <1>1, <1>3, <1>4, AddActionKeeps
<1>6. /\ army' \in [Army -> ArmyRec] /\ army'[a] = r
      /\ \A b \in Army : b # a => army'[b] = army[b]
  BY <1>1, <1>2, <1>3
<1>7. updateArmys' \in Seq(Army)
  BY <1>2, <1>3
<1> QED BY <1>1, <1>4, <1>5, <1>6, <1>7

-----------------------------------------------------------------------------
(* The initial state and the steps of the players. *)

LEMMA InitIInv == Init => IInv
<1> SUFFICES ASSUME Init PROVE IInv
  OBVIOUS
<1> USE ConstantsAssumption
<1>1. TypeOK
  <2>1. army \in [Army -> ArmyRec]
    BY HomeIsPlace DEF Init, ArmyRec, Cmd, State
  <2>2. endTimeArmys \in [0..Horizon -> Seq(Army)]
    BY DEF Init
  <2>3. owner \in [Place -> Role \cup {NoRole}]
    <3>1. ASSUME NEW p \in Place PROVE owner[p] \in Role \cup {NoRole}
      BY <3>1 DEF Init, Place, City
    <3> QED BY <3>1 DEF Init
  <2> QED BY <2>1, <2>2, <2>3 DEF Init, TypeOK, NoOrder, NoJob, NoRole
<1>2. WayIsBounded
  BY DEF Init, WayIsBounded
<1>3. NoArmyLost
  BY DEF Init, NoArmyLost, UnderWay, Marches
<1> QED BY <1>1, <1>2, <1>3 DEF IInv

\* A step that leaves the armies, their schedule and running() alone.
LEMMA QuietStep ==
    ASSUME NoArmyLost, UNCHANGED <<army, endTimeArmys, arriveArmys, job>>
    PROVE  NoArmyLost'
  BY DEF NoArmyLost, UnderWay, Listed, Fighting

LEMMA AssignChecksIInv ==
    ASSUME IInv, NEW r \in Role, NEW a \in Army, NEW cmd \in Marches, NEW p \in Place,
           AssignChecks(r, a, cmd, p)
    PROVE  IInv'
<1>1. TypeOK'
  BY ConstantsAssumption DEF IInv, TypeOK, AssignChecks, OrderRec, channels, mapVars
<1>2. WayIsBounded'
  BY DEF IInv, WayIsBounded, AssignChecks
<1>3. NoArmyLost'
  BY QuietStep DEF IInv, AssignChecks, channels
<1> QED BY <1>1, <1>2, <1>3 DEF IInv

LEMMA AssignActsIInv ==
    ASSUME IInv, NEW r \in Role, AssignActs(r)
    PROVE  IInv'
<1> DEFINE a == asking[r].army
           p == asking[r].to
           end == now + TravelTime[army[a].from][p]
           m == [army[a] EXCEPT !.cmd = asking[r].cmd, !.state = "Running",
                                !.to = p, !.start = now, !.end = end]
<1>1. a \in Army /\ p \in Place /\ asking[r].cmd \in Marches
  BY DEF IInv, TypeOK, AssignActs, OrderRec
<1>2. /\ army \in [Army -> ArmyRec] /\ army[a] \in ArmyRec /\ army[a].from \in Place
      /\ now \in 0..MaxNow
  BY <1>1 DEF IInv, TypeOK, ArmyRec
<1>3. TravelTime[army[a].from][p] \in 0..MaxTravel
  BY <1>1, <1>2, ConstantsAssumption
<1>4. end \in 0..MaxNow + MaxTravel /\ now <= end /\ end <= now + MaxTravel
  BY <1>2, <1>3, KeysCover
<1>5. /\ m \in ArmyRec /\ m.start = now /\ m.end = end
  BY <1>1, <1>2, <1>4 DEF ArmyRec, Cmd, State
<1>6. asking' \in [Role -> OrderRec \cup {NoOrder}]
  BY DEF IInv, TypeOK, AssignActs
<1>7. CASE UNCHANGED <<army, endTimeArmys, updateArmys>>
  <2>1. TypeOK' /\ WayIsBounded'
    BY <1>6, <1>7 DEF IInv, TypeOK, WayIsBounded, AssignActs, mapVars
  <2>2. NoArmyLost'
    BY <1>7, QuietStep DEF IInv, AssignActs
  <2> QED BY <2>1, <2>2 DEF IInv
<1>8. CASE /\ army' = [army EXCEPT ![a] = m]
           /\ endTimeArmys' = addAction(endTimeArmys, end, a)
           /\ updateArmys' = Append(updateArmys, a)
  <2> HIDE DEF m, end, p, a
  <2>1. /\ endTimeArmys' \in [0..Horizon -> Seq(Army)]
        /\ Contains(endTimeArmys'[end], a) /\ end \in 0..Horizon
        /\ \A b : \A u \in 0..Horizon : Contains(endTimeArmys[u], b) => Contains(endTimeArmys'[u], b)
    BY <1>1, <1>4, <1>8, KeysCover, AddActionKeeps DEF IInv, TypeOK
  <2>2. /\ army' \in [Army -> ArmyRec] /\ army'[a] = m
        /\ \A b \in Army : b # a => army'[b] = army[b]
    BY <1>1, <1>2, <1>5, <1>8
  <2>3. TypeOK'
    BY <1>1, <1>6, <1>8, <2>1, <2>2 DEF IInv, TypeOK, AssignActs, mapVars
  <2>4. WayIsBounded'
    <3>1. now' = now /\ \A b \in Army : b # a => /\ army[b].start <= now
                                                /\ army[b].start <= army[b].end
                                                /\ army[b].end <= army[b].start + MaxTravel
      BY DEF IInv, WayIsBounded, AssignActs
    <3> QED BY <1>2, <1>4, <1>5, <2>2, <3>1 DEF WayIsBounded
  <2>5. NoArmyLost'
    BY <1>1, <2>1, <2>2 DEF IInv, NoArmyLost, UnderWay, Listed, Fighting, AssignActs
  <2> QED BY <2>3, <2>4, <2>5 DEF IInv
<1> QED BY <1>7, <1>8 DEF AssignActs

LEMMA AssignBackIInv ==
    ASSUME IInv, NEW r \in Role, NEW a \in Army, AssignBack(r, a)
    PROVE  IInv'
<1>1. /\ army' \in [Army -> ArmyRec]
      /\ endTimeArmys' \in [0..Horizon -> Seq(Army)]
      /\ updateArmys' \in Seq(Army)
      /\ army'[a].start <= now /\ army'[a].start <= army'[a].end
      /\ army'[a].end <= army'[a].start + MaxTravel
      /\ \A b \in Army : b # a => army'[b] = army[b]
      /\ \E t \in 0..Horizon : Contains(endTimeArmys'[t], a)
      /\ \A b \in Army, t \in 0..Horizon :
            b # a /\ Contains(endTimeArmys[t], b) => Contains(endTimeArmys'[t], b)
  BY ArmyBackKeeps DEF IInv, AssignBack
<1>2. TypeOK'
  BY <1>1, ConstantsAssumption DEF IInv, TypeOK, AssignBack, mapVars
<1>3. WayIsBounded'
  BY <1>1 DEF IInv, WayIsBounded, AssignBack
<1>4. NoArmyLost'
  BY <1>1 DEF IInv, NoArmyLost, UnderWay, Listed, Fighting, AssignBack
<1> QED BY <1>2, <1>3, <1>4 DEF IInv

LEMMA ConscriptIInv ==
    ASSUME IInv, NEW a \in Army, (\E r \in Role : Conscript(r, a)) \/ CheckConscript(a)
    PROVE  IInv'
<1>1. PICK cmd \in {"Conscript", "Idle"} : army' = [army EXCEPT ![a].cmd = cmd]
  BY DEF Conscript, CheckConscript
<1>2. /\ army \in [Army -> ArmyRec] /\ army' \in [Army -> ArmyRec]
      /\ army'[a].cmd = cmd
      /\ \A b \in Army : /\ b # a => army'[b] = army[b]
                         /\ army'[b].start = army[b].start /\ army'[b].end = army[b].end
  BY <1>1 DEF IInv, TypeOK, ArmyRec, Cmd
<1>3. TypeOK'
  <2>1. CASE \E r \in Role : Conscript(r, a)
    <3>1. /\ orders < MaxOrders /\ orders' = orders + 1
          /\ UNCHANGED <<now, endTimeArmys, channels, outArmys, stopInPosArmys,
                         mapVars, asking, job, sweeps>>
      BY <2>1 DEF Conscript
    <3>2. orders' \in 0..MaxOrders
      BY <3>1, ConstantsAssumption DEF IInv, TypeOK
    <3> QED BY <1>2, <3>1, <3>2 DEF IInv, TypeOK, channels, mapVars
  <2>2. CASE CheckConscript(a)
    BY <1>2, <2>2 DEF IInv, TypeOK, CheckConscript, channels, mapVars
  <2> QED BY <2>1, <2>2
<1>4. WayIsBounded'
  BY <1>2 DEF IInv, WayIsBounded, Conscript, CheckConscript
<1>5. NoArmyLost'
  BY <1>2 DEF IInv, NoArmyLost, UnderWay, Listed, Fighting, Marches, Conscript,
              CheckConscript, channels
<1> QED BY <1>3, <1>4, <1>5 DEF IInv

-----------------------------------------------------------------------------
(* check(), the sweep, exeUpdate and the clock. *)

LEMMA CheckDueIInv ==
    ASSUME IInv, NEW t \in 0..Horizon, CheckDue(t)
    PROVE  IInv'
<1>1. /\ endTimeArmys \in [0..Horizon -> Seq(Army)] /\ endTimeArmys[t] \in Seq(Army)
      /\ arriveArmys \in Seq(Army)
  BY DEF IInv, TypeOK
<1>2. /\ arriveArmys' = arriveArmys \o endTimeArmys[t]
      /\ endTimeArmys' = [endTimeArmys EXCEPT ![t] = << >>]
      /\ UNCHANGED <<now, army, updateArmys, giveUpId, interruptId, outArmys,
                     stopInPosArmys, mapVars, asking, job, orders, sweeps>>
  BY DEF CheckDue
<1>3. /\ arriveArmys' \in Seq(Army)
      /\ \A x : Contains(arriveArmys, x) \/ Contains(endTimeArmys[t], x)
                   => Contains(arriveArmys', x)
  BY <1>1, <1>2, ConcatKeeps
<1>4. /\ endTimeArmys' \in [0..Horizon -> Seq(Army)]
      /\ \A u \in 0..Horizon : u # t => endTimeArmys'[u] = endTimeArmys[u]
  BY <1>1, <1>2
<1>5. TypeOK'
  BY <1>2, <1>3, <1>4 DEF IInv, TypeOK, mapVars
<1>6. WayIsBounded'
  BY <1>2 DEF IInv, WayIsBounded
<1>7. NoArmyLost'
  BY <1>2, <1>3, <1>4 DEF IInv, NoArmyLost, UnderWay, Listed, Fighting
<1> QED BY <1>5, <1>6, <1>7 DEF IInv

LEMMA SweepIInv ==
    ASSUME IInv, NEW p \in Cell, SweepGiveUp(p) \/ SweepDestroy(p)
    PROVE  IInv'
<1>1. UNCHANGED <<now, army, endTimeArmys, arriveArmys, updateArmys, outArmys,
                  stopInPosArmys, parent, asking, job, orders>>
  BY DEF SweepGiveUp, SweepDestroy
<1>2. sweeps' \in 0..MaxSweeps
  BY ConstantsAssumption DEF IInv, TypeOK, SweepGiveUp, SweepDestroy
<1>3. /\ giveUpId' \in Seq(Cell) /\ interruptId' \in Seq(Cell)
      /\ owner' \in [Place -> Role \cup {NoRole}] /\ fort' \subseteq Cell
  <2>1. /\ Append(giveUpId, p) \in Seq(Cell) /\ Append(interruptId, p) \in Seq(Cell)
        /\ giveUpId \in Seq(Cell) /\ interruptId \in Seq(Cell)
        /\ owner \in [Place -> Role \cup {NoRole}] /\ fort \subseteq Cell
    BY DEF IInv, TypeOK
  <2>2. CASE SweepGiveUp(p)
    BY <2>1, <2>2 DEF SweepGiveUp
  <2>3. CASE SweepDestroy(p)
    BY <2>1, <2>3 DEF SweepDestroy
  <2> QED BY <2>2, <2>3
<1>4. TypeOK'
  BY <1>1, <1>2, <1>3 DEF IInv, TypeOK
<1>5. WayIsBounded'
  BY <1>1 DEF IInv, WayIsBounded
<1>6. NoArmyLost'
  BY <1>1, QuietStep DEF IInv
<1> QED BY <1>4, <1>5, <1>6 DEF IInv

LEMMA exeUpdateIInv ==
    ASSUME IInv, exeUpdate
    PROVE  IInv'
<1>1. UNCHANGED <<now, army, endTimeArmys, arriveArmys, giveUpId, interruptId,
                  owner, fort, parent, asking, job, orders, sweeps>>
  BY DEF exeUpdate, mapVars
<1>2. updateArmys' \in Seq(Army) /\ Head(updateArmys) \in Army
  BY TailKeeps DEF IInv, TypeOK, exeUpdate
<1>3. outArmys' \subseteq Army
  BY <1>2 DEF IInv, TypeOK, exeUpdate
<1>4. stopInPosArmys' \in [Place -> SUBSET Army]
  <2>1. /\ stopInPosArmys \in [Place -> SUBSET Army]
        /\ army[Head(updateArmys)].to \in Place
    BY <1>2 DEF IInv, TypeOK, ArmyRec
  <2> QED BY <2>1 DEF exeUpdate
<1>5. TypeOK'
  BY <1>1, <1>2, <1>3, <1>4 DEF IInv, TypeOK
<1>6. WayIsBounded'
  BY <1>1 DEF IInv, WayIsBounded
<1>7. NoArmyLost'
  BY <1>1, QuietStep DEF IInv
<1> QED BY <1>5, <1>6, <1>7 DEF IInv

LEMMA TickIInv ==
    ASSUME IInv, Tick
    PROVE  IInv'
<1>1. /\ now < MaxNow /\ now' = now + 1
      /\ UNCHANGED <<army, endTimeArmys, channels, outArmys, stopInPosArmys,
                     mapVars, asking, job, orders, sweeps>>
  BY DEF Tick
<1>2. now' \in 0..MaxNow /\ now \in Nat
  BY <1>1, KeysCover DEF IInv, TypeOK
<1>3. TypeOK'
  BY <1>1, <1>2 DEF IInv, TypeOK, channels, mapVars
<1>4. \A a \in Army : army[a].start \in Nat
  BY DEF IInv, TypeOK, ArmyRec
<1>5. WayIsBounded'
  BY <1>1, <1>2, <1>4 DEF IInv, WayIsBounded
<1>6. NoArmyLost'
  BY <1>1, QuietStep DEF IInv, channels
<1> QED BY <1>3, <1>5, <1>6 DEF IInv

-----------------------------------------------------------------------------
(* running(): arrivals. *)

\* A step that concerns one army: it is enough to look after that one.
LEMMA OneArmyStep ==
    ASSUME NoArmyLost, NEW a \in Army,
           \A b \in Army : b # a => army'[b] = army[b],
           \A b \in Army : b # a /\ Listed(b) => Listed(b)',
           \A b \in Army : b # a /\ Fighting /\ job.army = b => (Fighting /\ job.army = b)',
           UnderWay(a)' => (Listed(a) \/ (Fighting /\ job.army = a))'
    PROVE  NoArmyLost'
  BY DEF NoArmyLost, UnderWay

\* What serving an arrival has in common.
LEMMA ArrivingHead ==
    ASSUME TypeOK, NEW cmd, Arriving(cmd)
    PROVE  /\ Head(arriveArmys) \in Army /\ arriveArmys' \in Seq(Army) /\ job = NoJob
           /\ army[Head(arriveArmys)].cmd = cmd /\ army[Head(arriveArmys)] \in ArmyRec
           /\ \A b : b # Head(arriveArmys) /\ Contains(arriveArmys, b)
                        => Contains(arriveArmys', b)
           /\ UNCHANGED <<now, giveUpId, interruptId, outArmys, owner, fort, parent,
                          asking, orders, sweeps>>
<1>1. /\ job = NoJob /\ arriveArmys # << >> /\ army[Head(arriveArmys)].cmd = cmd
      /\ arriveArmys' = Tail(arriveArmys)
      /\ UNCHANGED <<now, giveUpId, interruptId, outArmys, owner, fort, parent,
                     asking, orders, sweeps>>
  BY DEF Arriving, mapVars
<1>2. /\ Head(arriveArmys) \in Army /\ Tail(arriveArmys) \in Seq(Army)
      /\ \A b : b # Head(arriveArmys) /\ Contains(arriveArmys, b)
                   => Contains(Tail(arriveArmys), b)
  BY <1>1, TailKeeps DEF TypeOK
<1>3. army[Head(arriveArmys)] \in ArmyRec
  BY <1>2 DEF TypeOK
<1> QED BY <1>1, <1>2, <1>3

\* Whatever the command: an army that is sent home when it is served.
LEMMA ArrivedAndSentHome ==
    ASSUME IInv, NEW cmd, Arriving(cmd), ArmyBack(Head(arriveArmys)),
           stopInPosArmys' \in [Place -> SUBSET Army], job' = NoJob
    PROVE  IInv'
<1>0. PICK a \in Army : a = Head(arriveArmys)
  BY ArrivingHead DEF IInv
<1>1. /\ arriveArmys' \in Seq(Army) /\ job = NoJob
      /\ \A b : b # a /\ Contains(arriveArmys, b) => Contains(arriveArmys', b)
      /\ UNCHANGED <<now, giveUpId, interruptId, outArmys, owner, fort, parent,
                     asking, orders, sweeps>>
  BY <1>0, ArrivingHead DEF IInv
<1>2. ArmyBack(a)
  BY <1>0
<1>3. /\ army' \in [Army -> ArmyRec]
      /\ endTimeArmys' \in [0..Horizon -> Seq(Army)]
      /\ updateArmys' \in Seq(Army)
      /\ army'[a].start <= now /\ army'[a].start <= army'[a].end
      /\ army'[a].end <= army'[a].start + MaxTravel
      /\ \A b \in Army : b # a => army'[b] = army[b]
      /\ \E t \in 0..Horizon : Contains(endTimeArmys'[t], a)
      /\ \A b \in Army, t \in 0..Horizon :
            b # a /\ Contains(endTimeArmys[t], b) => Contains(endTimeArmys'[t], b)
  BY <1>1, <1>2, ArmyBackKeeps DEF IInv
<1>4. TypeOK'
  BY <1>1, <1>3 DEF IInv, TypeOK
<1>5. WayIsBounded'
  BY <1>1, <1>3 DEF IInv, WayIsBounded
<1>6. NoArmyLost'
  <2>1. \A b \in Army : b # a /\ Listed(b) => Listed(b)'
    BY <1>1, <1>3 DEF Listed
  <2>2. Listed(a)'
    BY <1>3 DEF Listed
  <2>3. ~Fighting
    BY <1>1 DEF Fighting
  <2> QED BY <1>1, <1>3, <2>1, <2>2, <2>3, OneArmyStep DEF IInv
<1> QED BY <1>4, <1>5, <1>6 DEF IInv

LEMMA ArriveAttackIInv ==
    ASSUME IInv, ArriveAttack
    PROVE  IInv'
<1>0. PICK a \in Army : a = Head(arriveArmys)
  BY ArrivingHead DEF IInv, ArriveAttack
<1>1. /\ arriveArmys' \in Seq(Army) /\ job = NoJob /\ army[a] \in ArmyRec
      /\ \A b : b # a /\ Contains(arriveArmys, b) => Contains(arriveArmys', b)
      /\ UNCHANGED <<now, giveUpId, interruptId, outArmys, owner, fort, parent,
                     asking, orders, sweeps>>
  BY <1>0, ArrivingHead DEF IInv, ArriveAttack
<1>2. /\ job'.kind = "Battle" /\ job'.army = a /\ job' \in BattleRec
      /\ UNCHANGED <<army, endTimeArmys, updateArmys, stopInPosArmys>>
  <2>1. army[a].to \in Place /\ stopInPosArmys[army[a].to] \in SUBSET Army
    BY <1>1 DEF IInv, TypeOK, ArmyRec
  <2> QED BY <1>0, <2>1 DEF ArriveAttack, BattleRec
<1>3. TypeOK'
  BY <1>1, <1>2 DEF IInv, TypeOK
<1>4. WayIsBounded'
  BY <1>1, <1>2 DEF IInv, WayIsBounded
<1>5. NoArmyLost'
  <2>1. \A b \in Army : b # a /\ Listed(b) => Listed(b)'
    BY <1>1, <1>2 DEF Listed
  <2>2. ~Fighting /\ (Fighting /\ job.army = a)'
    BY <1>1, <1>2 DEF Fighting, NoJob, BattleRec
  <2> QED BY <1>2, <2>1, <2>2, OneArmyStep DEF IInv
<1> QED BY <1>3, <1>4, <1>5 DEF IInv

\* The army comes to rest: it needs no entry any more, and only stopInPosArmys
\* and updateArmys change besides.
LEMMA ArrivedAndRests ==
    ASSUME IInv, NEW cmd, Arriving(cmd), NEW a \in Army, a = Head(arriveArmys),
           NEW r \in ArmyRec, r.start = army[a].start, r.end = army[a].end,
           r.cmd \in {"Idle", "Defend"}, r.state = "Stop",
           army' = [army EXCEPT ![a] = r],
           stopInPosArmys' \in [Place -> SUBSET Army],
           updateArmys' = Append(updateArmys, a),
           UNCHANGED <<endTimeArmys, job>>
    PROVE  IInv'
<1>1. /\ arriveArmys' \in Seq(Army) /\ job = NoJob
      /\ \A b : b # a /\ Contains(arriveArmys, b) => Contains(arriveArmys', b)
      /\ UNCHANGED <<now, giveUpId, interruptId, outArmys, owner, fort, parent,
                     asking, orders, sweeps>>
  BY ArrivingHead DEF IInv
<1>2. /\ army' \in [Army -> ArmyRec] /\ army'[a] = r
      /\ \A b \in Army : b # a => army'[b] = army[b]
      /\ updateArmys' \in Seq(Army)
  BY DEF IInv, TypeOK
<1>3. TypeOK'
  BY <1>1, <1>2 DEF IInv, TypeOK
<1>4. WayIsBounded'
  BY <1>1, <1>2 DEF IInv, WayIsBounded
<1>5. NoArmyLost'
  <2>1. \A b \in Army : b # a /\ Listed(b) => Listed(b)'
    BY <1>1 DEF Listed
  <2>2. ~Fighting /\ ~UnderWay(a)'
    BY <1>1, <1>2 DEF Fighting, UnderWay, Marches
  <2> QED BY <1>2, <2>1, <2>2, OneArmyStep DEF IInv
<1> QED BY <1>3, <1>4, <1>5 DEF IInv

\* addStopArmy and leaving stopInPosArmys alone keep its type.
LEMMA StopArmysType ==
    ASSUME TypeOK, NEW a \in Army, addStopArmy(a) \/ UNCHANGED stopInPosArmys
    PROVE  stopInPosArmys' \in [Place -> SUBSET Army]
<1>1. stopInPosArmys \in [Place -> SUBSET Army] /\ army[a].to \in Place
  BY DEF TypeOK, ArmyRec
<1> QED BY <1>1 DEF addStopArmy

LEMMA ArriveDefendIInv ==
    ASSUME IInv, ArriveDefend
    PROVE  IInv'
<1>0. PICK a \in Army : a = Head(arriveArmys)
  BY ArrivingHead DEF IInv, ArriveDefend
<1>1. /\ Arriving("Defend") /\ job = NoJob /\ job' = NoJob
      /\ army[a] \in ArmyRec /\ army[a].cmd = "Defend"
  BY <1>0, ArrivingHead DEF IInv, ArriveDefend
<1>2. stopInPosArmys' \in [Place -> SUBSET Army]
  BY <1>0, StopArmysType DEF IInv, ArriveDefend
<1>3. CASE IsCanDefend(army[a].to, RIdOf[a])
  <2> DEFINE r == [army[a] EXCEPT !.state = "Stop"]
  <2>1. /\ r \in ArmyRec /\ r.start = army[a].start /\ r.end = army[a].end
        /\ r.cmd = "Defend" /\ r.state = "Stop"
    BY <1>1 DEF ArmyRec, State
  <2>2. /\ army' = [army EXCEPT ![a] = r] /\ updateArmys' = Append(updateArmys, a)
        /\ UNCHANGED <<endTimeArmys, job>>
    BY <1>0, <1>1, <1>3 DEF ArriveDefend
  <2> QED BY <1>0, <1>1, <1>2, <2>1, <2>2, ArrivedAndRests
<1>4. CASE ~IsCanDefend(army[a].to, RIdOf[a])
  <2>1. ArmyBack(Head(arriveArmys))
    BY <1>0, <1>4 DEF ArriveDefend
  <2> QED BY <1>1, <1>2, <2>1, ArrivedAndSentHome
<1> QED BY <1>3, <1>4

LEMMA ArriveBackIInv ==
    ASSUME IInv, ArriveBack
    PROVE  IInv'
<1>0. PICK a \in Army : a = Head(arriveArmys)
  BY ArrivingHead DEF IInv, ArriveBack
<1>1. Arriving("Back") /\ army[a] \in ArmyRec
  BY <1>0, ArrivingHead DEF IInv, ArriveBack
<1> DEFINE r == [army[a] EXCEPT !.state = "Stop", !.cmd = "Idle", !.to = army[a].from]
<1>2. /\ r \in ArmyRec /\ r.start = army[a].start /\ r.end = army[a].end
      /\ r.cmd = "Idle" /\ r.state = "Stop"
  BY <1>1 DEF ArmyRec, State, Cmd
<1>3. /\ army' = [army EXCEPT ![a] = r] /\ updateArmys' = Append(updateArmys, a)
      /\ UNCHANGED <<endTimeArmys, job, stopInPosArmys>>
  BY <1>0 DEF ArriveBack
<1>4. stopInPosArmys' \in [Place -> SUBSET Army]
  BY <1>3, StopArmysType DEF IInv
<1> QED BY <1>0, <1>1, <1>2, <1>3, <1>4, ArrivedAndRests

LEMMA ArriveTransferIInv ==
    ASSUME IInv, ArriveTransfer
    PROVE  IInv'
<1>0. PICK a \in Army : a = Head(arriveArmys)
  BY ArrivingHead DEF IInv, ArriveTransfer
<1> DEFINE p == army[a].to
           r == [army[a] EXCEPT !.state = "Stop", !.cmd = "Idle", !.from = p]
<1>1. /\ Arriving("Transfer") /\ job = NoJob /\ job' = NoJob
      /\ army[a] \in ArmyRec /\ p \in Place
  BY <1>0, ArrivingHead DEF IInv, ArriveTransfer, ArmyRec
<1>2. stopInPosArmys' \in [Place -> SUBSET Army]
  BY <1>0, StopArmysType DEF IInv, ArriveTransfer
<1>3. CASE BuildIsRId(p, RIdOf[a]) /\ p \in fort
  <2>1. /\ r \in ArmyRec /\ r.start = army[a].start /\ r.end = army[a].end
        /\ r.cmd = "Idle" /\ r.state = "Stop"
    BY <1>1 DEF ArmyRec, State, Cmd
  <2>2. /\ army' = [army EXCEPT ![a] = r] /\ updateArmys' = Append(updateArmys, a)
        /\ UNCHANGED <<endTimeArmys, job>>
    BY <1>0, <1>1, <1>3 DEF ArriveTransfer
  <2> QED BY <1>0, <1>1, <1>2, <2>1, <2>2, ArrivedAndRests
<1>4. CASE ~(BuildIsRId(p, RIdOf[a]) /\ p \in fort)
  <2>1. ArmyBack(Head(arriveArmys))
    BY <1>0, <1>4 DEF ArriveTransfer
  <2> QED BY <1>1, <1>2, <2>1, ArrivedAndSentHome
<1> QED BY <1>3, <1>4

LEMMA ArriveReclamationIInv ==
    ASSUME IInv, ArriveReclamation
    PROVE  IInv'
<1>0. PICK a \in Army : a = Head(arriveArmys)
  BY ArrivingHead DEF IInv, ArriveReclamation
<1>1. /\ Arriving("Reclamation") /\ job = NoJob /\ job' = NoJob
      /\ arriveArmys' \in Seq(Army)
      /\ army[a] \in ArmyRec /\ army[a].cmd = "Reclamation"
      /\ \A b : b # a /\ Contains(arriveArmys, b) => Contains(arriveArmys', b)
      /\ UNCHANGED <<now, giveUpId, interruptId, outArmys, owner, fort, parent,
                     asking, orders, sweeps>>
  BY <1>0, ArrivingHead DEF IInv, ArriveReclamation
<1>2. stopInPosArmys' \in [Place -> SUBSET Army]
  BY <1>0, StopArmysType DEF IInv, ArriveReclamation
<1>3. CASE BuildIsRId(army[a].to, RIdOf[a])
  <2> DEFINE r == [army[a] EXCEPT !.state = "Stop"]
             t == army[a].end + ReclamationTime
  <2>1. /\ r \in ArmyRec /\ r.start = army[a].start /\ r.end = army[a].end
    BY <1>1 DEF ArmyRec, State
  <2>2. /\ army' = [army EXCEPT ![a] = r] /\ updateArmys' = Append(updateArmys, a)
        /\ endTimeArmys' = addAction(endTimeArmys, t, a)
    BY <1>0, <1>1, <1>3 DEF ArriveReclamation
  <2>3. t \in 0..Horizon
    BY <1>1, KeysCover DEF ArmyRec
  <2> HIDE DEF t, r
  <2>4. /\ endTimeArmys' \in [0..Horizon -> Seq(Army)]
        /\ \E u \in 0..Horizon : Contains(endTimeArmys'[u], a)
        /\ \A b : \A u \in 0..Horizon : Contains(endTimeArmys[u], b) => Contains(endTimeArmys'[u], b)
    BY <2>2, <2>3, AddActionKeeps DEF IInv, TypeOK
  <2>5. /\ army' \in [Army -> ArmyRec] /\ army'[a] = r
        /\ \A b \in Army : b # a => army'[b] = army[b]
        /\ updateArmys' \in Seq(Army)
    BY <2>1, <2>2 DEF IInv, TypeOK
  <2>6. TypeOK'
    BY <1>1, <1>2, <2>4, <2>5 DEF IInv, TypeOK
  <2>7. WayIsBounded'
    BY <1>1, <2>1, <2>5 DEF IInv, WayIsBounded
  <2>8. NoArmyLost'
    <3>1. \A b \in Army : b # a /\ Listed(b) => Listed(b)'
      BY <1>1, <2>4 DEF Listed
    <3>2. ~Fighting /\ Listed(a)'
      BY <1>1, <2>4 DEF Fighting, Listed
    <3> QED BY <2>5, <3>1, <3>2, OneArmyStep DEF IInv
  <2> QED BY <2>6, <2>7, <2>8 DEF IInv
<1>4. CASE ~BuildIsRId(army[a].to, RIdOf[a])
  <2>1. ArmyBack(Head(arriveArmys))
    BY <1>0, <1>4 DEF ArriveReclamation
  <2> QED BY <1>1, <1>2, <2>1, ArrivedAndSentHome
<1> QED BY <1>3, <1>4

LEMMA SentHomeIInv ==
    ASSUME IInv, ArriveAttackInVain \/ ReclamationDone
    PROVE  IInv'
<1>1. PICK cmd \in {"Attack", "Reclamation"} :
         /\ Arriving(cmd) /\ ArmyBack(Head(arriveArmys))
         /\ UNCHANGED <<stopInPosArmys, job>>
  BY DEF ArriveAttackInVain, ReclamationDone
<1>2. job' = NoJob /\ stopInPosArmys' \in [Place -> SUBSET Army]
  BY <1>1, ArrivingHead DEF IInv, TypeOK
<1> QED BY <1>1, <1>2, ArrivedAndSentHome

LEMMA ArriveIgnoredIInv ==
    ASSUME IInv, ArriveIgnored
    PROVE  IInv'
<1>1. PICK cmd \in {"Idle", "Conscript", "Transfer"} : Arriving(cmd)
  BY DEF ArriveIgnored
<1>0. PICK a \in Army : a = Head(arriveArmys)
  BY <1>1, ArrivingHead DEF IInv
<1>2. /\ job = NoJob /\ arriveArmys' \in Seq(Army) /\ army[a].cmd = cmd
      /\ \A b : b # a /\ Contains(arriveArmys, b) => Contains(arriveArmys', b)
      /\ UNCHANGED <<now, giveUpId, interruptId, outArmys, owner, fort, parent,
                     asking, orders, sweeps>>
  BY <1>0, <1>1, ArrivingHead DEF IInv
<1>3. /\ army[a].cmd = "Transfer" => army[a].state = "Stop"
      /\ UNCHANGED <<army, endTimeArmys, updateArmys, stopInPosArmys, job>>
  BY <1>0 DEF ArriveIgnored
<1>4. TypeOK'
  BY <1>2, <1>3 DEF IInv, TypeOK
<1>5. WayIsBounded'
  BY <1>2, <1>3 DEF IInv, WayIsBounded
<1>6. NoArmyLost'
  <2>1. \A b \in Army : b # a /\ Listed(b) => Listed(b)'
    BY <1>2, <1>3 DEF Listed
  <2>2. ~Fighting /\ ~UnderWay(a)'
    BY <1>2, <1>3 DEF Fighting, UnderWay, Marches
  <2> QED BY <1>3, <2>1, <2>2, OneArmyStep DEF IInv
<1> QED BY <1>4, <1>5, <1>6 DEF IInv

-----------------------------------------------------------------------------
(* running(): battles, give-ups and interrupts. *)

\* A step of a job that sends one army home.  The attacker of a battle stays
\* accounted for: either the battle goes on, or it is the army sent home.
LEMMA SendsHome ==
    ASSUME IInv, NEW a \in Army, ArmyBack(a),
           job' \in BattleRec \cup ReturnRec \cup {NoJob},
           owner' \in [Place -> Role \cup {NoRole}], fort' \subseteq Cell,
           parent' \in [Role -> Nat], stopInPosArmys' \in [Place -> SUBSET Army],
           \A b \in Army : b # a /\ Fighting /\ job.army = b
                               => (Fighting /\ job.army = b)',
           UNCHANGED <<now, arriveArmys, giveUpId, interruptId, outArmys,
                       asking, orders, sweeps>>
    PROVE  IInv'
<1>1. /\ army' \in [Army -> ArmyRec]
      /\ endTimeArmys' \in [0..Horizon -> Seq(Army)]
      /\ updateArmys' \in Seq(Army)
      /\ army'[a].start <= now /\ army'[a].start <= army'[a].end
      /\ army'[a].end <= army'[a].start + MaxTravel
      /\ \A b \in Army : b # a => army'[b] = army[b]
      /\ \E t \in 0..Horizon : Contains(endTimeArmys'[t], a)
      /\ \A b \in Army, t \in 0..Horizon :
            b # a /\ Contains(endTimeArmys[t], b) => Contains(endTimeArmys'[t], b)
  BY ArmyBackKeeps DEF IInv
<1>2. TypeOK'
  BY <1>1 DEF IInv, TypeOK
<1>3. WayIsBounded'
  BY <1>1 DEF IInv, WayIsBounded
<1>4. NoArmyLost'
  <2>1. \A b \in Army : b # a /\ Listed(b) => Listed(b)'
    BY <1>1 DEF Listed
  <2>2. Listed(a)'
    BY <1>1 DEF Listed
  <2> QED BY <1>1, <2>1, <2>2, OneArmyStep DEF IInv
<1> QED BY <1>2, <1>3, <1>4 DEF IInv

\* What job is, by its kind.
LEMMA JobType ==
    ASSUME TypeOK
    PROVE  (Fighting => job \in BattleRec) /\ (Returning => job \in ReturnRec)
  BY DEF TypeOK, Fighting, Returning, BattleRec, ReturnRec, NoJob

LEMMA FightIInv ==
    ASSUME IInv, NEW b \in Army, Fight(b)
    PROVE  IInv'
<1>1. job \in BattleRec /\ Fighting
  BY JobType DEF IInv, Fight
<1>2. PICK last \in {"Win", "NotWin"} :
         /\ job' = [job EXCEPT !.last = last,
                     !.garrison = @ \ {b},
                     !.idle = IF job.garrison # {} THEN @ ELSE @ \ {b}]
         /\ IF last = "Win"
            THEN /\ stopInPosArmys' = [stopInPosArmys EXCEPT ![job.place] = {}]
                 /\ ArmyBack(b)
            ELSE UNCHANGED <<stopInPosArmys, army, endTimeArmys, updateArmys>>
  BY DEF Fight
<1>3. job' \in BattleRec /\ job'.army = job.army /\ Fighting'
  BY <1>1, <1>2 DEF BattleRec, Fighting, NoJob
<1>4. UNCHANGED <<now, arriveArmys, giveUpId, interruptId, outArmys, owner, fort,
                  parent, asking, orders, sweeps>>
  BY DEF Fight, mapVars
<1>5. stopInPosArmys' \in [Place -> SUBSET Army]
  BY <1>2 DEF IInv, TypeOK
<1>6. CASE last = "Win"
  BY <1>2, <1>3, <1>4, <1>5, <1>6, SendsHome DEF IInv, TypeOK
<1>7. CASE last # "Win"
  <2>1. UNCHANGED <<army, endTimeArmys, updateArmys>>
    BY <1>2, <1>7
  <2>2. TypeOK'
    BY <1>3, <1>4, <1>5, <2>1 DEF IInv, TypeOK
  <2>3. WayIsBounded'
    BY <1>4, <2>1 DEF IInv, WayIsBounded
  <2>4. NoArmyLost'
    BY <1>1, <1>3, <1>4, <2>1 DEF IInv, NoArmyLost, UnderWay, Listed
  <2> QED BY <2>2, <2>3, <2>4 DEF IInv
<1> QED BY <1>6, <1>7

LEMMA BattleEndsIInv ==
    ASSUME IInv, BattleEnds
    PROVE  IInv'
<1>1. job \in BattleRec /\ Fighting
  BY JobType DEF IInv, BattleEnds
<1>2. PICK a \in Army : a = job.army
  BY <1>1 DEF BattleRec
<1>3. /\ ArmyBack(a) /\ job' = NoJob
      /\ UNCHANGED <<now, arriveArmys, giveUpId, interruptId, outArmys,
                     stopInPosArmys, asking, orders, sweeps>>
  BY <1>2 DEF BattleEnds
<1>4. /\ owner \in [Place -> Role \cup {NoRole}] /\ fort \subseteq Cell
      /\ parent \in [Role -> Nat] /\ RIdOf[a] \in Role
      /\ stopInPosArmys \in [Place -> SUBSET Army]
  BY HomeIsPlace DEF IInv, TypeOK
<1>5. /\ owner' \in [Place -> Role \cup {NoRole}] /\ fort' \subseteq Cell
      /\ parent' \in [Role -> Nat]
  <2>1. CASE job.place \in City /\ CityFalls(job.place, RIdOf[a])
    <3>1. UnionOf[RIdOf[a]] \in Nat
      BY <1>4, ConstantsAssumption
    <3> QED BY <1>4, <2>1, <3>1 DEF CityFalls
  <2>2. CASE job.place \in Cell /\ CellFalls(job.place, RIdOf[a])
    BY <1>4, <2>2 DEF CellFalls
  <2>3. CASE UNCHANGED mapVars
    BY <1>4, <2>3 DEF mapVars
  <2> QED BY <1>2, <2>1, <2>2, <2>3 DEF BattleEnds
<1>6. \A b \in Army : b # a /\ Fighting /\ job.army = b => (Fighting /\ job.army = b)'
  BY <1>2
<1> QED BY <1>3, <1>4, <1>5, <1>6, SendsHome

LEMMA ServeIInv ==
    ASSUME IInv, ServeGiveUp \/ ServeInterrupt \/ ReturnEnds
    PROVE  IInv'
<1>1. /\ UNCHANGED <<now, army, endTimeArmys, arriveArmys, updateArmys, outArmys,
                     owner, fort, parent, asking, orders, sweeps>>
      /\ job' \in BattleRec \cup ReturnRec \cup {NoJob}
      /\ giveUpId' \in Seq(Cell) /\ interruptId' \in Seq(Cell)
      /\ stopInPosArmys' \in [Place -> SUBSET Army]
      /\ ~Fighting
  <2>0. /\ giveUpId \in Seq(Cell) /\ interruptId \in Seq(Cell)
        /\ stopInPosArmys \in [Place -> SUBSET Army]
    BY DEF IInv, TypeOK
  <2>1. CASE ServeGiveUp
    <3>1. Head(giveUpId) \in Place /\ giveUpId' \in Seq(Cell)
      BY <2>0, <2>1 DEF ServeGiveUp, Place
    <3>2. stopInPosArmys[Head(giveUpId)] \in SUBSET Army
      BY <2>0, <3>1
    <3>3. job' \in ReturnRec
      BY <2>1, <3>1, <3>2 DEF ServeGiveUp, ReturnRec
    <3> QED BY <2>0, <2>1, <3>1, <3>3 DEF ServeGiveUp, mapVars, Fighting
  <2>2. CASE ServeInterrupt
    <3>1. Head(interruptId) \in Place /\ interruptId' \in Seq(Cell)
      BY <2>0, <2>2 DEF ServeInterrupt, Place
    <3>2. stopInPosArmys[Head(interruptId)] \in SUBSET Army
      BY <2>0, <3>1
    <3>3. job' \in ReturnRec
      BY <2>2, <3>1, <3>2 DEF ServeInterrupt, ReturnRec
    <3>4. stopInPosArmys' \in [Place -> SUBSET Army]
      BY <2>0, <2>2, <3>1, <3>2 DEF ServeInterrupt
    <3> QED BY <2>0, <2>2, <3>1, <3>3, <3>4 DEF ServeInterrupt, mapVars, Fighting
  <2>3. CASE ReturnEnds
    <3>1. ~Fighting
      BY <2>3, JobType DEF IInv, ReturnEnds, Returning, Fighting
    <3>2. stopInPosArmys' \in [Place -> SUBSET Army]
      BY <2>0, <2>3 DEF ReturnEnds
    <3> QED BY <2>0, <2>3, <3>1, <3>2 DEF ReturnEnds, mapVars, channels
  <2> QED BY <2>1, <2>2, <2>3
<1>2. TypeOK'
  BY <1>1 DEF IInv, TypeOK
<1>3. WayIsBounded'
  BY <1>1 DEF IInv, WayIsBounded
<1>4. NoArmyLost'
  BY <1>1 DEF IInv, NoArmyLost, UnderWay, Listed
<1> QED BY <1>2, <1>3, <1>4 DEF IInv

LEMMA ReturnOneIInv ==
    ASSUME IInv, NEW a \in Army, ReturnOne(a)
    PROVE  IInv'
<1>1. job \in ReturnRec /\ job.kind # "Battle"
  BY JobType DEF IInv, ReturnOne, ReturnRec
<1>2. /\ ArmyBack(a) /\ job' = [job EXCEPT !.left = @ \ {a}]
      /\ UNCHANGED <<now, arriveArmys, giveUpId, interruptId, outArmys,
                     stopInPosArmys, owner, fort, parent, asking, orders, sweeps>>
  BY DEF ReturnOne, mapVars
<1>3. job' \in ReturnRec
  BY <1>1, <1>2 DEF ReturnRec
<1>4. ~Fighting
  BY <1>1 DEF Fighting
<1> QED BY <1>2, <1>3, <1>4, SendsHome DEF IInv, TypeOK

-----------------------------------------------------------------------------
(* The inductive invariant and what follows from it. *)

LEMMA NextIInv ==
    ASSUME IInv, [Next]_vars
    PROVE  IInv'
<1>1. CASE Players
  BY <1>1, AssignChecksIInv, AssignBackIInv, ConscriptIInv DEF Players
<1>2. CASE Acts
  BY <1>2, AssignActsIInv DEF Acts
<1>3. CASE Lookup
  BY <1>3, ConscriptIInv DEF Lookup
<1>4. CASE Check
  BY <1>4, CheckDueIInv DEF Check
<1>5. CASE Sweep
  BY <1>5, SweepIInv DEF Sweep
<1>6. CASE Tick
  BY <1>6, TickIInv
<1>7. CASE exeUpdate
  BY <1>7, exeUpdateIInv
<1>8. CASE exeArrive
  BY <1>8, ArriveAttackIInv, SentHomeIInv, ArriveDefendIInv, ArriveReclamationIInv,
     ArriveBackIInv, ArriveTransferIInv, ArriveIgnoredIInv DEF exeArrive
<1>9. CASE Serve
  BY <1>9, ServeIInv, BattleEndsIInv, FightIInv, ReturnOneIInv DEF Serve
<1>10. CASE UNCHANGED vars
  <2>1. TypeOK' /\ WayIsBounded'
    BY <1>10 DEF IInv, TypeOK, WayIsBounded, vars, channels, mapVars
  <2> QED BY <1>10, <2>1, QuietStep DEF IInv, vars, channels
<1> QED BY <1>1, <1>2, <1>3, <1>4, <1>5, <1>6, <1>7, <1>8, <1>9, <1>10 DEF Next

\* In every reachable state of every instance the inductive invariant holds.
THEOREM Invariance == Spec => []IInv
<1>1. Init => IInv
  BY InitIInv
<1>2. IInv /\ [Next]_vars => IInv'
  BY NextIInv
<1> QED BY <1>1, <1>2, PTL DEF Spec

\* Type correctness: every key under which an army is scheduled is within the
\* schedule, and every arrival time within the horizon.
THEOREM TypeCorrect == Spec => []TypeOK
<1>1. IInv => TypeOK
  BY DEF IInv
<1> QED BY <1>1, Invariance, PTL

\* No army is lost, whatever orders, arrivals, battles, give-ups and interrupts
\* overlap: army_logic.go never forgets an army that marches or works.
THEOREM NoArmyIsLost == Spec => []NoArmyLost
<1>1. IInv => NoArmyLost
  BY DEF IInv
<1> QED BY <1>1, Invariance, PTL

\* No way is longer than the longest of the map, however late an army is turned
\* back (ArmyBack and PushAction of army_logic.go).
THEOREM WaysAreBounded == Spec => []WayIsBounded
<1>1. IInv => WayIsBounded
  BY DEF IInv
<1> QED BY <1>1, Invariance, PTL

-----------------------------------------------------------------------------
(* An idle army is at its base. *)

\* One army changes, and is at its base afterwards if it rests.
LEMMA OneArmyAtBase ==
    ASSUME IdleAtBase, NEW a \in Army,
           \A b \in Army : b # a => army'[b] = army[b],
           army'[a].cmd \in {"Idle", "Conscript"} => army'[a].from = army'[a].to
    PROVE  IdleAtBase'
  BY DEF IdleAtBase

LEMMA ArmyBackAtBase ==
    ASSUME TypeOK, WayIsBounded, IdleAtBase, NEW a \in Army, ArmyBack(a)
    PROVE  IdleAtBase'
<1>1. /\ army'[a].cmd = "Back"
      /\ \A b \in Army : b # a => army'[b] = army[b]
  BY ArmyBackKeeps
<1> QED BY <1>1, OneArmyAtBase

LEMMA PlayersAtBase ==
    ASSUME IInv, IdleAtBase, "ConscriptNone" \notin Orders, Players \/ Acts \/ Lookup
    PROVE  IdleAtBase'
<1> USE DEF IInv
<1>1. ASSUME NEW r \in Role, NEW a \in Army, NEW cmd \in Marches, NEW p \in Place,
             AssignChecks(r, a, cmd, p)
      PROVE  IdleAtBase'
  BY <1>1 DEF AssignChecks, IdleAtBase
<1>2. ASSUME NEW r \in Role, NEW a \in Army, AssignBack(r, a)
      PROVE  IdleAtBase'
  BY <1>2, ArmyBackAtBase DEF AssignBack
<1>3. ASSUME NEW a \in Army, (\E r \in Role : Conscript(r, a)) \/ CheckConscript(a)
      PROVE  IdleAtBase'
  <2>1. PICK cmd \in {"Conscript", "Idle"} : army' = [army EXCEPT ![a].cmd = cmd]
    BY <1>3 DEF Conscript, CheckConscript
  <2>2. army[a].cmd \in {"Idle", "Conscript"}
    BY <1>3 DEF Conscript, CheckConscript
  <2>3. /\ army'[a].from = army[a].from /\ army'[a].to = army[a].to
        /\ \A b \in Army : b # a => army'[b] = army[b]
    BY <2>1 DEF TypeOK, ArmyRec
  <2>4. army[a].from = army[a].to
    BY <2>2 DEF IdleAtBase
  <2> QED BY <2>3, <2>4, OneArmyAtBase
<1>4. ASSUME NEW r \in Role, AssignActs(r)
      PROVE  IdleAtBase'
  <2>1. PICK a \in Army : a = asking[r].army
    BY <1>4 DEF TypeOK, AssignActs, OrderRec
  <2>2. CASE UNCHANGED army
    BY <2>2 DEF IdleAtBase
  <2>3. CASE /\ army'[a].cmd \in Marches
             /\ \A b \in Army : b # a => army'[b] = army[b]
    BY <2>3, OneArmyAtBase DEF Marches
  <2>4. asking[r].cmd \in Marches
    BY <1>4 DEF TypeOK, AssignActs, OrderRec
  <2> QED BY <1>4, <2>1, <2>2, <2>3, <2>4 DEF AssignActs, TypeOK, ArmyRec
<1> QED BY <1>1, <1>2, <1>3, <1>4 DEF Players, Acts, Lookup

LEMMA ArriveAtBase ==
    ASSUME IInv, IdleAtBase, exeArrive
    PROVE  IdleAtBase'
<1> USE DEF IInv
<1>0. PICK a \in Army : a = Head(arriveArmys) /\ army[a] \in ArmyRec
  BY ArrivingHead DEF exeArrive, ArriveAttack, ArriveAttackInVain, ArriveDefend,
     ArriveReclamation, ReclamationDone, ArriveBack, ArriveTransfer, ArriveIgnored
<1>1. CASE ArmyBack(a)
  BY <1>1, ArmyBackAtBase
<1>2. CASE ArriveAttack \/ ArriveIgnored
  BY <1>2 DEF ArriveAttack, ArriveIgnored, IdleAtBase
<1>3. CASE ArriveDefend /\ ~ArmyBack(a)
  <2>1. army[a].cmd = "Defend" /\ army' = [army EXCEPT ![a].state = "Stop"]
    BY <1>0, <1>3 DEF ArriveDefend, Arriving
  <2> QED BY <1>0, <2>1, OneArmyAtBase DEF TypeOK, ArmyRec
<1>4. CASE ArriveReclamation /\ ~ArmyBack(a)
  <2>1. army[a].cmd = "Reclamation" /\ army' = [army EXCEPT ![a].state = "Stop"]
    BY <1>0, <1>4 DEF ArriveReclamation, Arriving
  <2> QED BY <1>0, <2>1, OneArmyAtBase DEF TypeOK, ArmyRec
<1>5. CASE ArriveBack
  <2>1. army' = [army EXCEPT ![a] =
                   [@ EXCEPT !.state = "Stop", !.cmd = "Idle", !.to = army[a].from]]
    BY <1>0, <1>5 DEF ArriveBack
  <2> QED BY <1>0, <2>1, OneArmyAtBase DEF TypeOK, ArmyRec
<1>6. CASE ArriveTransfer /\ ~ArmyBack(a)
  <2>1. army' = [army EXCEPT ![a] =
                   [@ EXCEPT !.state = "Stop", !.cmd = "Idle", !.from = army[a].to]]
    BY <1>0, <1>6 DEF ArriveTransfer
  <2> QED BY <1>0, <2>1, OneArmyAtBase DEF TypeOK, ArmyRec
<1>7. ArriveAttackInVain \/ ReclamationDone => ArmyBack(a)
  BY <1>0 DEF ArriveAttackInVain, ReclamationDone
<1> QED BY <1>1, <1>2, <1>3, <1>4, <1>5, <1>6, <1>7 DEF exeArrive

LEMMA ServeAtBase ==
    ASSUME IInv, IdleAtBase, Serve
    PROVE  IdleAtBase'
<1> USE DEF IInv
<1>1. CASE \E a \in Army : ArmyBack(a)
  BY <1>1, ArmyBackAtBase
<1>2. CASE UNCHANGED army
  BY <1>2 DEF IdleAtBase
<1>3. BattleEnds => ArmyBack(job.army) /\ job.army \in Army
  BY JobType DEF BattleEnds, BattleRec
<1> QED BY <1>1, <1>2, <1>3 DEF Serve, ServeGiveUp, ServeInterrupt, ReturnEnds,
           ReturnOne, Fight

\* An idle army is at its base, so the way home that PushAction chooses for a
\* resting army is the right one -- provided that nobody is recruited by a
\* request for no men, which takes an army off its march.
THEOREM IdleArmiesAreAtBase ==
    "ConscriptNone" \notin Orders => (Spec => []IdleAtBase)
<1> SUFFICES ASSUME "ConscriptNone" \notin Orders PROVE Spec => []IdleAtBase
  OBVIOUS
<1>1. Init => IdleAtBase
  BY DEF Init, IdleAtBase
<1>2. ASSUME IInv, IdleAtBase, [Next]_vars
      PROVE  IdleAtBase'
  <2>1. CASE Check \/ Sweep \/ Tick \/ exeUpdate \/ UNCHANGED vars
    <3>1. UNCHANGED army
      BY <2>1 DEF Check, CheckDue, Sweep, SweepGiveUp, SweepDestroy, Tick, exeUpdate, vars
    <3> QED BY <1>2, <3>1 DEF IdleAtBase
  <2> QED BY <1>2, <2>1, PlayersAtBase, ArriveAtBase, ServeAtBase DEF Next
<1> QED BY <1>1, <1>2, Invariance, PTL DEF Spec

-----------------------------------------------------------------------------
\* The timely running() of PromptSpec is a special case: what is proved of Spec
\* holds of PromptSpec too.
THEOREM PromptIsSpec == PromptSpec => Spec
<1>1. [PromptNext]_vars => [Next]_vars
  BY DEF PromptNext, Next
<1> QED BY <1>1, PTL DEF PromptSpec, Spec

-----------------------------------------------------------------------------
(* A fortress never holds more armies than it has room for. *)

\* The army rests at p, or is being moved there.
Stays(a, p) == army[a].from = p \/ (army[a].cmd = "Transfer" /\ army[a].to = p)

\* An order that passed its checks, and will move the army to p.
Bidden(r, a, p) ==
    asking[r] # NoOrder /\ asking[r].cmd = "Transfer" /\ asking[r].army = a /\ asking[r].to = p

\* Whoever takes room at p: the orders that wait count, or the room that an
\* order found could be taken twice.
Bound(r, p) == {a \in Army : RIdOf[a] = r /\ (Stays(a, p) \/ Bidden(r, a, p))}

\* A role orders about its own armies only.
OwnOrders == \A r \in Role : asking[r] # NoOrder => RIdOf[asking[r].army] = r

RoomKept == \A r \in Role, p \in Cell : Cardinality(Bound(r, p)) <= HoldArmyCnt

HInv == OwnOrders /\ RoomKept

LEMMA RoomIsANumber == HoldArmyCnt \in Nat
  BY ConstantsAssumption

\* Where nobody comes to stay there is as much room as before.
LEMMA NoNewcomers ==
    ASSUME IsFiniteSet(Army), RoomKept,
           \A r \in Role, p \in Cell : Bound(r, p)' \subseteq Bound(r, p)
    PROVE  RoomKept'
<1>1. ASSUME NEW r \in Role, NEW p \in Cell
      PROVE  Cardinality(Bound(r, p)') <= HoldArmyCnt
  <2>1. Cardinality(Bound(r, p)) <= HoldArmyCnt
    BY DEF RoomKept
  <2> DEFINE S == Bound(r, p)
             T == Bound(r, p)'
  <2>2. S \subseteq Army /\ T \subseteq S
    BY DEF Bound
  <2> HIDE DEF S, T
  <2>3. IsFiniteSet(S)
    BY <2>2, FS_Subset
  <2>4. IsFiniteSet(T) /\ Cardinality(T) <= Cardinality(S)
    BY <2>2, <2>3, FS_Subset
  <2>5. Cardinality(S) \in Nat /\ Cardinality(T) \in Nat
    BY <2>3, <2>4, FS_CardinalityType
  <2>6. Cardinality(S) <= HoldArmyCnt
    BY <2>1 DEF S
  <2>7. Cardinality(T) <= HoldArmyCnt
    BY <2>4, <2>5, <2>6, RoomIsANumber
  <2> QED BY <2>7 DEF T
<1> QED BY <1>1 DEF RoomKept

\* One army changes, and takes room nowhere it had none.
LEMMA OneArmyEases ==
    ASSUME IsFiniteSet(Army), HInv, UNCHANGED asking, NEW a \in Army,
           \A b \in Army : b # a => army'[b] = army[b],
           \A p \in Cell : Stays(a, p)' => Stays(a, p)
    PROVE  HInv'
<1>1. OwnOrders'
  BY DEF HInv, OwnOrders
<1>2. \A b \in Army, p \in Cell : Stays(b, p)' => Stays(b, p)
  <2>1. ASSUME NEW b \in Army, NEW p \in Cell, b # a PROVE Stays(b, p)' => Stays(b, p)
    BY <2>1 DEF Stays
  <2> QED BY <2>1
<1>3. \A r \in Role, b \in Army, p \in Cell : Bidden(r, b, p)' => Bidden(r, b, p)
  BY DEF Bidden
<1>4. \A r \in Role, p \in Cell : Bound(r, p)' \subseteq Bound(r, p)
  BY <1>2, <1>3 DEF Bound
<1> QED BY <1>1, <1>4, NoNewcomers DEF HInv

LEMMA NobodyMoves ==
    ASSUME HInv, UNCHANGED <<army, asking>>
    PROVE  HInv'
<1>1. \A r \in Role, p \in Cell : Bound(r, p)' = Bound(r, p)
  BY DEF Bound, Stays, Bidden
<1> QED BY <1>1 DEF HInv, OwnOrders, RoomKept

\* An army that turns back leaves from where it rested, or for its city.
LEMMA ArmyBackLeaves ==
    ASSUME TypeOK, NEW a \in Army, ArmyBack(a)
    PROVE  /\ army'[a].cmd = "Back"
           /\ army'[a].from \in {army[a].from, CityOf(a)}
           /\ \A b \in Army : b # a => army'[b] = army[b]
<1>1. army \in [Army -> ArmyRec] /\ army[a] \in ArmyRec
  BY DEF TypeOK
<1>2. army' = [army EXCEPT ![a] = TurnedBack(a)]
  BY DEF ArmyBack
<1>3. /\ TurnedBack(a).cmd = "Back"
      /\ TurnedBack(a).from \in {army[a].from, CityOf(a)}
  BY <1>1 DEF TurnedBack, ArmyRec
<1> QED BY <1>1, <1>2, <1>3

LEMMA ArmyBackEases ==
    ASSUME TypeOK, IsFiniteSet(Army), HInv, UNCHANGED asking, NEW a \in Army, ArmyBack(a)
    PROVE  HInv'
<1>1. CityOf(a) \notin Cell
  BY HomeIsPlace, ConstantsAssumption
<1>2. \A p \in Cell : Stays(a, p)' => Stays(a, p)
  BY <1>1, ArmyBackLeaves DEF Stays
<1> QED BY <1>2, ArmyBackLeaves, OneArmyEases

\* The order finds room, and takes it by being heard.
LEMMA AssignChecksRoom ==
    ASSUME TypeOK, IsFiniteSet(Army), HInv, NEW r \in Role, NEW a \in Army,
           NEW cmd \in Marches, NEW q \in Place, AssignChecks(r, a, cmd, q)
    PROVE  HInv'
<1>1. /\ asking[r] = NoOrder /\ RIdOf[a] = r /\ UNCHANGED army
      /\ asking' = [asking EXCEPT ![r] = [cmd |-> cmd, army |-> a, to |-> q]]
      /\ cmd = "Transfer" => HoldArmyCnt > BelongPosArmyCnt(r, q)
  BY DEF AssignChecks
<1>2. /\ asking'[r] = [cmd |-> cmd, army |-> a, to |-> q]
      /\ \A s \in Role : s # r => asking'[s] = asking[s]
  BY <1>1 DEF TypeOK
<1>3. OwnOrders'
  BY <1>1, <1>2 DEF HInv, OwnOrders
<1>4. ASSUME NEW s \in Role, NEW p \in Cell, ~(s = r /\ p = q /\ cmd = "Transfer")
      PROVE  Cardinality(Bound(s, p)') <= HoldArmyCnt
  <2>1. \A b \in Army : Stays(b, p)' = Stays(b, p)
    BY <1>1 DEF Stays
  <2>2. \A b \in Army : Bidden(s, b, p)' => Bidden(s, b, p)
    BY <1>2, <1>4 DEF Bidden
  <2>3. \A b \in Army : Bidden(s, b, p) => Bidden(s, b, p)'
    BY <1>1, <1>2 DEF Bidden
  <2>4. Bound(s, p)' = Bound(s, p)
    BY <2>1, <2>2, <2>3 DEF Bound
  <2> QED BY <2>4 DEF HInv, RoomKept
<1>5. ASSUME cmd = "Transfer"
      PROVE  Cardinality(Bound(r, q)') <= HoldArmyCnt
  <2> DEFINE S == {b \in Army : RIdOf[b] = r /\ Stays(b, q)}
             T == Bound(r, q)'
  <2>1. T \subseteq S \cup {a}
    BY <1>1, <1>2 DEF Bound, Stays, Bidden
  <2>2. Cardinality(S) < HoldArmyCnt
    BY <1>1, <1>5 DEF BelongPosArmyCnt, Stays
  <2>3. S \subseteq Army
    OBVIOUS
  <2> HIDE DEF S, T
  <2>4. IsFiniteSet(S) /\ Cardinality(S) \in Nat
    BY <2>3, FS_Subset, FS_CardinalityType
  <2>5. IsFiniteSet(S \cup {a}) /\ Cardinality(S \cup {a}) <= Cardinality(S) + 1
    <3>1. /\ IsFiniteSet(S \cup {a})
          /\ Cardinality(S \cup {a}) = IF a \in S THEN Cardinality(S) ELSE Cardinality(S) + 1
      BY <2>4, FS_AddElement
    <3> QED BY <2>4, <3>1
  <2>6. IsFiniteSet(T) /\ Cardinality(T) <= Cardinality(S \cup {a})
    BY <2>1, <2>5, FS_Subset
  <2>7. Cardinality(T) \in Nat /\ Cardinality(S \cup {a}) \in Nat
    BY <2>5, <2>6, FS_CardinalityType
  <2>8. Cardinality(T) <= HoldArmyCnt
    BY <2>2, <2>4, <2>5, <2>6, <2>7, RoomIsANumber
  <2> QED BY <2>8 DEF T
<1>6. RoomKept'
  BY <1>4, <1>5 DEF RoomKept
<1> QED BY <1>3, <1>6 DEF HInv

\* The army marches: the room that its order held is now its own.
LEMMA AssignActsRoom ==
    ASSUME TypeOK, IsFiniteSet(Army), HInv, NEW r \in Role, AssignActs(r)
    PROVE  HInv'
<1>1. PICK a \in Army : a = asking[r].army /\ RIdOf[a] = r
  BY DEF TypeOK, AssignActs, OrderRec, HInv, OwnOrders
<1>2. /\ asking'[r] = NoOrder
      /\ \A s \in Role : s # r => asking'[s] = asking[s]
  BY DEF AssignActs, TypeOK
<1>3. /\ \A b \in Army : b # a => army'[b] = army[b]
      /\ \/ army'[a] = army[a]
         \/ /\ army'[a].from = army[a].from
            /\ army'[a].cmd = asking[r].cmd /\ army'[a].to = asking[r].to
  <2>1. army \in [Army -> ArmyRec] /\ army[a] \in ArmyRec
    BY DEF TypeOK
  <2> QED BY <1>1, <2>1 DEF AssignActs, ArmyRec
<1>4. \A b \in Army, p \in Cell : b # a => (Stays(b, p)' => Stays(b, p))
  BY <1>3 DEF Stays
<1>5. \A p \in Cell : Stays(a, p)' => Stays(a, p) \/ Bidden(r, a, p)
  BY <1>1, <1>3 DEF Stays, Bidden, AssignActs
<1>6. \A s \in Role, b \in Army, p \in Cell : Bidden(s, b, p)' => Bidden(s, b, p)
  BY <1>2 DEF Bidden
<1>7. \A s \in Role, p \in Cell : Bound(s, p)' \subseteq Bound(s, p)
  BY <1>1, <1>4, <1>5, <1>6 DEF Bound
<1>8. OwnOrders'
  BY <1>2 DEF HInv, OwnOrders
<1> QED BY <1>7, <1>8, NoNewcomers DEF HInv

LEMMA PlayersRoom ==
    ASSUME TypeOK, IsFiniteSet(Army), HInv, Players \/ Acts \/ Lookup
    PROVE  HInv'
<1>1. ASSUME NEW r \in Role, NEW a \in Army, AssignBack(r, a)
      PROVE  HInv'
  BY <1>1, ArmyBackEases DEF AssignBack
<1>2. ASSUME NEW a \in Army, (\E r \in Role : Conscript(r, a)) \/ CheckConscript(a)
      PROVE  HInv'
  <2>1. PICK cmd \in {"Conscript", "Idle"} : army' = [army EXCEPT ![a].cmd = cmd]
    BY <1>2 DEF Conscript, CheckConscript
  <2>2. /\ army'[a].from = army[a].from /\ army'[a].cmd = cmd
        /\ \A b \in Army : b # a => army'[b] = army[b]
    BY <2>1 DEF TypeOK, ArmyRec
  <2>3. \A p \in Cell : Stays(a, p)' => Stays(a, p)
    BY <2>2 DEF Stays
  <2>4. UNCHANGED asking
    BY <1>2 DEF Conscript, CheckConscript
  <2> QED BY <2>2, <2>3, <2>4, OneArmyEases
<1> QED BY <1>1, <1>2, AssignChecksRoom, AssignActsRoom DEF Players, Acts, Lookup

LEMMA ArriveRoom ==
    ASSUME IInv, IsFiniteSet(Army), HInv, exeArrive
    PROVE  HInv'
<1> USE DEF IInv
<1>0. PICK a \in Army : a = Head(arriveArmys) /\ army[a] \in ArmyRec /\ UNCHANGED asking
  BY ArrivingHead DEF exeArrive, ArriveAttack, ArriveAttackInVain, ArriveDefend,
     ArriveReclamation, ReclamationDone, ArriveBack, ArriveTransfer, ArriveIgnored
<1>1. CASE ArmyBack(a)
  BY <1>0, <1>1, ArmyBackEases
<1>2. CASE ArriveAttack \/ ArriveIgnored
  BY <1>0, <1>2, NobodyMoves DEF ArriveAttack, ArriveIgnored
<1>3. CASE (ArriveDefend \/ ArriveReclamation) /\ ~ArmyBack(a)
  <2>1. army' = [army EXCEPT ![a].state = "Stop"]
    BY <1>0, <1>3 DEF ArriveDefend, ArriveReclamation
  <2>2. /\ \A b \in Army : b # a => army'[b] = army[b]
        /\ \A p \in Cell : Stays(a, p)' => Stays(a, p)
    BY <1>0, <2>1 DEF TypeOK, ArmyRec, Stays
  <2> QED BY <1>0, <2>2, OneArmyEases
<1>4. CASE ArriveBack
  <2>1. army' = [army EXCEPT ![a] =
                   [@ EXCEPT !.state = "Stop", !.cmd = "Idle", !.to = army[a].from]]
    BY <1>0, <1>4 DEF ArriveBack
  <2>2. /\ \A b \in Army : b # a => army'[b] = army[b]
        /\ \A p \in Cell : Stays(a, p)' => Stays(a, p)
    BY <1>0, <2>1 DEF TypeOK, ArmyRec, Stays
  <2> QED BY <1>0, <2>2, OneArmyEases
<1>5. CASE ArriveTransfer /\ ~ArmyBack(a)
  <2>1. /\ army' = [army EXCEPT ![a] =
                   [@ EXCEPT !.state = "Stop", !.cmd = "Idle", !.from = army[a].to]]
        /\ army[a].cmd = "Transfer"
    BY <1>0, <1>5 DEF ArriveTransfer, Arriving
  <2>2. /\ \A b \in Army : b # a => army'[b] = army[b]
        /\ \A p \in Cell : Stays(a, p)' => Stays(a, p)
    BY <1>0, <2>1 DEF TypeOK, ArmyRec, Stays
  <2> QED BY <1>0, <2>2, OneArmyEases
<1>6. ArriveAttackInVain \/ ReclamationDone => ArmyBack(a)
  BY <1>0 DEF ArriveAttackInVain, ReclamationDone
<1> QED BY <1>1, <1>2, <1>3, <1>4, <1>5, <1>6 DEF exeArrive

LEMMA ServeRoom ==
    ASSUME IInv, IsFiniteSet(Army), HInv, Serve
    PROVE  HInv'
<1> USE DEF IInv
<1>1. UNCHANGED asking
  BY DEF Serve, ServeGiveUp, ServeInterrupt, ReturnEnds, BattleEnds, Fight, ReturnOne
<1>2. CASE \E a \in Army : ArmyBack(a)
  BY <1>1, <1>2, ArmyBackEases
<1>3. CASE UNCHANGED army
  BY <1>1, <1>3, NobodyMoves
<1>4. BattleEnds => ArmyBack(job.army) /\ job.army \in Army
  BY JobType DEF BattleEnds, BattleRec
<1> QED BY <1>2, <1>3, <1>4 DEF Serve, ServeGiveUp, ServeInterrupt, ReturnEnds,
           ReturnOne, Fight

LEMMA InitRoom ==
    ASSUME Init PROVE HInv
<1>1. OwnOrders
  BY DEF Init, OwnOrders
<1>2. \A a \in Army : /\ army[a].from = CityOf(a) /\ army[a].cmd = "Idle"
                      /\ CityOf(a) \notin Cell
  BY HomeIsPlace, ConstantsAssumption DEF Init
<1>3. \A r \in Role, p \in Cell : Bound(r, p) = {}
  <2>1. \A r \in Role : asking[r] = NoOrder
    BY DEF Init
  <2> QED BY <1>2, <2>1 DEF Bound, Stays, Bidden
<1>4. RoomKept
  <2>1. Cardinality({}) = 0 /\ 0 <= HoldArmyCnt
    BY FS_EmptySet, RoomIsANumber
  <2> QED BY <1>3, <2>1 DEF RoomKept
<1> QED BY <1>1, <1>4 DEF HInv

LEMMA RoomIsEnough ==
    ASSUME IsFiniteSet(Army), HInv PROVE HoldLimit
<1>1. ASSUME NEW r \in Role, NEW p \in Cell
      PROVE  BelongPosArmyCnt(r, p) <= HoldArmyCnt
  <2> DEFINE S == {b \in Army : RIdOf[b] = r /\ Stays(b, p)}
             T == Bound(r, p)
  <2>1. S \subseteq T /\ T \subseteq Army
    BY DEF Bound
  <2>2. Cardinality(T) <= HoldArmyCnt
    BY DEF HInv, RoomKept
  <2>3. BelongPosArmyCnt(r, p) = Cardinality(S)
    BY DEF BelongPosArmyCnt, Stays
  <2> HIDE DEF S, T
  <2>4. IsFiniteSet(T)
    BY <2>1, FS_Subset
  <2>5. IsFiniteSet(S) /\ Cardinality(S) <= Cardinality(T)
    BY <2>1, <2>4, FS_Subset
  <2>6. Cardinality(S) \in Nat /\ Cardinality(T) \in Nat
    BY <2>4, <2>5, FS_CardinalityType
  <2> QED BY <2>2, <2>3, <2>5, <2>6, RoomIsANumber
<1> QED BY <1>1 DEF HoldLimit

\* However many roles order armies to a fortress, and whatever becomes of them
\* on their way, a fortress never holds more armies of a role than it has room
\* for: between the check of an order (__transfer__ of controller/army.go) and
\* its execution no other order of the role can take the room it has found.
THEOREM HoldLimitKept ==
    ASSUME IsFiniteSet(Army) PROVE Spec => []HoldLimit
<1>1. Init => HInv
  BY InitRoom
<1>2. ASSUME IInv, HInv, [Next]_vars
      PROVE  HInv'
  <2>1. CASE Check \/ Sweep \/ Tick \/ exeUpdate \/ UNCHANGED vars
    <3>1. UNCHANGED <<army, asking>>
      BY <2>1 DEF Check, CheckDue, Sweep, SweepGiveUp, SweepDestroy, Tick, exeUpdate, vars
    <3> QED BY <1>2, <3>1, NobodyMoves
  <2> QED BY <1>2, <2>1, PlayersRoom, ArriveRoom, ServeRoom DEF Next, IInv
<1>3. HInv => HoldLimit
  BY RoomIsEnough
<1> QED BY <1>1, <1>2, <1>3, Invariance, PTL DEF Spec

=============================================================================
