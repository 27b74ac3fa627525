------------------------------- MODULE Union -------------------------------
(***************************************************************************)
(* Unions and captives of the game server: the handlers of                 *)
(* controller/coalition.go, logic/union/union_logic.go, the two managers   *)
(* UnionMgr and RAttrMgr, the capture of a role in logic/war/army_war.go,  *)
(* and what is left of all this after a restart.                           *)
(*                                                                         *)
(* Which union a role is in is held twice: in the member list of the union *)
(* (persistent) and in RoleAttribute.UnionId (not persistent).  Which      *)
(* union a role is a captive of is held twice as well: in ParentId         *)
(* (persistent) and in UnionLogic.children (not persistent).               *)
(*                                                                         *)
(* Handlers run in one goroutine per connection and captures in running()  *)
(* of ArmyLogic.  A handler is one step, except that two that check first  *)
(* and act later, verify and the capture at the end of a battle, take two  *)
(* steps.  MemberArray is a set here: its order is never looked at.        *)
(* Operators named ..._Bug are mutants of the definition that follows them *)
(* and are used by nothing.                                                *)
(***************************************************************************)
EXTENDS Integers, FiniteSets, SequencesExt

CONSTANTS
    Role,          \* role ids
    MaxUnions,     \* bound: unions created in one behaviour
    MaxApplies,    \* bound: applications made in one behaviour
    MaxRestarts,   \* bound: restarts in one behaviour
    MemberLimit,   \* static_conf.Basic.Union.MemberLimit
    QueueCap,      \* capacity of the writer's channel (100 in the code); with 0
                   \* the writer is never behind
    MayCrash,      \* whether a restart may lose what is in the channel
    Battles,       \* pairs <<a, d>>: an army of a reaches the city of d
    Titles         \* titles given by appoint in this instance

NoUnion == 0
NoRole == 0
UnionIds == 1..MaxUnions

ASSUME UnionAssumption ==
    /\ Role \subseteq Nat \ {NoRole}
    /\ MaxUnions \in Nat /\ MaxApplies \in Nat /\ MaxRestarts \in Nat
    /\ MemberLimit \in Nat \ {0}
    /\ QueueCap \in Nat /\ MayCrash \in BOOLEAN
    /\ Battles \subseteq Role \X Role
    /\ Titles \subseteq {"Vice", "Common"}

VARIABLES
    coalition,  \* [UnionIds -> union]: the Coalition objects
    saved,      \* the rows of tb_coalition
    queue,      \* dbCoalitionMgr.coalitions: the channel of objects to be written
    unions,     \* UnionMgr.unions: the ids it finds
    UnionId,    \* RoleAttribute.UnionId, 0 also for a role without attribute
    ParentId,   \* RoleAttribute.ParentId
    children,   \* UnionLogic.children
    applies,    \* the rows of tb_coalition_apply, by id
    verifying,  \* by role: a verify that passed its checks and has not acted
    capturing,  \* a battle for a city that is fought and not yet evaluated
    restarts    \* counter behind MaxRestarts

memory == <<coalition, unions, UnionId, children>>
vars == <<memory, saved, queue, ParentId, applies, verifying, capturing, restarts>>

CoalitionRec == [state : {"None", "Running", "Dismiss"}, Chairman : Role \cup {NoRole},
                 ViceChairman : Role \cup {NoRole}, Members : SUBSET Role]
NoCoalition == [state |-> "None", Chairman |-> NoRole, ViceChairman |-> NoRole,
                Members |-> {}]
ApplyRec == [rid : Role, union : UnionIds, state : {"Untreated", "Adopt", "Refuse"}]
Idle == [kind |-> "Idle"]
VerifyRec == [kind : {"Verify"}, id : Nat \ {0}, decide : {"Adopt", "Refuse"},
              enters : BOOLEAN]
CaptureRec == [kind : {"Capture"}, attacker : Role, defender : Role]

TypeOK ==
    /\ coalition \in [UnionIds -> CoalitionRec] /\ saved \in [UnionIds -> CoalitionRec]
    /\ queue \in Seq(UnionIds) /\ Len(queue) <= QueueCap
    /\ unions \subseteq UnionIds
    /\ UnionId \in [Role -> UnionIds \cup {NoUnion}]
    /\ ParentId \in [Role -> UnionIds \cup {NoUnion}]
    /\ children \in [UnionIds -> SUBSET Role]
    /\ applies \in Seq(ApplyRec)
    /\ verifying \in [Role -> VerifyRec \cup {Idle}]
    /\ \A r \in Role : verifying[r] # Idle => verifying[r].id \in 1..Len(applies)
    /\ capturing \in CaptureRec \cup {Idle}
    /\ restarts \in 0..MaxRestarts

Init ==
    /\ coalition = [u \in UnionIds |-> NoCoalition]
    /\ saved = [u \in UnionIds |-> NoCoalition]
    /\ queue = << >> /\ unions = {}
    /\ UnionId = [r \in Role |-> NoUnion] /\ ParentId = [r \in Role |-> NoUnion]
    /\ children = [u \in UnionIds |-> {}]
    /\ applies = << >>
    /\ verifying = [r \in Role |-> Idle] /\ capturing = Idle
    /\ restarts = 0

-----------------------------------------------------------------------------
(* UnionLogic: MemberEnter, MemberExit, PutChild, DelChild, DelUnionAllChild. *)

IsHasUnion(r) == UnionId[r] # NoUnion

\* A captive that enters its captor's union stays its captive.
MemberEnter_Bug(r, u) ==
    /\ UnionId' = [UnionId EXCEPT ![r] = u]
    /\ UNCHANGED <<ParentId, children>>

\* The role is a member of u; if it was its captive, it no longer is.
MemberEnter(r, u) ==
    /\ UnionId' = [UnionId EXCEPT ![r] = u]
    /\ ParentId' = IF ParentId[r] = u THEN [ParentId EXCEPT ![r] = NoUnion] ELSE ParentId
    /\ children' = IF ParentId[r] = u THEN [children EXCEPT ![u] = @ \ {r}] ELSE children

\* The list goes, the captives stay captives.
DelUnionAllChild_Bug(u) ==
    /\ children' = [children EXCEPT ![u] = {}]
    /\ UNCHANGED ParentId

\* All captives in the list of u go free.
DelUnionAllChild(u) ==
    /\ ParentId' = [r \in Role |-> IF r \in children[u] THEN NoUnion ELSE ParentId[r]]
    /\ children' = [children EXCEPT ![u] = {}]

\* Does not wait for room in the channel.
SyncExecute_Bug(u) ==
    IF QueueCap = 0
    THEN saved' = [saved EXCEPT ![u] = coalition'[u]] /\ UNCHANGED queue
    ELSE queue' = Append(queue, u) /\ UNCHANGED saved

\* SyncExecute hands the object itself to the writer, and waits while the
\* channel is full.
SyncExecute(u) ==
    IF QueueCap = 0
    THEN saved' = [saved EXCEPT ![u] = coalition'[u]] /\ UNCHANGED queue
    ELSE Len(queue) < QueueCap /\ queue' = Append(queue, u) /\ UNCHANGED saved

-----------------------------------------------------------------------------
(* controller/coalition.go. *)

\* create: the row is inserted at once.
Create(r) ==
    /\ ~IsHasUnion(r)
    /\ \E u \in UnionIds :
        /\ coalition[u].state = "None" /\ saved[u].state = "None"
        /\ \A v \in UnionIds : v < u => saved[v].state # "None"
        /\ coalition' = [coalition EXCEPT ![u] =
               [state |-> "Running", Chairman |-> r, ViceChairman |-> NoRole, Members |-> {r}]]
        /\ saved' = [saved EXCEPT ![u] = coalition'[u]]
        /\ unions' = unions \cup {u}
        /\ MemberEnter(r, u)
    /\ UNCHANGED <<queue, applies, verifying, capturing, restarts>>

\* join: an application, unless one of the role is open with that union.
Join(r, u) ==
    /\ Len(applies) < MaxApplies
    /\ ~IsHasUnion(r) /\ u \in unions
    /\ Cardinality(coalition[u].Members) < MemberLimit
    /\ ~Contains(applies, [rid |-> r, union |-> u, state |-> "Untreated"])
    /\ applies' = Append(applies, [rid |-> r, union |-> u, state |-> "Untreated"])
    /\ UNCHANGED <<memory, saved, queue, ParentId, verifying, capturing, restarts>>

\* verify, up to the decision whether the applicant enters.
VerifyChecks(r, i, decide) ==
    /\ verifying[r] = Idle
    /\ applies[i].state = "Untreated" /\ applies[i].union \in unions
    /\ LET c == coalition[applies[i].union] IN
       /\ r \in {c.Chairman, c.ViceChairman}
       /\ Cardinality(c.Members) < MemberLimit
    /\ verifying' = [verifying EXCEPT ![r] =
           [kind |-> "Verify", id |-> i, decide |-> decide,
            enters |-> decide = "Adopt" /\ ~IsHasUnion(applies[i].rid)]]
    /\ UNCHANGED <<memory, saved, queue, ParentId, applies, capturing, restarts>>

\* verify, the rest: the union is looked up again, the limit and the applicant
\* are not.  The application is closed whether or not the applicant could enter.
VerifyActs(r) ==
    /\ verifying[r] # Idle
    /\ LET v == verifying[r]
           t == applies[v.id].rid
           u == applies[v.id].union
       IN  /\ applies' = [applies EXCEPT ![v.id].state = v.decide]
           /\ IF v.enters /\ u \in unions
              THEN /\ coalition' = [coalition EXCEPT ![u].Members = @ \cup {t}]
                   /\ MemberEnter(t, u)
                   /\ SyncExecute(u)
              ELSE UNCHANGED <<coalition, saved, queue, UnionId, ParentId, children>>
    /\ verifying' = [verifying EXCEPT ![r] = Idle]
    /\ UNCHANGED <<unions, capturing, restarts>>

\* Leaves the list but not its UnionId.
Leaves_Bug(r, u) ==
    /\ coalition' = [coalition EXCEPT
           ![u].Members = @ \ {r},
           ![u].ViceChairman = IF @ = r THEN NoRole ELSE @]
    /\ UNCHANGED UnionId
    /\ SyncExecute(u)

\* A member leaves: the list, the vice chairman and UnionId forget it.
Leaves(r, u) ==
    /\ coalition' = [coalition EXCEPT
           ![u].Members = @ \ {r},
           ![u].ViceChairman = IF @ = r THEN NoRole ELSE @]
    /\ UnionId' = [UnionId EXCEPT ![r] = NoUnion]
    /\ SyncExecute(u)

\* exit: everyone but the chairman may.
Exit(r) ==
    /\ UnionId[r] \in unions
    /\ coalition[UnionId[r]].Chairman # r
    /\ Leaves(r, UnionId[r])
    /\ UNCHANGED <<unions, ParentId, children, applies, verifying, capturing, restarts>>

\* dismiss: the chairman may.  Everyone in the list is without union, and the
\* captives in the list of the union go free.
Dismiss(r) ==
    /\ UnionId[r] \in unions
    /\ coalition[UnionId[r]].Chairman = r
    /\ LET u == UnionId[r] IN
       /\ unions' = unions \ {u}
       /\ UnionId' = [s \in Role |-> IF s \in coalition[u].Members THEN NoUnion ELSE UnionId[s]]
       /\ DelUnionAllChild(u)
       /\ coalition' = [coalition EXCEPT ![u].state = "Dismiss", ![u].Members = {}]
       /\ SyncExecute(u)
    /\ UNCHANGED <<applies, verifying, capturing, restarts>>

\* kick: by the chairman or the vice chairman, of anyone but oneself.
Kick(r, t) ==
    /\ UnionId[r] \in unions /\ r # t
    /\ LET u == UnionId[r] IN
       /\ r \in {coalition[u].Chairman, coalition[u].ViceChairman}
       /\ UnionId[t] = u
       /\ Leaves(t, u)
    /\ UNCHANGED <<unions, ParentId, children, applies, verifying, capturing, restarts>>

\* Whoever is named becomes vice chairman.
Appoint_Bug(r, t, title) ==
    /\ UnionId[r] \in unions /\ title \in Titles
    /\ LET u == UnionId[r] IN
       /\ coalition[u].Chairman = r
       /\ coalition' = [coalition EXCEPT ![u].ViceChairman = t]
       /\ SyncExecute(u)
    /\ UNCHANGED <<unions, UnionId, ParentId, children, applies, verifying,
                   capturing, restarts>>

\* appoint: only the appointment of a vice chairman is written to the database.
Appoint(r, t, title) ==
    /\ UnionId[r] \in unions /\ title \in Titles
    /\ LET u == UnionId[r] IN
       /\ coalition[u].Chairman = r /\ UnionId[t] = u
       /\ \/ /\ title = "Vice"
             /\ coalition' = [coalition EXCEPT ![u].ViceChairman = t]
             /\ SyncExecute(u)
          \/ /\ title = "Common"
             /\ coalition' = [coalition EXCEPT ![u].ViceChairman = IF @ = t THEN NoRole ELSE @]
             /\ UNCHANGED <<saved, queue>>
    /\ UNCHANGED <<unions, UnionId, ParentId, children, applies, verifying,
                   capturing, restarts>>

\* abdicate: the chairman hands over the chair, the vice chairman the vice chair.
Abdicate(r, t) ==
    /\ UnionId[r] \in unions
    /\ LET u == UnionId[r] IN
       /\ UnionId[t] = u
       /\ \/ /\ coalition[u].Chairman = r
             /\ coalition' = [coalition EXCEPT ![u].Chairman = t,
                                 ![u].ViceChairman = IF @ = t THEN NoRole ELSE @]
          \/ /\ coalition[u].Chairman # r /\ coalition[u].ViceChairman = r
             /\ coalition' = [coalition EXCEPT ![u].ViceChairman = t]
       /\ SyncExecute(u)
    /\ UNCHANGED <<unions, UnionId, ParentId, children, applies, verifying,
                   capturing, restarts>>

-----------------------------------------------------------------------------
(* The capture of a role whose city falls. *)

\* exeArrive lets a battle begin that IsCanDefend does not forbid.
BattleBegins(a, d) ==
    /\ <<a, d>> \in Battles /\ a # d
    /\ capturing = Idle
    /\ UnionId[d] # NoUnion => UnionId[d] # UnionId[a]
    /\ UnionId[d] = NoUnion /\ ParentId[d] # NoUnion => ParentId[d] # UnionId[a]
    /\ capturing' = [kind |-> "Capture", attacker |-> a, defender |-> d]
    /\ UNCHANGED <<memory, saved, queue, ParentId, applies, verifying, restarts>>

\* checkCityOccupy: the city holds, or it has no durability left and its role
\* becomes a captive of the attacker's union, if the attacker is in one.
checkCityOccupy ==
    /\ capturing # Idle
    /\ LET u == UnionId[capturing.attacker]
           d == capturing.defender
       IN  \/ UNCHANGED <<ParentId, children>>
           \/ /\ u # NoUnion
              /\ ParentId' = [ParentId EXCEPT ![d] = u]
              /\ children' = [children EXCEPT ![u] = @ \cup {d}]
    /\ capturing' = Idle
    /\ UNCHANGED <<coalition, unions, UnionId, saved, queue, applies, verifying, restarts>>

-----------------------------------------------------------------------------
(* The database writer and a restart of the server. *)

\* dbCoalitionMgr.running: the object is written as it is by now.
DBWrite ==
    /\ queue # << >>
    /\ saved' = [saved EXCEPT ![Head(queue)] = coalition[Head(queue)]]
    /\ queue' = Tail(queue)
    /\ UNCHANGED <<memory, ParentId, applies, verifying, capturing, restarts>>

Running == {u \in UnionIds : saved[u].state = "Running"}

\* RAttrMgr.Load: a role is in a union that lists it; if several do, in the
\* one that comes last in the iteration of a Go map, which may be any.
Listing(r) == {u \in Running : r \in saved[u].Members}
Loaded == {f \in [Role -> UnionIds \cup {NoUnion}] :
              \A r \in Role : IF Listing(r) = {} THEN f[r] = NoUnion ELSE f[r] \in Listing(r)}

\* UnionMgr.Load, RAttrMgr.Load and UnionLogic.init.  What was in the channel
\* is lost, and so is every handler that was under way.
Restart ==
    /\ restarts < MaxRestarts
    /\ MayCrash \/ queue = << >>
    /\ coalition' = saved
    /\ unions' = Running
    /\ UnionId' \in Loaded
    /\ children' = [u \in UnionIds |-> {r \in Role : ParentId[r] = u}]
    /\ queue' = << >>
    /\ verifying' = [r \in Role |-> Idle] /\ capturing' = Idle
    /\ restarts' = restarts + 1
    /\ UNCHANGED <<saved, ParentId, applies>>

-----------------------------------------------------------------------------
Starts ==
    \E r \in Role :
        \/ Create(r) \/ Exit(r) \/ Dismiss(r)
        \/ \E u \in UnionIds : Join(r, u)
        \/ \E i \in 1..Len(applies), decide \in {"Adopt", "Refuse"} : VerifyChecks(r, i, decide)
        \/ \E t \in Role : \/ Kick(r, t) \/ Abdicate(r, t) \/ BattleBegins(r, t)
                           \/ \E title \in {"Vice", "Common"} : Appoint(r, t, title)
Completes == checkCityOccupy \/ \E r \in Role : VerifyActs(r)

Next == Starts \/ Completes \/ DBWrite \/ Restart

Spec == Init /\ [][Next]_vars

\* The same when no handler gets between the two steps of another one.
Serial == capturing = Idle /\ \A r \in Role : verifying[r] = Idle
SerialNext == (Serial /\ Starts) \/ Completes \/ DBWrite \/ Restart
SerialSpec == Init /\ [][SerialNext]_vars

-----------------------------------------------------------------------------
(* Properties. *)

\* The two records of membership agree: whoever a running union lists has its
\* id as UnionId and the other way round, and UnionId is never the id of a
\* dismissed union (it would lock the role out of create, join and exit alike).
MembersAgree ==
    /\ \A u \in unions, r \in Role : r \in coalition[u].Members <=> UnionId[r] = u
    /\ \A r \in Role : IsHasUnion(r) => UnionId[r] \in unions

\* The vice chairman is a member, however that member came to leave.
ViceIsMember ==
    \A u \in unions : LET c == coalition[u] IN
        c.ViceChairman # NoRole => c.ViceChairman \in c.Members

\* Nobody is a captive of one's own union: MemberEnter ends a captivity, and a
\* battle against a member of the own union is refused.
NotOwnCaptive == \A r \in Role : ParentId[r] # NoUnion => ParentId[r] # UnionId[r]

\* What unions promise.
Abstract == INSTANCE Membership WITH
    Unions <- UnionIds, Limit <- MemberLimit, running <- unions,
    dissolved <- {u \in UnionIds : coalition[u].state = "Dismiss"},
    belongs <- UnionId, captor <- ParentId

\* While no two handlers overlap the unions keep their promise: one is in one
\* union at a time and enters no union that is full, nobody is a captive of one's
\* own union, a dissolved union leaves nobody behind and does not come back, and
\* the writer of the database and a restart change nothing of all this.
PromiseKept == Abstract!Spec

\* A captive is in the list of its union, and the union is running: its
\* dismissal will find the captive and free it.
CaptorKnows ==
    \A r \in Role : ParentId[r] # NoUnion =>
        ParentId[r] \in unions /\ r \in children[ParentId[r]]

\* Once the writer has caught up the rows are what the objects are, so that a
\* restart changes nothing about a union.
WrittenWhenQuiet == queue = << >> => saved = coalition

-----------------------------------------------------------------------------
(* What comments and error codes say of this state. *)

\* "The chairman cannot leave" (coalition.go:325): a chairman goes on being
\* a member of the union.
ChairmanStays ==
    \A u \in unions : coalition[u].Chairman \in coalition[u].Members

\* "key: unionId, key&value: child rid" (union_logic.go:68): who is listed under
\* a union is its child.
ChildrenAreCaptives == \A u \in UnionIds, r \in Role : r \in children[u] => ParentId[r] = u

\* "Has a union already" (constant/code.go:45) refuses whoever is in one: so
\* nobody is listed by two unions.
OneUnion ==
    \A u, v \in unions : u # v => coalition[u].Members \cap coalition[v].Members = {}

=============================================================================
