----------------------------- MODULE RoleBuild -----------------------------
(***************************************************************************)
(* The land of the roles: logic/mgr/role_build_mgr.go with the objects of  *)
(* model/map_role_build.go, the handlers of controller/nation_map.go, the  *)
(* occupation in logic/war/army_war.go and the sweep of logic/init.go.     *)
(*                                                                         *)
(* Land is taken in battle, given up, built on, built up and torn down.    *)
(* Giving up and tearing down take effect later: the sweep finds them in   *)
(* giveUpRB and destroyRB, which are keyed by the second, and looks back   *)
(* Window seconds so that a late sweep misses nothing.  Building and       *)
(* tearing down also end when somebody looks at the land (ToProto).        *)
(*                                                                         *)
(* A handler is one step.  The sweep first collects what is due and then   *)
(* takes it up piece by piece, so that other steps get in between.         *)
(* Operators named ..._Bug are mutants of the definition that follows.     *)
(***************************************************************************)
EXTENDS Integers, FiniteSets, Sequences

CONSTANTS
    Role,          \* role ids
    Cell,          \* pieces of land
    InitOwner,     \* [Cell -> Role or NoRole] at the start
    GiveUpDelay,   \* static_conf.Basic.Build.GiveUpTime
    BuildTime,     \* how long building, building up and tearing down take
    WarFree,       \* static_conf.Basic.Build.WarFree
    MaxLevel,      \* levels of a fortress
    BuildLimit,    \* static_conf.Basic.Role.BuildLimit
    FortressLimit, \* static_conf.Basic.Build.FortressLimit
    Window,        \* seconds the sweep looks back (10 in the code)
    MaxPause,      \* the longest pause between two sweeps of a running server
    MaxRestarts,   \* bound: restarts in one behaviour
    MaxNow         \* bound: the clock stops here

NoRole == 0
NoTime == 0
Delay == IF GiveUpDelay > BuildTime THEN GiveUpDelay ELSE BuildTime
Times == 1 .. MaxNow + Delay + WarFree + 1

ASSUME LandAssumption ==
    /\ Role \subseteq Nat \ {NoRole}
    /\ InitOwner \in [Cell -> Role \cup {NoRole}]
    /\ GiveUpDelay \in Nat \ {0} /\ BuildTime \in Nat \ {0}
    /\ WarFree \in Nat /\ MaxLevel \in Nat \ {0}
    /\ BuildLimit \in Nat /\ FortressLimit \in Nat
    /\ Window \in Nat /\ MaxPause \in Nat \ {0}
    /\ MaxRestarts \in Nat /\ MaxNow \in Nat \ {0}
    /\ IsFiniteSet(Cell)
    /\ \A r \in Role : Cardinality({c \in Cell : InitOwner[c] = r}) <= BuildLimit

VARIABLES
    now,        \* time.Now().Unix()
    build,      \* the MapRoleBuild objects
    roleRB,     \* by role, NoRole included: the land listed for it
    giveUpRB,   \* by second: land to be given up
    destroyRB,  \* by second: fortresses to be torn down
    sweep,      \* where the sweep is: what it collected and has not taken up
    sweptAt,    \* when it last started
    restarts    \* counter behind MaxRestarts

vars == <<now, build, roleRB, giveUpRB, destroyRB, sweep, sweptAt, restarts>>

\* free is the second from which the land may be fought over again.
BuildRec == [rid : Role \cup {NoRole}, type : {"Res", "Fortress"},
             Level : 0..MaxLevel, OPLevel : 0..MaxLevel,
             EndTime : Times \cup {NoTime}, GiveUpTime : Times \cup {NoTime},
             free : Times \cup {NoTime}]
SweepRec == [stage : {"Idle", "GiveUp", "Destroy"}, left : SUBSET Cell]
AtRest == [stage |-> "Idle", left |-> {}]

TypeOK ==
    /\ now \in 1..MaxNow
    /\ build \in [Cell -> BuildRec]
    /\ roleRB \in [Role \cup {NoRole} -> SUBSET Cell]
    /\ giveUpRB \in [Times -> SUBSET Cell] /\ destroyRB \in [Times -> SUBSET Cell]
    /\ sweep \in SweepRec
    /\ sweptAt \in 1..MaxNow
    /\ restarts \in 0..MaxRestarts

-----------------------------------------------------------------------------
(* model/map_role_build.go *)

IsInGiveUp(b) == b.GiveUpTime # NoTime
IsWarFree(b) == now < b.free
IsBusy(b) == b.Level # b.OPLevel
IsResBuild(b) == b.type = "Res"
IsHaveModifyLVAuth(b) == b.type = "Fortress"

\* The land as nature made it; its natural level is not told apart here.
ConvertToRes(b) ==
    [b EXCEPT !.type = "Res", !.Level = 1, !.OPLevel = 1, !.EndTime = NoTime]
Reset(b) == [ConvertToRes(b) EXCEPT !.rid = NoRole, !.GiveUpTime = NoTime]

BuildOrUp(b, level) ==
    [b EXCEPT !.type = "Fortress", !.Level = level - 1, !.OPLevel = level,
              !.GiveUpTime = NoTime, !.EndTime = now + BuildTime]

\* ToProto completes what is due before it copies the fields.
Completed(b) ==
    IF b.EndTime = NoTime \/ b.type # "Fortress" \/ now < b.EndTime THEN b
    ELSE IF b.OPLevel = 0 THEN ConvertToRes(b)
    ELSE [b EXCEPT !.Level = b.OPLevel, !.EndTime = NoTime]

-----------------------------------------------------------------------------
(* logic/mgr/role_build_mgr.go *)

BuildCnt(r) == Cardinality(roleRB[r])
RoleFortressCnt(r) == Cardinality({c \in roleRB[r] : build[c].type = "Fortress"})

Without(rb, t, c) == IF t \in Times THEN [rb EXCEPT ![t] = @ \ {c}] ELSE rb

Unlisted_Bug(c) == roleRB   \* the land stays in the list of its former role
\* What RemoveFromRole leaves of the lists.
Unlisted(c) == [roleRB EXCEPT ![build[c].rid] = @ \ {c}]

RemoveFromRole(c) ==
    /\ roleRB' = Unlisted(c)
    /\ giveUpRB' = Without(giveUpRB, build[c].GiveUpTime, c)
    /\ destroyRB' = Without(destroyRB, build[c].EndTime, c)
    /\ build' = [build EXCEPT ![c] = Reset(build[c])]

-----------------------------------------------------------------------------
(* controller/nation_map.go: giveUp, build, upBuild, delBuild. *)

GiveUp(r, c) ==
    /\ build[c].rid = r /\ ~IsWarFree(build[c]) /\ ~IsInGiveUp(build[c])
    /\ LET t == now + GiveUpDelay IN
       /\ build' = [build EXCEPT ![c].GiveUpTime = t]
       /\ giveUpRB' = [giveUpRB EXCEPT ![t] = @ \cup {c}]
    /\ UNCHANGED <<now, roleRB, destroyRB, sweep, sweptAt, restarts>>

\* build: also on land that is being given up, whose give-up it cancels in the
\* object and not in giveUpRB.
BuildNew(r, c) ==
    /\ build[c].rid = r /\ IsResBuild(build[c]) /\ ~IsBusy(build[c])
    /\ RoleFortressCnt(r) < FortressLimit
    /\ build' = [build EXCEPT ![c] = BuildOrUp(build[c], 1)]
    /\ UNCHANGED <<now, roleRB, giveUpRB, destroyRB, sweep, sweptAt, restarts>>

UpBuild_Bug(r, c) ==   \* there is no highest level
    /\ build[c].rid = r /\ IsHaveModifyLVAuth(build[c])
    /\ ~IsInGiveUp(build[c]) /\ ~IsBusy(build[c])
    /\ build' = [build EXCEPT ![c] = BuildOrUp(build[c], build[c].Level + 1)]
    /\ UNCHANGED <<now, roleRB, giveUpRB, destroyRB, sweep, sweptAt, restarts>>

UpBuild(r, c) ==
    /\ build[c].rid = r /\ IsHaveModifyLVAuth(build[c])
    /\ ~IsInGiveUp(build[c]) /\ ~IsBusy(build[c])
    /\ build[c].Level < MaxLevel
    /\ build' = [build EXCEPT ![c] = BuildOrUp(build[c], build[c].Level + 1)]
    /\ UNCHANGED <<now, roleRB, giveUpRB, destroyRB, sweep, sweptAt, restarts>>

\* Destroy looks at the clock twice, before destroyRB is written and after, and
\* a second may begin in between.
Destroy(r, c) ==
    /\ build[c].rid = r /\ IsHaveModifyLVAuth(build[c])
    /\ ~IsInGiveUp(build[c]) /\ ~IsBusy(build[c])
    /\ \E late \in {0, 1} :
        build' = [build EXCEPT ![c] =
            [@ EXCEPT !.OPLevel = 0, !.EndTime = now + BuildTime + late]]
    /\ destroyRB' = [destroyRB EXCEPT ![now + BuildTime] = @ \cup {c}]
    /\ UNCHANGED <<now, roleRB, giveUpRB, sweep, sweptAt, restarts>>

\* Somebody looks at the land.
View(c) ==
    /\ Completed(build[c]) # build[c]
    /\ build' = [build EXCEPT ![c] = Completed(build[c])]
    /\ UNCHANGED <<now, roleRB, giveUpRB, destroyRB, sweep, sweptAt, restarts>>

-----------------------------------------------------------------------------
(* logic/war/army_war.go: executeBuild after a victory. *)

\* AddBuild for land there is an object of, then the truce.
Owned(b, r) == [b EXCEPT !.rid = r, !.free = now + WarFree]

\* OccupyRoleBuild: the durability is used up (when is not modelled).
OccupyRoleBuild(r, c) ==
    /\ build[c].rid \notin {NoRole, r} /\ ~IsWarFree(build[c])
    /\ BuildCnt(r) < BuildLimit
    /\ roleRB' = [Unlisted(c) EXCEPT ![r] = @ \cup {c}]
    /\ giveUpRB' = Without(giveUpRB, build[c].GiveUpTime, c)
    /\ destroyRB' = Without(destroyRB, build[c].EndTime, c)
    /\ build' = [build EXCEPT ![c] = Owned(Reset(build[c]), r)]
    /\ UNCHANGED <<now, sweep, sweptAt, restarts>>

OccupySystemBuild_Bug(r, c) ==   \* one piece too many
    /\ build[c].rid = NoRole /\ ~IsWarFree(build[c])
    /\ BuildCnt(r) <= BuildLimit
    /\ roleRB' = [roleRB EXCEPT ![r] = @ \cup {c}]
    /\ build' = [build EXCEPT ![c] = Owned(build[c], r)]
    /\ UNCHANGED <<now, giveUpRB, destroyRB, sweep, sweptAt, restarts>>

OccupySystemBuild(r, c) ==
    /\ build[c].rid = NoRole /\ ~IsWarFree(build[c])
    /\ BuildCnt(r) < BuildLimit
    /\ roleRB' = [roleRB EXCEPT ![r] = @ \cup {c}]
    /\ build' = [build EXCEPT ![c] = Owned(build[c], r)]
    /\ UNCHANGED <<now, giveUpRB, destroyRB, sweep, sweptAt, restarts>>

-----------------------------------------------------------------------------
(* logic/init.go: AfterInit. *)

Due_Bug(rb) == UNION {rb[t] : t \in Times \cap {now}}   \* does not look back
Due(rb) == UNION {rb[t] : t \in Times \cap (now - Window .. now)}

\* CheckGiveUp and then CheckDestroy collect under a lock of their own.
CheckGiveUp ==
    /\ sweep.stage = "Idle" /\ sweptAt < now
    /\ sweptAt' = now
    /\ sweep' = [stage |-> "GiveUp", left |-> Due(giveUpRB)]
    /\ UNCHANGED <<now, build, roleRB, giveUpRB, destroyRB, restarts>>

GiveUpOne(c) ==
    /\ sweep.stage = "GiveUp" /\ c \in sweep.left
    /\ sweep' = [sweep EXCEPT !.left = @ \ {c}]
    /\ RemoveFromRole(c)
    /\ UNCHANGED <<now, sweptAt, restarts>>

CheckDestroy ==
    /\ sweep.stage = "GiveUp" /\ sweep.left = {}
    /\ sweep' = [stage |-> "Destroy", left |-> Due(destroyRB)]
    /\ UNCHANGED <<now, build, roleRB, giveUpRB, destroyRB, sweptAt, restarts>>

\* The entry stays in destroyRB.
DestroyOne(c) ==
    /\ sweep.stage = "Destroy" /\ c \in sweep.left
    /\ sweep' = [sweep EXCEPT !.left = @ \ {c}]
    /\ build' = [build EXCEPT ![c] = ConvertToRes(build[c])]
    /\ UNCHANGED <<now, roleRB, giveUpRB, destroyRB, sweptAt, restarts>>

SweepEnds ==
    /\ sweep.stage = "Destroy" /\ sweep.left = {}
    /\ sweep' = AtRest
    /\ UNCHANGED <<now, build, roleRB, giveUpRB, destroyRB, sweptAt, restarts>>

-----------------------------------------------------------------------------
(* Time, and restarts. *)

\* From one start of the sweep to the next it is never longer than MaxPause: it
\* sleeps for a second, and serves what it found.
Tick ==
    /\ now < MaxNow /\ now < sweptAt + MaxPause
    /\ now' = now + 1
    /\ UNCHANGED <<build, roleRB, giveUpRB, destroyRB, sweep, sweptAt, restarts>>

\* Load, some time after the server stopped.  What has come due meanwhile takes
\* effect at once; the rest is indexed again.  What View completed is not
\* saved: the next View, or Load, completes it again with the same result.
Restart ==
    /\ restarts < MaxRestarts
    /\ restarts' = restarts + 1
    /\ now' \in now..MaxNow
    /\ sweptAt' = now'
    /\ sweep' = AtRest
    /\ LET torn(c) == build[c].OPLevel = 0 /\ build[c].Level # 0
           gone(c) == IsInGiveUp(build[c]) /\ build[c].GiveUpTime <= now'
           kept(c) == IF torn(c) /\ build[c].EndTime <= now'
                      THEN ConvertToRes(build[c]) ELSE build[c]
       IN  /\ build' = [c \in Cell |-> IF gone(c) THEN Reset(build[c]) ELSE kept(c)]
           /\ giveUpRB' = [t \in Times |->
                  {c \in Cell : ~gone(c) /\ build[c].GiveUpTime = t}]
           /\ destroyRB' = [t \in Times |->
                  {c \in Cell : ~gone(c) /\ torn(c) /\ t > now' /\ build[c].EndTime = t}]
           /\ roleRB' = [r \in Role \cup {NoRole} |->
                  {c \in Cell : ~gone(c) /\ build[c].rid = r}]

-----------------------------------------------------------------------------
Natural == [rid |-> NoRole, type |-> "Res", Level |-> 1, OPLevel |-> 1,
            EndTime |-> NoTime, GiveUpTime |-> NoTime, free |-> NoTime]

Init ==
    /\ now = 1 /\ sweptAt = 1
    /\ build = [c \in Cell |-> [Natural EXCEPT !.rid = InitOwner[c]]]
    /\ roleRB = [r \in Role \cup {NoRole} |-> {c \in Cell : InitOwner[c] = r}]
    /\ giveUpRB = [t \in Times |-> {}] /\ destroyRB = [t \in Times |-> {}]
    /\ sweep = AtRest
    /\ restarts = 0

Handlers ==
    \E r \in Role, c \in Cell :
        GiveUp(r, c) \/ BuildNew(r, c) \/ UpBuild(r, c) \/ Destroy(r, c)
Battles == \E r \in Role, c \in Cell : OccupyRoleBuild(r, c) \/ OccupySystemBuild(r, c)
Sweeps ==
    \/ CheckGiveUp \/ CheckDestroy \/ SweepEnds
    \/ \E c \in Cell : GiveUpOne(c) \/ DestroyOne(c)

Next == Handlers \/ Battles \/ Sweeps \/ Tick \/ Restart \/ \E c \in Cell : View(c)

Spec == Init /\ [][Next]_vars

-----------------------------------------------------------------------------
(* Properties. *)

\* Land is listed for the role that owns it and for no other one, although the
\* sweep takes land away that changed hands since it was collected.  Limits,
\* yields and the scan of the own land all go by these lists.
OwnerListed ==
    \A r \in Role, c \in Cell : c \in roleRB[r] <=> build[c].rid = r

\* Nobody owns more than BuildLimit pieces of land.
LimitHolds == \A r \in Role : Cardinality({c \in Cell : build[c].rid = r}) <= BuildLimit

\* Land that is being given up is given up in time, and a fortress that is
\* being torn down is gone in time: the sweep, or Load after a long stop, does
\* not miss the second it is listed under.  The sweep after that second starts
\* before MaxPause is over and has served it within another one.
Deadlines ==
    \A c \in Cell :
        /\ IsInGiveUp(build[c]) => now < build[c].GiveUpTime + 2 * MaxPause
        /\ IsBusy(build[c]) /\ build[c].OPLevel = 0 => now < build[c].EndTime + 2 * MaxPause

-----------------------------------------------------------------------------
(* What comments of the code say of the sweep. *)

\* "Checks whether land that is being given up is due" (role_build_mgr.go:118):
\* whatever it collects is being given up.
OnlyGivenUpIsTaken ==
    sweep.stage = "GiveUp" => \A c \in sweep.left : IsInGiveUp(build[c])

\* "Checks whether buildings that are being torn down are due"
\* (role_build_mgr.go:143): no other building is collected.
OnlyTornDownIsTaken ==
    sweep.stage = "Destroy" =>
        \A c \in sweep.left : build[c].type = "Fortress" => build[c].OPLevel = 0

=============================================================================
