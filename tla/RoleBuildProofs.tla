-------------------------- MODULE RoleBuildProofs --------------------------
(***************************************************************************)
(* Proofs about RoleBuild: its types, that the lists of land by role agree *)
(* with the owners of the land, that nobody owns too much of it, and that  *)
(* land is given up and torn down in time.                                 *)
(*                                                                         *)
(* The lists and the types are inductive together.  The limit rests on the *)
(* lists, because BuildCnt counts the land that is listed.  The deadlines  *)
(* rest on the sweep: what is listed is ahead of it or in its hands.  The  *)
(* last part is about what the sweep finds listed: only a new building or  *)
(* a conquest in the way makes it take land nobody has given up.           *)
(***************************************************************************)
EXTENDS RoleBuild, FiniteSetTheorems, TLAPS

IInv == TypeOK /\ OwnerListed

(***************************************************************************)
(* What becomes of one piece of land: each operation of map_role_build.go  *)
(* returns a record of the type, and none but Reset and Owned changes the  *)
(* owner.                                                                  *)
(***************************************************************************)
\* A second the program computes from the present one is one of Times.
LEMMA TimesReached ==
    ASSUME NEW t \in 1..MaxNow
    PROVE  /\ t + GiveUpDelay \in Times
           /\ t + BuildTime \in Times /\ t + BuildTime + 1 \in Times
           /\ t + WarFree \in Times
<1>1. Delay \in Nat /\ GiveUpDelay <= Delay /\ BuildTime <= Delay
    BY LandAssumption DEF Delay
<1> QED BY <1>1, LandAssumption DEF Times

\* Reset and ConvertToRes keep the type of the record.
LEMMA ResetType ==
    ASSUME NEW b \in BuildRec
    PROVE  /\ ConvertToRes(b) \in BuildRec /\ ConvertToRes(b).rid = b.rid
           /\ Reset(b) \in BuildRec /\ Reset(b).rid = NoRole
<1>1. 1 \in 0..MaxLevel
    BY LandAssumption
<1>2. ConvertToRes(b) \in BuildRec /\ ConvertToRes(b).rid = b.rid
    BY <1>1 DEF BuildRec, ConvertToRes
<1>3. Reset(b) \in BuildRec /\ Reset(b).rid = NoRole
  <2> DEFINE d == ConvertToRes(b)
  <2>1. d \in BuildRec
      BY <1>2
  <2> HIDE DEF d
  <2>2. [d EXCEPT !.rid = NoRole, !.GiveUpTime = NoTime] \in BuildRec
      BY <2>1 DEF BuildRec
  <2>3. [d EXCEPT !.rid = NoRole, !.GiveUpTime = NoTime].rid = NoRole
      BY <2>1 DEF BuildRec
  <2> QED BY <2>2, <2>3 DEF Reset, d
<1> QED BY <1>2, <1>3

\* ToProto keeps the type of the record, and its owner.
LEMMA CompletedType ==
    ASSUME NEW b \in BuildRec
    PROVE  Completed(b) \in BuildRec /\ Completed(b).rid = b.rid
<1>1. ConvertToRes(b) \in BuildRec /\ ConvertToRes(b).rid = b.rid
    BY ResetType
<1>2. [b EXCEPT !.Level = b.OPLevel, !.EndTime = NoTime] \in BuildRec
    BY DEF BuildRec
<1>3. [b EXCEPT !.Level = b.OPLevel, !.EndTime = NoTime].rid = b.rid
    BY DEF BuildRec
<1> QED BY <1>1, <1>2, <1>3 DEF Completed

\* BuildOrUp keeps the type of the record, and its owner.
LEMMA BuildOrUpType ==
    ASSUME NEW b \in BuildRec, NEW level \in 1..MaxLevel, now \in 1..MaxNow
    PROVE  BuildOrUp(b, level) \in BuildRec /\ BuildOrUp(b, level).rid = b.rid
<1>1. now + BuildTime \in Times
    BY TimesReached
<1>2. level \in 0..MaxLevel /\ level - 1 \in 0..MaxLevel
    BY LandAssumption
<1> QED BY <1>1, <1>2 DEF BuildOrUp, BuildRec

\* Owned keeps the type of the record, and the role owns it.
LEMMA OwnedType ==
    ASSUME NEW b \in BuildRec, NEW r \in Role, now \in 1..MaxNow
    PROVE  Owned(b, r) \in BuildRec /\ Owned(b, r).rid = r
<1>1. now + WarFree \in Times
    BY TimesReached
<1> QED BY <1>1 DEF Owned, BuildRec

\* Without keeps the type of an index.
LEMMA WithoutType ==
    ASSUME NEW rb \in [Times -> SUBSET Cell], NEW t, NEW c \in Cell
    PROVE  Without(rb, t, c) \in [Times -> SUBSET Cell]
BY DEF Without

(***************************************************************************)
(* Types and lists.                                                        *)
(***************************************************************************)
\* When one piece of land changes and keeps its owner, the lists still agree.
LEMMA OwnerKept ==
    ASSUME IInv, NEW c \in Cell, NEW d \in BuildRec, d.rid = build[c].rid,
           build' = [build EXCEPT ![c] = d], roleRB' = roleRB
    PROVE  build' \in [Cell -> BuildRec] /\ OwnerListed'
<1>1. build \in [Cell -> BuildRec]
    BY DEF IInv, TypeOK
<1>2. build' \in [Cell -> BuildRec]
    BY <1>1
<1>3. \A e \in Cell : build'[e].rid = build[e].rid
    BY <1>1
<1> QED BY <1>2, <1>3 DEF IInv, OwnerListed

\* RemoveFromRole keeps the types, and the lists agree.
LEMMA RemoveFromRoleInv ==
    ASSUME IInv, NEW c \in Cell, RemoveFromRole(c)
    PROVE  /\ build' \in [Cell -> BuildRec]
           /\ roleRB' \in [Role \cup {NoRole} -> SUBSET Cell]
           /\ giveUpRB' \in [Times -> SUBSET Cell]
           /\ destroyRB' \in [Times -> SUBSET Cell]
           /\ OwnerListed'
<1> USE DEF RemoveFromRole
<1> DEFINE o == build[c].rid
           d == Reset(build[c])
<1>1. /\ build \in [Cell -> BuildRec] /\ build[c] \in BuildRec
      /\ roleRB \in [Role \cup {NoRole} -> SUBSET Cell]
      /\ giveUpRB \in [Times -> SUBSET Cell] /\ destroyRB \in [Times -> SUBSET Cell]
    BY DEF IInv, TypeOK
<1>2. o \in Role \cup {NoRole}
    BY <1>1 DEF BuildRec
<1>3. d \in BuildRec /\ d.rid = NoRole
    BY <1>1, ResetType
<1>4. build' = [build EXCEPT ![c] = d] /\ roleRB' = [roleRB EXCEPT ![o] = @ \ {c}]
    BY DEF Unlisted
<1> HIDE DEF d
<1>5. build' \in [Cell -> BuildRec]
    BY <1>1, <1>3, <1>4
<1>6. roleRB' \in [Role \cup {NoRole} -> SUBSET Cell]
    BY <1>1, <1>2, <1>4
<1>7. giveUpRB' \in [Times -> SUBSET Cell] /\ destroyRB' \in [Times -> SUBSET Cell]
    BY <1>1, WithoutType
<1>8. OwnerListed'
  <2> SUFFICES ASSUME NEW r \in Role, NEW e \in Cell
               PROVE  e \in roleRB'[r] <=> build'[e].rid = r
      BY DEF OwnerListed
  <2>1. e \in roleRB[r] <=> build[e].rid = r
      BY DEF IInv, OwnerListed
  <2>2. CASE e = c
    <3>1. build'[e].rid = NoRole /\ r # NoRole
        BY <1>1, <1>3, <1>4, <2>2, LandAssumption
    <3>2. e \notin roleRB'[r]
        BY <1>1, <1>2, <1>4, <2>1, <2>2
    <3> QED BY <3>1, <3>2
  <2>3. CASE e # c
      BY <1>1, <1>2, <1>4, <2>1, <2>3
  <2> QED BY <2>2, <2>3
<1> QED BY <1>5, <1>6, <1>7, <1>8

\* The role that takes the land is the one it is listed for.
LEMMA OccupyInv ==
    ASSUME IInv, NEW c \in Cell, NEW r \in Role, NEW d \in BuildRec, d.rid = r,
           build[c].rid # r,
           build' = [build EXCEPT ![c] = d],
           roleRB' = [Unlisted(c) EXCEPT ![r] = @ \cup {c}]
    PROVE  /\ build' \in [Cell -> BuildRec]
           /\ roleRB' \in [Role \cup {NoRole} -> SUBSET Cell]
           /\ OwnerListed'
<1> DEFINE o == build[c].rid
<1>1. /\ build \in [Cell -> BuildRec] /\ build[c] \in BuildRec
      /\ roleRB \in [Role \cup {NoRole} -> SUBSET Cell]
    BY DEF IInv, TypeOK
<1>2. o \in Role \cup {NoRole}
    BY <1>1 DEF BuildRec
<1>3. /\ Unlisted(c) \in [Role \cup {NoRole} -> SUBSET Cell]
      /\ Unlisted(c)[o] = roleRB[o] \ {c}
      /\ \A q \in Role \cup {NoRole} : q # o => Unlisted(c)[q] = roleRB[q]
    BY <1>1, <1>2 DEF Unlisted
<1>4. /\ roleRB' \in [Role \cup {NoRole} -> SUBSET Cell]
      /\ roleRB'[r] = roleRB[r] \cup {c}
      /\ roleRB'[o] = roleRB[o] \ {c}
      /\ \A q \in Role \cup {NoRole} : q # o /\ q # r => roleRB'[q] = roleRB[q]
    BY <1>1, <1>2, <1>3
<1>5. build' \in [Cell -> BuildRec]
    BY <1>1
<1>6. OwnerListed'
  <2> SUFFICES ASSUME NEW q \in Role, NEW e \in Cell
               PROVE  e \in roleRB'[q] <=> build'[e].rid = q
      BY DEF OwnerListed
  <2>1. e \in roleRB[q] <=> build[e].rid = q
      BY DEF IInv, OwnerListed
  <2>2. CASE e = c
    <3>1. build'[e].rid = r
        BY <1>1, <2>2
    <3>2. e \in roleRB'[q] <=> q = r
        BY <1>4, <2>1, <2>2
    <3> QED BY <3>1, <3>2
  <2>3. CASE e # c
    <3>1. build'[e] = build[e]
        BY <1>1, <2>3
    <3>2. e \in roleRB'[q] <=> e \in roleRB[q]
        BY <1>4, <2>3
    <3> QED BY <2>1, <3>1, <3>2
  <2> QED BY <2>2, <2>3
<1> QED BY <1>4, <1>5, <1>6

\* At the start everybody's land is listed.
LEMMA InitInv == Init => IInv
<1> SUFFICES ASSUME Init PROVE IInv
    OBVIOUS
<1>1. [Natural EXCEPT !.rid = NoRole] \in BuildRec
    BY LandAssumption DEF Natural, BuildRec
<1>2. \A c \in Cell : /\ [Natural EXCEPT !.rid = InitOwner[c]] \in BuildRec
                      /\ [Natural EXCEPT !.rid = InitOwner[c]].rid = InitOwner[c]
    BY LandAssumption DEF Natural, BuildRec
<1>3. build \in [Cell -> BuildRec] /\ \A c \in Cell : build[c].rid = InitOwner[c]
    BY <1>2 DEF Init
<1>4. TypeOK
    BY <1>3, LandAssumption DEF Init, TypeOK, SweepRec, AtRest
<1>5. OwnerListed
    BY <1>3 DEF Init, OwnerListed
<1> QED BY <1>4, <1>5 DEF IInv

\* A restart: Load indexes the land anew.
LEMMA RestartInv == IInv /\ Restart => IInv'
<1> SUFFICES ASSUME IInv, Restart PROVE IInv'
    OBVIOUS
<1> DEFINE torn(c) == build[c].OPLevel = 0 /\ build[c].Level # 0
           gone(c) == IsInGiveUp(build[c]) /\ build[c].GiveUpTime <= now'
           kept(c) == IF torn(c) /\ build[c].EndTime <= now'
                      THEN ConvertToRes(build[c]) ELSE build[c]
           after(c) == IF gone(c) THEN Reset(build[c]) ELSE kept(c)
<1>1. TypeOK /\ \A c \in Cell : build[c] \in BuildRec
    BY DEF IInv, TypeOK
<1>2. build' = [c \in Cell |-> after(c)]
    BY DEF Restart
<1>3. roleRB' = [r \in Role \cup {NoRole} |->
                    {c \in Cell : ~gone(c) /\ build[c].rid = r}]
    BY DEF Restart
<1>4. /\ giveUpRB' \in [Times -> SUBSET Cell] /\ destroyRB' \in [Times -> SUBSET Cell]
      /\ sweep' \in SweepRec /\ now' \in 1..MaxNow /\ sweptAt' \in 1..MaxNow
      /\ restarts' \in 0..MaxRestarts
    BY <1>1, LandAssumption DEF Restart, TypeOK, SweepRec, AtRest
<1>5. ASSUME NEW c \in Cell
      PROVE  /\ after(c) \in BuildRec
             /\ after(c).rid = IF gone(c) THEN NoRole ELSE build[c].rid
    BY <1>1, ResetType
<1> HIDE DEF after, gone
<1>6. build' \in [Cell -> BuildRec] /\ roleRB' \in [Role \cup {NoRole} -> SUBSET Cell]
    BY <1>2, <1>3, <1>5
<1>7. TypeOK'
    BY <1>4, <1>6 DEF TypeOK
<1>8. OwnerListed'
  <2> SUFFICES ASSUME NEW r \in Role, NEW c \in Cell
               PROVE  c \in roleRB'[r] <=> build'[c].rid = r
      BY DEF OwnerListed
  <2>1. r # NoRole
      BY LandAssumption
  <2>2. c \in roleRB'[r] <=> ~gone(c) /\ build[c].rid = r
      BY <1>3
  <2>3. build'[c].rid = IF gone(c) THEN NoRole ELSE build[c].rid
      BY <1>2, <1>5
  <2> QED BY <2>1, <2>2, <2>3
<1> QED BY <1>7, <1>8 DEF IInv

\* Every step keeps the types and the lists.
LEMMA NextInv == IInv /\ [Next]_vars => IInv'
<1> SUFFICES ASSUME IInv, [Next]_vars PROVE IInv'
    OBVIOUS
<1> USE DEF IInv
<1>t. /\ now \in 1..MaxNow /\ build \in [Cell -> BuildRec]
      /\ roleRB \in [Role \cup {NoRole} -> SUBSET Cell]
      /\ giveUpRB \in [Times -> SUBSET Cell] /\ destroyRB \in [Times -> SUBSET Cell]
      /\ sweep \in SweepRec /\ sweptAt \in 1..MaxNow /\ restarts \in 0..MaxRestarts
      /\ \A c \in Cell : build[c] \in BuildRec
    BY DEF TypeOK
<1>1. ASSUME NEW r \in Role, NEW c \in Cell, GiveUp(r, c) PROVE IInv'
  <2> DEFINE t == now + GiveUpDelay
             d == [build[c] EXCEPT !.GiveUpTime = t]
  <2>1. t \in Times
      BY <1>t, TimesReached
  <2>2. d \in BuildRec /\ d.rid = build[c].rid
      BY <1>t, <2>1 DEF BuildRec
  <2>3. build' = [build EXCEPT ![c] = d] /\ roleRB' = roleRB
      BY <1>1 DEF GiveUp
  <2>4. giveUpRB' \in [Times -> SUBSET Cell]
      BY <1>1, <1>t, <2>1 DEF GiveUp
  <2> HIDE DEF d
  <2>5. build' \in [Cell -> BuildRec] /\ OwnerListed'
      BY <2>2, <2>3, OwnerKept
  <2> QED BY <1>1, <1>t, <2>4, <2>5 DEF GiveUp, TypeOK
<1>2. ASSUME NEW r \in Role, NEW c \in Cell, BuildNew(r, c) PROVE IInv'
  <2>1. BuildOrUp(build[c], 1) \in BuildRec /\ BuildOrUp(build[c], 1).rid = build[c].rid
      BY <1>t, BuildOrUpType, LandAssumption
  <2>2. build' \in [Cell -> BuildRec] /\ OwnerListed'
      BY <1>2, <2>1, OwnerKept DEF BuildNew
  <2> QED BY <1>2, <1>t, <2>2 DEF BuildNew, TypeOK
<1>3. ASSUME NEW r \in Role, NEW c \in Cell, UpBuild(r, c) PROVE IInv'
  <2> DEFINE d == BuildOrUp(build[c], build[c].Level + 1)
  <2>1. build[c].Level \in 0..MaxLevel /\ build[c].Level < MaxLevel
      BY <1>3, <1>t DEF UpBuild, BuildRec
  <2>2. build[c].Level + 1 \in 1..MaxLevel
      BY <2>1, LandAssumption
  <2>3. d \in BuildRec /\ d.rid = build[c].rid
      BY <1>t, <2>2, BuildOrUpType
  <2>4. build' = [build EXCEPT ![c] = d] /\ roleRB' = roleRB
      BY <1>3 DEF UpBuild
  <2> HIDE DEF d
  <2>5. build' \in [Cell -> BuildRec] /\ OwnerListed'
      BY <2>3, <2>4, OwnerKept
  <2> QED BY <1>3, <1>t, <2>5 DEF UpBuild, TypeOK
<1>4. ASSUME NEW r \in Role, NEW c \in Cell, Destroy(r, c) PROVE IInv'
  <2>1. PICK late \in {0, 1} : build' = [build EXCEPT ![c] =
            [@ EXCEPT !.OPLevel = 0, !.EndTime = now + BuildTime + late]]
      BY <1>4 DEF Destroy
  <2> DEFINE d == [build[c] EXCEPT !.OPLevel = 0, !.EndTime = now + BuildTime + late]
  <2>2. now + BuildTime + late \in Times
    <3>1. now + BuildTime \in Times /\ now + BuildTime + 1 \in Times
        BY <1>t, TimesReached
    <3>2. now \in Nat /\ BuildTime \in Nat
        BY <1>t, LandAssumption
    <3>3. CASE late = 0
        BY <3>1, <3>2, <3>3
    <3>4. CASE late = 1
        BY <3>1, <3>2, <3>4
    <3> QED BY <3>3, <3>4
  <2>3. 0 \in 0..MaxLevel
      BY LandAssumption
  <2>4. d \in BuildRec /\ d.rid = build[c].rid
      BY <1>t, <2>2, <2>3 DEF BuildRec
  <2>5. build' = [build EXCEPT ![c] = d] /\ roleRB' = roleRB
      BY <1>4, <1>t, <2>1 DEF Destroy
  <2>6. destroyRB' \in [Times -> SUBSET Cell]
      BY <1>4, <1>t, TimesReached DEF Destroy
  <2> HIDE DEF d
  <2>7. build' \in [Cell -> BuildRec] /\ OwnerListed'
      BY <2>4, <2>5, OwnerKept
  <2> QED BY <1>4, <1>t, <2>6, <2>7 DEF Destroy, TypeOK
<1>5. ASSUME NEW c \in Cell, View(c) PROVE IInv'
  <2>1. Completed(build[c]) \in BuildRec /\ Completed(build[c]).rid = build[c].rid
      BY <1>t, CompletedType
  <2>2. build' \in [Cell -> BuildRec] /\ OwnerListed'
      BY <1>5, <2>1, OwnerKept DEF View
  <2> QED BY <1>5, <1>t, <2>2 DEF View, TypeOK
<1>6. ASSUME NEW r \in Role, NEW c \in Cell, OccupyRoleBuild(r, c) PROVE IInv'
  <2> DEFINE d == Owned(Reset(build[c]), r)
  <2>1. d \in BuildRec /\ d.rid = r
      BY <1>t, ResetType, OwnedType
  <2>2. build' = [build EXCEPT ![c] = d] /\ build[c].rid # r
      BY <1>6 DEF OccupyRoleBuild
  <2>3. roleRB' = [Unlisted(c) EXCEPT ![r] = @ \cup {c}]
      BY <1>6 DEF OccupyRoleBuild
  <2> HIDE DEF d
  <2>4. /\ build' \in [Cell -> BuildRec] /\ OwnerListed'
        /\ roleRB' \in [Role \cup {NoRole} -> SUBSET Cell]
      BY <2>1, <2>2, <2>3, OccupyInv
  <2>5. giveUpRB' \in [Times -> SUBSET Cell] /\ destroyRB' \in [Times -> SUBSET Cell]
      BY <1>6, <1>t, WithoutType DEF OccupyRoleBuild
  <2> QED BY <1>6, <1>t, <2>4, <2>5 DEF OccupyRoleBuild, TypeOK
<1>7. ASSUME NEW r \in Role, NEW c \in Cell, OccupySystemBuild(r, c) PROVE IInv'
  <2> DEFINE d == Owned(build[c], r)
  <2>1. d \in BuildRec /\ d.rid = r
      BY <1>t, OwnedType
  <2>2. /\ build' = [build EXCEPT ![c] = d] /\ build[c].rid = NoRole
        /\ roleRB' = [roleRB EXCEPT ![r] = @ \cup {c}]
      BY <1>7 DEF OccupySystemBuild
  <2> HIDE DEF d
  <2>3. build' \in [Cell -> BuildRec] /\ roleRB' \in [Role \cup {NoRole} -> SUBSET Cell]
      BY <1>t, <2>1, <2>2
  <2>4. ASSUME NEW q \in Role, NEW e \in Cell
        PROVE  e \in roleRB'[q] <=> build'[e].rid = q
    <3>1. (e \in roleRB[q] <=> build[e].rid = q) /\ q # NoRole
        BY LandAssumption DEF OwnerListed
    <3>2. CASE e = c
        BY <1>t, <2>1, <2>2, <3>1, <3>2
    <3>3. CASE e # c
        BY <1>t, <2>2, <3>1, <3>3
    <3> QED BY <3>2, <3>3
  <2> QED BY <1>7, <1>t, <2>3, <2>4 DEF OccupySystemBuild, TypeOK, OwnerListed
<1>8. ASSUME CheckGiveUp PROVE IInv'
  <2>1. Due(giveUpRB) \subseteq Cell
      BY <1>t DEF Due
  <2> QED BY <1>8, <1>t, <2>1 DEF CheckGiveUp, TypeOK, OwnerListed, SweepRec
<1>9. ASSUME CheckDestroy PROVE IInv'
  <2>1. Due(destroyRB) \subseteq Cell
      BY <1>t DEF Due
  <2> QED BY <1>9, <1>t, <2>1 DEF CheckDestroy, TypeOK, OwnerListed, SweepRec
<1>10. ASSUME SweepEnds PROVE IInv'
    BY <1>10, <1>t DEF SweepEnds, TypeOK, OwnerListed, SweepRec, AtRest
<1>11. ASSUME NEW c \in Cell, GiveUpOne(c) PROVE IInv'
  <2>1. /\ build' \in [Cell -> BuildRec] /\ OwnerListed'
        /\ roleRB' \in [Role \cup {NoRole} -> SUBSET Cell]
        /\ giveUpRB' \in [Times -> SUBSET Cell] /\ destroyRB' \in [Times -> SUBSET Cell]
      BY <1>11, RemoveFromRoleInv DEF GiveUpOne
  <2>2. sweep' \in SweepRec
      BY <1>11, <1>t DEF GiveUpOne, SweepRec
  <2> QED BY <1>11, <1>t, <2>1, <2>2 DEF GiveUpOne, TypeOK
<1>12. ASSUME NEW c \in Cell, DestroyOne(c) PROVE IInv'
  <2>1. ConvertToRes(build[c]) \in BuildRec /\ ConvertToRes(build[c]).rid = build[c].rid
      BY <1>t, ResetType
  <2>2. build' \in [Cell -> BuildRec] /\ OwnerListed'
      BY <1>12, <2>1, OwnerKept DEF DestroyOne
  <2>3. sweep' \in SweepRec
      BY <1>12, <1>t DEF DestroyOne, SweepRec
  <2> QED BY <1>12, <1>t, <2>2, <2>3 DEF DestroyOne, TypeOK
<1>13. ASSUME Tick PROVE IInv'
    BY <1>13, <1>t, LandAssumption DEF Tick, TypeOK, OwnerListed
<1>14. ASSUME Restart PROVE IInv'
    BY <1>14, RestartInv
<1>15. ASSUME UNCHANGED vars PROVE IInv'
    BY <1>15, <1>t DEF vars, TypeOK, OwnerListed
<1> QED
    BY <1>1, <1>2, <1>3, <1>4, <1>5, <1>6, <1>7, <1>8, <1>9, <1>10, <1>11, <1>12,
       <1>13, <1>14, <1>15 DEF Next, Handlers, Battles, Sweeps

\* In every state of every behaviour the types are kept and the lists agree with
\* the owners.
THEOREM Invariance == Spec => []IInv
<1>1. Init => IInv
    BY InitInv
<1>2. IInv /\ [Next]_vars => IInv'
    BY NextInv
<1> QED BY <1>1, <1>2, PTL DEF Spec

\* The state keeps its types.
THEOREM TypeCorrect == Spec => []TypeOK
<1>1. IInv => TypeOK
    BY DEF IInv
<1> QED BY <1>1, Invariance, PTL

\* Whatever the sweep, the battles and the owners do, and in whatever order, the
\* land listed for a role is the land it owns.
THEOREM ListsAgree == Spec => []OwnerListed
<1>1. IInv => OwnerListed
    BY DEF IInv
<1> QED BY <1>1, Invariance, PTL

(***************************************************************************)
(* The limit.                                                              *)
(***************************************************************************)
LandOf(r) == {c \in Cell : build[c].rid = r}

\* A step that is no conquest leaves land with its owner or takes it from him.
LEMMA OwnersOnlyLose ==
    ASSUME IInv, [Next]_vars, ~Battles
    PROVE  \A c \in Cell : build'[c].rid \in {build[c].rid, NoRole}
<1>t. build \in [Cell -> BuildRec] /\ now \in 1..MaxNow
      /\ \A c \in Cell : build[c] \in BuildRec
    BY DEF IInv, TypeOK
<1> DEFINE Loses == \A e \in Cell : build'[e].rid \in {build[e].rid, NoRole}
<1>0. ASSUME NEW c \in Cell, NEW d \in BuildRec, d.rid \in {build[c].rid, NoRole},
             build' = [build EXCEPT ![c] = d]
      PROVE  Loses
    BY <1>0, <1>t
<1> HIDE DEF Loses
<1>1. ASSUME NEW r \in Role, NEW c \in Cell, GiveUp(r, c) PROVE Loses
  <2> DEFINE d == [build[c] EXCEPT !.GiveUpTime = now + GiveUpDelay]
  <2>1. now + GiveUpDelay \in Times
      BY <1>t, TimesReached
  <2>2. d \in BuildRec /\ d.rid = build[c].rid
      BY <1>t, <2>1 DEF BuildRec
  <2>3. build' = [build EXCEPT ![c] = d]
      BY <1>1 DEF GiveUp
  <2> HIDE DEF d
  <2> QED BY <1>0, <2>2, <2>3
<1>2. ASSUME NEW r \in Role, NEW c \in Cell, BuildNew(r, c) PROVE Loses
  <2>1. BuildOrUp(build[c], 1) \in BuildRec /\ BuildOrUp(build[c], 1).rid = build[c].rid
      BY <1>t, BuildOrUpType, LandAssumption
  <2> QED BY <1>0, <1>2, <2>1 DEF BuildNew
<1>3. ASSUME NEW r \in Role, NEW c \in Cell, UpBuild(r, c) PROVE Loses
  <2> DEFINE d == BuildOrUp(build[c], build[c].Level + 1)
  <2>1. build[c].Level \in 0..MaxLevel /\ build[c].Level < MaxLevel
      BY <1>3, <1>t DEF UpBuild, BuildRec
  <2>2. build[c].Level + 1 \in 1..MaxLevel
      BY <2>1, LandAssumption
  <2>3. d \in BuildRec /\ d.rid = build[c].rid
      BY <1>t, <2>2, BuildOrUpType
  <2>4. build' = [build EXCEPT ![c] = d]
      BY <1>3 DEF UpBuild
  <2> HIDE DEF d
  <2> QED BY <1>0, <2>3, <2>4
<1>4. ASSUME NEW r \in Role, NEW c \in Cell, Destroy(r, c) PROVE Loses
  <2>1. PICK late \in {0, 1} : build' = [build EXCEPT ![c] =
            [@ EXCEPT !.OPLevel = 0, !.EndTime = now + BuildTime + late]]
      BY <1>4 DEF Destroy
  <2>2. \A e \in Cell : build'[e].rid = build[e].rid
      BY <1>t, <2>1 DEF BuildRec
  <2> QED BY <2>2 DEF Loses
<1>5. ASSUME NEW c \in Cell, View(c) PROVE Loses
  <2>1. Completed(build[c]) \in BuildRec /\ Completed(build[c]).rid = build[c].rid
      BY <1>t, CompletedType
  <2> QED BY <1>0, <1>5, <2>1 DEF View
<1>6. ASSUME NEW c \in Cell, GiveUpOne(c) PROVE Loses
  <2>1. Reset(build[c]) \in BuildRec /\ Reset(build[c]).rid = NoRole
      BY <1>t, ResetType
  <2> QED BY <1>0, <1>6, <2>1 DEF GiveUpOne, RemoveFromRole
<1>7. ASSUME NEW c \in Cell, DestroyOne(c) PROVE Loses
  <2>1. ConvertToRes(build[c]) \in BuildRec /\ ConvertToRes(build[c]).rid = build[c].rid
      BY <1>t, ResetType
  <2> QED BY <1>0, <1>7, <2>1 DEF DestroyOne
<1>8. ASSUME Restart PROVE Loses
  <2> SUFFICES ASSUME NEW c \in Cell PROVE build'[c].rid \in {build[c].rid, NoRole}
      BY DEF Loses
  <2>1. build'[c] \in {Reset(build[c]), ConvertToRes(build[c]), build[c]}
      BY <1>8 DEF Restart
  <2> QED BY <1>t, <2>1, ResetType
<1>9. ASSUME build' = build PROVE Loses
    BY <1>9 DEF Loses
<1>10. Loses
    BY <1>1, <1>2, <1>3, <1>4, <1>5, <1>6, <1>7, <1>8, <1>9
    DEF Next, Handlers, Sweeps, CheckGiveUp, CheckDestroy, SweepEnds, Tick, vars
<1> QED BY <1>10 DEF Loses

\* Whoever takes a piece of land gets no other one, and was below the limit.
LEMMA ConquestBounded ==
    ASSUME IInv, NEW q \in Role, NEW c \in Cell,
           OccupyRoleBuild(q, c) \/ OccupySystemBuild(q, c)
    PROVE  /\ BuildCnt(q) < BuildLimit
           /\ \A e \in Cell : e # c => build'[e] = build[e]
           /\ build'[c].rid = q
<1>1. build \in [Cell -> BuildRec] /\ now \in 1..MaxNow /\ build[c] \in BuildRec
    BY DEF IInv, TypeOK
<1>2. BuildCnt(q) < BuildLimit
    BY DEF OccupyRoleBuild, OccupySystemBuild
<1>3. PICK b \in BuildRec : build' = [build EXCEPT ![c] = Owned(b, q)]
    BY <1>1, ResetType DEF OccupyRoleBuild, OccupySystemBuild
<1>4. Owned(b, q).rid = q
    BY <1>1, OwnedType
<1>5. build'[c].rid = q
    BY <1>1, <1>3, <1>4
<1>6. \A e \in Cell : e # c => build'[e] = build[e]
    BY <1>1, <1>3
<1> QED BY <1>2, <1>5, <1>6

\* No step takes anybody over the limit.
LEMMA NextLimit == IInv /\ LimitHolds /\ [Next]_vars => LimitHolds'
<1> SUFFICES ASSUME IInv, LimitHolds, [Next]_vars, NEW r \in Role
             PROVE  Cardinality(LandOf(r)') <= BuildLimit
    BY DEF LimitHolds, LandOf
<1>1. IsFiniteSet(LandOf(r)) /\ IsFiniteSet(LandOf(r)')
    BY FS_Subset, LandAssumption DEF LandOf
<1>2. /\ Cardinality(LandOf(r)) \in Nat /\ Cardinality(LandOf(r)') \in Nat
      /\ Cardinality(LandOf(r)) <= BuildLimit /\ BuildLimit \in Nat
    BY <1>1, FS_CardinalityType, LandAssumption DEF LimitHolds, LandOf
<1>3. r # NoRole
    BY LandAssumption
<1>4. ASSUME LandOf(r)' \subseteq LandOf(r)
      PROVE  Cardinality(LandOf(r)') <= BuildLimit
  <2>1. Cardinality(LandOf(r)') <= Cardinality(LandOf(r))
      BY <1>1, <1>4, FS_Subset
  <2> QED BY <1>2, <2>1
<1>5. CASE ~Battles
  <2>1. \A c \in Cell : build'[c].rid \in {build[c].rid, NoRole}
      BY <1>5, OwnersOnlyLose
  <2>2. LandOf(r)' \subseteq LandOf(r)
      BY <1>3, <2>1 DEF LandOf
  <2> QED BY <1>4, <2>2
<1>6. CASE Battles
  <2>1. PICK q \in Role, c \in Cell : OccupyRoleBuild(q, c) \/ OccupySystemBuild(q, c)
      BY <1>6 DEF Battles
  <2>2. /\ BuildCnt(q) < BuildLimit /\ build'[c].rid = q
        /\ \A e \in Cell : e # c => build'[e] = build[e]
      BY <2>1, ConquestBounded
  <2>3. CASE r # q
    <3>1. LandOf(r)' \subseteq LandOf(r)
        BY <2>2, <2>3 DEF LandOf
    <3> QED BY <1>4, <3>1
  <2>4. CASE r = q
    <3>1. roleRB[r] = LandOf(r)
        BY DEF IInv, TypeOK, OwnerListed, LandOf
    <3>2. Cardinality(LandOf(r)) < BuildLimit
        BY <2>2, <2>4, <3>1 DEF BuildCnt
    <3>3. LandOf(r)' \subseteq LandOf(r) \cup {c}
        BY <2>2 DEF LandOf
    <3>4. /\ IsFiniteSet(LandOf(r) \cup {c})
          /\ Cardinality(LandOf(r) \cup {c}) \in
                 {Cardinality(LandOf(r)), Cardinality(LandOf(r)) + 1}
        BY <1>1, FS_AddElement
    <3>5. Cardinality(LandOf(r)') <= Cardinality(LandOf(r) \cup {c})
        BY <3>3, <3>4, FS_Subset
    <3>6. Cardinality(LandOf(r) \cup {c}) \in Nat
        BY <3>4, FS_CardinalityType
    <3> QED BY <1>2, <3>2, <3>4, <3>5, <3>6
  <2> QED BY <2>3, <2>4
<1> QED BY <1>5, <1>6

\* Nobody ever owns more land than BuildLimit, although the limit is checked
\* against the lists and not against the land.
THEOREM NobodyOwnsTooMuch == Spec => []LimitHolds
<1>1. Init => LimitHolds
  <2> SUFFICES ASSUME Init, NEW r \in Role
               PROVE  Cardinality({c \in Cell : build[c].rid = r}) <= BuildLimit
      BY DEF LimitHolds
  <2>1. \A c \in Cell : build[c].rid = InitOwner[c]
      BY DEF Init, Natural
  <2>2. {c \in Cell : build[c].rid = r} = {c \in Cell : InitOwner[c] = r}
      BY <2>1
  <2> QED BY <2>2, LandAssumption
<1>2. IInv /\ LimitHolds /\ [Next]_vars => LimitHolds'
    BY NextLimit
<1> QED BY <1>1, <1>2, Invariance, PTL DEF Spec

(***************************************************************************)
(* The deadlines.  Per piece of land: it is listed under its second, and   *)
(* the sweep that finds it is still to come or has it in hand.             *)
(***************************************************************************)
\* The clock is never more than MaxPause ahead of the start of a sweep.
Timely == sweptAt <= now /\ now <= sweptAt + MaxPause

\* Land listed for second t is not overlooked: the sweep that finds it is still
\* to come, or runs, came no more than MaxPause later and has the land ahead.
GiveUpAhead(c, t) ==
    \/ t > sweptAt
    \/ sweep.stage = "GiveUp" /\ c \in sweep.left /\ t + MaxPause > sweptAt
DestroyAhead(c, t) ==
    \/ t > sweptAt
    \/ /\ sweep.stage = "GiveUp" \/ (sweep.stage = "Destroy" /\ c \in sweep.left)
       /\ t + MaxPause > sweptAt

\* Land that is being given up is listed under its second.
GivenUpIn(c) ==
    IsInGiveUp(build[c]) =>
        /\ c \in giveUpRB[build[c].GiveUpTime]
        /\ GiveUpAhead(c, build[c].GiveUpTime)

\* A fortress that is being torn down is listed under its second or under the
\* one before, because Destroy looks at the clock twice.
TearsDown(b) == IsBusy(b) /\ b.OPLevel = 0
TornDownIn(c) ==
    TearsDown(build[c]) =>
        \E t \in Times : /\ c \in destroyRB[t]
                         /\ build[c].EndTime \in {t, t + 1}
                         /\ DestroyAhead(c, t)

Ahead == \A c \in Cell : GivenUpIn(c) /\ TornDownIn(c)
DInv == Timely /\ Ahead

\* d asks for nothing the sweep has to do that b does not ask for.
Eases(b, d) ==
    /\ d.GiveUpTime \in {b.GiveUpTime, NoTime}
    /\ TearsDown(d) => TearsDown(b) /\ d.EndTime = b.EndTime
\* Nothing is due of b.
AtPeace(b) == ~IsInGiveUp(b) /\ ~TearsDown(b)

\* Nature's land is at peace, and what is looked at or taken asks for no more.
LEMMA ResetAtPeace ==
    ASSUME NEW b \in BuildRec
    PROVE  /\ AtPeace(Reset(b))
           /\ Eases(b, ConvertToRes(b))
<1>1. ConvertToRes(b).Level = 1 /\ ConvertToRes(b).OPLevel = 1
      /\ ConvertToRes(b).GiveUpTime = b.GiveUpTime
    BY DEF BuildRec, ConvertToRes
<1>2. /\ Reset(b).GiveUpTime = NoTime
      /\ Reset(b).Level = ConvertToRes(b).Level /\ Reset(b).OPLevel = ConvertToRes(b).OPLevel
  <2> DEFINE d == ConvertToRes(b)
  <2>1. d \in BuildRec
      BY ResetType
  <2> HIDE DEF d
  <2> DEFINE e == [d EXCEPT !.rid = NoRole, !.GiveUpTime = NoTime]
  <2>2. e.GiveUpTime = NoTime /\ e.Level = d.Level /\ e.OPLevel = d.OPLevel
      BY <2>1 DEF BuildRec
  <2> QED BY <2>2 DEF Reset, d
<1> QED BY <1>1, <1>2 DEF AtPeace, IsInGiveUp, TearsDown, IsBusy, Eases

LEMMA CompletedEases ==
    ASSUME NEW b \in BuildRec
    PROVE  Eases(b, Completed(b))
<1>1. Eases(b, ConvertToRes(b))
    BY ResetAtPeace
<1>2. Eases(b, b)
    BY DEF Eases
<1>3. Eases(b, [b EXCEPT !.Level = b.OPLevel, !.EndTime = NoTime])
  <2> DEFINE d == [b EXCEPT !.Level = b.OPLevel, !.EndTime = NoTime]
  <2>1. d.Level = b.OPLevel /\ d.OPLevel = b.OPLevel /\ d.GiveUpTime = b.GiveUpTime
      BY DEF BuildRec
  <2> HIDE DEF d
  <2>2. Eases(b, d)
      BY <2>1 DEF Eases, TearsDown, IsBusy
  <2> QED BY <2>2 DEF d
<1> QED BY <1>1, <1>2, <1>3 DEF Completed

LEMMA OwnedEases ==
    ASSUME NEW b \in BuildRec, NEW r \in Role
    PROVE  Eases(b, Owned(b, r)) /\ (AtPeace(b) => AtPeace(Owned(b, r)))
<1> DEFINE d == Owned(b, r)
<1>1. /\ d.Level = b.Level /\ d.OPLevel = b.OPLevel
      /\ d.EndTime = b.EndTime /\ d.GiveUpTime = b.GiveUpTime
    BY DEF BuildRec, Owned
<1> HIDE DEF d
<1>2. Eases(b, d) /\ (AtPeace(b) => AtPeace(d))
    BY <1>1 DEF Eases, AtPeace, IsInGiveUp, TearsDown, IsBusy
<1> QED BY <1>2 DEF d

LEMMA BuildOrUpAtPeace ==
    ASSUME NEW b \in BuildRec, NEW level \in 1..MaxLevel
    PROVE  AtPeace(BuildOrUp(b, level))
<1> DEFINE d == BuildOrUp(b, level)
<1>1. d.GiveUpTime = NoTime /\ d.OPLevel = level
    BY DEF BuildRec, BuildOrUp
<1> HIDE DEF d
<1>2. AtPeace(d)
    BY <1>1 DEF AtPeace, IsInGiveUp, TearsDown, IsBusy
<1> QED BY <1>2 DEF d

\* Land at peace has nothing to be listed for.
LEMMA PeaceIsAhead ==
    ASSUME NEW c \in Cell, AtPeace(build[c])'
    PROVE  GivenUpIn(c)' /\ TornDownIn(c)'
BY DEF AtPeace, GivenUpIn, TornDownIn

\* Land that asks for no more stays ahead as long as its entries are kept and the
\* sweep still has it.
LEMMA EasesIsAhead ==
    ASSUME NEW c \in Cell, TypeOK, build'[c] \in BuildRec, Eases(build[c], build'[c]),
           \A t \in Times : c \in giveUpRB[t] => c \in giveUpRB'[t],
           \A t \in Times : c \in destroyRB[t] => c \in destroyRB'[t],
           sweptAt' = sweptAt, sweep'.stage = sweep.stage,
           c \in sweep.left => c \in sweep'.left,
           GivenUpIn(c), TornDownIn(c)
    PROVE  GivenUpIn(c)' /\ TornDownIn(c)'
<1>1. build[c].GiveUpTime \in Times \cup {NoTime}
    BY DEF TypeOK, BuildRec
<1>2. GivenUpIn(c)'
  <2> SUFFICES ASSUME build'[c].GiveUpTime # NoTime
               PROVE  /\ c \in giveUpRB'[build'[c].GiveUpTime]
                      /\ GiveUpAhead(c, build[c].GiveUpTime)'
      BY DEF GivenUpIn, IsInGiveUp
  <2>1. build'[c].GiveUpTime = build[c].GiveUpTime
      BY DEF Eases
  <2>2. build[c].GiveUpTime \in Times
      BY <1>1, <2>1
  <2>3. c \in giveUpRB[build[c].GiveUpTime] /\ GiveUpAhead(c, build[c].GiveUpTime)
      BY <2>1 DEF GivenUpIn, IsInGiveUp
  <2> QED BY <2>1, <2>2, <2>3 DEF GiveUpAhead
<1>3. TornDownIn(c)'
  <2> SUFFICES ASSUME TearsDown(build'[c])
               PROVE  \E t \in Times : /\ c \in destroyRB'[t]
                                       /\ build'[c].EndTime \in {t, t + 1}
                                       /\ DestroyAhead(c, t)'
      BY DEF TornDownIn
  <2>1. TearsDown(build[c]) /\ build'[c].EndTime = build[c].EndTime
      BY DEF Eases
  <2>2. PICK t \in Times : /\ c \in destroyRB[t]
                           /\ build[c].EndTime \in {t, t + 1}
                           /\ DestroyAhead(c, t)
      BY <2>1 DEF TornDownIn
  <2>3. DestroyAhead(c, t)'
      BY <2>2 DEF DestroyAhead
  <2> QED BY <2>1, <2>2, <2>3
<1> QED BY <1>2, <1>3

\* The sweep looks back far enough for the pauses of the server and for those of
\* its own between what it gives up and what it tears down.
LooksBack == 2 * MaxPause <= Window + 1

\* One piece of land changes and nothing else that the deadlines rest on.
LEMMA OneCellAhead ==
    ASSUME IInv, DInv, NEW c \in Cell, NEW d \in BuildRec,
           AtPeace(d) \/ Eases(build[c], d),
           build' = [build EXCEPT ![c] = d],
           giveUpRB' = giveUpRB, destroyRB' = destroyRB, sweptAt' = sweptAt,
           sweep'.stage = sweep.stage,
           \A e \in Cell : e # c /\ e \in sweep.left => e \in sweep'.left,
           AtPeace(d) \/ c \notin sweep.left \/ c \in sweep'.left
    PROVE  Ahead'
<1>1. TypeOK /\ build \in [Cell -> BuildRec] /\ \A e \in Cell : build[e] \in BuildRec
    BY DEF IInv, TypeOK
<1>2. build'[c] = d /\ \A e \in Cell : e # c => build'[e] = build[e]
    BY <1>1
<1>3. \A e \in Cell : GivenUpIn(e) /\ TornDownIn(e)
    BY DEF DInv, Ahead
<1> SUFFICES ASSUME NEW e \in Cell PROVE GivenUpIn(e)' /\ TornDownIn(e)'
    BY DEF Ahead
<1>4. CASE e = c /\ AtPeace(d)
  <2>1. AtPeace(build[e])'
      BY <1>2, <1>4 DEF AtPeace
  <2> QED BY <2>1, PeaceIsAhead
<1>5. CASE e = c /\ ~AtPeace(d)
    BY <1>1, <1>2, <1>3, <1>5, EasesIsAhead
<1>6. CASE e # c
  <2>1. Eases(build[e], build'[e])
      BY <1>2, <1>6 DEF Eases
  <2> QED BY <1>1, <1>2, <1>3, <1>6, <2>1, EasesIsAhead
<1> QED BY <1>4, <1>5, <1>6

\* Entries of land that changes hands go with it, those of other land stay.
LEMMA TakenAhead ==
    ASSUME IInv, DInv, NEW c \in Cell, NEW d \in BuildRec, AtPeace(d),
           build' = [build EXCEPT ![c] = d],
           giveUpRB' = Without(giveUpRB, build[c].GiveUpTime, c),
           destroyRB' = Without(destroyRB, build[c].EndTime, c),
           sweptAt' = sweptAt, sweep'.stage = sweep.stage,
           \A e \in Cell : e # c /\ e \in sweep.left => e \in sweep'.left
    PROVE  Ahead'
<1>1. /\ TypeOK /\ build \in [Cell -> BuildRec] /\ \A e \in Cell : build[e] \in BuildRec
      /\ giveUpRB \in [Times -> SUBSET Cell] /\ destroyRB \in [Times -> SUBSET Cell]
    BY DEF IInv, TypeOK
<1>2. build'[c] = d /\ \A e \in Cell : e # c => build'[e] = build[e]
    BY <1>1
<1>3. \A e \in Cell : GivenUpIn(e) /\ TornDownIn(e)
    BY DEF DInv, Ahead
<1> SUFFICES ASSUME NEW e \in Cell PROVE GivenUpIn(e)' /\ TornDownIn(e)'
    BY DEF Ahead
<1>4. CASE e = c
  <2>1. AtPeace(build[e])'
      BY <1>2, <1>4 DEF AtPeace
  <2> QED BY <2>1, PeaceIsAhead
<1>5. CASE e # c
  <2>1. Eases(build[e], build'[e]) /\ build'[e] \in BuildRec
      BY <1>1, <1>2, <1>5 DEF Eases
  <2>2. \A t \in Times : e \in giveUpRB[t] => e \in giveUpRB'[t]
      BY <1>1, <1>5 DEF Without
  <2>3. \A t \in Times : e \in destroyRB[t] => e \in destroyRB'[t]
      BY <1>1, <1>5 DEF Without
  <2> QED BY <1>3, <1>1, <1>5, <2>1, <2>2, <2>3, EasesIsAhead
<1> QED BY <1>4, <1>5

\* CheckGiveUp finds the land that came due since it last ran.
LEMMA CheckGiveUpAhead ==
    ASSUME IInv, DInv, LooksBack, CheckGiveUp
    PROVE  Ahead'
<1>1. /\ now \in 1..MaxNow /\ sweptAt \in 1..MaxNow /\ MaxPause \in Nat \ {0}
      /\ Window \in Nat /\ build \in [Cell -> BuildRec]
    BY LandAssumption DEF IInv, TypeOK
<1>2. /\ sweep.stage = "Idle" /\ sweptAt < now /\ sweptAt' = now /\ build' = build
      /\ sweep' = [stage |-> "GiveUp", left |-> Due(giveUpRB)]
      /\ giveUpRB' = giveUpRB /\ destroyRB' = destroyRB
    BY DEF CheckGiveUp
<1>3. now <= sweptAt + MaxPause
    BY DEF DInv, Timely
<1> SUFFICES ASSUME NEW c \in Cell PROVE GivenUpIn(c)' /\ TornDownIn(c)'
    BY DEF Ahead
<1>4. GivenUpIn(c) /\ TornDownIn(c) /\ build[c] \in BuildRec
    BY <1>1 DEF DInv, Ahead
<1>5. GivenUpIn(c)'
  <2>1. ASSUME NEW t \in Times, t = build[c].GiveUpTime
        PROVE  c \in giveUpRB[t] /\ GiveUpAhead(c, t)'
    <3>1. t # NoTime /\ t \in Int
        BY DEF Times, NoTime
    <3>2. c \in giveUpRB[t] /\ t > sweptAt
        BY <1>2, <1>4, <2>1, <3>1 DEF GivenUpIn, IsInGiveUp, GiveUpAhead
    <3>3. CASE t > now
        BY <1>2, <3>2, <3>3 DEF GiveUpAhead
    <3>4. CASE ~(t > now)
      <4>1. t \in now - Window .. now
          BY <1>1, <1>3, <3>1, <3>2, <3>4 DEF LooksBack
      <4>2. c \in Due(giveUpRB)
          BY <3>2, <4>1 DEF Due
      <4>3. t + MaxPause > now
          BY <1>1, <1>3, <3>1, <3>2
      <4> QED BY <1>2, <3>2, <4>2, <4>3 DEF GiveUpAhead
    <3> QED BY <3>3, <3>4
  <2>2. build[c].GiveUpTime \in Times \cup {NoTime}
      BY <1>4 DEF BuildRec
  <2> QED BY <1>2, <2>1, <2>2 DEF GivenUpIn, IsInGiveUp, GiveUpAhead
<1>6. TornDownIn(c)'
  <2> SUFFICES ASSUME TearsDown(build[c])
               PROVE  \E t \in Times : /\ c \in destroyRB[t]
                                       /\ build[c].EndTime \in {t, t + 1}
                                       /\ DestroyAhead(c, t)'
      BY <1>2 DEF TornDownIn
  <2>1. PICK t \in Times : /\ c \in destroyRB[t]
                           /\ build[c].EndTime \in {t, t + 1}
                           /\ DestroyAhead(c, t)
      BY <1>4 DEF TornDownIn
  <2>2. t > sweptAt /\ t \in Int
      BY <1>2, <2>1 DEF DestroyAhead, Times
  <2>3. t + MaxPause > now
      BY <1>1, <1>3, <2>2
  <2>4. DestroyAhead(c, t)'
      BY <1>2, <2>3 DEF DestroyAhead
  <2> QED BY <2>1, <2>4
<1> QED BY <1>5, <1>6

\* CheckDestroy finds the fortresses that came due since it last ran, although
\* it may run a pause later than CheckGiveUp.
LEMMA CheckDestroyAhead ==
    ASSUME IInv, DInv, LooksBack, CheckDestroy
    PROVE  Ahead'
<1>1. /\ now \in 1..MaxNow /\ sweptAt \in 1..MaxNow /\ MaxPause \in Nat \ {0}
      /\ Window \in Nat /\ build \in [Cell -> BuildRec]
    BY LandAssumption DEF IInv, TypeOK
<1>2. /\ sweep.stage = "GiveUp" /\ sweep.left = {} /\ sweptAt' = sweptAt /\ build' = build
      /\ sweep' = [stage |-> "Destroy", left |-> Due(destroyRB)]
      /\ giveUpRB' = giveUpRB /\ destroyRB' = destroyRB
    BY DEF CheckDestroy
<1>3. now <= sweptAt + MaxPause /\ sweptAt <= now
    BY DEF DInv, Timely
<1> SUFFICES ASSUME NEW c \in Cell PROVE GivenUpIn(c)' /\ TornDownIn(c)'
    BY DEF Ahead
<1>4. GivenUpIn(c) /\ TornDownIn(c)
    BY DEF DInv, Ahead
<1>5. GivenUpIn(c)'
    BY <1>2, <1>4 DEF GivenUpIn, IsInGiveUp, GiveUpAhead
<1>6. TornDownIn(c)'
  <2> SUFFICES ASSUME TearsDown(build[c])
               PROVE  \E t \in Times : /\ c \in destroyRB[t]
                                       /\ build[c].EndTime \in {t, t + 1}
                                       /\ DestroyAhead(c, t)'
      BY <1>2 DEF TornDownIn
  <2>1. PICK t \in Times : /\ c \in destroyRB[t]
                           /\ build[c].EndTime \in {t, t + 1}
                           /\ DestroyAhead(c, t)
      BY <1>4 DEF TornDownIn
  <2>2. t + MaxPause > sweptAt /\ t \in Int
    <3>1. t \in Int
        BY DEF Times
    <3> QED BY <1>1, <2>1, <3>1 DEF DestroyAhead
  <2>3. CASE t > now
    <3>1. t > sweptAt
        BY <1>1, <1>3, <2>2, <2>3
    <3>2. DestroyAhead(c, t)'
        BY <1>2, <3>1 DEF DestroyAhead
    <3> QED BY <2>1, <3>2
  <2>4. CASE ~(t > now)
    <3>1. t \in now - Window .. now
        BY <1>1, <1>3, <2>2, <2>4 DEF LooksBack
    <3>2. c \in Due(destroyRB)
        BY <2>1, <3>1 DEF Due
    <3>3. DestroyAhead(c, t)'
        BY <1>2, <2>2, <3>2 DEF DestroyAhead
    <3> QED BY <2>1, <3>3
  <2> QED BY <2>3, <2>4
<1> QED BY <1>5, <1>6

\* Load serves what came due while the server stood still and lists the rest.
LEMMA RestartAhead ==
    ASSUME IInv, Restart
    PROVE  Timely' /\ Ahead'
<1>3. Timely'
  <2>1. /\ now \in Int /\ MaxPause \in Nat /\ MaxNow \in Int
      BY LandAssumption DEF IInv, TypeOK
  <2>2. sweptAt' = now' /\ now' \in now..MaxNow
      BY DEF Restart
  <2>3. ASSUME NEW n \in now..MaxNow PROVE n <= n /\ n <= n + MaxPause
      BY <2>1
  <2> QED BY <2>2, <2>3 DEF Timely
<1> DEFINE torn(c) == build[c].OPLevel = 0 /\ build[c].Level # 0
           gone(c) == IsInGiveUp(build[c]) /\ build[c].GiveUpTime <= now'
           kept(c) == IF torn(c) /\ build[c].EndTime <= now'
                      THEN ConvertToRes(build[c]) ELSE build[c]
<1>1. /\ build \in [Cell -> BuildRec] /\ \A c \in Cell : build[c] \in BuildRec
      /\ now \in 1..MaxNow /\ MaxPause \in Nat \ {0} /\ MaxNow \in Nat
    BY LandAssumption DEF IInv, TypeOK
<1>2. /\ build' = [c \in Cell |-> IF gone(c) THEN Reset(build[c]) ELSE kept(c)]
      /\ giveUpRB' = [t \in Times |-> {c \in Cell : ~gone(c) /\ build[c].GiveUpTime = t}]
      /\ destroyRB' = [t \in Times |->
             {c \in Cell : ~gone(c) /\ torn(c) /\ t > now' /\ build[c].EndTime = t}]
      /\ sweptAt' = now' /\ now' \in now..MaxNow
    BY DEF Restart
<1>4. ASSUME NEW c \in Cell PROVE GivenUpIn(c)' /\ TornDownIn(c)'
  <2>1. CASE gone(c)
    <3>1. build'[c] = Reset(build[c])
        BY <1>2, <2>1
    <3>2. AtPeace(build[c])'
        BY <1>1, <3>1, ResetAtPeace DEF AtPeace
    <3> QED BY <3>2, PeaceIsAhead
  <2>2. CASE ~gone(c)
    <3>1. build'[c] = kept(c)
        BY <1>2, <2>2
    <3>2. Eases(build[c], build'[c])
        BY <1>1, <3>1, ResetAtPeace DEF Eases
    <3>3. GivenUpIn(c)'
      <4> SUFFICES ASSUME build'[c].GiveUpTime # NoTime
                   PROVE  /\ c \in giveUpRB'[build'[c].GiveUpTime]
                          /\ GiveUpAhead(c, build[c].GiveUpTime)'
          BY DEF GivenUpIn, IsInGiveUp
      <4>1. build'[c].GiveUpTime = build[c].GiveUpTime
          BY <3>2 DEF Eases
      <4>2. build[c].GiveUpTime \in Times
          BY <1>1, <4>1 DEF BuildRec
      <4>3. c \in giveUpRB'[build[c].GiveUpTime]
          BY <1>2, <2>2, <4>2
      <4>4. build[c].GiveUpTime > now'
          BY <1>1, <1>2, <2>2, <4>1, <4>2 DEF IsInGiveUp, Times
      <4> QED BY <1>2, <4>1, <4>3, <4>4 DEF GiveUpAhead
    <3>4. TornDownIn(c)'
      <4> SUFFICES ASSUME TearsDown(build'[c])
                   PROVE  \E t \in Times : /\ c \in destroyRB'[t]
                                           /\ build'[c].EndTime \in {t, t + 1}
                                           /\ DestroyAhead(c, t)'
          BY DEF TornDownIn
      <4>1. TearsDown(build[c]) /\ build'[c].EndTime = build[c].EndTime
          BY <3>2 DEF Eases
      <4>2. torn(c)
          BY <4>1 DEF TearsDown, IsBusy
      <4>3. build[c].EndTime \in Times \cup {NoTime}
          BY <1>1 DEF BuildRec
      <4>4. ~(build[c].EndTime <= now')
        <5> SUFFICES ASSUME build[c].EndTime <= now' PROVE FALSE
            OBVIOUS
        <5>1. build'[c] = ConvertToRes(build[c])
            BY <3>1, <4>2
        <5>2. ConvertToRes(build[c]).OPLevel = 1
            BY <1>1 DEF BuildRec, ConvertToRes
        <5> QED BY <5>1, <5>2 DEF TearsDown
      <4>5. build[c].EndTime \in Times /\ build[c].EndTime > now'
          BY <1>1, <1>2, <4>3, <4>4 DEF Times, NoTime
      <4>6. c \in destroyRB'[build[c].EndTime]
          BY <1>2, <2>2, <4>2, <4>5
      <4>7. DestroyAhead(c, build[c].EndTime)'
          BY <1>2, <4>1, <4>5 DEF DestroyAhead
      <4>8. build'[c].EndTime \in {build[c].EndTime, build[c].EndTime + 1}
          BY <4>1
      <4> DEFINE t == build[c].EndTime
      <4>9. t \in Times /\ c \in destroyRB'[t] /\ build'[c].EndTime \in {t, t + 1}
          BY <4>5, <4>6, <4>8
      <4> QED BY <4>1, <4>7, <4>9
    <3> QED BY <3>3, <3>4
  <2> QED BY <2>1, <2>2
<1> QED BY <1>3, <1>4 DEF Ahead

\* Every step keeps the sweep ahead of what it has to do.
LEMMA NextAhead == IInv /\ DInv /\ LooksBack /\ [Next]_vars => DInv'
<1> SUFFICES ASSUME IInv, DInv, LooksBack, [Next]_vars PROVE DInv'
    OBVIOUS
<1>t. /\ now \in 1..MaxNow /\ build \in [Cell -> BuildRec] /\ sweep \in SweepRec
      /\ sweptAt \in 1..MaxNow /\ \A c \in Cell : build[c] \in BuildRec
      /\ destroyRB \in [Times -> SUBSET Cell] /\ giveUpRB \in [Times -> SUBSET Cell]
      /\ MaxPause \in Nat \ {0} /\ MaxNow \in Nat
    BY LandAssumption DEF IInv, TypeOK
<1>d. Timely /\ \A c \in Cell : GivenUpIn(c) /\ TornDownIn(c)
    BY DEF DInv, Ahead
<1>k. ASSUME sweptAt' = sweptAt, now' = now PROVE Timely'
    BY <1>d, <1>k DEF Timely
<1>1. ASSUME NEW r \in Role, NEW c \in Cell, GiveUp(r, c) PROVE DInv'
  <2> DEFINE t == now + GiveUpDelay
             d == [build[c] EXCEPT !.GiveUpTime = t]
  <2>1. t \in Times /\ t > sweptAt /\ t # NoTime
    <3>1. t \in Times
        BY <1>t, TimesReached
    <3>2. t > sweptAt
        BY <1>t, <1>d, LandAssumption DEF Timely
    <3> QED BY <3>1, <3>2 DEF Times, NoTime
  <2>2. d \in BuildRec /\ d.GiveUpTime = t /\ d.Level = build[c].Level
        /\ d.OPLevel = build[c].OPLevel /\ d.EndTime = build[c].EndTime
      BY <1>t, <2>1 DEF BuildRec
  <2>3. /\ build' = [build EXCEPT ![c] = d]
        /\ giveUpRB' = [giveUpRB EXCEPT ![t] = @ \cup {c}]
        /\ destroyRB' = destroyRB /\ sweep' = sweep /\ sweptAt' = sweptAt /\ now' = now
      BY <1>1 DEF GiveUp
  <2> HIDE DEF d, t
  <2>4. /\ build'[c] = d /\ c \in giveUpRB'[t]
        /\ \A s \in Times, e \in Cell : e \in giveUpRB[s] => e \in giveUpRB'[s]
      BY <1>t, <2>1, <2>3
  <2>5. ASSUME NEW e \in Cell, e # c PROVE GivenUpIn(e)' /\ TornDownIn(e)'
    <3>1. build'[e] = build[e]
        BY <1>t, <2>3, <2>5
    <3>2. Eases(build[e], build'[e])
        BY <3>1 DEF Eases
    <3> QED BY <1>t, <1>d, <2>3, <2>4, <3>1, <3>2, EasesIsAhead DEF IInv
  <2>6. GivenUpIn(c)'
    <3>1. build[c].GiveUpTime' = t
        BY <2>2, <2>4
    <3> QED BY <2>1, <2>3, <2>4, <3>1 DEF GivenUpIn, GiveUpAhead
  <2>7. TornDownIn(c)'
    <3>1. TearsDown(build'[c]) => TearsDown(build[c])
        BY <2>2, <2>4 DEF TearsDown, IsBusy
    <3>2. build'[c].EndTime = build[c].EndTime
        BY <2>2, <2>4
    <3> QED BY <1>d, <2>3, <3>1, <3>2 DEF TornDownIn, DestroyAhead
  <2>8. Ahead'
    <3> SUFFICES ASSUME NEW e \in Cell PROVE GivenUpIn(e)' /\ TornDownIn(e)'
        BY DEF Ahead
    <3> QED BY <2>5, <2>6, <2>7
  <2> QED BY <1>k, <2>3, <2>8 DEF DInv
<1>2. ASSUME NEW r \in Role, NEW c \in Cell, BuildNew(r, c) PROVE DInv'
  <2> DEFINE d == BuildOrUp(build[c], 1)
  <2>1. d \in BuildRec /\ AtPeace(d)
      BY <1>t, BuildOrUpType, BuildOrUpAtPeace, LandAssumption
  <2>2. build' = [build EXCEPT ![c] = d]
        /\ UNCHANGED <<now, giveUpRB, destroyRB, sweep, sweptAt>>
      BY <1>2 DEF BuildNew
  <2> HIDE DEF d
  <2>3. Ahead'
      BY <2>1, <2>2, OneCellAhead
  <2> QED BY <1>k, <2>2, <2>3 DEF DInv
<1>3. ASSUME NEW r \in Role, NEW c \in Cell, UpBuild(r, c) PROVE DInv'
  <2> DEFINE d == BuildOrUp(build[c], build[c].Level + 1)
  <2>1. build[c].Level \in 0..MaxLevel /\ build[c].Level < MaxLevel
      BY <1>3, <1>t DEF UpBuild, BuildRec
  <2>2. build[c].Level + 1 \in 1..MaxLevel
      BY <2>1, LandAssumption
  <2>3. d \in BuildRec /\ AtPeace(d)
      BY <1>t, <2>2, BuildOrUpType, BuildOrUpAtPeace
  <2>4. build' = [build EXCEPT ![c] = d]
        /\ UNCHANGED <<now, giveUpRB, destroyRB, sweep, sweptAt>>
      BY <1>3 DEF UpBuild
  <2> HIDE DEF d
  <2>5. Ahead'
      BY <2>3, <2>4, OneCellAhead
  <2> QED BY <1>k, <2>4, <2>5 DEF DInv
<1>4. ASSUME NEW r \in Role, NEW c \in Cell, Destroy(r, c) PROVE DInv'
  <2>1. PICK late \in {0, 1} : build' = [build EXCEPT ![c] =
            [@ EXCEPT !.OPLevel = 0, !.EndTime = now + BuildTime + late]]
      BY <1>4 DEF Destroy
  <2> DEFINE t == now + BuildTime
             d == [build[c] EXCEPT !.OPLevel = 0, !.EndTime = t + late]
  <2>2. t \in Times /\ t > sweptAt
    <3>1. t \in Times
        BY <1>t, TimesReached
    <3> QED BY <1>t, <1>d, <3>1, LandAssumption DEF Timely
  <2>3. d.GiveUpTime = build[c].GiveUpTime /\ d.EndTime = t + late
      BY <1>t DEF BuildRec
  <2>4. t + late \in {t, t + 1}
      BY <2>2 DEF Times
  <2>5. /\ build' = [build EXCEPT ![c] = d]
        /\ destroyRB' = [destroyRB EXCEPT ![t] = @ \cup {c}]
        /\ giveUpRB' = giveUpRB /\ sweep' = sweep /\ sweptAt' = sweptAt /\ now' = now
      BY <1>4, <1>t, <2>1 DEF Destroy
  <2> HIDE DEF d, t
  <2>6. /\ build'[c] = d /\ c \in destroyRB'[t]
        /\ \A s \in Times, e \in Cell : e \in destroyRB[s] => e \in destroyRB'[s]
      BY <1>t, <2>2, <2>5
  <2>7. ASSUME NEW e \in Cell, e # c PROVE GivenUpIn(e)' /\ TornDownIn(e)'
    <3>1. build'[e] = build[e]
        BY <1>t, <2>5, <2>7
    <3>2. Eases(build[e], build'[e])
        BY <3>1 DEF Eases
    <3> QED BY <1>t, <1>d, <2>5, <2>6, <3>1, <3>2, EasesIsAhead DEF IInv
  <2>8. GivenUpIn(c)'
    <3>1. build'[c].GiveUpTime = build[c].GiveUpTime
        BY <2>3, <2>6
    <3> QED BY <1>d, <2>5, <3>1 DEF GivenUpIn, IsInGiveUp, GiveUpAhead
  <2>9. TornDownIn(c)'
    <3>1. build'[c].EndTime \in {t, t + 1}
        BY <2>3, <2>4, <2>6
    <3>2. sweptAt' < t
        BY <2>2, <2>5
    <3>3. \E s \in Times : /\ c \in destroyRB'[s]
                           /\ build'[c].EndTime \in {s, s + 1}
                           /\ s > sweptAt'
        BY <2>2, <2>6, <3>1, <3>2
    <3> QED BY <3>3 DEF TornDownIn, DestroyAhead
  <2>10. Ahead'
    <3> SUFFICES ASSUME NEW e \in Cell PROVE GivenUpIn(e)' /\ TornDownIn(e)'
        BY DEF Ahead
    <3> QED BY <2>7, <2>8, <2>9
  <2> QED BY <1>k, <2>5, <2>10 DEF DInv
<1>5. ASSUME NEW c \in Cell, View(c) PROVE DInv'
  <2>1. Completed(build[c]) \in BuildRec /\ Eases(build[c], Completed(build[c]))
      BY <1>t, CompletedType, CompletedEases
  <2>2. build' = [build EXCEPT ![c] = Completed(build[c])]
        /\ UNCHANGED <<now, giveUpRB, destroyRB, sweep, sweptAt>>
      BY <1>5 DEF View
  <2>3. Ahead'
      BY <2>1, <2>2, OneCellAhead
  <2> QED BY <1>k, <2>2, <2>3 DEF DInv
<1>6. ASSUME NEW r \in Role, NEW c \in Cell, OccupyRoleBuild(r, c) PROVE DInv'
  <2> DEFINE d == Owned(Reset(build[c]), r)
  <2>1. Reset(build[c]) \in BuildRec /\ AtPeace(Reset(build[c]))
      BY <1>t, ResetType, ResetAtPeace
  <2>2. d \in BuildRec /\ AtPeace(d)
      BY <1>t, <2>1, OwnedType, OwnedEases
  <2>3. /\ build' = [build EXCEPT ![c] = d]
        /\ giveUpRB' = Without(giveUpRB, build[c].GiveUpTime, c)
        /\ destroyRB' = Without(destroyRB, build[c].EndTime, c)
        /\ sweep' = sweep /\ sweptAt' = sweptAt /\ now' = now
      BY <1>6 DEF OccupyRoleBuild
  <2> HIDE DEF d
  <2>4. Ahead'
      BY <2>2, <2>3, TakenAhead
  <2> QED BY <1>k, <2>3, <2>4 DEF DInv
<1>7. ASSUME NEW r \in Role, NEW c \in Cell, OccupySystemBuild(r, c) PROVE DInv'
  <2>1. Owned(build[c], r) \in BuildRec /\ Eases(build[c], Owned(build[c], r))
      BY <1>t, OwnedType, OwnedEases
  <2>2. build' = [build EXCEPT ![c] = Owned(build[c], r)]
        /\ UNCHANGED <<now, giveUpRB, destroyRB, sweep, sweptAt>>
      BY <1>7 DEF OccupySystemBuild
  <2>3. Ahead'
      BY <2>1, <2>2, OneCellAhead
  <2> QED BY <1>k, <2>2, <2>3 DEF DInv
<1>8. ASSUME CheckGiveUp PROVE DInv'
  <2>1. sweptAt' = now /\ now' = now
      BY <1>8 DEF CheckGiveUp
  <2>2. Timely'
      BY <1>t, <2>1 DEF Timely
  <2> QED BY <1>8, <2>2, CheckGiveUpAhead DEF DInv
<1>9. ASSUME CheckDestroy PROVE DInv'
  <2>1. sweptAt' = sweptAt /\ now' = now
      BY <1>9 DEF CheckDestroy
  <2> QED BY <1>9, <1>k, <2>1, CheckDestroyAhead DEF DInv
<1>10. ASSUME SweepEnds PROVE DInv'
  <2>1. /\ sweep.stage = "Destroy" /\ sweep.left = {}
        /\ UNCHANGED <<now, build, giveUpRB, destroyRB, sweptAt>>
      BY <1>10 DEF SweepEnds
  <2>2. ASSUME NEW c \in Cell PROVE GivenUpIn(c)' /\ TornDownIn(c)'
    <3>1. GivenUpIn(c)'
        BY <1>d, <2>1 DEF GivenUpIn, IsInGiveUp, GiveUpAhead
    <3>2. TornDownIn(c)'
        BY <1>d, <2>1 DEF TornDownIn, DestroyAhead
    <3> QED BY <3>1, <3>2
  <2> QED BY <1>k, <2>1, <2>2 DEF DInv, Ahead
<1>11. ASSUME NEW c \in Cell, GiveUpOne(c) PROVE DInv'
  <2>1. Reset(build[c]) \in BuildRec /\ AtPeace(Reset(build[c]))
      BY <1>t, ResetType, ResetAtPeace
  <2>2. /\ build' = [build EXCEPT ![c] = Reset(build[c])]
        /\ giveUpRB' = Without(giveUpRB, build[c].GiveUpTime, c)
        /\ destroyRB' = Without(destroyRB, build[c].EndTime, c)
        /\ sweep' = [sweep EXCEPT !.left = @ \ {c}]
        /\ sweptAt' = sweptAt /\ now' = now
      BY <1>11 DEF GiveUpOne, RemoveFromRole
  <2>3. sweep'.stage = sweep.stage /\ sweep'.left = sweep.left \ {c}
      BY <1>t, <2>2 DEF SweepRec
  <2>4. Ahead'
      BY <2>1, <2>2, <2>3, TakenAhead
  <2> QED BY <1>k, <2>2, <2>4 DEF DInv
<1>12. ASSUME NEW c \in Cell, DestroyOne(c) PROVE DInv'
  <2> DEFINE d == ConvertToRes(build[c])
  <2>1. d \in BuildRec /\ d.Level = 1 /\ d.OPLevel = 1 /\ Eases(build[c], d)
    <3>1. d.Level = 1 /\ d.OPLevel = 1
        BY <1>t DEF BuildRec, ConvertToRes
    <3> QED BY <1>t, <3>1, ResetType, ResetAtPeace
  <2>2. /\ build' = [build EXCEPT ![c] = d]
        /\ sweep.stage = "Destroy"
        /\ sweep' = [sweep EXCEPT !.left = @ \ {c}]
        /\ UNCHANGED <<now, giveUpRB, destroyRB, sweptAt>>
      BY <1>12 DEF DestroyOne
  <2> HIDE DEF d
  <2>3. sweep'.stage = "Destroy" /\ sweep'.left = sweep.left \ {c}
      BY <1>t, <2>2 DEF SweepRec
  <2>4. build'[c] = d /\ \A e \in Cell : e # c => build'[e] = build[e]
      BY <1>t, <2>2
  <2>5. ASSUME NEW e \in Cell PROVE GivenUpIn(e)' /\ TornDownIn(e)'
    <3>1. CASE e # c
      <4>1. Eases(build[e], build'[e]) /\ build'[e] \in BuildRec
          BY <1>t, <2>4, <3>1 DEF Eases
      <4> QED BY <1>d, <2>2, <2>3, <3>1, <4>1, EasesIsAhead DEF IInv
    <3>2. CASE e = c
      <4>1. ~TearsDown(build'[c])
          BY <2>1, <2>4 DEF TearsDown
      <4>2. TornDownIn(c)'
          BY <4>1 DEF TornDownIn
      <4>3. build'[c].GiveUpTime \in {build[c].GiveUpTime, NoTime}
          BY <2>1, <2>4 DEF Eases
      <4>4. GivenUpIn(c)'
          BY <1>d, <2>2, <2>3, <4>3 DEF GivenUpIn, IsInGiveUp, GiveUpAhead
      <4> QED BY <3>2, <4>2, <4>4
    <3> QED BY <3>1, <3>2
  <2> QED BY <1>k, <2>2, <2>5 DEF DInv, Ahead
<1>13. ASSUME Tick PROVE DInv'
  <2>1. /\ now < sweptAt + MaxPause /\ now' = now + 1
        /\ UNCHANGED <<build, giveUpRB, destroyRB, sweep, sweptAt>>
      BY <1>13 DEF Tick
  <2>2. Timely'
      BY <1>t, <1>d, <2>1 DEF Timely
  <2>3. ASSUME NEW c \in Cell PROVE GivenUpIn(c)' /\ TornDownIn(c)'
    <3>1. GivenUpIn(c)'
        BY <1>d, <2>1 DEF GivenUpIn, IsInGiveUp, GiveUpAhead
    <3>2. TornDownIn(c)'
        BY <1>d, <2>1 DEF TornDownIn, DestroyAhead
    <3> QED BY <3>1, <3>2
  <2> QED BY <2>2, <2>3 DEF DInv, Ahead
<1>14. ASSUME Restart PROVE DInv'
    BY <1>14, RestartAhead DEF DInv
<1>15. ASSUME UNCHANGED vars PROVE DInv'
  <2>1. UNCHANGED <<now, build, giveUpRB, destroyRB, sweep, sweptAt>>
      BY <1>15 DEF vars
  <2>2. ASSUME NEW c \in Cell PROVE GivenUpIn(c)' /\ TornDownIn(c)'
    <3>1. GivenUpIn(c)'
        BY <1>d, <2>1 DEF GivenUpIn, IsInGiveUp, GiveUpAhead
    <3>2. TornDownIn(c)'
        BY <1>d, <2>1 DEF TornDownIn, DestroyAhead
    <3> QED BY <3>1, <3>2
  <2> QED BY <1>k, <2>1, <2>2 DEF DInv, Ahead
<1> QED
    BY <1>1, <1>2, <1>3, <1>4, <1>5, <1>6, <1>7, <1>8, <1>9, <1>10, <1>11, <1>12,
       <1>13, <1>14, <1>15 DEF Next, Handlers, Battles, Sweeps

\* What is ahead of the sweep is served in time.
LEMMA AheadInTime ==
    ASSUME IInv, DInv
    PROVE  Deadlines
<1>t. /\ now \in Int /\ sweptAt \in Int /\ MaxPause \in Nat \ {0}
      /\ \A c \in Cell : build[c] \in BuildRec
    BY LandAssumption DEF IInv, TypeOK
<1>d. now <= sweptAt + MaxPause /\ \A c \in Cell : GivenUpIn(c) /\ TornDownIn(c)
    BY DEF DInv, Ahead, Timely
<1> SUFFICES ASSUME NEW c \in Cell
             PROVE  /\ IsInGiveUp(build[c]) => now < build[c].GiveUpTime + 2 * MaxPause
                    /\ IsBusy(build[c]) /\ build[c].OPLevel = 0 =>
                           now < build[c].EndTime + 2 * MaxPause
    BY DEF Deadlines
<1>1. ASSUME NEW t \in Int, t > sweptAt \/ t + MaxPause > sweptAt
      PROVE  now < t + 2 * MaxPause
    BY <1>t, <1>d, <1>1
<1>2. ASSUME IsInGiveUp(build[c]) PROVE now < build[c].GiveUpTime + 2 * MaxPause
  <2>1. build[c].GiveUpTime \in Int
      BY <1>t DEF BuildRec, Times, NoTime
  <2>2. GiveUpAhead(c, build[c].GiveUpTime)
      BY <1>d, <1>2 DEF GivenUpIn
  <2> QED BY <1>1, <2>1, <2>2 DEF GiveUpAhead
<1>3. ASSUME TearsDown(build[c]) PROVE now < build[c].EndTime + 2 * MaxPause
  <2>1. PICK t \in Times : /\ build[c].EndTime \in {t, t + 1}
                           /\ DestroyAhead(c, t)
      BY <1>d, <1>3 DEF TornDownIn
  <2>2. t \in Int
      BY DEF Times
  <2>3. now < t + 2 * MaxPause
      BY <1>1, <2>1, <2>2 DEF DestroyAhead
  <2> QED BY <1>t, <2>1, <2>2, <2>3
<1> QED BY <1>2, <1>3 DEF TearsDown

\* As long as the sweep looks back over twice the longest pause, land is given up
\* and a fortress is torn down in time, whoever else changes the land meanwhile
\* and whenever the server restarts.
THEOREM DeadlinesAreMet ==
    ASSUME LooksBack
    PROVE  Spec => []Deadlines
<1>1. Init => DInv
  <2> SUFFICES ASSUME Init PROVE DInv
      OBVIOUS
  <2>1. Timely
      BY LandAssumption DEF Init, Timely
  <2>2. ASSUME NEW c \in Cell PROVE GivenUpIn(c) /\ TornDownIn(c)
    <3>1. /\ build[c].GiveUpTime = NoTime
          /\ build[c].Level = 1 /\ build[c].OPLevel = 1
        BY DEF Init, Natural
    <3> QED BY <3>1 DEF GivenUpIn, IsInGiveUp, TornDownIn, TearsDown
  <2> QED BY <2>1, <2>2 DEF DInv, Ahead
<1>2. IInv /\ DInv /\ [Next]_vars => DInv'
    BY NextAhead
<1>3. IInv /\ DInv => Deadlines
    BY AheadInTime
<1> QED BY <1>1, <1>2, <1>3, Invariance, PTL DEF Spec

(***************************************************************************)
(* What the sweep collects.  Two things alone make it take land that is    *)
(* not being given up: somebody builds on land that is (BuildNew forgets   *)
(* the index), or the land is conquered after it has been collected.       *)
(***************************************************************************)
Collected == IF sweep.stage = "GiveUp" THEN sweep.left ELSE {}

\* Next without these two.
Undisturbed ==
    \A r \in Role, c \in Cell :
        /\ BuildNew(r, c) => ~IsInGiveUp(build[c])
        /\ OccupyRoleBuild(r, c) => c \notin Collected
UndisturbedSpec == Init /\ [][Next /\ Undisturbed]_vars

\* Land is listed under the second in which it is given up and under no other
\* one, and what the sweep has in its hands is listed.
ListedInTime(c) ==
    /\ \A t \in Times : c \in giveUpRB[t] => build[c].GiveUpTime = t
    /\ c \in Collected => IsInGiveUp(build[c])
GInv == \A c \in Cell : ListedInTime(c)

\* Land that keeps its second and is not listed anew.
LEMMA ListedKept ==
    ASSUME TypeOK, GInv, NEW c \in Cell, build'[c].GiveUpTime = build[c].GiveUpTime,
           \A t \in Times : c \in giveUpRB'[t] => c \in giveUpRB[t],
           c \in Collected' => c \in Collected
    PROVE  ListedInTime(c)'
BY DEF GInv, ListedInTime, IsInGiveUp

\* Without the second it is to be given up in, it is not listed at all.
LEMMA NowhereListed ==
    ASSUME TypeOK, GInv, NEW c \in Cell, giveUpRB' = Without(giveUpRB, build[c].GiveUpTime, c)
    PROVE  /\ \A t \in Times : c \notin giveUpRB'[t]
           /\ \A d \in Cell \ {c}, t \in Times : d \in giveUpRB'[t] => d \in giveUpRB[t]
<1>1. giveUpRB \in [Times -> SUBSET Cell] BY DEF TypeOK
<1>2. \A t \in Times : c \in giveUpRB[t] => build[c].GiveUpTime = t
  BY DEF GInv, ListedInTime
<1>3. CASE build[c].GiveUpTime \in Times
  <2>1. giveUpRB' = [giveUpRB EXCEPT ![build[c].GiveUpTime] = @ \ {c}]
    BY <1>3 DEF Without
  <2> QED BY <1>1, <1>2, <2>1
<1>4. CASE build[c].GiveUpTime \notin Times
  BY <1>2, <1>4 DEF Without
<1> QED BY <1>3, <1>4

\* A step that changes one piece of land, which is taken up or listed for nobody.
LEMMA OneLand ==
    ASSUME TypeOK, GInv, NEW c \in Cell, NEW b, build' = [build EXCEPT ![c] = b],
           ListedInTime(c)', Collected' \subseteq Collected,
           \A d \in Cell \ {c}, t \in Times : d \in giveUpRB'[t] => d \in giveUpRB[t]
    PROVE  GInv'
<1> SUFFICES ASSUME NEW d \in Cell, d # c PROVE ListedInTime(d)'
  BY DEF GInv
<1>1. build'[d] = build[d] BY DEF TypeOK
<1> QED BY <1>1, ListedKept

LEMMA ListedStep ==
    ASSUME IInv, GInv, [Next /\ Undisturbed]_vars
    PROVE  GInv'
<1>0. TypeOK BY DEF IInv
<1>1. ASSUME NEW c \in Cell, NEW b, build' = [build EXCEPT ![c] = b],
             b.GiveUpTime = build[c].GiveUpTime, giveUpRB' = giveUpRB, Collected' \subseteq Collected
      PROVE  GInv'
  <2>1. build'[c] = b BY <1>0, <1>1 DEF TypeOK
  <2>2. ListedInTime(c)' BY <1>0, <1>1, <2>1, ListedKept
  <2> QED BY <1>0, <1>1, <2>2, OneLand
<1>2. ASSUME NEW r \in Role, NEW c \in Cell, GiveUp(r, c) PROVE GInv'
  <2> DEFINE t == now + GiveUpDelay
             b == [build[c] EXCEPT !.GiveUpTime = t]
  <2>1. t \in Times BY <1>0, TimesReached DEF TypeOK
  <2>2. build[c] \in BuildRec BY <1>0 DEF TypeOK
  <2>3. b.GiveUpTime = t BY <2>2 DEF BuildRec
  <2>4. /\ build' = [build EXCEPT ![c] = b] /\ giveUpRB' = [giveUpRB EXCEPT ![t] = @ \cup {c}]
        /\ sweep' = sweep /\ build[c].GiveUpTime = NoTime
    BY <1>2 DEF GiveUp, IsInGiveUp
  <2> HIDE DEF b, t
  <2>5. build'[c] = b BY <1>0, <2>4 DEF TypeOK
  <2>6. giveUpRB \in [Times -> SUBSET Cell] BY <1>0 DEF TypeOK
  <2>7. \A s \in Times : c \notin giveUpRB[s]
    <3>1. NoTime \notin Times BY DEF Times, NoTime
    <3> QED BY <2>4, <3>1 DEF GInv, ListedInTime
  <2>8. \A s \in Times : c \in giveUpRB'[s] => s = t BY <2>1, <2>4, <2>6, <2>7
  <2>9. c \notin Collected BY <2>4 DEF GInv, ListedInTime, IsInGiveUp
  <2>10. ListedInTime(c)'
    BY <2>3, <2>4, <2>5, <2>8, <2>9 DEF ListedInTime, Collected
  <2>11. \A d \in Cell \ {c}, s \in Times : d \in giveUpRB'[s] => d \in giveUpRB[s]
    BY <2>1, <2>4, <2>6
  <2> QED BY <1>0, <2>4, <2>10, <2>11, OneLand DEF Collected
<1>3. ASSUME NEW c \in Cell, NEW level, ~IsInGiveUp(build[c]),
             build' = [build EXCEPT ![c] = BuildOrUp(build[c], level)],
             UNCHANGED <<giveUpRB, sweep>>
      PROVE  GInv'
  <2>1. build[c] \in BuildRec BY <1>0 DEF TypeOK
  <2> DEFINE b == BuildOrUp(build[c], level)
  <2>2. b.GiveUpTime = build[c].GiveUpTime
    BY <1>3, <2>1 DEF BuildOrUp, BuildRec, IsInGiveUp
  <2> HIDE DEF b
  <2> QED BY <1>1, <1>3, <2>2 DEF b, Collected
<1>4. ASSUME NEW r \in Role, NEW c \in Cell, BuildNew(r, c), Undisturbed PROVE GInv'
  BY <1>3, <1>4 DEF BuildNew, Undisturbed
<1>5. ASSUME NEW r \in Role, NEW c \in Cell, UpBuild(r, c) PROVE GInv'
  BY <1>3, <1>5 DEF UpBuild
<1>6. ASSUME NEW r \in Role, NEW c \in Cell, Destroy(r, c) PROVE GInv'
  <2>1. PICK late \in {0, 1} :
            build' = [build EXCEPT ![c] =
                         [build[c] EXCEPT !.OPLevel = 0, !.EndTime = now + BuildTime + late]]
    BY <1>6 DEF Destroy
  <2>2. build[c] \in BuildRec BY <1>0 DEF TypeOK
  <2> DEFINE b == [build[c] EXCEPT !.OPLevel = 0, !.EndTime = now + BuildTime + late]
  <2>3. b.GiveUpTime = build[c].GiveUpTime BY <2>2 DEF BuildRec
  <2>4. giveUpRB' = giveUpRB /\ Collected' = Collected BY <1>6 DEF Destroy, Collected
  <2> HIDE DEF b
  <2> QED BY <1>1, <2>1, <2>3, <2>4 DEF b
<1>7. ASSUME NEW c \in Cell, View(c) PROVE GInv'
  <2>1. build[c] \in BuildRec BY <1>0 DEF TypeOK
  <2>2. Completed(build[c]).GiveUpTime = build[c].GiveUpTime
    BY <2>1 DEF Completed, ConvertToRes, BuildRec
  <2> QED BY <1>1, <1>7, <2>2 DEF View, Collected
<1>8. ASSUME NEW r \in Role, NEW c \in Cell, OccupyRoleBuild(r, c), Undisturbed PROVE GInv'
  <2>1. /\ giveUpRB' = Without(giveUpRB, build[c].GiveUpTime, c) /\ Collected' = Collected
        /\ c \notin Collected
    BY <1>8 DEF OccupyRoleBuild, Undisturbed, Collected
  <2>2. ListedInTime(c)' BY <1>0, <2>1, NowhereListed DEF ListedInTime
  <2> QED BY <1>0, <1>8, <2>1, <2>2, NowhereListed, OneLand DEF OccupyRoleBuild
<1>9. ASSUME NEW r \in Role, NEW c \in Cell, OccupySystemBuild(r, c) PROVE GInv'
  <2>1. build[c] \in BuildRec BY <1>0 DEF TypeOK
  <2>2. Owned(build[c], r).GiveUpTime = build[c].GiveUpTime BY <2>1 DEF Owned, BuildRec
  <2> QED BY <1>1, <1>9, <2>2 DEF OccupySystemBuild, Collected
<1>10. ASSUME CheckGiveUp PROVE GInv'
  <2> SUFFICES ASSUME NEW c \in Cell PROVE ListedInTime(c)' BY DEF GInv
  <2>1. /\ UNCHANGED <<build, giveUpRB>>
        /\ sweep' = [stage |-> "GiveUp", left |-> Due(giveUpRB)]
    BY <1>10 DEF CheckGiveUp
  <2>2. Collected' = Due(giveUpRB) BY <2>1 DEF Collected
  <2>3. ASSUME c \in Due(giveUpRB) PROVE IsInGiveUp(build[c])
    <3>1. PICK t \in Times : c \in giveUpRB[t] BY <2>3 DEF Due
    <3>2. t # NoTime BY DEF Times, NoTime
    <3> QED BY <3>1, <3>2 DEF GInv, ListedInTime, IsInGiveUp
  <2> QED BY <2>1, <2>2, <2>3 DEF GInv, ListedInTime, IsInGiveUp
<1>11. ASSUME NEW c \in Cell, GiveUpOne(c) PROVE GInv'
  <2>1. /\ giveUpRB' = Without(giveUpRB, build[c].GiveUpTime, c)
        /\ build' = [build EXCEPT ![c] = Reset(build[c])]
        /\ sweep' = [sweep EXCEPT !.left = sweep.left \ {c}]
        /\ sweep.stage = "GiveUp"
    BY <1>11 DEF GiveUpOne, RemoveFromRole
  <2>2. Collected' = Collected \ {c} BY <1>0, <2>1 DEF Collected, TypeOK, SweepRec
  <2>3. ListedInTime(c)' BY <1>0, <2>1, <2>2, NowhereListed DEF ListedInTime
  <2> QED BY <1>0, <2>1, <2>2, <2>3, NowhereListed, OneLand
<1>12. ASSUME NEW c \in Cell, DestroyOne(c) PROVE GInv'
  <2>1. build[c] \in BuildRec BY <1>0 DEF TypeOK
  <2>2. ConvertToRes(build[c]).GiveUpTime = build[c].GiveUpTime
    BY <2>1 DEF ConvertToRes, BuildRec
  <2>3. Collected' = {} BY <1>0, <1>12 DEF DestroyOne, Collected, TypeOK, SweepRec
  <2> QED BY <1>1, <1>12, <2>2, <2>3 DEF DestroyOne
<1>13. ASSUME UNCHANGED <<build, giveUpRB>>, Collected' \subseteq Collected PROVE GInv'
  <2> SUFFICES ASSUME NEW c \in Cell PROVE ListedInTime(c)' BY DEF GInv
  <2> QED BY <1>0, <1>13, ListedKept
<1>14. CASE CheckDestroy \/ SweepEnds
  <2>1. Collected' = {} BY <1>14 DEF CheckDestroy, SweepEnds, Collected, AtRest
  <2> QED BY <1>13, <1>14, <2>1 DEF CheckDestroy, SweepEnds
<1>15. CASE Tick \/ UNCHANGED vars
  BY <1>13, <1>15 DEF Tick, vars, Collected
<1>16. CASE Restart
  <2> DEFINE torn(c) == build[c].OPLevel = 0 /\ build[c].Level # 0
             gone(c) == IsInGiveUp(build[c]) /\ build[c].GiveUpTime <= now'
             kept(c) == IF torn(c) /\ build[c].EndTime <= now'
                        THEN ConvertToRes(build[c]) ELSE build[c]
  <2>1. /\ build' = [c \in Cell |-> IF gone(c) THEN Reset(build[c]) ELSE kept(c)]
        /\ giveUpRB' = [t \in Times |-> {c \in Cell : ~gone(c) /\ build[c].GiveUpTime = t}]
        /\ Collected' = {}
    BY <1>16 DEF Restart, Collected, AtRest
  <2> SUFFICES ASSUME NEW c \in Cell PROVE ListedInTime(c)' BY DEF GInv
  <2>2. build[c] \in BuildRec BY <1>0 DEF TypeOK
  <2>3. kept(c).GiveUpTime = build[c].GiveUpTime BY <2>2 DEF ConvertToRes, BuildRec
  <2> HIDE DEF kept, gone
  <2>4. ~gone(c) => build'[c].GiveUpTime = build[c].GiveUpTime BY <2>1, <2>3
  <2>5. \A t \in Times : c \in giveUpRB'[t] => ~gone(c) /\ build[c].GiveUpTime = t BY <2>1
  <2> QED BY <2>1, <2>4, <2>5 DEF ListedInTime
<1> QED BY <1>2, <1>4, <1>5, <1>6, <1>7, <1>8, <1>9, <1>10, <1>11, <1>12, <1>14, <1>15, <1>16
        DEF Next, Handlers, Battles, Sweeps

\* OnlyGivenUpIsTaken, but for the two: what the sweep collects is being given
\* up until it is taken, however late the sweep is, whatever is built up, torn
\* down, looked at or conquered elsewhere, and over restarts.
THEOREM OnlyABuildOrAConquestMisleads == UndisturbedSpec => []OnlyGivenUpIsTaken
<1>1. Init => GInv
  BY DEF Init, GInv, ListedInTime, Collected, AtRest
<1>2. [Next /\ Undisturbed]_vars => [Next]_vars OBVIOUS
<1>3. UndisturbedSpec => Spec BY <1>2, PTL DEF UndisturbedSpec, Spec
<1>4. GInv /\ IInv => OnlyGivenUpIsTaken
  <2>1. TypeOK => sweep.left \subseteq Cell BY DEF TypeOK, SweepRec
  <2> QED BY <2>1 DEF IInv, GInv, ListedInTime, Collected, OnlyGivenUpIsTaken
<1> QED BY <1>1, <1>3, <1>4, ListedStep, Invariance, PTL DEF UndisturbedSpec

=============================================================================
