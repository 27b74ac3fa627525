---------------------------- MODULE UnionProofs ----------------------------
(***************************************************************************)
(* What holds of Union for any number of roles, unions, applications and   *)
(* restarts, with any capacity of the writer's channel, whether or not     *)
(* restarts lose what is in it, and with handlers that overlap (Spec).     *)
(*                                                                         *)
(* Then what holds in addition when handlers do not overlap and nothing is *)
(* lost (SerialSpec): the two records of membership agree, unions are not  *)
(* overfull, and Union implements Membership.  At the end, what alone      *)
(* breaks three more of the code's intentions: the kick of a chairman, a   *)
(* second capture, a common title.                                         *)
(***************************************************************************)
EXTENDS Union, FiniteSetTheorems, TLAPS

\* Who has a union is listed by it, and the union is running.
MemberIsListed ==
    \A r \in Role : IsHasUnion(r) =>
        UnionId[r] \in unions /\ r \in coalition[UnionId[r]].Members

\* A union the manager finds is running in memory and on disk.
RowsRun == \A u \in unions : coalition[u].state = "Running" /\ saved[u].state = "Running"

\* A union on its own: a running one lists its vice chairman.
ViceListed(c) ==
    c.state = "Running" /\ c.ViceChairman # NoRole => c.ViceChairman \in c.Members

ObjectsSound == \A u \in UnionIds : ViceListed(coalition[u])
RowsSound == \A u \in UnionIds : ViceListed(saved[u])

\* CaptorKnows looks at a captor that is running, and needs that the union of
\* an attacker is; ViceIsMember needs that whoever is appointed is listed; and
\* both must survive a restart, so the same is said of the rows.
IInv ==
    /\ TypeOK
    /\ MemberIsListed /\ RowsRun
    /\ ObjectsSound /\ RowsSound
    /\ CaptorKnows

-----------------------------------------------------------------------------
(* What the helpers do to the state. *)

\* The writer's channel: a row stays as it is or becomes what its object is
\* after the step, and the channel keeps within its capacity.
LEMMA HandedOver ==
    ASSUME TypeOK, NEW u \in UnionIds, SyncExecute(u), coalition' \in [UnionIds -> CoalitionRec]
    PROVE  /\ saved' \in [UnionIds -> CoalitionRec]
           /\ queue' \in Seq(UnionIds) /\ Len(queue') <= QueueCap
           /\ \A v \in UnionIds : saved'[v] = saved[v] \/ saved'[v] = coalition'[v]
<1>1. CASE QueueCap = 0
  <2>1. saved' = [saved EXCEPT ![u] = coalition'[u]] /\ queue' = queue
    BY <1>1 DEF SyncExecute
  <2>. QED BY <2>1 DEF TypeOK
<1>2. CASE QueueCap # 0
  <2>1. Len(queue) < QueueCap /\ queue' = Append(queue, u) /\ saved' = saved
    BY <1>2 DEF SyncExecute
  <2>2. queue \in Seq(UnionIds) /\ QueueCap \in Nat BY UnionAssumption DEF TypeOK
  <2>3. queue' \in Seq(UnionIds) /\ Len(queue') = Len(queue) + 1 /\ Len(queue) \in Nat
    BY <2>1, <2>2
  <2>. QED BY <2>1, <2>2, <2>3 DEF TypeOK
<1>. QED BY <1>1, <1>2

\* Entering u changes one role's union, and frees it if it was a captive of u.
LEMMA Entered ==
    ASSUME TypeOK, NEW r \in Role, NEW u \in UnionIds, MemberEnter(r, u)
    PROVE  /\ UnionId' = [UnionId EXCEPT ![r] = u]
           /\ ParentId' \in [Role -> UnionIds \cup {NoUnion}]
           /\ children' \in [UnionIds -> SUBSET Role]
           /\ \A s \in Role : ParentId'[s] # NoUnion =>
                 /\ ParentId'[s] = ParentId[s]
                 /\ s \in children[ParentId[s]] => s \in children'[ParentId[s]]
<1>1. UnionId' = [UnionId EXCEPT ![r] = u] BY DEF MemberEnter
<1>2. CASE ParentId[r] = u
  <2>1. /\ ParentId' = [ParentId EXCEPT ![r] = NoUnion]
        /\ children' = [children EXCEPT ![u] = @ \ {r}]
    BY <1>2 DEF MemberEnter
  <2>2. \A s \in Role : ParentId'[s] # NoUnion => s # r
    BY <2>1 DEF TypeOK
  <2>. QED BY <1>1, <2>1, <2>2 DEF TypeOK
<1>3. CASE ParentId[r] # u
  BY <1>1, <1>3 DEF MemberEnter, TypeOK
<1>. QED BY <1>2, <1>3

\* Freeing the list of u touches no captive of another union but those listed.
LEMMA Freed ==
    ASSUME TypeOK, NEW u \in UnionIds, DelUnionAllChild(u)
    PROVE  /\ ParentId' \in [Role -> UnionIds \cup {NoUnion}]
           /\ children' \in [UnionIds -> SUBSET Role]
           /\ \A s \in Role : ParentId'[s] # NoUnion =>
                 ParentId'[s] = ParentId[s] /\ s \notin children[u]
           /\ \A v \in UnionIds : v # u => children'[v] = children[v]
BY DEF TypeOK, DelUnionAllChild

-----------------------------------------------------------------------------
(* What the handlers do to a Coalition object. *)

LEMMA RecordChanges ==
    ASSUME NEW c \in CoalitionRec, NEW S \in SUBSET Role, NEW w \in Role \cup {NoRole},
           NEW x \in Role \cup {NoRole}
    PROVE  /\ [c EXCEPT !.Members = S] \in CoalitionRec
           /\ [c EXCEPT !.ViceChairman = w] \in CoalitionRec
           /\ [c EXCEPT !.Members = S, !.ViceChairman = w] \in CoalitionRec
           /\ [c EXCEPT !.Chairman = x, !.ViceChairman = w] \in CoalitionRec
           /\ [c EXCEPT !.state = "Dismiss", !.Members = S] \in CoalitionRec
BY DEF CoalitionRec

LEMMA ObjectChanged ==
    ASSUME TypeOK, NEW u \in UnionIds, NEW d \in CoalitionRec,
           coalition' = [coalition EXCEPT ![u] = d]
    PROVE  /\ coalition' \in [UnionIds -> CoalitionRec] /\ coalition'[u] = d
           /\ \A v \in UnionIds : v # u => coalition'[v] = coalition[v]
BY DEF TypeOK

\* A member leaves.
LEMMA LeavesObject ==
    ASSUME TypeOK, NEW r \in Role, NEW u \in UnionIds, Leaves(r, u)
    PROVE  /\ coalition' \in [UnionIds -> CoalitionRec]
           /\ \A v \in UnionIds : v # u => coalition'[v] = coalition[v]
           /\ coalition'[u].state = coalition[u].state
           /\ coalition'[u].Members = coalition[u].Members \ {r}
           /\ coalition'[u].ViceChairman =
                 IF coalition[u].ViceChairman = r THEN NoRole ELSE coalition[u].ViceChairman
           /\ coalition'[u].Chairman = coalition[u].Chairman
<1> DEFINE c == coalition[u]
           S == c.Members \ {r}
           w == IF c.ViceChairman = r THEN NoRole ELSE c.ViceChairman
           d == [c EXCEPT !.Members = S, !.ViceChairman = w]
<1>1. c \in CoalitionRec /\ coalition \in [UnionIds -> CoalitionRec] BY DEF TypeOK
<1>2. S \in SUBSET Role /\ w \in Role \cup {NoRole} BY <1>1 DEF CoalitionRec
<1>3. coalition' = [coalition EXCEPT ![u] = d] BY DEF Leaves
<1>4. d \in CoalitionRec BY <1>1, <1>2, RecordChanges
<1>5. /\ d.state = c.state /\ d.Members = S /\ d.ViceChairman = w
      /\ d.Chairman = c.Chairman
  BY <1>1 DEF CoalitionRec
<1>. HIDE DEF d, S, w
<1>6. coalition'[u] = d /\ \A v \in UnionIds : v # u => coalition'[v] = coalition[v]
  BY <1>1, <1>3
<1>7. coalition' \in [UnionIds -> CoalitionRec] BY <1>1, <1>3, <1>4
<1>. QED BY <1>5, <1>6, <1>7 DEF S, w

\* An applicant enters.
LEMMA EntersObject ==
    ASSUME TypeOK, NEW t \in Role, NEW u \in UnionIds,
           coalition' = [coalition EXCEPT ![u].Members = @ \cup {t}]
    PROVE  /\ coalition' \in [UnionIds -> CoalitionRec]
           /\ \A v \in UnionIds : v # u => coalition'[v] = coalition[v]
           /\ coalition'[u].state = coalition[u].state
           /\ coalition'[u].Members = coalition[u].Members \cup {t}
           /\ coalition'[u].ViceChairman = coalition[u].ViceChairman
           /\ coalition'[u].Chairman = coalition[u].Chairman
<1> DEFINE c == coalition[u]
           S == c.Members \cup {t}
           d == [c EXCEPT !.Members = S]
<1>1. c \in CoalitionRec BY DEF TypeOK
<1>2. S \in SUBSET Role BY <1>1 DEF CoalitionRec
<1>3. d \in CoalitionRec BY <1>1, <1>2, RecordChanges DEF CoalitionRec
<1>4. /\ d.state = c.state /\ d.Members = S /\ d.ViceChairman = c.ViceChairman
      /\ d.Chairman = c.Chairman
  BY <1>1 DEF CoalitionRec
<1>5. coalition' = [coalition EXCEPT ![u] = d] OBVIOUS
<1>. HIDE DEF d, S
<1>. QED BY <1>3, <1>4, <1>5, ObjectChanged DEF S

\* A union is dismissed.
LEMMA DismissObject ==
    ASSUME TypeOK, NEW u \in UnionIds,
           coalition' = [coalition EXCEPT ![u].state = "Dismiss", ![u].Members = {}]
    PROVE  /\ coalition' \in [UnionIds -> CoalitionRec]
           /\ \A v \in UnionIds : v # u => coalition'[v] = coalition[v]
           /\ coalition'[u].state = "Dismiss"
<1> DEFINE c == coalition[u]
           S == {}
           d == [c EXCEPT !.state = "Dismiss", !.Members = S]
<1>1. c \in CoalitionRec BY DEF TypeOK
<1>2. S \in SUBSET Role OBVIOUS
<1>3. d \in CoalitionRec BY <1>1, <1>2, RecordChanges DEF CoalitionRec
<1>4. d.state = "Dismiss" BY <1>1 DEF CoalitionRec
<1>5. coalition' = [coalition EXCEPT ![u] = d] OBVIOUS
<1>. HIDE DEF d, S
<1>. QED BY <1>3, <1>4, <1>5, ObjectChanged

\* appoint and abdicate give the vice chair to nobody or to a role of the union.
OfficersChange(t, u) ==
    /\ coalition' \in [UnionIds -> CoalitionRec]
    /\ \A v \in UnionIds : v # u => coalition'[v] = coalition[v]
    /\ coalition'[u].state = coalition[u].state
    /\ coalition'[u].Members = coalition[u].Members
    /\ coalition'[u].ViceChairman \in {coalition[u].ViceChairman, t, NoRole}
    /\ coalition'[u].Chairman \in {coalition[u].Chairman, t}

LEMMA OfficersObject ==
    ASSUME TypeOK, NEW t \in Role, NEW u \in UnionIds,
           NEW x \in {coalition[u].Chairman, t}, NEW w \in {coalition[u].ViceChairman, t, NoRole},
           coalition' = [coalition EXCEPT ![u].Chairman = x, ![u].ViceChairman = w]
    PROVE  OfficersChange(t, u)
<1> DEFINE c == coalition[u]
           d == [c EXCEPT !.Chairman = x, !.ViceChairman = w]
<1>1. c \in CoalitionRec BY DEF TypeOK
<1>2. w \in Role \cup {NoRole} /\ x \in Role \cup {NoRole} BY <1>1 DEF CoalitionRec
<1>3. d \in CoalitionRec BY <1>1, <1>2, RecordChanges DEF CoalitionRec
<1>4. d.state = c.state /\ d.Members = c.Members /\ d.ViceChairman = w /\ d.Chairman = x
  BY <1>1 DEF CoalitionRec
<1>5. coalition' = [coalition EXCEPT ![u] = d] OBVIOUS
<1>. HIDE DEF d
<1>. QED BY <1>3, <1>4, <1>5, ObjectChanged DEF OfficersChange

LEMMA ViceObject ==
    ASSUME TypeOK, NEW t \in Role, NEW u \in UnionIds,
           NEW w \in {coalition[u].ViceChairman, t, NoRole},
           coalition' = [coalition EXCEPT ![u].ViceChairman = w]
    PROVE  OfficersChange(t, u)
<1> DEFINE c == coalition[u]
           d == [c EXCEPT !.ViceChairman = w]
<1>1. c \in CoalitionRec BY DEF TypeOK
<1>2. w \in Role \cup {NoRole} BY <1>1 DEF CoalitionRec
<1>3. d \in CoalitionRec BY <1>1, <1>2, RecordChanges DEF CoalitionRec
<1>4. /\ d.state = c.state /\ d.Members = c.Members /\ d.ViceChairman = w
      /\ d.Chairman = c.Chairman
  BY <1>1 DEF CoalitionRec
<1>5. coalition' = [coalition EXCEPT ![u] = d] OBVIOUS
<1>. HIDE DEF d
<1>. QED BY <1>3, <1>4, <1>5, ObjectChanged DEF OfficersChange

LEMMA AppointObject ==
    ASSUME TypeOK, NEW r \in Role, NEW t \in Role, NEW title \in {"Vice", "Common"},
           Appoint(r, t, title)
    PROVE  OfficersChange(t, UnionId[r])
<1> DEFINE u == UnionId[r]
           w == IF coalition[u].ViceChairman = t THEN NoRole ELSE coalition[u].ViceChairman
<1>1. u \in UnionIds BY DEF Appoint, TypeOK
<1>2. \/ coalition' = [coalition EXCEPT ![u].ViceChairman = t]
      \/ coalition' = [coalition EXCEPT ![u].ViceChairman = w]
  BY DEF Appoint
<1>3. w \in {coalition[u].ViceChairman, t, NoRole} OBVIOUS
<1>. HIDE DEF u, w
<1>4. OfficersChange(t, u) BY <1>1, <1>2, <1>3, ViceObject
<1>. QED BY <1>4 DEF u

LEMMA AbdicateObject ==
    ASSUME TypeOK, NEW r \in Role, NEW t \in Role, Abdicate(r, t)
    PROVE  OfficersChange(t, UnionId[r])
<1> DEFINE u == UnionId[r]
           w == IF coalition[u].ViceChairman = t THEN NoRole ELSE coalition[u].ViceChairman
<1>1. u \in UnionIds BY DEF Abdicate, TypeOK
<1>2. \/ coalition' = [coalition EXCEPT ![u].Chairman = t, ![u].ViceChairman = w]
      \/ coalition' = [coalition EXCEPT ![u].ViceChairman = t]
  BY DEF Abdicate
<1>3. w \in {coalition[u].ViceChairman, t, NoRole} OBVIOUS
<1>. HIDE DEF u, w
<1>4. OfficersChange(t, u) BY <1>1, <1>2, <1>3, ViceObject, OfficersObject
<1>. QED BY <1>4 DEF u

-----------------------------------------------------------------------------
(* Type correctness. *)

LEMMA InitType == Init => TypeOK
<1> SUFFICES ASSUME Init PROVE TypeOK OBVIOUS
<1>1. NoCoalition \in CoalitionRec BY DEF NoCoalition, CoalitionRec
<1>2. /\ coalition \in [UnionIds -> CoalitionRec] /\ saved \in [UnionIds -> CoalitionRec]
  BY <1>1 DEF Init
<1>. QED BY <1>2, UnionAssumption DEF Init, TypeOK

\* The parts of TypeOK a handler of a union's chairman or member touches.
UnionPart ==
    /\ coalition \in [UnionIds -> CoalitionRec] /\ saved \in [UnionIds -> CoalitionRec]
    /\ queue \in Seq(UnionIds) /\ Len(queue) <= QueueCap
    /\ unions \subseteq UnionIds
    /\ UnionId \in [Role -> UnionIds \cup {NoUnion}]
    /\ ParentId \in [Role -> UnionIds \cup {NoUnion}]
    /\ children \in [UnionIds -> SUBSET Role]

\* The other parts.
PendingPart ==
    /\ applies \in Seq(ApplyRec)
    /\ verifying \in [Role -> VerifyRec \cup {Idle}]
    /\ \A r \in Role : verifying[r] # Idle => verifying[r].id \in 1..Len(applies)
    /\ capturing \in CaptureRec \cup {Idle}
    /\ restarts \in 0..MaxRestarts

LEMMA PendingSame ==
    ASSUME TypeOK, UNCHANGED <<applies, verifying, capturing, restarts>>, UnionPart'
    PROVE  TypeOK'
<1>1. PendingPart' BY DEF TypeOK, PendingPart
<1>. QED BY <1>1 DEF TypeOK, UnionPart, PendingPart

LEMMA TypeStep == TypeOK /\ [Next]_vars => TypeOK'
<1> SUFFICES ASSUME TypeOK, [Next]_vars PROVE TypeOK' OBVIOUS
<1>0. CASE UNCHANGED vars
  BY <1>0 DEF vars, memory, TypeOK
<1>1. ASSUME NEW r \in Role, Create(r) PROVE TypeOK'
  <2> PICK u \in UnionIds :
        /\ coalition' = [coalition EXCEPT ![u] =
               [state |-> "Running", Chairman |-> r, ViceChairman |-> NoRole, Members |-> {r}]]
        /\ saved' = [saved EXCEPT ![u] = coalition'[u]]
        /\ unions' = unions \cup {u}
        /\ MemberEnter(r, u)
        /\ UNCHANGED <<queue, applies, verifying, capturing, restarts>>
    BY <1>1 DEF Create
  <2>1. coalition' \in [UnionIds -> CoalitionRec]
    BY DEF TypeOK, CoalitionRec
  <2>2. saved' \in [UnionIds -> CoalitionRec]
    BY <2>1 DEF TypeOK
  <2>3. UnionPart'
    <3>1. /\ UnionId' = [UnionId EXCEPT ![r] = u]
          /\ ParentId' \in [Role -> UnionIds \cup {NoUnion}]
          /\ children' \in [UnionIds -> SUBSET Role]
      BY Entered
    <3>. QED BY <2>1, <2>2, <3>1 DEF TypeOK, UnionPart
  <2>. QED BY <2>3, PendingSame
<1>2. ASSUME NEW r \in Role, NEW u \in UnionIds, Join(r, u) PROVE TypeOK'
  <2>1. [rid |-> r, union |-> u, state |-> "Untreated"] \in ApplyRec
    BY DEF ApplyRec
  <2>2. /\ applies' \in Seq(ApplyRec) /\ Len(applies') = Len(applies) + 1
        /\ Len(applies) \in Nat
    BY <1>2, <2>1 DEF Join, TypeOK
  <2>3. PendingPart'
    BY <1>2, <2>2 DEF Join, TypeOK, PendingPart
  <2>. QED BY <1>2, <2>3 DEF Join, memory, TypeOK, UnionPart, PendingPart
<1>3. ASSUME NEW r \in Role, NEW i \in 1..Len(applies), NEW decide \in {"Adopt", "Refuse"},
             VerifyChecks(r, i, decide)
      PROVE  TypeOK'
  <2> DEFINE rec == [kind |-> "Verify", id |-> i, decide |-> decide,
                     enters |-> decide = "Adopt" /\ ~IsHasUnion(applies[i].rid)]
  <2>1. rec.enters \in BOOLEAN OBVIOUS
  <2>2. rec \in VerifyRec BY <2>1 DEF VerifyRec
  <2>3. verifying' = [verifying EXCEPT ![r] = rec] BY <1>3 DEF VerifyChecks
  <2>. HIDE DEF rec
  <2>4. rec.id \in 1..Len(applies) BY DEF rec
  <2>5. PendingPart'
    BY <1>3, <2>2, <2>3, <2>4 DEF VerifyChecks, TypeOK, PendingPart
  <2>. QED BY <1>3, <2>5 DEF VerifyChecks, memory, TypeOK, UnionPart, PendingPart
<1>4. ASSUME NEW r \in Role, VerifyActs(r) PROVE TypeOK'
  <2> DEFINE v == verifying[r]
             t == applies[v.id].rid
             u == applies[v.id].union
  <2>1. /\ v \in VerifyRec /\ v.id \in 1..Len(applies)
        /\ v.decide \in {"Adopt", "Refuse"}
        /\ applies[v.id] \in ApplyRec
    BY <1>4 DEF VerifyActs, TypeOK, VerifyRec
  <2>2. t \in Role /\ u \in UnionIds BY <2>1 DEF ApplyRec
  <2>3. applies' = [applies EXCEPT ![v.id].state = v.decide]
    BY <1>4 DEF VerifyActs
  <2>4. applies' \in Seq(ApplyRec) /\ Len(applies') = Len(applies)
    BY <2>1, <2>3 DEF TypeOK, ApplyRec
  <2>5. PendingPart'
    BY <1>4, <2>4 DEF VerifyActs, TypeOK, PendingPart
  <2>6. UnionPart'
    <3>1. CASE v.enters /\ u \in unions
      <4>1. /\ coalition' = [coalition EXCEPT ![u].Members = @ \cup {t}]
            /\ MemberEnter(t, u) /\ SyncExecute(u) /\ unions' = unions
        BY <1>4, <3>1 DEF VerifyActs
      <4>2. coalition' \in [UnionIds -> CoalitionRec]
        BY <2>2, <4>1, EntersObject
      <4>3. /\ saved' \in [UnionIds -> CoalitionRec]
            /\ queue' \in Seq(UnionIds) /\ Len(queue') <= QueueCap
        BY <2>2, <4>1, <4>2, HandedOver
      <4>4. /\ UnionId' = [UnionId EXCEPT ![t] = u]
            /\ ParentId' \in [Role -> UnionIds \cup {NoUnion}]
            /\ children' \in [UnionIds -> SUBSET Role]
        BY <2>2, <4>1, Entered
      <4>. HIDE DEF t, u
      <4>. QED BY <2>2, <4>1, <4>2, <4>3, <4>4 DEF TypeOK, UnionPart
    <3>2. CASE ~(v.enters /\ u \in unions)
      BY <1>4, <3>2 DEF VerifyActs, TypeOK, UnionPart, PendingPart
    <3>. QED BY <3>1, <3>2
  <2>. QED BY <2>5, <2>6 DEF TypeOK, UnionPart, PendingPart
<1>5. ASSUME NEW r \in Role, NEW u \in UnionIds, Leaves(r, u),
             UNCHANGED <<unions, ParentId, children, applies, verifying, capturing, restarts>>
      PROVE  TypeOK'
  <2>1. coalition' \in [UnionIds -> CoalitionRec]
    BY <1>5, LeavesObject
  <2>2. UnionPart'
    BY <1>5, <2>1, HandedOver DEF Leaves, TypeOK, UnionPart
  <2>. QED BY <1>5, <2>2, PendingSame
<1>6. ASSUME NEW r \in Role, Exit(r) PROVE TypeOK'
  BY <1>5, <1>6 DEF Exit, TypeOK
<1>7. ASSUME NEW r \in Role, NEW t \in Role, Kick(r, t) PROVE TypeOK'
  BY <1>5, <1>7 DEF Kick, TypeOK
<1>8. ASSUME NEW r \in Role, Dismiss(r) PROVE TypeOK'
  <2> DEFINE u == UnionId[r]
  <2>1. u \in UnionIds BY <1>8 DEF Dismiss, TypeOK
  <2>2. coalition' \in [UnionIds -> CoalitionRec]
    BY <1>8, <2>1, DismissObject DEF Dismiss
  <2>3. UnionPart'
    BY <1>8, <2>1, <2>2, HandedOver, Freed DEF Dismiss, TypeOK, UnionPart
  <2>. QED BY <1>8, <2>3, PendingSame DEF Dismiss
<1>9. ASSUME NEW r \in Role, NEW t \in Role, NEW title \in {"Vice", "Common"},
             Appoint(r, t, title)
      PROVE  TypeOK'
  <2> DEFINE u == UnionId[r]
  <2>1. u \in UnionIds BY <1>9 DEF Appoint, TypeOK
  <2>2. coalition' \in [UnionIds -> CoalitionRec]
    BY <1>9, AppointObject DEF OfficersChange
  <2>3. UnionPart'
    BY <1>9, <2>1, <2>2, HandedOver DEF Appoint, TypeOK, UnionPart
  <2>. QED BY <1>9, <2>3, PendingSame DEF Appoint
<1>10. ASSUME NEW r \in Role, NEW t \in Role, Abdicate(r, t) PROVE TypeOK'
  <2> DEFINE u == UnionId[r]
  <2>1. u \in UnionIds BY <1>10 DEF Abdicate, TypeOK
  <2>2. coalition' \in [UnionIds -> CoalitionRec]
    BY <1>10, AbdicateObject DEF OfficersChange
  <2>3. UnionPart'
    BY <1>10, <2>1, <2>2, HandedOver DEF Abdicate, TypeOK, UnionPart
  <2>. QED BY <1>10, <2>3, PendingSame DEF Abdicate
<1>11. ASSUME NEW r \in Role, NEW t \in Role, BattleBegins(r, t) PROVE TypeOK'
  <2>1. capturing' \in CaptureRec BY <1>11 DEF BattleBegins, CaptureRec
  <2>2. PendingPart' BY <1>11, <2>1 DEF BattleBegins, TypeOK, PendingPart
  <2>. QED BY <1>11, <2>2 DEF BattleBegins, memory, TypeOK, UnionPart, PendingPart
<1>12. ASSUME checkCityOccupy PROVE TypeOK'
  <2>1. capturing \in CaptureRec
        /\ capturing.attacker \in Role /\ capturing.defender \in Role
    BY <1>12 DEF checkCityOccupy, TypeOK, CaptureRec
  <2> DEFINE u == UnionId[capturing.attacker]
             d == capturing.defender
  <2>4. /\ \/ UNCHANGED <<ParentId, children>>
           \/ /\ u \in UnionIds /\ d \in Role
              /\ ParentId' = [ParentId EXCEPT ![d] = u]
              /\ children' = [children EXCEPT ![u] = @ \cup {d}]
        /\ UNCHANGED <<coalition, unions, UnionId, saved, queue>>
    BY <1>12, <2>1 DEF checkCityOccupy, TypeOK
  <2>2. UnionPart'
    <3>. HIDE DEF u, d
    <3>. QED BY <2>4 DEF TypeOK, UnionPart
  <2>3. PendingPart' BY <1>12 DEF checkCityOccupy, TypeOK, PendingPart
  <2>. QED BY <2>2, <2>3 DEF TypeOK, UnionPart, PendingPart
<1>13. ASSUME DBWrite PROVE TypeOK'
  <2>1. Head(queue) \in UnionIds /\ Tail(queue) \in Seq(UnionIds)
        /\ Len(Tail(queue)) = Len(queue) - 1 /\ Len(queue) \in Nat
    BY <1>13 DEF DBWrite, TypeOK
  <2>2. UnionPart' BY <1>13, <2>1, UnionAssumption DEF DBWrite, memory, TypeOK, UnionPart
  <2>. QED BY <1>13, <2>2, PendingSame DEF DBWrite
<1>14. ASSUME Restart PROVE TypeOK'
  <2>1. UnionPart'
    BY <1>14, UnionAssumption DEF Restart, Running, Loaded, TypeOK, UnionPart
  <2>2. PendingPart' BY <1>14, UnionAssumption DEF Restart, TypeOK, PendingPart
  <2>. QED BY <2>1, <2>2 DEF TypeOK, UnionPart, PendingPart
<1>. QED
  BY <1>0, <1>1, <1>2, <1>3, <1>4, <1>6, <1>7, <1>8, <1>9, <1>10, <1>11, <1>12, <1>13, <1>14
  DEF Next, Starts, Completes

\* TypeOK: every variable keeps its type, the writer's channel its capacity,
\* and a verify under way names an application there is.
THEOREM TypeCorrect == Spec => []TypeOK
<1>1. Init => TypeOK BY InitType
<1>2. TypeOK /\ [Next]_vars => TypeOK' BY TypeStep
<1>. QED BY <1>1, <1>2, PTL DEF Spec
-----------------------------------------------------------------------------
(* The invariant. *)

\* The parts of IInv that speak of objects and rows survive a step that changes
\* one object and hands it to the writer.
LEMMA OneObject ==
    ASSUME IInv, NEW u \in UnionIds,
           \A v \in UnionIds : v # u => coalition'[v] = coalition[v],
           \A v \in UnionIds : saved'[v] = saved[v] \/ saved'[v] = coalition'[v],
           unions' \subseteq unions, u \in unions' => coalition'[u].state = "Running",
           ViceListed(coalition'[u])
    PROVE  RowsRun' /\ ObjectsSound' /\ RowsSound'
<1>0. unions \subseteq UnionIds BY DEF IInv, TypeOK
<1>1. \A v \in unions' : coalition'[v].state = "Running"
  BY <1>0 DEF IInv, RowsRun
<1>2. RowsRun' BY <1>0, <1>1 DEF IInv, RowsRun
<1>3. \A v \in UnionIds : ViceListed(coalition'[v])
  BY DEF IInv, ObjectsSound
<1>4. \A v \in UnionIds : ViceListed(saved'[v])
  BY <1>3 DEF IInv, RowsSound
<1>. QED BY <1>2, <1>3, <1>4 DEF ObjectsSound, RowsSound, ViceListed

\* Whoever has a union knows its id, and it runs.
LEMMA OwnUnion ==
    ASSUME IInv, NEW r \in Role, UnionId[r] # NoUnion
    PROVE  /\ UnionId[r] \in UnionIds /\ UnionId[r] \in unions
           /\ r \in coalition[UnionId[r]].Members
BY DEF IInv, TypeOK, MemberIsListed, IsHasUnion

LEMMA ZeroIsNoUnion == NoUnion \notin UnionIds
BY UnionAssumption DEF NoUnion, UnionIds

LEMMA LeavesKeeps ==
    ASSUME IInv, NEW r \in Role, NEW u \in UnionIds, Leaves(r, u), UnionId[r] = u,
           UNCHANGED <<unions, ParentId, children>>
    PROVE  MemberIsListed' /\ RowsRun' /\ ObjectsSound' /\ RowsSound' /\ CaptorKnows'
<1>1. TypeOK BY DEF IInv
<1>2. \A v \in UnionIds : saved'[v] = saved[v] \/ saved'[v] = coalition'[v]
  BY <1>1, LeavesObject, HandedOver DEF Leaves
<1>3. ViceListed(coalition'[u])
  BY <1>1, LeavesObject DEF IInv, ObjectsSound, ViceListed
<1>4. RowsRun' /\ ObjectsSound' /\ RowsSound'
  <2>1. u \in unions' => coalition'[u].state = "Running"
    BY <1>1, LeavesObject DEF IInv, RowsRun
  <2>2. \A v \in UnionIds : v # u => coalition'[v] = coalition[v]
    BY <1>1, LeavesObject
  <2>. QED BY <1>2, <1>3, <2>1, <2>2, OneObject
<1>5. MemberIsListed'
  <2> SUFFICES ASSUME NEW s \in Role, UnionId'[s] # NoUnion
               PROVE  UnionId'[s] \in unions' /\ s \in coalition'[UnionId'[s]].Members
    BY DEF MemberIsListed, IsHasUnion
  <2>1. UnionId' = [UnionId EXCEPT ![r] = NoUnion] BY DEF Leaves
  <2>2. s # r /\ UnionId'[s] = UnionId[s] BY <1>1, <2>1 DEF TypeOK
  <2>3. UnionId[s] \in UnionIds /\ UnionId[s] \in unions /\ s \in coalition[UnionId[s]].Members
    BY <2>2, OwnUnion
  <2>. QED BY <1>1, <2>2, <2>3, LeavesObject
<1>6. CaptorKnows' BY DEF IInv, CaptorKnows
<1>. QED BY <1>4, <1>5, <1>6

LEMMA OfficersKeep ==
    ASSUME IInv, NEW t \in Role, NEW u \in UnionIds, OfficersChange(t, u), UnionId[t] = u,
           \A v \in UnionIds : saved'[v] = saved[v] \/ saved'[v] = coalition'[v],
           UNCHANGED <<unions, UnionId, ParentId, children>>
    PROVE  MemberIsListed' /\ RowsRun' /\ ObjectsSound' /\ RowsSound' /\ CaptorKnows'
<1>1. t \in coalition[u].Members BY OwnUnion, ZeroIsNoUnion
<1>2. ViceListed(coalition'[u])
  BY <1>1 DEF IInv, ObjectsSound, ViceListed, OfficersChange
<1>3. RowsRun' /\ ObjectsSound' /\ RowsSound'
  <2>1. u \in unions' => coalition'[u].state = "Running"
    BY DEF IInv, RowsRun, OfficersChange
  <2>. QED BY <1>2, <2>1, OneObject DEF OfficersChange
<1>4. MemberIsListed'
  <2> SUFFICES ASSUME NEW s \in Role, UnionId[s] # NoUnion
               PROVE  UnionId[s] \in unions /\ s \in coalition'[UnionId[s]].Members
    BY DEF MemberIsListed, IsHasUnion
  <2>. QED BY OwnUnion DEF OfficersChange
<1>5. CaptorKnows' BY DEF IInv, CaptorKnows
<1>. QED BY <1>3, <1>4, <1>5

\* A step that leaves unions, rows, objects and captives alone.
LEMMA OthersKeep ==
    ASSUME IInv, UNCHANGED <<memory, saved, ParentId>>
    PROVE  MemberIsListed' /\ RowsRun' /\ ObjectsSound' /\ RowsSound' /\ CaptorKnows'
BY DEF IInv, memory, MemberIsListed, IsHasUnion, RowsRun, ObjectsSound, RowsSound, CaptorKnows

LEMMA CreateKeeps ==
    ASSUME IInv, NEW r \in Role, Create(r)
    PROVE  MemberIsListed' /\ RowsRun' /\ ObjectsSound' /\ RowsSound' /\ CaptorKnows'
<1> DEFINE new == [state |-> "Running", Chairman |-> r, ViceChairman |-> NoRole,
                   Members |-> {r}]
<1>0. TypeOK BY DEF IInv
<1> PICK u \in UnionIds :
      /\ coalition[u].state = "None"
      /\ coalition' = [coalition EXCEPT ![u] = new]
      /\ saved' = [saved EXCEPT ![u] = coalition'[u]]
      /\ unions' = unions \cup {u}
      /\ MemberEnter(r, u)
  BY DEF Create
<1>1. /\ coalition'[u] = new /\ saved'[u] = new
      /\ \A v \in UnionIds : v # u => coalition'[v] = coalition[v] /\ saved'[v] = saved[v]
  BY <1>0 DEF TypeOK
<1>2. new.state = "Running" /\ new.Members = {r} /\ ViceListed(new)
  BY DEF ViceListed
<1>. HIDE DEF new
<1>3. u \notin unions /\ unions \subseteq UnionIds
  BY <1>0 DEF IInv, RowsRun, TypeOK
<1>4. RowsRun' BY <1>1, <1>2, <1>3 DEF IInv, RowsRun
<1>5. \A v \in UnionIds : ViceListed(coalition'[v]) /\ ViceListed(saved'[v])
  BY <1>1, <1>2 DEF IInv, ObjectsSound, RowsSound
<1>6. MemberIsListed'
  <2> SUFFICES ASSUME NEW s \in Role, UnionId'[s] # NoUnion
               PROVE  UnionId'[s] \in unions' /\ s \in coalition'[UnionId'[s]].Members
    BY DEF MemberIsListed, IsHasUnion
  <2>1. UnionId' = [UnionId EXCEPT ![r] = u] BY <1>0, Entered
  <2>2. CASE s = r BY <1>0, <1>1, <1>2, <2>1, <2>2 DEF TypeOK
  <2>3. CASE s # r
    <3>1. UnionId'[s] = UnionId[s] BY <1>0, <2>1, <2>3 DEF TypeOK
    <3>. QED BY <1>1, <1>3, <3>1, OwnUnion
  <2>. QED BY <2>2, <2>3
<1>7. CaptorKnows'
  <2> SUFFICES ASSUME NEW s \in Role, ParentId'[s] # NoUnion
               PROVE  ParentId'[s] \in unions' /\ s \in children'[ParentId'[s]]
    BY DEF CaptorKnows
  <2>1. /\ ParentId'[s] = ParentId[s]
        /\ s \in children[ParentId[s]] => s \in children'[ParentId[s]]
    BY <1>0, Entered
  <2>. QED BY <2>1 DEF IInv, CaptorKnows
<1>. QED BY <1>4, <1>5, <1>6, <1>7 DEF ObjectsSound, RowsSound, ViceListed

LEMMA VerifyKeeps ==
    ASSUME IInv, NEW r \in Role, VerifyActs(r)
    PROVE  MemberIsListed' /\ RowsRun' /\ ObjectsSound' /\ RowsSound' /\ CaptorKnows'
<1> DEFINE v == verifying[r]
           t == applies[v.id].rid
           u == applies[v.id].union
<1>0. TypeOK BY DEF IInv
<1>1. CASE v.enters /\ u \in unions
  <2>1. v.id \in 1..Len(applies) BY <1>0 DEF VerifyActs, TypeOK
  <2>2. applies[v.id] \in ApplyRec BY <1>0, <2>1 DEF TypeOK
  <2>3. t \in Role /\ u \in UnionIds BY <2>2 DEF ApplyRec
  <2>4. /\ coalition' = [coalition EXCEPT ![u].Members = @ \cup {t}]
        /\ MemberEnter(t, u) /\ SyncExecute(u) /\ unions' = unions
    BY <1>1 DEF VerifyActs
  <2>. HIDE DEF t, u
  <2>5. /\ coalition' \in [UnionIds -> CoalitionRec]
        /\ \A w \in UnionIds : w # u => coalition'[w] = coalition[w]
        /\ coalition'[u].state = coalition[u].state
        /\ coalition'[u].Members = coalition[u].Members \cup {t}
        /\ coalition'[u].ViceChairman = coalition[u].ViceChairman
    BY <1>0, <2>3, <2>4, EntersObject
  <2>6. \A w \in UnionIds : saved'[w] = saved[w] \/ saved'[w] = coalition'[w]
    BY <1>0, <2>3, <2>4, <2>5, HandedOver
  <2>7. ViceListed(coalition'[u])
    BY <2>3, <2>5 DEF IInv, ObjectsSound, ViceListed
  <2>8. u \in unions' => coalition'[u].state = "Running"
    BY <2>4, <2>5 DEF IInv, RowsRun
  <2>9. RowsRun' /\ ObjectsSound' /\ RowsSound'
    BY <2>3, <2>4, <2>5, <2>6, <2>7, <2>8, OneObject
  <2>10. /\ UnionId' = [UnionId EXCEPT ![t] = u]
         /\ \A s \in Role : ParentId'[s] # NoUnion =>
               /\ ParentId'[s] = ParentId[s]
               /\ s \in children[ParentId[s]] => s \in children'[ParentId[s]]
    BY <1>0, <2>3, <2>4, Entered
  <2>11. MemberIsListed'
    <3> SUFFICES ASSUME NEW s \in Role, UnionId'[s] # NoUnion
                 PROVE  UnionId'[s] \in unions' /\ s \in coalition'[UnionId'[s]].Members
      BY DEF MemberIsListed, IsHasUnion
    <3>1. CASE s = t
      <4>1. UnionId'[s] = u BY <1>0, <2>3, <2>10, <3>1 DEF TypeOK
      <4>2. u \in unions BY <1>1 DEF u
      <4>. QED BY <2>4, <2>5, <3>1, <4>1, <4>2
    <3>2. CASE s # t
      <4>1. UnionId'[s] = UnionId[s] BY <1>0, <2>10, <3>2 DEF TypeOK
      <4>2. /\ UnionId[s] \in UnionIds /\ UnionId[s] \in unions
            /\ s \in coalition[UnionId[s]].Members
        BY <4>1, OwnUnion
      <4>. QED BY <2>4, <2>5, <4>1, <4>2
    <3>. QED BY <3>1, <3>2
  <2>12. CaptorKnows' BY <2>4, <2>10 DEF IInv, CaptorKnows
  <2>. QED BY <2>9, <2>11, <2>12
<1>2. CASE ~(v.enters /\ u \in unions)
  BY <1>2, OthersKeep DEF VerifyActs, memory
<1>. QED BY <1>1, <1>2

LEMMA DismissKeeps ==
    ASSUME IInv, NEW r \in Role, Dismiss(r)
    PROVE  MemberIsListed' /\ RowsRun' /\ ObjectsSound' /\ RowsSound' /\ CaptorKnows'
<1> DEFINE u == UnionId[r]
<1>0. TypeOK BY DEF IInv
<1>1. u \in UnionIds BY <1>0 DEF Dismiss, TypeOK
<1>2. /\ unions' = unions \ {u}
      /\ UnionId' = [s \in Role |-> IF s \in coalition[u].Members THEN NoUnion ELSE UnionId[s]]
      /\ DelUnionAllChild(u)
      /\ coalition' = [coalition EXCEPT ![u].state = "Dismiss", ![u].Members = {}]
      /\ SyncExecute(u)
  BY DEF Dismiss
<1>. HIDE DEF u
<1>3. /\ coalition' \in [UnionIds -> CoalitionRec]
      /\ \A v \in UnionIds : v # u => coalition'[v] = coalition[v]
      /\ coalition'[u].state = "Dismiss"
  BY <1>0, <1>1, <1>2, DismissObject
<1>4. \A v \in UnionIds : saved'[v] = saved[v] \/ saved'[v] = coalition'[v]
  BY <1>0, <1>1, <1>2, <1>3, HandedOver
<1>5. RowsRun' /\ ObjectsSound' /\ RowsSound'
  <2>1. ViceListed(coalition'[u]) BY <1>3 DEF ViceListed
  <2>2. u \notin unions' /\ unions' \subseteq unions BY <1>2
  <2>. QED BY <1>1, <1>3, <1>4, <2>1, <2>2, OneObject
<1>6. MemberIsListed'
  <2> SUFFICES ASSUME NEW s \in Role, UnionId'[s] # NoUnion
               PROVE  UnionId'[s] \in unions' /\ s \in coalition'[UnionId'[s]].Members
    BY DEF MemberIsListed, IsHasUnion
  <2>1. UnionId'[s] = UnionId[s] /\ s \notin coalition[u].Members BY <1>2
  <2>2. /\ UnionId[s] \in UnionIds /\ UnionId[s] \in unions
        /\ s \in coalition[UnionId[s]].Members
    BY <2>1, OwnUnion
  <2>. QED BY <1>2, <1>3, <2>1, <2>2
<1>7. CaptorKnows'
  <2> SUFFICES ASSUME NEW s \in Role, ParentId'[s] # NoUnion
               PROVE  ParentId'[s] \in unions' /\ s \in children'[ParentId'[s]]
    BY DEF CaptorKnows
  <2>1. ParentId'[s] = ParentId[s] /\ s \notin children[u]
    BY <1>0, <1>1, <1>2, Freed
  <2>2. ParentId[s] \in unions /\ s \in children[ParentId[s]]
    BY <2>1 DEF IInv, CaptorKnows
  <2>3. ParentId[s] # u /\ ParentId[s] \in UnionIds
    BY <1>0, <2>1, <2>2 DEF TypeOK
  <2>4. children'[ParentId[s]] = children[ParentId[s]]
    BY <1>0, <1>1, <1>2, <2>3, Freed
  <2>. QED BY <1>2, <2>1, <2>2, <2>3, <2>4
<1>. QED BY <1>5, <1>6, <1>7

LEMMA CaptureKeeps ==
    ASSUME IInv, checkCityOccupy
    PROVE  MemberIsListed' /\ RowsRun' /\ ObjectsSound' /\ RowsSound' /\ CaptorKnows'
<1> DEFINE a == capturing.attacker
           d == capturing.defender
<1>0. TypeOK BY DEF IInv
<1>1. a \in Role /\ d \in Role
  BY <1>0 DEF checkCityOccupy, TypeOK, CaptureRec
<1>2. UNCHANGED <<coalition, unions, UnionId, saved>> BY DEF checkCityOccupy
<1>3. \/ UNCHANGED <<ParentId, children>>
      \/ /\ UnionId[a] # NoUnion
         /\ ParentId' = [ParentId EXCEPT ![d] = UnionId[a]]
         /\ children' = [children EXCEPT ![UnionId[a]] = @ \cup {d}]
  BY DEF checkCityOccupy
<1>. HIDE DEF a, d
<1>4. MemberIsListed' /\ RowsRun' /\ ObjectsSound' /\ RowsSound'
  BY <1>2 DEF IInv, MemberIsListed, IsHasUnion, RowsRun, ObjectsSound, RowsSound
<1>5. CaptorKnows'
  <2>1. CASE UNCHANGED <<ParentId, children>>
    BY <1>2, <2>1 DEF IInv, CaptorKnows
  <2>2. CASE /\ UnionId[a] # NoUnion
             /\ ParentId' = [ParentId EXCEPT ![d] = UnionId[a]]
             /\ children' = [children EXCEPT ![UnionId[a]] = @ \cup {d}]
    <3> DEFINE u == UnionId[a]
    <3>1. u \in UnionIds /\ u \in unions BY <1>1, <2>2, OwnUnion
    <3>. HIDE DEF u
    <3>2. ParentId' = [ParentId EXCEPT ![d] = u] /\ children' = [children EXCEPT ![u] = @ \cup {d}]
      BY <2>2 DEF u
    <3> SUFFICES ASSUME NEW s \in Role, ParentId'[s] # NoUnion
                 PROVE  ParentId'[s] \in unions' /\ s \in children'[ParentId'[s]]
      BY DEF CaptorKnows
    <3>3. CASE s = d BY <1>0, <1>2, <3>1, <3>2, <3>3 DEF TypeOK
    <3>4. CASE s # d
      <4>1. ParentId'[s] = ParentId[s] BY <1>0, <3>2, <3>4 DEF TypeOK
      <4>2. ParentId[s] \in unions /\ s \in children[ParentId[s]]
        BY <4>1 DEF IInv, CaptorKnows
      <4>3. ParentId[s] \in UnionIds BY <1>0, <4>2 DEF TypeOK
      <4>. QED BY <1>0, <1>2, <3>1, <3>2, <4>1, <4>2, <4>3 DEF TypeOK
    <3>. QED BY <3>3, <3>4
  <2>. QED BY <1>3, <2>1, <2>2
<1>. QED BY <1>4, <1>5

LEMMA WriteKeeps ==
    ASSUME IInv, DBWrite
    PROVE  MemberIsListed' /\ RowsRun' /\ ObjectsSound' /\ RowsSound' /\ CaptorKnows'
<1> DEFINE h == Head(queue)
<1>0. TypeOK BY DEF IInv
<1>1. h \in UnionIds BY <1>0 DEF DBWrite, TypeOK
<1>2. saved' = [saved EXCEPT ![h] = coalition[h]] /\ UNCHANGED <<memory, ParentId>>
  BY DEF DBWrite
<1>. HIDE DEF h
<1>3. \A v \in UnionIds : saved'[v] = saved[v] \/ saved'[v] = coalition[v]
  BY <1>0, <1>1, <1>2 DEF TypeOK
<1>4. RowsRun' BY <1>0, <1>2, <1>3 DEF IInv, RowsRun, TypeOK, memory
<1>5. RowsSound' BY <1>3 DEF IInv, ObjectsSound, RowsSound, ViceListed
<1>6. MemberIsListed' /\ ObjectsSound' /\ CaptorKnows'
  BY <1>2 DEF IInv, memory, MemberIsListed, IsHasUnion, ObjectsSound, CaptorKnows
<1>. QED BY <1>4, <1>5, <1>6

\* A captor's row says that it runs, so it is there again after a restart.
LEMMA RestartKeeps ==
    ASSUME IInv, Restart
    PROVE  MemberIsListed' /\ RowsRun' /\ ObjectsSound' /\ RowsSound' /\ CaptorKnows'
<1>0. TypeOK BY DEF IInv
<1>1. /\ coalition' = saved /\ unions' = Running /\ UnionId' \in Loaded
      /\ children' = [u \in UnionIds |-> {r \in Role : ParentId[r] = u}]
      /\ UNCHANGED <<saved, ParentId>>
  BY DEF Restart
<1>2. RowsRun' BY <1>1 DEF RowsRun, Running
<1>3. ObjectsSound' /\ RowsSound'
  BY <1>1 DEF IInv, ObjectsSound, RowsSound, ViceListed
<1>4. MemberIsListed'
  <2> SUFFICES ASSUME NEW s \in Role, UnionId'[s] # NoUnion
               PROVE  UnionId'[s] \in unions' /\ s \in coalition'[UnionId'[s]].Members
    BY DEF MemberIsListed, IsHasUnion
  <2>1. UnionId'[s] \in Listing(s) BY <1>1 DEF Loaded
  <2>. QED BY <1>1, <2>1 DEF Listing
<1>5. CaptorKnows'
  <2> SUFFICES ASSUME NEW s \in Role, ParentId[s] # NoUnion
               PROVE  ParentId[s] \in unions' /\ s \in children'[ParentId[s]]
    BY <1>1 DEF CaptorKnows
  <2>1. ParentId[s] \in UnionIds BY <1>0 DEF TypeOK
  <2>2. saved[ParentId[s]].state = "Running" BY DEF IInv, CaptorKnows, RowsRun
  <2>. QED BY <1>1, <2>1, <2>2 DEF Running
<1>. QED BY <1>2, <1>3, <1>4, <1>5

LEMMA InitInv == Init => IInv
<1> SUFFICES ASSUME Init PROVE IInv OBVIOUS
<1>1. TypeOK BY InitType
<1>2. MemberIsListed /\ RowsRun /\ CaptorKnows
  BY DEF Init, MemberIsListed, IsHasUnion, RowsRun, CaptorKnows
<1>3. ObjectsSound /\ RowsSound
  BY DEF Init, ObjectsSound, RowsSound, ViceListed, NoCoalition
<1>. QED BY <1>1, <1>2, <1>3 DEF IInv

LEMMA InvStep == IInv /\ [Next]_vars => IInv'
<1> SUFFICES ASSUME IInv, [Next]_vars PROVE IInv' OBVIOUS
<1> DEFINE Keeps == MemberIsListed' /\ RowsRun' /\ ObjectsSound' /\ RowsSound' /\ CaptorKnows'
<1>0. TypeOK /\ TypeOK' BY TypeStep DEF IInv
<1>1. ASSUME UNCHANGED vars PROVE Keeps BY <1>1, OthersKeep DEF vars
<1>2. ASSUME NEW r \in Role, Create(r) PROVE Keeps BY <1>2, CreateKeeps
<1>3. ASSUME NEW r \in Role, Exit(r) PROVE Keeps
  <2>1. UnionId[r] \in UnionIds BY <1>0, <1>3 DEF Exit, TypeOK
  <2>. QED BY <1>3, <2>1, LeavesKeeps DEF Exit
<1>4. ASSUME NEW r \in Role, Dismiss(r) PROVE Keeps BY <1>4, DismissKeeps
<1>5. ASSUME NEW r \in Role, NEW u \in UnionIds, Join(r, u) PROVE Keeps
  BY <1>5, OthersKeep DEF Join
<1>6. ASSUME NEW r \in Role, NEW i \in 1..Len(applies), NEW decide \in {"Adopt", "Refuse"},
             VerifyChecks(r, i, decide)
      PROVE  Keeps
  BY <1>6, OthersKeep DEF VerifyChecks
<1>7. ASSUME NEW r \in Role, NEW t \in Role, Kick(r, t) PROVE Keeps
  <2>1. UnionId[r] \in UnionIds BY <1>0, <1>7 DEF Kick, TypeOK
  <2>. QED BY <1>7, <2>1, LeavesKeeps DEF Kick
<1>8. ASSUME NEW r \in Role, NEW t \in Role, Abdicate(r, t) PROVE Keeps
  <2>1. UnionId[r] \in UnionIds BY <1>0, <1>8 DEF Abdicate, TypeOK
  <2>2. OfficersChange(t, UnionId[r]) BY <1>0, <1>8, AbdicateObject
  <2>3. \A v \in UnionIds : saved'[v] = saved[v] \/ saved'[v] = coalition'[v]
    BY <1>0, <1>8, <2>1, <2>2, HandedOver DEF Abdicate, OfficersChange
  <2>. QED BY <1>8, <2>1, <2>2, <2>3, OfficersKeep DEF Abdicate
<1>9. ASSUME NEW r \in Role, NEW t \in Role, BattleBegins(r, t) PROVE Keeps
  BY <1>9, OthersKeep DEF BattleBegins
<1>10. ASSUME NEW r \in Role, NEW t \in Role, NEW title \in {"Vice", "Common"},
              Appoint(r, t, title)
       PROVE  Keeps
  <2>1. UnionId[r] \in UnionIds BY <1>0, <1>10 DEF Appoint, TypeOK
  <2>2. OfficersChange(t, UnionId[r]) BY <1>0, <1>10, AppointObject
  <2>3. \A v \in UnionIds : saved'[v] = saved[v] \/ saved'[v] = coalition'[v]
    BY <1>0, <1>10, <2>1, <2>2, HandedOver DEF Appoint, OfficersChange
  <2>. QED BY <1>10, <2>1, <2>2, <2>3, OfficersKeep DEF Appoint
<1>11. ASSUME NEW r \in Role, VerifyActs(r) PROVE Keeps BY <1>11, VerifyKeeps
<1>12. ASSUME checkCityOccupy PROVE Keeps BY <1>12, CaptureKeeps
<1>13. ASSUME DBWrite PROVE Keeps BY <1>13, WriteKeeps
<1>14. ASSUME Restart PROVE Keeps BY <1>14, RestartKeeps
<1>15. Keeps
  BY <1>1, <1>2, <1>3, <1>4, <1>5, <1>6, <1>7, <1>8, <1>9, <1>10, <1>11, <1>12, <1>13, <1>14
  DEF Next, Starts, Completes
<1>. QED BY <1>0, <1>15 DEF IInv

\* The inductive invariant holds throughout.
THEOREM Invariance == Spec => []IInv
<1>1. Init => IInv BY InitInv
<1>2. IInv /\ [Next]_vars => IInv' BY InvStep
<1>. QED BY <1>1, <1>2, PTL DEF Spec

\* CaptorKnows: whoever is a captive is on the list of its captor, which runs,
\* through recaptures, dismissals, overlapping handlers and restarts that lose
\* what had not been written.
THEOREM CaptivesAreKnown == Spec => []CaptorKnows
<1>1. IInv => CaptorKnows BY DEF IInv
<1>. QED BY <1>1, Invariance, PTL

\* ViceIsMember: the vice chairman of a running union is one of its members.
THEOREM ViceChairmenAreMembers == Spec => []ViceIsMember
<1>1. IInv => ViceIsMember
  BY DEF IInv, TypeOK, RowsRun, ObjectsSound, ViceListed, ViceIsMember
<1>. QED BY <1>1, Invariance, PTL

\* MemberIsListed: a role never keeps the id of a union that is gone or has
\* forgotten it, which would lock it out of create, join and exit alike.
THEOREM NobodyIsLockedOut == Spec => []MemberIsListed
<1>1. IInv => MemberIsListed BY DEF IInv
<1>. QED BY <1>1, Invariance, PTL

\* The behaviours in which handlers do not overlap are behaviours of Spec, so
\* all of the above holds of them too.
THEOREM SerialIsSpec == SerialSpec => Spec
<1>1. [SerialNext]_vars => [Next]_vars BY DEF SerialNext, Next
<1>. QED BY <1>1, PTL DEF SerialSpec, Spec

-----------------------------------------------------------------------------
(* Handlers that do not overlap, on a server that is stopped in an orderly *)
(* way.  Then the two records of membership agree: what a handler has      *)
(* checked is still so when it acts, and what a restart reads is what was  *)
(* in memory.                                                              *)

\* u is in the writer's channel.
Waits(u) == \E i \in 1..Len(queue) : queue[i] = u

\* The member lists of running unions say no more than UnionId does.
ListedBelong == \A u \in unions, r \in Role : r \in coalition[u].Members => UnionId[r] = u

\* The manager finds every union that runs.
ObjectsKnown == \A u \in UnionIds : coalition[u].state = "Running" => u \in unions

\* A row that does not wait to be written says of the members and of the state
\* what its object says.  (Of the vice chairman it may not: see Appoint.)
RowsAlike ==
    \A u \in UnionIds : ~Waits(u) =>
        saved[u].Members = coalition[u].Members /\ saved[u].state = coalition[u].state

\* A verify that is under way is the only thing that is, and its applicant has
\* still no union if it had none when it was checked.
VerifiesAlone ==
    \A r \in Role : verifying[r] # Idle =>
        /\ capturing = Idle /\ \A s \in Role : s # r => verifying[s] = Idle
        /\ verifying[r].enters => ~IsHasUnion(applies[verifying[r].id].rid)

\* So is a battle for a city, and the two are still of different unions.
CapturesAlone ==
    capturing # Idle =>
        /\ \A r \in Role : verifying[r] = Idle
        /\ UnionId[capturing.defender] # NoUnion =>
               UnionId[capturing.defender] # UnionId[capturing.attacker]

Agreement == ListedBelong /\ ObjectsKnown /\ RowsAlike /\ NotOwnCaptive
SInv == Agreement /\ VerifiesAlone /\ CapturesAlone

\* An object that changed is written, or waits to be written.
LEMMA HandedOverAlike ==
    ASSUME TypeOK, RowsAlike, NEW u \in UnionIds, SyncExecute(u),
           coalition' \in [UnionIds -> CoalitionRec],
           \A v \in UnionIds : v # u => coalition'[v] = coalition[v]
    PROVE  RowsAlike'
<1> SUFFICES ASSUME NEW v \in UnionIds, ~Waits(v)'
             PROVE  saved'[v].Members = coalition'[v].Members
                    /\ saved'[v].state = coalition'[v].state
  BY DEF RowsAlike
<1>1. CASE QueueCap = 0
  <2>1. saved' = [saved EXCEPT ![u] = coalition'[u]] /\ queue' = queue
    BY <1>1 DEF SyncExecute
  <2>2. ~Waits(v) BY <2>1 DEF Waits
  <2>3. CASE v = u BY <2>1, <2>3 DEF TypeOK
  <2>4. CASE v # u BY <2>1, <2>2, <2>4 DEF TypeOK, RowsAlike
  <2>. QED BY <2>3, <2>4
<1>2. CASE QueueCap # 0
  <2>1. queue' = Append(queue, u) /\ saved' = saved BY <1>2 DEF SyncExecute
  <2>2. queue \in Seq(UnionIds) BY DEF TypeOK
  <2>3. /\ Len(queue') = Len(queue) + 1 /\ queue'[Len(queue) + 1] = u
        /\ \A i \in 1..Len(queue) : queue'[i] = queue[i]
        /\ Len(queue) \in Nat
    BY <2>1, <2>2
  <2>4. v # u /\ ~Waits(v) BY <2>3 DEF Waits
  <2>. QED BY <2>1, <2>4 DEF RowsAlike
<1>. QED BY <1>1, <1>2

\* Entering u makes the role a captive of nobody or of another union, and no one
\* else's captivity or union changes.
LEMMA EntersNoCaptor ==
    ASSUME TypeOK, NotOwnCaptive, NEW r \in Role, NEW u \in UnionIds, MemberEnter(r, u)
    PROVE  NotOwnCaptive'
<1> SUFFICES ASSUME NEW s \in Role, ParentId'[s] # NoUnion PROVE ParentId'[s] # UnionId'[s]
  BY DEF NotOwnCaptive
<1>1. UnionId' = [UnionId EXCEPT ![r] = u] BY DEF MemberEnter
<1>2. ParentId'[s] = ParentId[s] BY Entered
<1>3. CASE s = r
  <2>1. ParentId[r] # u
    <3> SUFFICES ASSUME ParentId[r] = u PROVE FALSE OBVIOUS
    <3>1. ParentId' = [ParentId EXCEPT ![r] = NoUnion] BY DEF MemberEnter
    <3>. QED BY <1>3, <3>1 DEF TypeOK
  <2>. QED BY <1>1, <1>2, <1>3, <2>1 DEF TypeOK
<1>4. CASE s # r
  BY <1>1, <1>2, <1>4 DEF TypeOK, NotOwnCaptive
<1>. QED BY <1>3, <1>4

\* A step that leaves objects, rows, unions and captives alone.
LEMMA OthersAgree ==
    ASSUME Agreement, UNCHANGED <<memory, saved, queue, ParentId>>
    PROVE  Agreement'
BY DEF Agreement, memory, ListedBelong, ObjectsKnown, RowsAlike, Waits, NotOwnCaptive

LEMMA CreateAgrees ==
    ASSUME IInv, Agreement, NEW r \in Role, Create(r)
    PROVE  Agreement'
<1> DEFINE new == [state |-> "Running", Chairman |-> r, ViceChairman |-> NoRole,
                   Members |-> {r}]
<1>0. TypeOK /\ UnionId[r] = NoUnion BY DEF IInv, Create, IsHasUnion
<1> PICK u \in UnionIds :
      /\ coalition[u].state = "None"
      /\ coalition' = [coalition EXCEPT ![u] = new]
      /\ saved' = [saved EXCEPT ![u] = coalition'[u]]
      /\ unions' = unions \cup {u} /\ queue' = queue
      /\ MemberEnter(r, u)
  BY DEF Create
<1>1. /\ coalition'[u] = new /\ saved'[u] = new
      /\ \A v \in UnionIds : v # u => coalition'[v] = coalition[v] /\ saved'[v] = saved[v]
  BY <1>0 DEF TypeOK
<1>2. new.state = "Running" /\ new.Members = {r} OBVIOUS
<1>. HIDE DEF new
<1>3. u \notin unions /\ unions \subseteq UnionIds
  BY <1>0 DEF IInv, RowsRun, TypeOK
<1>4. UnionId' = [UnionId EXCEPT ![r] = u] BY <1>0, Entered
<1>5. ListedBelong'
  <2> SUFFICES ASSUME NEW v \in unions', NEW s \in Role, s \in coalition'[v].Members
               PROVE  UnionId'[s] = v
    BY DEF ListedBelong
  <2>1. CASE v = u BY <1>0, <1>1, <1>2, <1>4, <2>1 DEF TypeOK
  <2>2. CASE v # u
    <3>1. v \in unions /\ v \in UnionIds BY <1>3, <2>2
    <3>2. UnionId[s] = v BY <1>1, <2>2, <3>1 DEF Agreement, ListedBelong
    <3>3. s # r BY <1>0, <3>1, <3>2, ZeroIsNoUnion
    <3>. QED BY <1>0, <1>4, <3>2, <3>3 DEF TypeOK
  <2>. QED BY <2>1, <2>2
<1>6. ObjectsKnown' BY <1>1 DEF Agreement, ObjectsKnown
<1>7. RowsAlike' BY <1>1 DEF Agreement, RowsAlike, Waits
<1>8. NotOwnCaptive' BY <1>0, EntersNoCaptor DEF Agreement
<1>. QED BY <1>5, <1>6, <1>7, <1>8 DEF Agreement

LEMMA LeavesAgrees ==
    ASSUME IInv, Agreement, NEW r \in Role, NEW u \in UnionIds, Leaves(r, u),
           UnionId[r] = u, UNCHANGED <<unions, ParentId, children>>
    PROVE  Agreement'
<1>1. TypeOK BY DEF IInv
<1>2. UnionId' = [UnionId EXCEPT ![r] = NoUnion] /\ SyncExecute(u) BY DEF Leaves
<1>3. /\ coalition' \in [UnionIds -> CoalitionRec]
      /\ \A v \in UnionIds : v # u => coalition'[v] = coalition[v]
      /\ coalition'[u].state = coalition[u].state
      /\ coalition'[u].Members = coalition[u].Members \ {r}
  BY <1>1, LeavesObject
<1>4. ListedBelong'
  <2> SUFFICES ASSUME NEW v \in unions, NEW s \in Role, s \in coalition'[v].Members
               PROVE  UnionId'[s] = v
    BY DEF ListedBelong
  <2>0. v \in UnionIds BY <1>1 DEF TypeOK
  <2>1. s \in coalition[v].Members /\ (v = u => s # r) BY <1>3, <2>0
  <2>2. UnionId[s] = v BY <2>1 DEF Agreement, ListedBelong
  <2>. QED BY <1>1, <1>2, <2>1, <2>2 DEF TypeOK
<1>5. ObjectsKnown' BY <1>3 DEF Agreement, ObjectsKnown
<1>6. RowsAlike' BY <1>1, <1>2, <1>3, HandedOverAlike DEF Agreement
<1>7. NotOwnCaptive' BY <1>1, <1>2 DEF Agreement, NotOwnCaptive, TypeOK
<1>. QED BY <1>4, <1>5, <1>6, <1>7 DEF Agreement

LEMMA OfficersAgree ==
    ASSUME IInv, Agreement, NEW t \in Role, NEW u \in UnionIds, OfficersChange(t, u),
           SyncExecute(u) \/ UNCHANGED <<saved, queue>>,
           UNCHANGED <<unions, UnionId, ParentId, children>>
    PROVE  Agreement'
<1>1. TypeOK BY DEF IInv
<1>2. /\ coalition' \in [UnionIds -> CoalitionRec]
      /\ \A v \in UnionIds : v # u => coalition'[v] = coalition[v]
      /\ \A v \in UnionIds : /\ coalition'[v].Members = coalition[v].Members
                             /\ coalition'[v].state = coalition[v].state
  BY DEF OfficersChange
<1>3. ListedBelong' /\ ObjectsKnown'
  <2>1. unions \subseteq UnionIds BY <1>1 DEF TypeOK
  <2>. QED BY <1>2, <2>1 DEF Agreement, ListedBelong, ObjectsKnown
<1>4. RowsAlike'
  <2>1. CASE SyncExecute(u) BY <1>1, <1>2, <2>1, HandedOverAlike DEF Agreement
  <2>2. CASE UNCHANGED <<saved, queue>>
    BY <1>2, <2>2 DEF Agreement, RowsAlike, Waits
  <2>. QED BY <2>1, <2>2
<1>5. NotOwnCaptive' BY DEF Agreement, NotOwnCaptive
<1>. QED BY <1>3, <1>4, <1>5 DEF Agreement

LEMMA DismissAgrees ==
    ASSUME IInv, Agreement, NEW r \in Role, Dismiss(r)
    PROVE  Agreement'
<1> DEFINE u == UnionId[r]
<1>0. TypeOK BY DEF IInv
<1>1. u \in UnionIds BY <1>0 DEF Dismiss, TypeOK
<1>2. /\ unions' = unions \ {u} /\ u \in unions
      /\ UnionId' = [s \in Role |-> IF s \in coalition[u].Members THEN NoUnion ELSE UnionId[s]]
      /\ DelUnionAllChild(u)
      /\ coalition' = [coalition EXCEPT ![u].state = "Dismiss", ![u].Members = {}]
      /\ SyncExecute(u)
  BY DEF Dismiss
<1>. HIDE DEF u
<1>3. /\ coalition' \in [UnionIds -> CoalitionRec]
      /\ \A v \in UnionIds : v # u => coalition'[v] = coalition[v]
      /\ coalition'[u].state = "Dismiss"
  BY <1>0, <1>1, <1>2, DismissObject
<1>4. ListedBelong'
  <2> SUFFICES ASSUME NEW v \in unions', NEW s \in Role, s \in coalition'[v].Members
               PROVE  UnionId'[s] = v
    BY DEF ListedBelong
  <2>1. v \in unions /\ v # u /\ v \in UnionIds BY <1>0, <1>2 DEF TypeOK
  <2>2. UnionId[s] = v BY <1>3, <2>1 DEF Agreement, ListedBelong
  <2>3. s \notin coalition[u].Members
    BY <1>2, <2>1, <2>2 DEF Agreement, ListedBelong
  <2>. QED BY <1>2, <2>2, <2>3
<1>5. ObjectsKnown' BY <1>2, <1>3 DEF Agreement, ObjectsKnown
<1>6. RowsAlike' BY <1>0, <1>1, <1>2, <1>3, HandedOverAlike DEF Agreement
<1>7. NotOwnCaptive'
  <2> SUFFICES ASSUME NEW s \in Role, ParentId'[s] # NoUnion
               PROVE  ParentId'[s] # UnionId'[s]
    BY DEF NotOwnCaptive
  <2>1. ParentId'[s] = ParentId[s] BY <1>0, <1>1, <1>2, Freed
  <2>. QED BY <1>2, <2>1 DEF Agreement, NotOwnCaptive
<1>. QED BY <1>4, <1>5, <1>6, <1>7 DEF Agreement

LEMMA VerifyAgrees ==
    ASSUME IInv, SInv, NEW r \in Role, VerifyActs(r)
    PROVE  Agreement'
<1> DEFINE v == verifying[r]
           t == applies[v.id].rid
           u == applies[v.id].union
<1>0. TypeOK /\ Agreement BY DEF IInv, SInv
<1>1. CASE v.enters /\ u \in unions
  <2>1. v.id \in 1..Len(applies) BY <1>0 DEF VerifyActs, TypeOK
  <2>2. applies[v.id] \in ApplyRec BY <1>0, <2>1 DEF TypeOK
  <2>3. t \in Role /\ u \in UnionIds BY <2>2 DEF ApplyRec
  <2>4. /\ coalition' = [coalition EXCEPT ![u].Members = @ \cup {t}]
        /\ MemberEnter(t, u) /\ SyncExecute(u) /\ unions' = unions
    BY <1>1 DEF VerifyActs
  <2>5. UnionId[t] = NoUnion
    BY <1>1 DEF VerifyActs, SInv, VerifiesAlone, IsHasUnion
  <2>. HIDE DEF t, u
  <2>6. /\ coalition' \in [UnionIds -> CoalitionRec]
        /\ \A w \in UnionIds : w # u => coalition'[w] = coalition[w]
        /\ coalition'[u].state = coalition[u].state
        /\ coalition'[u].Members = coalition[u].Members \cup {t}
    BY <1>0, <2>3, <2>4, EntersObject
  <2>7. UnionId' = [UnionId EXCEPT ![t] = u] BY <1>0, <2>3, <2>4, Entered
  <2>8. ListedBelong'
    <3> SUFFICES ASSUME NEW w \in unions, NEW s \in Role, s \in coalition'[w].Members
                 PROVE  UnionId'[s] = w
      BY <2>4 DEF ListedBelong
    <3>0. w \in UnionIds BY <1>0 DEF TypeOK
    <3>1. CASE w = u /\ s = t BY <1>0, <2>3, <2>7, <3>1 DEF TypeOK
    <3>2. CASE ~(w = u /\ s = t)
      <4>1. s \in coalition[w].Members BY <2>6, <3>0, <3>2
      <4>2. UnionId[s] = w BY <1>0, <4>1 DEF Agreement, ListedBelong
      <4>3. s # t BY <2>5, <3>0, <4>2, ZeroIsNoUnion
      <4>. QED BY <1>0, <2>7, <4>2, <4>3 DEF TypeOK
    <3>. QED BY <3>1, <3>2
  <2>9. ObjectsKnown' BY <1>0, <2>3, <2>4, <2>6 DEF Agreement, ObjectsKnown
  <2>10. RowsAlike' BY <1>0, <2>3, <2>4, <2>6, HandedOverAlike DEF Agreement
  <2>11. NotOwnCaptive' BY <1>0, <2>3, <2>4, EntersNoCaptor DEF Agreement
  <2>. QED BY <2>8, <2>9, <2>10, <2>11 DEF Agreement
<1>2. CASE ~(v.enters /\ u \in unions)
  BY <1>0, <1>2, OthersAgree DEF VerifyActs, memory
<1>. QED BY <1>1, <1>2

LEMMA CaptureAgrees ==
    ASSUME IInv, SInv, checkCityOccupy
    PROVE  Agreement'
<1> DEFINE a == capturing.attacker
           d == capturing.defender
<1>0. TypeOK /\ Agreement BY DEF IInv, SInv
<1>1. a \in Role /\ d \in Role
  BY <1>0 DEF checkCityOccupy, TypeOK, CaptureRec
<1>2. /\ UNCHANGED <<coalition, unions, UnionId, saved, queue>>
      /\ UnionId[d] # NoUnion => UnionId[d] # UnionId[a]
  BY DEF checkCityOccupy, SInv, CapturesAlone
<1>3. \/ UNCHANGED ParentId
      \/ UnionId[a] # NoUnion /\ ParentId' = [ParentId EXCEPT ![d] = UnionId[a]]
  BY DEF checkCityOccupy
<1>. HIDE DEF a, d
<1>4. ListedBelong' /\ ObjectsKnown' /\ RowsAlike'
  BY <1>0, <1>2 DEF Agreement, ListedBelong, ObjectsKnown, RowsAlike, Waits
<1>5. NotOwnCaptive'
  <2> SUFFICES ASSUME NEW s \in Role, ParentId'[s] # NoUnion
               PROVE  ParentId'[s] # UnionId[s]
    BY <1>2 DEF NotOwnCaptive
  <2>1. CASE ParentId'[s] = ParentId[s]
    BY <1>0, <2>1 DEF Agreement, NotOwnCaptive
  <2>2. CASE ParentId'[s] # ParentId[s]
    <3>1. s = d /\ ParentId'[s] = UnionId[a] /\ UnionId[a] # NoUnion
      BY <1>0, <1>1, <1>3, <2>2 DEF TypeOK
    <3>. QED BY <1>2, <3>1
  <2>. QED BY <2>1, <2>2
<1>. QED BY <1>4, <1>5 DEF Agreement

LEMMA WriteAgrees ==
    ASSUME IInv, Agreement, DBWrite
    PROVE  Agreement'
<1> DEFINE h == Head(queue)
<1>0. TypeOK BY DEF IInv
<1>1. /\ h \in UnionIds /\ queue \in Seq(UnionIds) /\ queue # << >>
      /\ Len(queue) \in Nat \ {0} /\ h = queue[1]
      /\ Len(Tail(queue)) = Len(queue) - 1
      /\ \A i \in 1..Len(queue) - 1 : Tail(queue)[i] = queue[i + 1]
  BY <1>0 DEF DBWrite, TypeOK
<1>2. /\ saved' = [saved EXCEPT ![h] = coalition[h]] /\ queue' = Tail(queue)
      /\ UNCHANGED <<coalition, unions, UnionId, children, ParentId>>
  BY DEF DBWrite, memory
<1>. HIDE DEF h
<1>3. ListedBelong' /\ ObjectsKnown' /\ NotOwnCaptive'
  BY <1>2 DEF Agreement, ListedBelong, ObjectsKnown, NotOwnCaptive
<1>4. RowsAlike'
  <2> SUFFICES ASSUME NEW v \in UnionIds, ~Waits(v)'
               PROVE  saved'[v].Members = coalition[v].Members
                      /\ saved'[v].state = coalition[v].state
    BY <1>2 DEF RowsAlike
  <2>1. CASE v = h BY <1>0, <1>2, <2>1 DEF TypeOK
  <2>2. CASE v # h
    <3>1. ~Waits(v)
      <4> SUFFICES ASSUME NEW i \in 1..Len(queue), queue[i] = v PROVE FALSE
        BY DEF Waits
      <4>1. i # 1 BY <1>1, <2>2
      <4>2. i - 1 \in 1..Len(queue) - 1 /\ (i - 1) + 1 = i BY <1>1, <4>1
      <4>3. Tail(queue)[i - 1] = v BY <1>1, <4>2
      <4>. QED BY <1>1, <1>2, <4>2, <4>3 DEF Waits
    <3>. QED BY <1>0, <1>2, <2>2, <3>1 DEF TypeOK, Agreement, RowsAlike
  <2>. QED BY <2>1, <2>2
<1>. QED BY <1>3, <1>4 DEF Agreement

\* With nothing left to be written a restart reads what there was.
LEMMA RestartAgrees ==
    ASSUME IInv, Agreement, Restart, queue = << >>
    PROVE  Agreement' /\ UnionId' = UnionId /\ unions' = unions
<1>0. TypeOK BY DEF IInv
<1>1. /\ coalition' = saved /\ unions' = Running /\ UnionId' \in Loaded
      /\ UNCHANGED <<saved, ParentId>>
  BY DEF Restart
<1>2. \A u \in UnionIds : /\ saved[u].Members = coalition[u].Members
                          /\ saved[u].state = coalition[u].state
  BY DEF Agreement, RowsAlike, Waits
<1>3. unions' = unions
  <2>1. \A u \in UnionIds : u \in Running <=> coalition[u].state = "Running"
    BY <1>2 DEF Running
  <2>2. \A u \in UnionIds : u \in unions <=> coalition[u].state = "Running"
    BY DEF IInv, RowsRun, Agreement, ObjectsKnown
  <2>3. Running \subseteq UnionIds /\ unions \subseteq UnionIds
    BY <1>0 DEF Running, TypeOK
  <2>. QED BY <1>1, <2>1, <2>2, <2>3
<1>4. UnionId' = UnionId
  <2>1. UnionId' \in [Role -> UnionIds \cup {NoUnion}] BY <1>1 DEF Loaded
  <2>2. ASSUME NEW r \in Role PROVE UnionId'[r] = UnionId[r]
    <3>1. \A u \in Listing(r) : u \in unions /\ r \in coalition[u].Members
      BY <1>1, <1>2, <1>3 DEF Listing, Running
    <3>2. \A u \in Listing(r) : u = UnionId[r]
      BY <3>1 DEF Agreement, ListedBelong
    <3>3. CASE Listing(r) = {}
      <4>1. UnionId'[r] = NoUnion BY <1>1, <3>3 DEF Loaded
      <4>2. UnionId[r] = NoUnion
        <5> SUFFICES ASSUME UnionId[r] # NoUnion PROVE FALSE OBVIOUS
        <5>1. /\ UnionId[r] \in UnionIds /\ UnionId[r] \in unions
              /\ r \in coalition[UnionId[r]].Members
          BY OwnUnion
        <5>2. UnionId[r] \in Listing(r) BY <1>1, <1>2, <1>3, <5>1 DEF Listing
        <5>. QED BY <3>3, <5>2
      <4>. QED BY <4>1, <4>2
    <3>4. CASE Listing(r) # {}
      <4>1. UnionId'[r] \in Listing(r) BY <1>1, <3>4 DEF Loaded
      <4>. QED BY <3>2, <4>1
    <3>. QED BY <3>3, <3>4
  <2>. QED BY <1>0, <2>1, <2>2 DEF TypeOK
<1>5. ListedBelong'
  <2> SUFFICES ASSUME NEW u \in unions, NEW r \in Role, r \in saved[u].Members
               PROVE  UnionId[r] = u
    BY <1>1, <1>3, <1>4 DEF ListedBelong
  <2>1. u \in UnionIds BY <1>0 DEF TypeOK
  <2>. QED BY <1>2, <2>1 DEF Agreement, ListedBelong
<1>6. ObjectsKnown' BY <1>1 DEF ObjectsKnown, Running
<1>7. RowsAlike' BY <1>1 DEF RowsAlike
<1>8. NotOwnCaptive' BY <1>1, <1>4 DEF Agreement, NotOwnCaptive
<1>. QED BY <1>3, <1>4, <1>5, <1>6, <1>7, <1>8 DEF Agreement

\* What comes of a start when nothing else is under way.
LEMMA StartAgrees ==
    ASSUME IInv, SInv, Serial, Starts
    PROVE  SInv'
<1>0. TypeOK /\ Agreement BY DEF IInv, SInv
<1>1. capturing = Idle /\ \A r \in Role : verifying[r] = Idle BY DEF Serial
<1>2. ASSUME UNCHANGED <<verifying, capturing>>, Agreement' PROVE SInv'
  BY <1>1, <1>2 DEF SInv, VerifiesAlone, CapturesAlone
<1>3. ASSUME NEW r \in Role, Create(r) PROVE SInv'
  BY <1>0, <1>2, <1>3, CreateAgrees DEF Create
<1>4. ASSUME NEW r \in Role, Exit(r) PROVE SInv'
  <2>1. UnionId[r] \in UnionIds BY <1>0, <1>4 DEF Exit, TypeOK
  <2>2. Agreement' BY <1>0, <1>4, <2>1, LeavesAgrees DEF Exit
  <2>. QED BY <1>2, <1>4, <2>2 DEF Exit
<1>5. ASSUME NEW r \in Role, Dismiss(r) PROVE SInv'
  BY <1>0, <1>2, <1>5, DismissAgrees DEF Dismiss
<1>6. ASSUME NEW r \in Role, NEW u \in UnionIds, Join(r, u) PROVE SInv'
  BY <1>0, <1>2, <1>6, OthersAgree DEF Join
<1>7. ASSUME NEW r \in Role, NEW i \in 1..Len(applies), NEW decide \in {"Adopt", "Refuse"},
             VerifyChecks(r, i, decide)
      PROVE  SInv'
  <2> DEFINE rec == [kind |-> "Verify", id |-> i, decide |-> decide,
                     enters |-> decide = "Adopt" /\ ~IsHasUnion(applies[i].rid)]
  <2>1. verifying' = [verifying EXCEPT ![r] = rec] BY <1>7 DEF VerifyChecks
  <2>2. UNCHANGED <<memory, saved, queue, ParentId, applies, capturing>>
    BY <1>7 DEF VerifyChecks
  <2>3. rec.id = i /\ (rec.enters => ~IsHasUnion(applies[i].rid)) OBVIOUS
  <2>. HIDE DEF rec
  <2>4. verifying'[r] = rec /\ \A s \in Role : s # r => verifying'[s] = Idle
    BY <1>0, <1>1, <2>1 DEF TypeOK
  <2>5. VerifiesAlone'
    <3> SUFFICES ASSUME NEW s \in Role, verifying'[s] # Idle
                 PROVE  /\ capturing' = Idle
                        /\ \A w \in Role : w # s => verifying'[w] = Idle
                        /\ verifying'[s].enters => UnionId'[applies'[verifying'[s].id].rid] = NoUnion
      BY DEF VerifiesAlone, IsHasUnion
    <3>1. s = r BY <2>4
    <3>2. UnionId' = UnionId /\ applies' = applies /\ capturing' = Idle
      BY <1>1, <2>2 DEF memory
    <3>3. verifying'[s].enters => UnionId[applies[verifying'[s].id].rid] = NoUnion
      BY <2>3, <2>4, <3>1 DEF IsHasUnion
    <3>. QED BY <2>4, <3>1, <3>2, <3>3
  <2>6. CapturesAlone' BY <1>1, <2>2 DEF CapturesAlone
  <2>7. Agreement' BY <1>0, <2>2, OthersAgree
  <2>. QED BY <2>5, <2>6, <2>7 DEF SInv
<1>8. ASSUME NEW r \in Role, NEW t \in Role, Kick(r, t) PROVE SInv'
  <2>1. UnionId[r] \in UnionIds BY <1>0, <1>8 DEF Kick, TypeOK
  <2>2. Agreement' BY <1>0, <1>8, <2>1, LeavesAgrees DEF Kick
  <2>. QED BY <1>2, <1>8, <2>2 DEF Kick
<1>9. ASSUME NEW r \in Role, NEW t \in Role, Abdicate(r, t) PROVE SInv'
  <2>1. UnionId[r] \in UnionIds BY <1>0, <1>9 DEF Abdicate, TypeOK
  <2>2. OfficersChange(t, UnionId[r]) BY <1>0, <1>9, AbdicateObject
  <2>3. Agreement' BY <1>0, <1>9, <2>1, <2>2, OfficersAgree DEF Abdicate
  <2>. QED BY <1>2, <1>9, <2>3 DEF Abdicate
<1>10. ASSUME NEW r \in Role, NEW t \in Role, BattleBegins(r, t) PROVE SInv'
  <2>1. /\ UnionId[t] # NoUnion => UnionId[t] # UnionId[r]
        /\ capturing' = [kind |-> "Capture", attacker |-> r, defender |-> t]
        /\ UNCHANGED <<memory, saved, queue, ParentId, applies, verifying>>
    BY <1>10 DEF BattleBegins
  <2>2. capturing'.attacker = r /\ capturing'.defender = t BY <2>1
  <2>3. CapturesAlone' BY <1>1, <2>1, <2>2 DEF CapturesAlone, memory
  <2>4. VerifiesAlone' BY <1>1, <2>1 DEF VerifiesAlone
  <2>5. Agreement' BY <1>0, <2>1, OthersAgree
  <2>. QED BY <2>3, <2>4, <2>5 DEF SInv
<1>11. ASSUME NEW r \in Role, NEW t \in Role, NEW title \in {"Vice", "Common"},
              Appoint(r, t, title)
       PROVE  SInv'
  <2>1. UnionId[r] \in UnionIds BY <1>0, <1>11 DEF Appoint, TypeOK
  <2>2. OfficersChange(t, UnionId[r]) BY <1>0, <1>11, AppointObject
  <2>3. Agreement' BY <1>0, <1>11, <2>1, <2>2, OfficersAgree DEF Appoint
  <2>. QED BY <1>2, <1>11, <2>3 DEF Appoint
<1>. QED
  BY <1>3, <1>4, <1>5, <1>6, <1>7, <1>8, <1>9, <1>10, <1>11 DEF Starts

LEMMA SerialStep == ~MayCrash /\ IInv /\ SInv /\ [SerialNext]_vars => SInv'
<1> SUFFICES ASSUME ~MayCrash, IInv, SInv, [SerialNext]_vars PROVE SInv' OBVIOUS
<1>0. TypeOK /\ Agreement BY DEF IInv, SInv
<1>1. ASSUME Serial', Agreement' PROVE SInv'
  BY <1>1 DEF Serial, SInv, VerifiesAlone, CapturesAlone
<1>2. ASSUME UNCHANGED vars PROVE SInv'
  <2>1. Agreement' BY <1>0, <1>2, OthersAgree DEF vars
  <2>. QED BY <1>2, <2>1 DEF vars, memory, SInv, VerifiesAlone, CapturesAlone, IsHasUnion
<1>3. ASSUME Serial, Starts PROVE SInv' BY <1>3, StartAgrees
<1>4. ASSUME NEW r \in Role, VerifyActs(r) PROVE SInv'
  <2>1. verifying[r] # Idle /\ capturing' = capturing
        /\ verifying' = [verifying EXCEPT ![r] = Idle]
    BY <1>4 DEF VerifyActs
  <2>2. capturing = Idle /\ \A s \in Role : s # r => verifying[s] = Idle
    BY <2>1 DEF SInv, VerifiesAlone
  <2>3. Serial' BY <1>0, <2>1, <2>2 DEF Serial, TypeOK
  <2>. QED BY <1>1, <1>4, <2>3, VerifyAgrees
<1>5. ASSUME checkCityOccupy PROVE SInv'
  <2>1. Serial' BY <1>5 DEF checkCityOccupy, SInv, CapturesAlone, Serial
  <2>. QED BY <1>1, <1>5, <2>1, CaptureAgrees
<1>6. ASSUME DBWrite PROVE SInv'
  <2>1. UNCHANGED <<UnionId, applies, verifying, capturing>> BY <1>6 DEF DBWrite, memory
  <2>2. VerifiesAlone' BY <2>1 DEF SInv, VerifiesAlone, IsHasUnion
  <2>3. CapturesAlone' BY <2>1 DEF SInv, CapturesAlone
  <2>4. Agreement' BY <1>0, <1>6, WriteAgrees
  <2>. QED BY <2>2, <2>3, <2>4 DEF SInv
<1>7. ASSUME Restart PROVE SInv'
  <2>1. Serial' BY <1>7 DEF Restart, Serial
  <2>2. queue = << >> BY <1>7 DEF Restart
  <2>. QED BY <1>0, <1>1, <1>7, <2>1, <2>2, RestartAgrees
<1>. QED BY <1>2, <1>3, <1>4, <1>5, <1>6, <1>7 DEF SerialNext, Completes

LEMMA SerialInvariance ==
    ASSUME ~MayCrash
    PROVE  SerialSpec => [](IInv /\ SInv)
<1>1. Init => SInv
  <2> SUFFICES ASSUME Init PROVE SInv OBVIOUS
  <2>1. Agreement
    BY DEF Init, Agreement, ListedBelong, ObjectsKnown, RowsAlike, NotOwnCaptive, NoCoalition
  <2>. QED BY <2>1 DEF Init, SInv, VerifiesAlone, CapturesAlone
<1>2. IInv /\ SInv /\ [SerialNext]_vars => SInv' BY SerialStep
<1>3. SerialSpec => []IInv BY SerialIsSpec, Invariance, PTL
<1>. QED BY <1>1, <1>2, <1>3, PTL DEF SerialSpec

\* MembersAgree: on a server whose handlers do not overlap and that writes what
\* it has before it stops, the member lists of the running unions and the union
\* ids of the roles say the same, for any capacity of the writer's channel.
THEOREM RecordsAgreeSerially ==
    ASSUME ~MayCrash
    PROVE  SerialSpec => []MembersAgree
<1>1. IInv /\ SInv => MembersAgree
  <2> SUFFICES ASSUME IInv, SInv PROVE MembersAgree OBVIOUS
  <2>1. ASSUME NEW u \in unions, NEW r \in Role, UnionId[r] = u
        PROVE  r \in coalition[u].Members
    <3>1. u \in UnionIds BY DEF IInv, TypeOK
    <3>. QED BY <2>1, <3>1, OwnUnion, ZeroIsNoUnion
  <2>2. \A r \in Role : IsHasUnion(r) => UnionId[r] \in unions
    BY DEF IInv, MemberIsListed
  <2>. QED BY <2>1, <2>2 DEF SInv, Agreement, ListedBelong, MembersAgree
<1>. QED BY <1>1, SerialInvariance, PTL

\* NotOwnCaptive: nor is anybody there a captive of the own union.
THEOREM NobodyIsOwnCaptiveSerially ==
    ASSUME ~MayCrash
    PROVE  SerialSpec => []NotOwnCaptive
<1>1. SInv => NotOwnCaptive BY DEF SInv, Agreement
<1>. QED BY <1>1, SerialInvariance, PTL

\* OneUnion: nor is anybody listed by two running unions there, which overlapping
\* verify handlers (the run UnionTwice) and a crash can both bring about.
THEOREM OneUnionSerially ==
    ASSUME ~MayCrash
    PROVE  SerialSpec => []OneUnion
<1>1. IInv /\ SInv => OneUnion
  <2> SUFFICES ASSUME IInv, SInv PROVE OneUnion OBVIOUS
  <2>1. TypeOK BY DEF IInv
  <2>2. coalition \in [UnionIds -> CoalitionRec] /\ unions \subseteq UnionIds
    BY <2>1 DEF TypeOK
  <2>3. \A c \in CoalitionRec : c.Members \subseteq Role BY DEF CoalitionRec
  <2>4. \A w \in unions : coalition[w].Members \subseteq Role BY <2>2, <2>3
  <2>. QED BY <2>4 DEF OneUnion, SInv, Agreement, ListedBelong
<1>. QED BY <1>1, SerialInvariance, PTL

\* What a restart of such a server must not do: change who is in which union or
\* which unions there are.
THEOREM RestartKeepsMembership ==
    ASSUME ~MayCrash
    PROVE  SerialSpec => [][restarts' # restarts =>
                                UnionId' = UnionId /\ unions' = unions]_vars
<1>1. IInv /\ SInv /\ [SerialNext]_vars =>
          [restarts' # restarts => UnionId' = UnionId /\ unions' = unions]_vars
  <2> SUFFICES ASSUME IInv, SInv, SerialNext, restarts' # restarts
               PROVE  UnionId' = UnionId /\ unions' = unions
    OBVIOUS
  <2>1. ASSUME Starts PROVE restarts' = restarts
    <3> USE DEF Create, Exit, Dismiss, Join, VerifyChecks, Kick, Abdicate, BattleBegins, Appoint
    <3>1. \A r \in Role : Create(r) \/ Exit(r) \/ Dismiss(r) => restarts' = restarts OBVIOUS
    <3>2. \A r \in Role, u \in UnionIds : Join(r, u) => restarts' = restarts OBVIOUS
    <3>3. \A r \in Role, i \in 1..Len(applies), decide \in {"Adopt", "Refuse"} :
              VerifyChecks(r, i, decide) => restarts' = restarts
      OBVIOUS
    <3>4. \A r, t \in Role : Kick(r, t) \/ Abdicate(r, t) \/ BattleBegins(r, t) =>
              restarts' = restarts
      OBVIOUS
    <3>5. \A r, t \in Role, title \in {"Vice", "Common"} :
              Appoint(r, t, title) => restarts' = restarts
      OBVIOUS
    <3>. HIDE DEF Create, Exit, Dismiss, Join, VerifyChecks, Kick, Abdicate, BattleBegins, Appoint
    <3>. QED BY <2>1, <3>1, <3>2, <3>3, <3>4, <3>5 DEF Starts
  <2>2. Completes \/ DBWrite => restarts' = restarts
    BY DEF Completes, checkCityOccupy, VerifyActs, DBWrite
  <2>3. Restart /\ queue = << >> BY <2>1, <2>2 DEF SerialNext, Restart
  <2>. QED BY <2>3, RestartAgrees DEF SInv
<1>. QED BY <1>1, SerialInvariance, PTL DEF SerialSpec

-----------------------------------------------------------------------------
(* The same server keeps the promise of Membership.  A union that is being *)
(* entered had room when the application was checked and has it still.     *)

WithinLimit ==
    \A u \in unions : /\ IsFiniteSet(coalition[u].Members)
                      /\ Cardinality(coalition[u].Members) <= MemberLimit

RoomVerified ==
    \A r \in Role : verifying[r] # Idle =>
        LET u == applies[verifying[r].id].union
        IN  verifying[r].enters /\ u \in unions => Cardinality(coalition[u].Members) < MemberLimit

LInv == WithinLimit /\ RoomVerified

\* Unions that lose members, or are no more, stay within the limit.
LEMMA FewerMembers ==
    ASSUME WithinLimit,
           \A u \in unions' : u \in unions /\ coalition'[u].Members \subseteq coalition[u].Members
    PROVE  WithinLimit'
<1> SUFFICES ASSUME NEW u \in unions'
             PROVE  /\ IsFiniteSet(coalition'[u].Members)
                    /\ Cardinality(coalition'[u].Members) <= MemberLimit
  BY DEF WithinLimit
<1> DEFINE S == coalition[u].Members
           T == coalition'[u].Members
<1>1. IsFiniteSet(S) /\ Cardinality(S) <= MemberLimit /\ T \subseteq S
  BY DEF WithinLimit
<1>. HIDE DEF S, T
<1>2. IsFiniteSet(T) /\ Cardinality(T) <= Cardinality(S) BY <1>1, FS_Subset
<1>3. Cardinality(T) \in Nat /\ Cardinality(S) \in Nat BY <1>1, <1>2, FS_CardinalityType
<1>4. Cardinality(T) <= MemberLimit BY <1>1, <1>2, <1>3, UnionAssumption
<1>. QED BY <1>2, <1>4 DEF T

\* One more member where there is room.
LEMMA OneMoreMember ==
    ASSUME NEW S, NEW t, IsFiniteSet(S), Cardinality(S) < MemberLimit
    PROVE  IsFiniteSet(S \cup {t}) /\ Cardinality(S \cup {t}) <= MemberLimit
<1>1. /\ IsFiniteSet(S \cup {t})
      /\ Cardinality(S \cup {t}) = IF t \in S THEN Cardinality(S) ELSE Cardinality(S) + 1
  BY FS_AddElement
<1>2. Cardinality(S) \in Nat BY FS_CardinalityType
<1>3. MemberLimit \in Nat BY UnionAssumption
<1>. QED BY <1>1, <1>2, <1>3

LEMMA CreateLimit ==
    ASSUME IInv, LInv, NEW r \in Role, Create(r)
    PROVE  WithinLimit'
<1> DEFINE new == [state |-> "Running", Chairman |-> r, ViceChairman |-> NoRole, Members |-> {r}]
<1>1. PICK u \in UnionIds : /\ coalition' = [coalition EXCEPT ![u] = new]
                            /\ unions' = unions \cup {u}
  BY DEF Create
<1>2. new.Members = {r} OBVIOUS
<1>. HIDE DEF new
<1>3. coalition'[u] = new /\ \A v \in UnionIds : v # u => coalition'[v] = coalition[v]
  BY <1>1 DEF IInv, TypeOK
<1>4. IsFiniteSet({r}) /\ Cardinality({r}) <= MemberLimit
  <2>1. IsFiniteSet({}) /\ Cardinality({}) = 0 BY FS_EmptySet
  <2>2. 0 < MemberLimit BY UnionAssumption
  <2>3. {} \cup {r} = {r} OBVIOUS
  <2>. QED BY <2>1, <2>2, <2>3, OneMoreMember
<1>. QED BY <1>1, <1>2, <1>3, <1>4 DEF LInv, WithinLimit, IInv, TypeOK

LEMMA VerifyLimit ==
    ASSUME IInv, SInv, LInv, NEW r \in Role, VerifyActs(r)
    PROVE  WithinLimit'
<1> DEFINE v == verifying[r]
           t == applies[v.id].rid
           u == applies[v.id].union
<1>0. TypeOK /\ unions \subseteq UnionIds BY DEF IInv, TypeOK
<1>1. CASE v.enters /\ u \in unions
  <2>1. v.id \in 1..Len(applies) BY <1>0 DEF VerifyActs, TypeOK
  <2>2. applies[v.id] \in ApplyRec BY <1>0, <2>1 DEF TypeOK
  <2>3. t \in Role /\ u \in UnionIds BY <2>2 DEF ApplyRec
  <2>4. coalition' = [coalition EXCEPT ![u].Members = @ \cup {t}] /\ unions' = unions
    BY <1>1 DEF VerifyActs
  <2>5. Cardinality(coalition[u].Members) < MemberLimit
    BY <1>1 DEF LInv, RoomVerified, VerifyActs
  <2>6. u \in unions BY <1>1
  <2>. HIDE DEF t, u
  <2>7. /\ \A w \in UnionIds : w # u => coalition'[w] = coalition[w]
        /\ coalition'[u].Members = coalition[u].Members \cup {t}
    BY <1>0, <2>3, <2>4, EntersObject
  <2>8. IsFiniteSet(coalition[u].Members) BY <2>6 DEF LInv, WithinLimit
  <2>9. /\ IsFiniteSet(coalition'[u].Members)
        /\ Cardinality(coalition'[u].Members) <= MemberLimit
    <3> DEFINE S == coalition[u].Members
    <3>1. IsFiniteSet(S) /\ Cardinality(S) < MemberLimit BY <2>5, <2>8
    <3>2. coalition'[u].Members = S \cup {t} BY <2>7
    <3>. HIDE DEF S
    <3>3. IsFiniteSet(S \cup {t}) /\ Cardinality(S \cup {t}) <= MemberLimit
      BY <3>1, OneMoreMember
    <3>. QED BY <3>2, <3>3
  <2>. SUFFICES ASSUME NEW w \in unions
               PROVE  /\ IsFiniteSet(coalition'[w].Members)
                      /\ Cardinality(coalition'[w].Members) <= MemberLimit
    BY <2>4 DEF WithinLimit
  <2>10. CASE w = u BY <2>9, <2>10
  <2>11. CASE w # u
    <3>1. coalition'[w] = coalition[w] BY <1>0, <2>7, <2>11
    <3>. QED BY <3>1 DEF LInv, WithinLimit
  <2>. QED BY <2>10, <2>11
<1>2. CASE ~(v.enters /\ u \in unions)
  <2>1. coalition' = coalition /\ unions' = unions BY <1>2 DEF VerifyActs
  <2>. QED BY <2>1, FewerMembers DEF LInv
<1>. QED BY <1>1, <1>2

\* What comes of a start when nothing else is under way.
LEMMA StartLimit ==
    ASSUME IInv, SInv, LInv, Serial, Starts
    PROVE  LInv'
<1>0. TypeOK /\ unions \subseteq UnionIds BY DEF IInv, TypeOK
<1>1. \A r \in Role : verifying[r] = Idle BY DEF Serial
<1>2. ASSUME WithinLimit', UNCHANGED verifying PROVE LInv'
  BY <1>1, <1>2 DEF LInv, RoomVerified
<1>3. ASSUME UNCHANGED verifying,
             \A u \in unions' : u \in unions /\ coalition'[u].Members \subseteq coalition[u].Members
      PROVE  LInv'
  BY <1>2, <1>3, FewerMembers DEF LInv
<1>4. ASSUME NEW r \in Role, Create(r) PROVE LInv'
  BY <1>2, <1>4, CreateLimit DEF Create
<1>5. ASSUME NEW r \in Role, NEW u \in UnionIds, Leaves(r, u), UNCHANGED <<unions, verifying>>
      PROVE  LInv'
  <2>1. \A w \in UnionIds : coalition'[w].Members \subseteq coalition[w].Members
    BY <1>0, <1>5, LeavesObject
  <2>. QED BY <1>0, <1>3, <1>5, <2>1
<1>6. ASSUME NEW t \in Role, NEW u \in UnionIds, OfficersChange(t, u),
             UNCHANGED <<unions, verifying>>
      PROVE  LInv'
  <2>1. \A w \in UnionIds : coalition'[w].Members \subseteq coalition[w].Members
    BY <1>6 DEF OfficersChange
  <2>. QED BY <1>0, <1>3, <1>6, <2>1
<1>7. ASSUME NEW r \in Role, Exit(r) PROVE LInv'
  BY <1>0, <1>5, <1>7 DEF Exit, TypeOK
<1>8. ASSUME NEW r \in Role, NEW t \in Role, Kick(r, t) PROVE LInv'
  BY <1>0, <1>5, <1>8 DEF Kick, TypeOK
<1>9. ASSUME NEW r \in Role, Dismiss(r) PROVE LInv'
  <2>1. /\ UnionId[r] \in UnionIds /\ unions' = unions \ {UnionId[r]} /\ verifying' = verifying
        /\ coalition' = [coalition EXCEPT ![UnionId[r]].state = "Dismiss",
                                          ![UnionId[r]].Members = {}]
    BY <1>0, <1>9 DEF Dismiss
  <2>2. \A w \in UnionIds : w # UnionId[r] => coalition'[w] = coalition[w]
    BY <1>0, <2>1, DismissObject
  <2>. QED BY <1>0, <1>3, <2>1, <2>2
<1>10. ASSUME NEW r \in Role, NEW t \in Role, Abdicate(r, t) PROVE LInv'
  <2>1. UnionId[r] \in UnionIds BY <1>0, <1>10 DEF Abdicate, TypeOK
  <2>2. OfficersChange(t, UnionId[r]) BY <1>0, <1>10, AbdicateObject
  <2>. QED BY <1>6, <1>10, <2>1, <2>2 DEF Abdicate
<1>11. ASSUME NEW r \in Role, NEW t \in Role, NEW title \in {"Vice", "Common"},
              Appoint(r, t, title)
       PROVE  LInv'
  <2>1. UnionId[r] \in UnionIds BY <1>0, <1>11 DEF Appoint, TypeOK
  <2>2. OfficersChange(t, UnionId[r]) BY <1>0, <1>11, AppointObject
  <2>. QED BY <1>6, <1>11, <2>1, <2>2 DEF Appoint
<1>12. ASSUME NEW r \in Role, NEW i \in 1..Len(applies), NEW decide \in {"Adopt", "Refuse"},
              VerifyChecks(r, i, decide)
       PROVE  LInv'
  <2> DEFINE rec == [kind |-> "Verify", id |-> i, decide |-> decide,
                     enters |-> decide = "Adopt" /\ ~IsHasUnion(applies[i].rid)]
  <2>1. /\ verifying' = [verifying EXCEPT ![r] = rec]
        /\ Cardinality(coalition[applies[i].union].Members) < MemberLimit
    BY <1>12 DEF VerifyChecks
  <2>2. UNCHANGED <<coalition, unions, applies>> BY <1>12 DEF VerifyChecks, memory
  <2>3. rec.id = i OBVIOUS
  <2>. HIDE DEF rec
  <2>4. verifying'[r] = rec /\ \A s \in Role : s # r => verifying'[s] = Idle
    BY <1>0, <1>1, <2>1 DEF TypeOK
  <2>5. RoomVerified' BY <2>1, <2>2, <2>3, <2>4 DEF RoomVerified
  <2>6. WithinLimit' BY <2>2, FewerMembers DEF LInv
  <2>. QED BY <2>5, <2>6 DEF LInv
<1>13. ASSUME (\E r \in Role : (\E u \in UnionIds : Join(r, u))
                               \/ (\E t \in Role : BattleBegins(r, t)))
       PROVE  LInv'
  <2>1. UNCHANGED <<coalition, unions, verifying>> BY <1>13 DEF Join, BattleBegins, memory
  <2>. QED BY <1>3, <2>1
<1>. QED
  BY <1>4, <1>7, <1>8, <1>9, <1>10, <1>11, <1>12, <1>13 DEF Starts

LEMMA LimitStep == ~MayCrash /\ IInv /\ SInv /\ LInv /\ [SerialNext]_vars => LInv'
<1> SUFFICES ASSUME ~MayCrash, IInv, SInv, LInv, [SerialNext]_vars PROVE LInv' OBVIOUS
<1>0. TypeOK /\ unions \subseteq UnionIds BY DEF IInv, TypeOK
<1>1. ASSUME WithinLimit', \A r \in Role : verifying'[r] = Idle PROVE LInv'
  BY <1>1 DEF LInv, RoomVerified
<1>2. ASSUME UNCHANGED <<coalition, unions, applies, verifying>> PROVE LInv'
  BY <1>2 DEF LInv, WithinLimit, RoomVerified
<1>3. ASSUME Serial, Starts PROVE LInv' BY <1>3, StartLimit
<1>4. ASSUME NEW r \in Role, VerifyActs(r) PROVE LInv'
  <2>1. verifying[r] # Idle /\ verifying' = [verifying EXCEPT ![r] = Idle]
    BY <1>4 DEF VerifyActs
  <2>2. \A s \in Role : s # r => verifying[s] = Idle BY <2>1 DEF SInv, VerifiesAlone
  <2>. QED BY <1>0, <1>1, <1>4, <2>1, <2>2, VerifyLimit DEF TypeOK
<1>5. ASSUME checkCityOccupy \/ DBWrite \/ UNCHANGED vars PROVE LInv'
  BY <1>2, <1>5 DEF checkCityOccupy, DBWrite, vars, memory
<1>6. ASSUME Restart PROVE LInv'
  <2>1. queue = << >> /\ coalition' = saved /\ \A r \in Role : verifying'[r] = Idle
    BY <1>6 DEF Restart
  <2>2. unions' = unions BY <1>6, <2>1, RestartAgrees DEF SInv
  <2>3. \A u \in UnionIds : saved[u].Members = coalition[u].Members
    BY <2>1 DEF SInv, Agreement, RowsAlike, Waits
  <2>4. WithinLimit' BY <1>0, <2>1, <2>2, <2>3, FewerMembers DEF LInv
  <2>. QED BY <1>1, <2>1, <2>4
<1>. QED BY <1>3, <1>4, <1>5, <1>6 DEF SerialNext, Completes

LEMMA LimitInvariance ==
    ASSUME ~MayCrash
    PROVE  SerialSpec => [](IInv /\ SInv /\ LInv)
<1>1. Init => LInv BY DEF Init, LInv, WithinLimit, RoomVerified
<1>2. IInv /\ SInv /\ LInv /\ [SerialNext]_vars => LInv' BY LimitStep
<1>. QED BY <1>1, <1>2, SerialInvariance, PTL DEF SerialSpec

\* There, no union ever has more members than MemberLimit: join and verify look
\* at the limit before, and act later (coalition.go:128 and :191).
THEOREM UnionsAreNotOverfull ==
    ASSUME ~MayCrash
    PROVE  SerialSpec => []WithinLimit
<1>1. LInv => WithinLimit BY DEF LInv
<1>. QED BY <1>1, LimitInvariance, PTL

-----------------------------------------------------------------------------
(* What Membership sees of a step. *)

Gone == {u \in UnionIds : coalition[u].state = "Dismiss"}
Seen == <<unions, Gone, UnionId, ParentId>>

LEMMA GoneSame ==
    ASSUME \A u \in UnionIds : coalition'[u].state = coalition[u].state
    PROVE  Gone' = Gone
BY DEF Gone

LEMMA SeenIsMembership == UNCHANGED Seen => UNCHANGED Abstract!membership
BY DEF Seen, Gone, Abstract!membership

\* A new id is of no union there is or was, and nobody is its captive.
LEMMA CreateFounds ==
    ASSUME IInv, NEW r \in Role, Create(r)
    PROVE  \E u \in UnionIds : Abstract!Found(r, u)
<1> DEFINE new == [state |-> "Running", Chairman |-> r, ViceChairman |-> NoRole, Members |-> {r}]
<1>0. TypeOK BY DEF IInv
<1>1. PICK u \in UnionIds : /\ coalition[u].state = "None"
                            /\ coalition' = [coalition EXCEPT ![u] = new]
                            /\ unions' = unions \cup {u}
                            /\ MemberEnter(r, u)
  BY DEF Create
<1>2. new.state = "Running" OBVIOUS
<1>. HIDE DEF new
<1>3. coalition'[u] = new /\ \A v \in UnionIds : v # u => coalition'[v] = coalition[v]
  BY <1>0, <1>1 DEF TypeOK
<1>4. \A v \in UnionIds : coalition'[v].state = "Dismiss" <=> coalition[v].state = "Dismiss"
  BY <1>1, <1>2, <1>3
<1>5. Gone' = Gone BY <1>4 DEF Gone
<1>6. u \notin unions BY <1>1 DEF IInv, RowsRun
<1>7. u \notin Gone BY <1>1 DEF Gone
<1>8. ParentId[r] # u BY <1>6, ZeroIsNoUnion DEF IInv, CaptorKnows
<1>9. UnionId' = [UnionId EXCEPT ![r] = u] /\ ParentId' = ParentId
  BY <1>1, <1>8 DEF MemberEnter
<1>10. UnionId[r] = NoUnion BY DEF Create, IsHasUnion
<1>. QED BY <1>1, <1>5, <1>6, <1>7, <1>9, <1>10 DEF Abstract!Found, Gone

LEMMA LeavesLeaves ==
    ASSUME IInv, NEW r \in Role, NEW u \in UnionIds, Leaves(r, u), UnionId[r] = u,
           UNCHANGED <<unions, ParentId>>
    PROVE  Abstract!Leave(r)
<1>1. Gone' = Gone
  <2>1. /\ \A v \in UnionIds : v # u => coalition'[v] = coalition[v]
        /\ coalition'[u].state = coalition[u].state
    BY LeavesObject DEF IInv
  <2>. QED BY <2>1, GoneSame
<1>2. UnionId' = [UnionId EXCEPT ![r] = NoUnion] BY DEF Leaves
<1>3. UnionId[r] # NoUnion BY ZeroIsNoUnion
<1>. QED BY <1>1, <1>2, <1>3 DEF Abstract!Leave, Gone

\* Its members are those whose UnionId it is, and its captives are in its list.
LEMMA DismissDissolves ==
    ASSUME IInv, SInv, NEW r \in Role, Dismiss(r)
    PROVE  \E u \in UnionIds : Abstract!Dissolve(u)
<1>0. TypeOK BY DEF IInv
<1>. PICK u \in UnionIds : u = UnionId[r] BY <1>0 DEF Dismiss, TypeOK
<1>1. /\ u \in unions /\ unions' = unions \ {u}
      /\ UnionId' = [s \in Role |-> IF s \in coalition[u].Members THEN NoUnion ELSE UnionId[s]]
      /\ DelUnionAllChild(u)
      /\ coalition' = [coalition EXCEPT ![u].state = "Dismiss", ![u].Members = {}]
  BY DEF Dismiss
<1>2. \A s \in Role : s \in coalition[u].Members <=> UnionId[s] = u
  <2>1. \A s \in Role : s \in coalition[u].Members => UnionId[s] = u
    BY <1>1 DEF SInv, Agreement, ListedBelong
  <2>2. \A s \in Role : UnionId[s] = u => s \in coalition[u].Members
    BY <1>1, OwnUnion, ZeroIsNoUnion
  <2>. QED BY <2>1, <2>2
<1>3. UnionId' = [s \in Role |-> IF UnionId[s] = u THEN NoUnion ELSE UnionId[s]]
  BY <1>1, <1>2
<1>4. Gone' = Gone \cup {u}
  <2>1. /\ \A v \in UnionIds : v # u => coalition'[v] = coalition[v]
        /\ coalition'[u].state = "Dismiss"
    BY <1>0, <1>1, DismissObject
  <2>. QED BY <1>1, <2>1 DEF Gone
<1>5. children[u] \in SUBSET Role BY <1>0, <1>1 DEF TypeOK
<1>6. \A s \in Role : ParentId[s] = u => s \in children[u]
  BY <1>1, ZeroIsNoUnion DEF IInv, CaptorKnows
<1>7. ParentId' = [s \in Role |-> IF ParentId[s] = u \/ s \in children[u] THEN NoUnion
                                  ELSE ParentId[s]]
  BY <1>1, <1>6 DEF DelUnionAllChild
<1>8. Abstract!Dissolve(u) BY <1>1, <1>3, <1>4, <1>5, <1>7 DEF Abstract!Dissolve, Gone
<1>. QED BY <1>1, <1>8

\* What was checked is still so: the applicant is in no union and there is room.
LEMMA VerifyEnters ==
    ASSUME IInv, SInv, LInv, NEW r \in Role, VerifyActs(r)
    PROVE  (\E t \in Role, u \in UnionIds : Abstract!Enter(t, u)) \/ UNCHANGED Seen
<1> DEFINE v == verifying[r]
           t == applies[v.id].rid
           u == applies[v.id].union
<1>0. TypeOK BY DEF IInv
<1>1. CASE v.enters /\ u \in unions
  <2>1. v.id \in 1..Len(applies) BY <1>0 DEF VerifyActs, TypeOK
  <2>2. applies[v.id] \in ApplyRec BY <1>0, <2>1 DEF TypeOK
  <2>3. t \in Role /\ u \in UnionIds BY <2>2 DEF ApplyRec
  <2>4. /\ coalition' = [coalition EXCEPT ![u].Members = @ \cup {t}]
        /\ unions' = unions /\ MemberEnter(t, u)
    BY <1>1 DEF VerifyActs
  <2>5. /\ Cardinality(coalition[u].Members) < MemberLimit
        /\ UnionId[t] = NoUnion /\ u \in unions
    BY <1>1 DEF LInv, RoomVerified, SInv, VerifiesAlone, IsHasUnion, VerifyActs
  <2>. HIDE DEF t, u
  <2>6. Gone' = Gone
    <3>1. /\ \A w \in UnionIds : w # u => coalition'[w] = coalition[w]
          /\ coalition'[u].state = coalition[u].state
      BY <1>0, <2>3, <2>4, EntersObject
    <3>. QED BY <3>1, GoneSame
  <2>7. Abstract!MembersOf(u) = coalition[u].Members
    <3>1. \A s \in Role : s \in coalition[u].Members => UnionId[s] = u
      BY <2>5 DEF SInv, Agreement, ListedBelong
    <3>2. \A s \in Role : UnionId[s] = u => s \in coalition[u].Members
      BY <2>3, OwnUnion, ZeroIsNoUnion
    <3>3. coalition[u].Members \subseteq Role BY <1>0, <2>3 DEF TypeOK, CoalitionRec
    <3>. QED BY <3>1, <3>2, <3>3 DEF Abstract!MembersOf
  <2>8. Cardinality(Abstract!MembersOf(u)) < MemberLimit BY <2>5, <2>7
  <2>9. ParentId' = [ParentId EXCEPT ![t] = IF @ = u THEN NoUnion ELSE @]
    BY <1>0, <2>3, <2>4 DEF MemberEnter, TypeOK
  <2>10. UnionId' = [UnionId EXCEPT ![t] = u] BY <2>4 DEF MemberEnter
  <2>11. Abstract!Enter(t, u)
    BY <2>4, <2>5, <2>6, <2>8, <2>9, <2>10 DEF Abstract!Enter, Gone, Abstract!Cardinality, Cardinality
  <2>. QED BY <2>3, <2>11
<1>2. CASE ~(v.enters /\ u \in unions)
  <2>1. UNCHANGED <<coalition, unions, UnionId, ParentId>> BY <1>2 DEF VerifyActs
  <2>. QED BY <2>1 DEF Seen, Gone
<1>. QED BY <1>1, <1>2

\* The two of a battle are of different unions, and the victor's runs.
LEMMA CityCaptures ==
    ASSUME IInv, SInv, checkCityOccupy
    PROVE  (\E t \in Role, u \in UnionIds : Abstract!Capture(t, u)) \/ UNCHANGED Seen
<1> DEFINE a == capturing.attacker
           d == capturing.defender
<1>0. TypeOK BY DEF IInv
<1>1. a \in Role /\ d \in Role BY <1>0 DEF checkCityOccupy, TypeOK, CaptureRec
<1>2. /\ UNCHANGED <<coalition, unions, UnionId>>
      /\ UnionId[d] # NoUnion => UnionId[d] # UnionId[a]
  BY DEF checkCityOccupy, SInv, CapturesAlone
<1>3. \/ UNCHANGED ParentId
      \/ UnionId[a] # NoUnion /\ ParentId' = [ParentId EXCEPT ![d] = UnionId[a]]
  BY DEF checkCityOccupy
<1>. HIDE DEF a, d
<1>4. Gone' = Gone BY <1>2 DEF Gone
<1>5. CASE UNCHANGED ParentId BY <1>2, <1>4, <1>5 DEF Seen
<1>6. CASE UnionId[a] # NoUnion /\ ParentId' = [ParentId EXCEPT ![d] = UnionId[a]]
  <2>1. UnionId[a] \in UnionIds /\ UnionId[a] \in unions BY <1>1, <1>6, OwnUnion
  <2>2. Abstract!Capture(d, UnionId[a])
    BY <1>2, <1>4, <1>6, <2>1 DEF Abstract!Capture, Gone
  <2>. QED BY <1>1, <2>1, <2>2
<1>. QED BY <1>3, <1>5, <1>6

\* What comes of a start when nothing else is under way.
LEMMA StartMaps ==
    ASSUME IInv, SInv, Starts
    PROVE  Abstract!Next \/ UNCHANGED Seen
<1>0. TypeOK BY DEF IInv
<1>1. ASSUME NEW r \in Role, Abstract!Leave(r) PROVE Abstract!Next
  BY <1>1 DEF Abstract!Next
<1>2. ASSUME NEW t \in Role, NEW u \in UnionIds, OfficersChange(t, u),
             UNCHANGED <<unions, UnionId, ParentId>>
      PROVE  UNCHANGED Seen
  <2>1. Gone' = Gone BY <1>2, GoneSame DEF OfficersChange
  <2>. QED BY <1>2, <2>1 DEF Seen
<1>3. ASSUME NEW r \in Role, Create(r) PROVE Abstract!Next
  BY <1>3, CreateFounds DEF Abstract!Next
<1>4. ASSUME NEW r \in Role, Exit(r) PROVE Abstract!Next
  <2>1. UnionId[r] \in UnionIds BY <1>0, <1>4 DEF Exit, TypeOK
  <2>. QED BY <1>1, <1>4, <2>1, LeavesLeaves DEF Exit
<1>5. ASSUME NEW r \in Role, NEW t \in Role, Kick(r, t) PROVE Abstract!Next
  <2>1. UnionId[r] \in UnionIds BY <1>0, <1>5 DEF Kick, TypeOK
  <2>. QED BY <1>1, <1>5, <2>1, LeavesLeaves DEF Kick
<1>6. ASSUME NEW r \in Role, Dismiss(r) PROVE Abstract!Next
  BY <1>6, DismissDissolves DEF Abstract!Next
<1>7. ASSUME NEW r \in Role, NEW t \in Role, Abdicate(r, t) PROVE UNCHANGED Seen
  <2>1. UnionId[r] \in UnionIds BY <1>0, <1>7 DEF Abdicate, TypeOK
  <2>2. OfficersChange(t, UnionId[r]) BY <1>0, <1>7, AbdicateObject
  <2>. QED BY <1>2, <1>7, <2>1, <2>2 DEF Abdicate
<1>8. ASSUME NEW r \in Role, NEW t \in Role, NEW title \in {"Vice", "Common"},
             Appoint(r, t, title)
      PROVE  UNCHANGED Seen
  <2>1. UnionId[r] \in UnionIds BY <1>0, <1>8 DEF Appoint, TypeOK
  <2>2. OfficersChange(t, UnionId[r]) BY <1>0, <1>8, AppointObject
  <2>. QED BY <1>2, <1>8, <2>1, <2>2 DEF Appoint
<1>9. ASSUME \E r \in Role :
                 \/ \E u \in UnionIds : Join(r, u)
                 \/ \E t \in Role : BattleBegins(r, t)
                 \/ \E i \in 1..Len(applies), decide \in {"Adopt", "Refuse"} :
                        VerifyChecks(r, i, decide)
      PROVE  UNCHANGED Seen
  <2>1. UNCHANGED <<coalition, unions, UnionId, ParentId>>
    BY <1>9 DEF Join, BattleBegins, VerifyChecks, memory
  <2>. QED BY <2>1 DEF Seen, Gone
<1>. QED BY <1>3, <1>4, <1>5, <1>6, <1>7, <1>8, <1>9 DEF Starts

LEMMA StepMaps ==
    ASSUME IInv, SInv, LInv, ~MayCrash, [SerialNext]_vars
    PROVE  Abstract!Next \/ UNCHANGED Seen
<1>1. CASE Starts BY <1>1, StartMaps
<1>2. ASSUME NEW r \in Role, VerifyActs(r) PROVE Abstract!Next \/ UNCHANGED Seen
  BY <1>2, VerifyEnters DEF Abstract!Next
<1>3. CASE checkCityOccupy BY <1>3, CityCaptures DEF Abstract!Next
<1>4. CASE DBWrite \/ UNCHANGED vars
  BY <1>4 DEF DBWrite, vars, memory, Seen, Gone
<1>5. CASE Restart
  <2>1. queue = << >> /\ coalition' = saved /\ ParentId' = ParentId BY <1>5 DEF Restart
  <2>2. UnionId' = UnionId /\ unions' = unions BY <1>5, <2>1, RestartAgrees DEF SInv
  <2>3. \A u \in UnionIds : saved[u].state = coalition[u].state
    BY <2>1 DEF SInv, Agreement, RowsAlike, Waits
  <2>4. Gone' = Gone BY <2>1, <2>3, GoneSame
  <2>. QED BY <2>1, <2>2, <2>4 DEF Seen
<1>. QED BY <1>1, <1>2, <1>3, <1>4, <1>5 DEF SerialNext, Completes

\* The unions keep the promise of Membership: whoever founds or enters one is in
\* none and finds room, dissolving one leaves no member and no captive behind,
\* captives are never of the own union, and neither the writer of the database
\* nor a restart changes any of this.
THEOREM KeepsThePromise ==
    ASSUME ~MayCrash
    PROVE  SerialSpec => PromiseKept
<1>1. Init => Abstract!Init
  <2> SUFFICES ASSUME Init PROVE Abstract!Init OBVIOUS
  <2>1. \A u \in UnionIds : coalition[u] = NoCoalition BY DEF Init
  <2>2. NoCoalition.state = "None" BY DEF NoCoalition
  <2>3. Gone = {} BY <2>1, <2>2 DEF Gone
  <2>. QED BY <2>3 DEF Init, Abstract!Init, Gone
<1>2. IInv /\ SInv /\ LInv /\ [SerialNext]_vars => [Abstract!Next]_(Abstract!membership)
  BY StepMaps, SeenIsMembership
<1>. QED BY <1>1, <1>2, LimitInvariance, PTL DEF SerialSpec, PromiseKept, Abstract!Spec

-----------------------------------------------------------------------------
(* The chairman.  That somebody kicks the chairman is the only way to a     *)
(* chairman who is no member: see ChairmanStays.                           *)

\* Next without such a kick.
Respects == \A r, t \in Role : Kick(r, t) => t # coalition[UnionId[r]].Chairman
RespectSpec == Init /\ [][Next /\ Respects]_vars

\* A union on its own: a running one lists its chairman.  As a restart makes
\* objects of the rows the same must hold of these.
ChairListed(c) == c.state = "Running" => c.Chairman \in c.Members
CInv == \A u \in UnionIds : ChairListed(coalition[u]) /\ ChairListed(saved[u])

\* A step that changes one object, and rows to what their objects are.
LEMMA OneChair ==
    ASSUME CInv, NEW u \in UnionIds, ChairListed(coalition'[u]),
           \A v \in UnionIds : v # u => coalition'[v] = coalition[v],
           \A v \in UnionIds : saved'[v] = saved[v] \/ saved'[v] = coalition'[v]
    PROVE  CInv'
<1>1. \A v \in UnionIds : ChairListed(coalition'[v]) BY DEF CInv
<1>2. \A v \in UnionIds : ChairListed(saved'[v]) BY <1>1 DEF CInv
<1>. QED BY <1>1, <1>2 DEF CInv, ChairListed

LEMMA ChairStep == IInv /\ CInv /\ [Next /\ Respects]_vars => CInv'
<1> SUFFICES ASSUME IInv, CInv, [Next /\ Respects]_vars PROVE CInv' OBVIOUS
<1>0. TypeOK BY DEF IInv
<1>1. ASSUME UNCHANGED <<coalition, saved>> PROVE CInv'
  BY <1>1 DEF CInv
<1>2. ASSUME NEW r \in Role, Create(r) PROVE CInv'
  <2> DEFINE new == [state |-> "Running", Chairman |-> r, ViceChairman |-> NoRole, Members |-> {r}]
  <2>1. PICK u \in UnionIds : /\ coalition' = [coalition EXCEPT ![u] = new]
                              /\ saved' = [saved EXCEPT ![u] = coalition'[u]]
    BY <1>2 DEF Create
  <2>2. ChairListed(new) BY DEF ChairListed
  <2>. HIDE DEF new
  <2>3. coalition'[u] = new /\ \A v \in UnionIds : v # u => coalition'[v] = coalition[v]
    BY <1>0, <2>1 DEF TypeOK
  <2>4. \A v \in UnionIds : saved'[v] = saved[v] \/ saved'[v] = coalition'[v]
    BY <1>0, <2>1 DEF TypeOK
  <2>. QED BY <2>2, <2>3, <2>4, OneChair
<1>3. ASSUME NEW t \in Role, NEW u \in UnionIds, Leaves(t, u), coalition[u].Chairman # t
      PROVE  CInv'
  <2>1. \A v \in UnionIds : saved'[v] = saved[v] \/ saved'[v] = coalition'[v]
    BY <1>0, <1>3, LeavesObject, HandedOver DEF Leaves
  <2>2. /\ \A v \in UnionIds : v # u => coalition'[v] = coalition[v]
        /\ coalition'[u].state = coalition[u].state
        /\ coalition'[u].Members = coalition[u].Members \ {t}
        /\ coalition'[u].Chairman = coalition[u].Chairman
    BY <1>0, <1>3, LeavesObject
  <2>3. ChairListed(coalition'[u]) BY <1>3, <2>2 DEF CInv, ChairListed
  <2>. QED BY <2>1, <2>2, <2>3, OneChair
<1>4. ASSUME NEW t \in Role, NEW u \in UnionIds, OfficersChange(t, u), UnionId[t] = u,
             \A v \in UnionIds : saved'[v] = saved[v] \/ saved'[v] = coalition'[v]
      PROVE  CInv'
  <2>1. t \in coalition[u].Members BY <1>4, OwnUnion, ZeroIsNoUnion
  <2>2. ChairListed(coalition'[u]) BY <1>4, <2>1 DEF CInv, ChairListed, OfficersChange
  <2>. QED BY <1>4, <2>2, OneChair DEF OfficersChange
<1>5. ASSUME NEW r \in Role, Exit(r) PROVE CInv'
  <2>1. UnionId[r] \in UnionIds BY <1>0, <1>5 DEF Exit, TypeOK
  <2>. QED BY <1>3, <1>5, <2>1 DEF Exit
<1>6. ASSUME NEW r \in Role, NEW t \in Role, Kick(r, t), Respects PROVE CInv'
  <2>1. UnionId[r] \in UnionIds BY <1>0, <1>6 DEF Kick, TypeOK
  <2>2. coalition[UnionId[r]].Chairman # t BY <1>6 DEF Respects
  <2>. QED BY <1>3, <1>6, <2>1, <2>2 DEF Kick
<1>7. ASSUME NEW r \in Role, Dismiss(r) PROVE CInv'
  <2>1. PICK u \in UnionIds :
            /\ coalition' = [coalition EXCEPT ![u].state = "Dismiss", ![u].Members = {}]
            /\ SyncExecute(u)
    BY <1>0, <1>7 DEF Dismiss, TypeOK
  <2>2. /\ coalition' \in [UnionIds -> CoalitionRec]
        /\ \A v \in UnionIds : v # u => coalition'[v] = coalition[v]
        /\ coalition'[u].state = "Dismiss"
    BY <1>0, <2>1, DismissObject
  <2>3. \A v \in UnionIds : saved'[v] = saved[v] \/ saved'[v] = coalition'[v]
    BY <1>0, <2>1, <2>2, HandedOver
  <2>4. ChairListed(coalition'[u]) BY <2>2 DEF ChairListed
  <2>. QED BY <2>2, <2>3, <2>4, OneChair
<1>8. ASSUME NEW r \in Role, NEW t \in Role, Abdicate(r, t) PROVE CInv'
  <2>1. UnionId[r] \in UnionIds /\ UnionId[t] = UnionId[r] /\ SyncExecute(UnionId[r])
    BY <1>0, <1>8 DEF Abdicate, TypeOK
  <2>2. OfficersChange(t, UnionId[r]) BY <1>0, <1>8, AbdicateObject
  <2>3. \A v \in UnionIds : saved'[v] = saved[v] \/ saved'[v] = coalition'[v]
    BY <1>0, <2>1, <2>2, HandedOver DEF OfficersChange
  <2>. QED BY <1>4, <2>1, <2>2, <2>3
<1>9. ASSUME NEW r \in Role, NEW t \in Role, NEW title \in {"Vice", "Common"},
             Appoint(r, t, title)
      PROVE  CInv'
  <2>1. /\ UnionId[r] \in UnionIds /\ UnionId[t] = UnionId[r]
        /\ SyncExecute(UnionId[r]) \/ UNCHANGED saved
    BY <1>0, <1>9 DEF Appoint, TypeOK
  <2>2. OfficersChange(t, UnionId[r]) BY <1>0, <1>9, AppointObject
  <2>3. \A v \in UnionIds : saved'[v] = saved[v] \/ saved'[v] = coalition'[v]
    <3>1. CASE SyncExecute(UnionId[r])
      BY <1>0, <2>1, <2>2, <3>1, HandedOver DEF OfficersChange
    <3>2. CASE UNCHANGED saved BY <3>2
    <3>. QED BY <2>1, <3>1, <3>2
  <2>. QED BY <1>4, <2>1, <2>2, <2>3
<1>10. ASSUME NEW r \in Role, VerifyActs(r) PROVE CInv'
  <2> DEFINE v == verifying[r]
             t == applies[v.id].rid
             u == applies[v.id].union
  <2>1. CASE v.enters /\ u \in unions
    <3>1. v.id \in 1..Len(applies) BY <1>0, <1>10 DEF VerifyActs, TypeOK
    <3>2. applies[v.id] \in ApplyRec BY <1>0, <3>1 DEF TypeOK
    <3>3. t \in Role /\ u \in UnionIds BY <3>2 DEF ApplyRec
    <3>4. coalition' = [coalition EXCEPT ![u].Members = @ \cup {t}] /\ SyncExecute(u)
      BY <1>10, <2>1 DEF VerifyActs
    <3>. HIDE DEF t, u
    <3>5. /\ coalition' \in [UnionIds -> CoalitionRec]
          /\ \A w \in UnionIds : w # u => coalition'[w] = coalition[w]
          /\ coalition'[u].state = coalition[u].state
          /\ coalition'[u].Members = coalition[u].Members \cup {t}
          /\ coalition'[u].Chairman = coalition[u].Chairman
      BY <1>0, <3>3, <3>4, EntersObject
    <3>6. \A w \in UnionIds : saved'[w] = saved[w] \/ saved'[w] = coalition'[w]
      BY <1>0, <3>3, <3>4, <3>5, HandedOver
    <3>7. ChairListed(coalition'[u]) BY <3>3, <3>5 DEF CInv, ChairListed
    <3>. QED BY <3>3, <3>5, <3>6, <3>7, OneChair
  <2>2. CASE ~(v.enters /\ u \in unions)
    <3>1. UNCHANGED <<coalition, saved>> BY <1>10, <2>2 DEF VerifyActs
    <3>. QED BY <1>1, <3>1
  <2>. QED BY <2>1, <2>2
<1>11. ASSUME DBWrite PROVE CInv'
  <2>1. coalition' = coalition /\ saved' \in [UnionIds -> CoalitionRec]
        /\ \A v \in UnionIds : saved'[v] = saved[v] \/ saved'[v] = coalition'[v]
    BY <1>0, <1>11 DEF DBWrite, memory, TypeOK
  <2>. QED BY <2>1 DEF CInv, ChairListed
<1>12. ASSUME Restart PROVE CInv'
  BY <1>12 DEF Restart, CInv
<1>13. ASSUME NEW r \in Role, \/ \E u \in UnionIds : Join(r, u)
                              \/ \E t \in Role : BattleBegins(r, t)
                              \/ \E i \in 1..Len(applies), decide \in {"Adopt", "Refuse"} :
                                    VerifyChecks(r, i, decide)
       PROVE  CInv'
  <2>1. UNCHANGED <<coalition, saved>>
    BY <1>13 DEF Join, BattleBegins, VerifyChecks, memory
  <2>. QED BY <1>1, <2>1
<1>14. ASSUME checkCityOccupy \/ UNCHANGED vars PROVE CInv'
  <2>1. UNCHANGED <<coalition, saved>> BY <1>14 DEF checkCityOccupy, vars, memory
  <2>. QED BY <1>1, <2>1
<1>15. ASSUME Starts, Respects PROVE CInv'
  BY <1>2, <1>5, <1>6, <1>7, <1>8, <1>9, <1>13, <1>15 DEF Starts
<1>. QED BY <1>10, <1>11, <1>12, <1>14, <1>15 DEF Next, Completes

\* ChairmanStays, but for the kick of a chairman (coalition.go:487 lets the vice
\* chairman do it): the chairman of a running union is a member of it, however
\* chairs are handed over, handlers overlap and whenever the server crashes.
THEOREM OnlyAKickUnseats == RespectSpec => []ChairmanStays
<1>1. Init => CInv
  BY DEF Init, CInv, ChairListed, NoCoalition
<1>2. [Next /\ Respects]_vars => [Next]_vars OBVIOUS
<1>3. RespectSpec => Spec BY <1>2, PTL DEF RespectSpec, Spec
<1>4. IInv /\ CInv => ChairmanStays
  <2>1. TypeOK => unions \subseteq UnionIds BY DEF TypeOK
  <2>. QED BY <2>1 DEF IInv, RowsRun, CInv, ChairListed, ChairmanStays
<1>. QED BY <1>1, <1>3, <1>4, ChairStep, Invariance, PTL DEF RespectSpec

-----------------------------------------------------------------------------
(* The lists of captives.  That a captive of one union is taken by another *)
(* one is the only way into two lists: see ChildrenAreCaptives.            *)

\* Next without such a capture.
NoRecapture ==
    checkCityOccupy =>
        LET d == capturing.defender IN ParentId[d] # NoUnion => ParentId'[d] = ParentId[d]
FirstCaptureSpec == Init /\ [][Next /\ NoRecapture]_vars

LEMMA ChildrenStep ==
    IInv /\ ChildrenAreCaptives /\ [Next /\ NoRecapture]_vars => ChildrenAreCaptives'
<1> SUFFICES ASSUME IInv, ChildrenAreCaptives, [Next /\ NoRecapture]_vars
             PROVE  ChildrenAreCaptives'
  OBVIOUS
<1>0. TypeOK BY DEF IInv
<1>1. ASSUME UNCHANGED <<ParentId, children>> PROVE ChildrenAreCaptives'
  BY <1>1 DEF ChildrenAreCaptives
<1>2. ASSUME NEW t \in Role, NEW u \in UnionIds, MemberEnter(t, u) PROVE ChildrenAreCaptives'
  <2>1. CASE ParentId[t] = u
    <3>1. /\ ParentId' = [ParentId EXCEPT ![t] = NoUnion]
          /\ children' = [children EXCEPT ![u] = @ \ {t}]
      BY <1>2, <2>1 DEF MemberEnter
    <3> SUFFICES ASSUME NEW v \in UnionIds, NEW s \in Role, s \in children'[v]
                 PROVE  ParentId'[s] = v
      BY DEF ChildrenAreCaptives
    <3>2. s \in children[v] /\ (v = u => s # t) BY <1>0, <3>1 DEF TypeOK
    <3>3. ParentId[s] = v BY <3>2 DEF ChildrenAreCaptives
    <3>4. s # t BY <2>1, <3>2, <3>3
    <3>. QED BY <1>0, <3>1, <3>3, <3>4 DEF TypeOK
  <2>2. CASE ParentId[t] # u BY <1>1, <1>2, <2>2 DEF MemberEnter
  <2>. QED BY <2>1, <2>2
<1>3. ASSUME NEW r \in Role, Create(r) PROVE ChildrenAreCaptives'
  <2>1. PICK u \in UnionIds : MemberEnter(r, u) BY <1>3 DEF Create
  <2>. QED BY <1>2, <2>1
<1>4. ASSUME NEW r \in Role, Dismiss(r) PROVE ChildrenAreCaptives'
  <2>1. PICK u \in UnionIds : DelUnionAllChild(u) BY <1>0, <1>4 DEF Dismiss, TypeOK
  <2>2. /\ ParentId' = [s \in Role |-> IF s \in children[u] THEN NoUnion ELSE ParentId[s]]
        /\ children' = [children EXCEPT ![u] = {}]
    BY <2>1 DEF DelUnionAllChild
  <2> SUFFICES ASSUME NEW v \in UnionIds, NEW s \in Role, s \in children'[v]
               PROVE  ParentId'[s] = v
    BY DEF ChildrenAreCaptives
  <2>3. v # u /\ s \in children[v] BY <1>0, <2>2 DEF TypeOK
  <2>4. ParentId[s] = v BY <2>3 DEF ChildrenAreCaptives
  <2>5. s \notin children[u] BY <2>3, <2>4 DEF ChildrenAreCaptives
  <2>. QED BY <2>2, <2>4, <2>5
<1>5. ASSUME NEW r \in Role, VerifyActs(r) PROVE ChildrenAreCaptives'
  <2> DEFINE v == verifying[r]
             t == applies[v.id].rid
             u == applies[v.id].union
  <2>1. CASE v.enters /\ u \in unions
    <3>1. v.id \in 1..Len(applies) BY <1>0, <1>5 DEF VerifyActs, TypeOK
    <3>2. applies[v.id] \in ApplyRec BY <1>0, <3>1 DEF TypeOK
    <3>3. t \in Role /\ u \in UnionIds BY <3>2 DEF ApplyRec
    <3>4. MemberEnter(t, u) BY <1>5, <2>1 DEF VerifyActs
    <3>. QED
      <4>1. PICK t1 \in Role, u1 \in UnionIds : t1 = t /\ u1 = u BY <3>3
      <4>2. MemberEnter(t1, u1) BY <3>4, <4>1 DEF MemberEnter
      <4>. QED BY <1>2, <4>2
  <2>2. CASE ~(v.enters /\ u \in unions)
    <3>1. UNCHANGED <<ParentId, children>> BY <1>5, <2>2 DEF VerifyActs
    <3>. QED BY <1>1, <3>1
  <2>. QED BY <2>1, <2>2
<1>6. ASSUME checkCityOccupy, NoRecapture PROVE ChildrenAreCaptives'
  <2> DEFINE u == UnionId[capturing.attacker]
             d == capturing.defender
  <2>1. /\ d \in Role
        /\ u \in UnionIds \cup {NoUnion}
    BY <1>0, <1>6 DEF checkCityOccupy, TypeOK, CaptureRec
  <2>2. CASE UNCHANGED <<ParentId, children>> BY <1>1, <2>2
  <2>3. CASE /\ u # NoUnion
             /\ ParentId' = [ParentId EXCEPT ![d] = u]
             /\ children' = [children EXCEPT ![u] = @ \cup {d}]
    <3>1. ParentId[d] \in {NoUnion, u} BY <1>0, <1>6, <2>1, <2>3 DEF NoRecapture, TypeOK
    <3>. HIDE DEF u, d
    <3> SUFFICES ASSUME NEW v \in UnionIds, NEW s \in Role, s \in children'[v]
                 PROVE  ParentId'[s] = v
      BY DEF ChildrenAreCaptives
    <3>2. s \in children[v] \/ (v = u /\ s = d) BY <1>0, <2>1, <2>3 DEF TypeOK
    <3>3. CASE v = u /\ s = d BY <1>0, <2>1, <2>3, <3>3 DEF TypeOK
    <3>4. CASE s \in children[v]
      <4>1. ParentId[s] = v BY <3>4 DEF ChildrenAreCaptives
      <4>2. s = d => v = u BY <3>1, <4>1, ZeroIsNoUnion
      <4>. QED BY <1>0, <2>1, <2>3, <4>1, <4>2 DEF TypeOK
    <3>. QED BY <3>2, <3>3, <3>4
  <2>4. \/ UNCHANGED <<ParentId, children>>
        \/ /\ u # NoUnion
           /\ ParentId' = [ParentId EXCEPT ![d] = u]
           /\ children' = [children EXCEPT ![u] = @ \cup {d}]
    BY <1>6 DEF checkCityOccupy
  <2>. QED BY <2>2, <2>3, <2>4
<1>7. ASSUME Restart PROVE ChildrenAreCaptives'
  BY <1>7 DEF Restart, ChildrenAreCaptives
<1>8. ASSUME NEW r \in Role,
             \/ Exit(r)
             \/ \E u \in UnionIds : Join(r, u)
             \/ \E i \in 1..Len(applies), decide \in {"Adopt", "Refuse"} : VerifyChecks(r, i, decide)
             \/ \E t \in Role : \/ Kick(r, t) \/ Abdicate(r, t) \/ BattleBegins(r, t)
                                \/ \E title \in {"Vice", "Common"} : Appoint(r, t, title)
      PROVE  ChildrenAreCaptives'
  <2>1. UNCHANGED <<ParentId, children>>
    <3>1. CASE Exit(r) BY <3>1 DEF Exit
    <3>2. CASE \E u \in UnionIds : Join(r, u) BY <3>2 DEF Join, memory
    <3>3. CASE \E i \in 1..Len(applies), decide \in {"Adopt", "Refuse"} :
                   VerifyChecks(r, i, decide)
      BY <3>3 DEF VerifyChecks, memory
    <3>4. CASE \E t \in Role : Kick(r, t) BY <3>4 DEF Kick
    <3>5. CASE \E t \in Role : Abdicate(r, t) BY <3>5 DEF Abdicate
    <3>6. CASE \E t \in Role : BattleBegins(r, t) BY <3>6 DEF BattleBegins, memory
    <3>7. CASE \E t \in Role, title \in {"Vice", "Common"} : Appoint(r, t, title)
      BY <3>7 DEF Appoint
    <3>. QED BY <1>8, <3>1, <3>2, <3>3, <3>4, <3>5, <3>6, <3>7
  <2>. QED BY <1>1, <2>1
<1>9. ASSUME DBWrite \/ UNCHANGED vars PROVE ChildrenAreCaptives'
  <2>1. UNCHANGED <<ParentId, children>> BY <1>9 DEF DBWrite, vars, memory
  <2>. QED BY <1>1, <2>1
<1>10. ASSUME Starts PROVE ChildrenAreCaptives'
  BY <1>3, <1>4, <1>8, <1>10 DEF Starts
<1>. QED BY <1>5, <1>6, <1>7, <1>9, <1>10 DEF Next, Completes

\* ChildrenAreCaptives, but for the capture of another union's captive
\* (union_logic.go:136 does not strike it off the first captor's list): who is
\* listed under a union is its captive, also when captives enter their captor's
\* union, unions are dismissed and the lists are rebuilt at a restart.
THEOREM OnlyRecaptureLeavesAnEntry == FirstCaptureSpec => []ChildrenAreCaptives
<1>1. Init => ChildrenAreCaptives BY DEF Init, ChildrenAreCaptives
<1>2. [Next /\ NoRecapture]_vars => [Next]_vars OBVIOUS
<1>3. FirstCaptureSpec => Spec BY <1>2, PTL DEF FirstCaptureSpec, Spec
<1>. QED BY <1>1, <1>3, ChildrenStep, Invariance, PTL DEF FirstCaptureSpec

-----------------------------------------------------------------------------
(* The rows.  That a title is taken away is the only change which the      *)
(* writer is not told of: see WrittenWhenQuiet.                            *)

\* A row that does not wait to be written is what its object is.
RowsWritten == \A u \in UnionIds : ~Waits(u) => saved[u] = coalition[u]

\* Whoever hands its object to the writer may change it as it likes.
LEMMA HandedOverWhole ==
    ASSUME TypeOK, RowsWritten, NEW u \in UnionIds, SyncExecute(u),
           \A v \in UnionIds : v # u => coalition'[v] = coalition[v]
    PROVE  RowsWritten'
<1> SUFFICES ASSUME NEW v \in UnionIds, ~Waits(v)'
             PROVE  saved'[v] = coalition'[v]
  BY DEF RowsWritten
<1>1. CASE QueueCap = 0
  <2>1. saved' = [saved EXCEPT ![u] = coalition'[u]] /\ queue' = queue
    BY <1>1 DEF SyncExecute
  <2>2. ~Waits(v) BY <2>1 DEF Waits
  <2>3. CASE v = u BY <2>1, <2>3 DEF TypeOK
  <2>4. CASE v # u BY <2>1, <2>2, <2>4 DEF TypeOK, RowsWritten
  <2>. QED BY <2>3, <2>4
<1>2. CASE QueueCap # 0
  <2>1. queue' = Append(queue, u) /\ saved' = saved BY <1>2 DEF SyncExecute
  <2>2. queue \in Seq(UnionIds) BY DEF TypeOK
  <2>3. /\ Len(queue') = Len(queue) + 1 /\ queue'[Len(queue) + 1] = u
        /\ \A i \in 1..Len(queue) : queue'[i] = queue[i]
        /\ Len(queue) \in Nat
    BY <2>1, <2>2
  <2>4. v # u /\ ~Waits(v) BY <2>3 DEF Waits
  <2>. QED BY <2>1, <2>4 DEF RowsWritten
<1>. QED BY <1>1, <1>2

LEMMA WriteIsWhole ==
    ASSUME TypeOK, RowsWritten, DBWrite
    PROVE  RowsWritten'
<1> DEFINE h == Head(queue)
<1>1. /\ h \in UnionIds /\ queue \in Seq(UnionIds) /\ queue # << >>
      /\ Len(queue) \in Nat \ {0} /\ h = queue[1]
      /\ Len(Tail(queue)) = Len(queue) - 1
      /\ \A i \in 1..Len(queue) - 1 : Tail(queue)[i] = queue[i + 1]
  BY DEF DBWrite, TypeOK
<1>2. /\ saved' = [saved EXCEPT ![h] = coalition[h]] /\ queue' = Tail(queue)
      /\ coalition' = coalition
  BY DEF DBWrite, memory
<1>. HIDE DEF h
<1> SUFFICES ASSUME NEW v \in UnionIds, ~Waits(v)'
             PROVE  saved'[v] = coalition[v]
  BY <1>2 DEF RowsWritten
<1>3. CASE v = h BY <1>2, <1>3 DEF TypeOK
<1>4. CASE v # h
  <2>1. ~Waits(v)
    <3> SUFFICES ASSUME NEW i \in 1..Len(queue), queue[i] = v PROVE FALSE
      BY DEF Waits
    <3>1. i # 1 BY <1>1, <1>4
    <3>2. i - 1 \in 1..Len(queue) - 1 /\ (i - 1) + 1 = i BY <1>1, <3>1
    <3>3. Tail(queue)[i - 1] = v BY <1>1, <3>2
    <3>. QED BY <1>1, <1>2, <3>2, <3>3 DEF Waits
  <2>. QED BY <1>2, <1>4, <2>1 DEF TypeOK, RowsWritten
<1>. QED BY <1>3, <1>4

LEMMA RowsStep ==
    ASSUME "Common" \notin Titles, TypeOK, RowsWritten, [Next]_vars
    PROVE  RowsWritten'
<1>1. ASSUME UNCHANGED <<coalition, saved, queue>> PROVE RowsWritten'
  BY <1>1 DEF RowsWritten, Waits
<1>2. ASSUME NEW r \in Role, Create(r) PROVE RowsWritten'
  <2> DEFINE new == [state |-> "Running", Chairman |-> r, ViceChairman |-> NoRole, Members |-> {r}]
  <2>1. PICK u \in UnionIds : /\ coalition' = [coalition EXCEPT ![u] = new]
                              /\ saved' = [saved EXCEPT ![u] = coalition'[u]]
    BY <1>2 DEF Create
  <2>. HIDE DEF new
  <2>2. queue' = queue BY <1>2 DEF Create
  <2>3. coalition \in [UnionIds -> CoalitionRec] /\ saved \in [UnionIds -> CoalitionRec]
    BY DEF TypeOK
  <2>. QED BY <2>1, <2>2, <2>3 DEF RowsWritten, Waits
<1>3. ASSUME NEW r \in Role, NEW u \in UnionIds, Leaves(r, u) PROVE RowsWritten'
  <2>1. \A v \in UnionIds : v # u => coalition'[v] = coalition[v] BY <1>3, LeavesObject
  <2>. QED BY <1>3, <2>1, HandedOverWhole DEF Leaves
<1>4. ASSUME NEW r \in Role, Exit(r) PROVE RowsWritten'
  <2>1. UnionId[r] \in UnionIds BY <1>4 DEF Exit, TypeOK
  <2>. QED BY <1>3, <1>4, <2>1 DEF Exit
<1>5. ASSUME NEW r \in Role, NEW t \in Role, Kick(r, t) PROVE RowsWritten'
  <2>1. UnionId[r] \in UnionIds BY <1>5 DEF Kick, TypeOK
  <2>. QED BY <1>3, <1>5, <2>1 DEF Kick
<1>6. ASSUME NEW r \in Role, Dismiss(r) PROVE RowsWritten'
  <2>1. PICK u \in UnionIds :
            /\ coalition' = [coalition EXCEPT ![u].state = "Dismiss", ![u].Members = {}]
            /\ SyncExecute(u)
    BY <1>6 DEF Dismiss, TypeOK
  <2>2. \A v \in UnionIds : v # u => coalition'[v] = coalition[v] BY <2>1, DismissObject
  <2>. QED BY <2>1, <2>2, HandedOverWhole
<1>7. ASSUME NEW r \in Role, NEW t \in Role, Abdicate(r, t) PROVE RowsWritten'
  <2>1. UnionId[r] \in UnionIds /\ SyncExecute(UnionId[r]) BY <1>7 DEF Abdicate, TypeOK
  <2>2. \A v \in UnionIds : v # UnionId[r] => coalition'[v] = coalition[v]
    BY <1>7, AbdicateObject DEF OfficersChange
  <2>. QED BY <2>1, <2>2, HandedOverWhole
<1>8. ASSUME NEW r \in Role, NEW t \in Role, NEW title \in {"Vice", "Common"},
             Appoint(r, t, title)
      PROVE  RowsWritten'
  <2>1. UnionId[r] \in UnionIds /\ title \in Titles BY <1>8 DEF Appoint, TypeOK
  <2>2. SyncExecute(UnionId[r]) BY <1>8, <2>1 DEF Appoint
  <2>3. \A v \in UnionIds : v # UnionId[r] => coalition'[v] = coalition[v]
    BY <1>8, AppointObject DEF OfficersChange
  <2>. QED BY <2>1, <2>2, <2>3, HandedOverWhole
<1>9. ASSUME NEW r \in Role, VerifyActs(r) PROVE RowsWritten'
  <2> DEFINE v == verifying[r]
             t == applies[v.id].rid
             u == applies[v.id].union
  <2>1. CASE v.enters /\ u \in unions
    <3>1. v.id \in 1..Len(applies) BY <1>9 DEF VerifyActs, TypeOK
    <3>2. applies[v.id] \in ApplyRec BY <3>1 DEF TypeOK
    <3>3. t \in Role /\ u \in UnionIds BY <3>2 DEF ApplyRec
    <3>4. coalition' = [coalition EXCEPT ![u].Members = @ \cup {t}] /\ SyncExecute(u)
      BY <1>9, <2>1 DEF VerifyActs
    <3>. HIDE DEF t, u
    <3>5. \A w \in UnionIds : w # u => coalition'[w] = coalition[w]
      BY <3>3, <3>4, EntersObject
    <3>. QED BY <3>3, <3>4, <3>5, HandedOverWhole
  <2>2. CASE ~(v.enters /\ u \in unions)
    <3>1. UNCHANGED <<coalition, saved, queue>> BY <1>9, <2>2 DEF VerifyActs
    <3>. QED BY <1>1, <3>1
  <2>. QED BY <2>1, <2>2
<1>10. ASSUME Restart PROVE RowsWritten'
  BY <1>10 DEF Restart, RowsWritten
<1>11. ASSUME NEW r \in Role, \/ \E u \in UnionIds : Join(r, u)
                              \/ \E t \in Role : BattleBegins(r, t)
                              \/ \E i \in 1..Len(applies), decide \in {"Adopt", "Refuse"} :
                                    VerifyChecks(r, i, decide)
       PROVE  RowsWritten'
  <2>1. UNCHANGED <<coalition, saved, queue>>
    BY <1>11 DEF Join, BattleBegins, VerifyChecks, memory
  <2>. QED BY <1>1, <2>1
<1>12. ASSUME checkCityOccupy \/ UNCHANGED vars PROVE RowsWritten'
  <2>1. UNCHANGED <<coalition, saved, queue>> BY <1>12 DEF checkCityOccupy, vars, memory
  <2>. QED BY <1>1, <2>1
<1>13. ASSUME Starts PROVE RowsWritten'
  BY <1>2, <1>4, <1>5, <1>6, <1>7, <1>8, <1>11, <1>13 DEF Starts
<1>. QED BY <1>9, <1>10, <1>12, <1>13, WriteIsWhole DEF Next, Completes

\* WrittenWhenQuiet, where nobody is made a common member (coalition.go:550 does
\* not hand that to the writer): once the writer has caught up the rows are what
\* the objects are, however handlers overlap and whenever the server crashes.
THEOREM OnlyACommonTitleIsUnwritten ==
    ASSUME "Common" \notin Titles
    PROVE  Spec => []WrittenWhenQuiet
<1>1. Init => RowsWritten BY DEF Init, RowsWritten
<1>2. TypeOK /\ RowsWritten /\ [Next]_vars => RowsWritten' BY RowsStep
<1>3. TypeOK /\ RowsWritten => WrittenWhenQuiet
  <2> SUFFICES ASSUME TypeOK, RowsWritten, queue = << >> PROVE saved = coalition
    BY DEF WrittenWhenQuiet
  <2>1. \A u \in UnionIds : saved[u] = coalition[u] BY DEF RowsWritten, Waits
  <2>. QED BY <2>1 DEF TypeOK
<1>. QED BY <1>1, <1>2, <1>3, TypeCorrect, PTL DEF Spec

=============================================================================
