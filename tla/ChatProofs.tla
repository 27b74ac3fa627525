----------------------------- MODULE ChatProofs -----------------------------
(***************************************************************************)
(* Proofs about Chat: its types, that members and channels agree, that     *)
(* nobody who left is pushed to, that a role is pushed to where it entered *)
(* last, and that somebody can always go on, for any number of             *)
(* connections, roles and unions.                                          *)
(***************************************************************************)
EXTENDS Chat, TLAPS

\* A handler that joins or leaves knows its role, and the channel to join.
HandlersKnow ==
    \A c \in Conn :
        /\ At(c, "entering") \/ At(c, "joining") \/ At(c, "leaving") => reader[c].role \in Role
        /\ At(c, "joining") => reader[c].group \in Union
        /\ At(c, "casting") \/ Pushing(c) => reader[c].msg \in 0..made
        /\ At(c, "blocked") => reader[c].to \in Conn
        /\ closer[c]["read"] # "no" => At(c, "ended")

Types == TypeOK /\ HandlersKnow
IInv == Types /\ OneChannel /\ NoStranger /\ Takeover

(***************************************************************************)
(* Types.                                                                  *)
(***************************************************************************)
LEMMA ReaderTypes ==
    ASSUME TypeOK, NEW c \in Conn
    PROVE  /\ reader[c] \in ReaderRec /\ reader[c].at \in Places /\ reader[c].group \in Group
           /\ reader[c].role \in Role \cup {NoRole} /\ reader[c].left \in SUBSET Role
           /\ reader[c].to \in Conn \cup {NoConn} /\ reader[c].msg \in Nat
           /\ users[reader[c].group] \in SUBSET Role
    BY DEF TypeOK, ReaderRec

\* The record of a reader after each kind of step.
LEMMA Updates ==
    ASSUME TypeOK, NEW c \in Conn, NEW p \in Places
    PROVE  /\ \A r \in Role \cup {NoRole} : [reader[c] EXCEPT !.at = p, !.role = r] \in ReaderRec
           /\ \A r \in Role \cup {NoRole}, g \in Group :
                  [reader[c] EXCEPT !.at = p, !.role = r, !.group = g] \in ReaderRec
           /\ \A g \in Group : [reader[c] EXCEPT !.at = p, !.group = g] \in ReaderRec
           /\ \A m \in Nat : [reader[c] EXCEPT !.at = p, !.msg = m] \in ReaderRec
           /\ \A S \in SUBSET Role : [reader[c] EXCEPT !.at = p, !.left = S] \in ReaderRec
           /\ \A d \in Conn \cup {NoConn} : [reader[c] EXCEPT !.at = p, !.to = d] \in ReaderRec
           /\ \A S \in SUBSET Role, d \in Conn \cup {NoConn} :
                  [reader[c] EXCEPT !.at = p, !.left = S, !.to = d] \in ReaderRec
<1>1. reader[c] \in ReaderRec
    BY DEF TypeOK
<1> QED BY <1>1 DEF ReaderRec

\* A handler that only goes to another place.
LEMMA GoesTypes ==
    ASSUME TypeOK, NEW c \in Conn, NEW p \in Places, Goes(c, p)
    PROVE  reader' \in [Conn -> ReaderRec]
<1>1. [reader[c] EXCEPT !.at = p] \in ReaderRec
    BY ReaderTypes DEF ReaderRec
<1> QED BY <1>1 DEF Goes, TypeOK

\* Something is written to or read from one outChan.
LEMMA Buffered ==
    ASSUME TypeOK, NEW c \in Conn, NEW s \in Seq(0..made), Len(s) <= OutCap,
           outChan' = [outChan EXCEPT ![c] = s], made' = made
    PROVE  outChan' \in [Conn -> Seq(0..made')] /\ \A d \in Conn : Len(outChan'[d]) <= OutCap
    BY DEF TypeOK

\* The requests.
LEMMA RefusedTypes == ASSUME Types, NEW c \in Conn, Refused(c) PROVE Types'
<1>1. reader' \in [Conn -> ReaderRec]
    BY GoesTypes DEF Types, Places, Refused
<1>2. TypeOK'
    BY <1>1, ReaderTypes, ChatAssumption DEF Types, TypeOK, Asks, conns, roles, groups, Refused
<1>3. HandlersKnow'
    BY ReaderTypes DEF Types, TypeOK, HandlersKnow, At, Goes, Asks, Pushing, conns, roles,
       groups, Refused
<1> QED BY <1>2, <1>3 DEF Types

LEMMA LoginTypes == ASSUME Types, NEW c \in Conn, NEW r \in Role, Login(c, r) PROVE Types'
<1>1. [reader[c] EXCEPT !.at = "entering", !.role = r] \in ReaderRec
    BY Updates, ReaderTypes, ChatAssumption DEF Types, TypeOK, Places, Group
<1>2. reader' \in [Conn -> ReaderRec]
    BY <1>1 DEF Types, TypeOK, Login
<1>3. TypeOK'
    BY <1>2, ReaderTypes, ChatAssumption DEF Types, TypeOK, Asks, conns, groups, Login
<1>4. HandlersKnow'
    BY ReaderTypes DEF Types, TypeOK, HandlersKnow, At, Asks, Pushing, conns, groups, Login
<1> QED BY <1>3, <1>4 DEF Types

LEMMA LogoutTypes == ASSUME Types, NEW c \in Conn, Logout(c) PROVE Types'
<1>1. [reader[c] EXCEPT !.at = "clearing", !.role = rid[c]] \in ReaderRec
    BY Updates, ReaderTypes, ChatAssumption DEF Types, TypeOK, Places, Group
<1>2. reader' \in [Conn -> ReaderRec]
    BY <1>1 DEF Types, TypeOK, Logout
<1>3. TypeOK'
    BY <1>2, ReaderTypes, ChatAssumption DEF Types, TypeOK, Asks, conns, groups, Logout, Removed
<1>4. HandlersKnow'
    BY ReaderTypes DEF Types, TypeOK, HandlersKnow, At, Asks, Pushing, conns, groups, Logout
<1> QED BY <1>3, <1>4 DEF Types

LEMMA ExitBeginsTypes == ASSUME Types, NEW c \in Conn, ExitBegins(c) PROVE Types'
<1>1. [reader[c] EXCEPT !.at = "leaving", !.role = rid[c]] \in ReaderRec
    BY Updates, ReaderTypes, ChatAssumption DEF Types, TypeOK, Places, Group
<1>2. reader' \in [Conn -> ReaderRec]
    BY <1>1 DEF Types, TypeOK, ExitBegins
<1>3. TypeOK'
    BY <1>2, ReaderTypes, ChatAssumption DEF Types, TypeOK, Asks, conns, roles, groups, ExitBegins
<1>4. HandlersKnow'
    BY ReaderTypes DEF Types, TypeOK, HandlersKnow, At, Asks, Pushing, conns, roles, groups,
       ExitBegins
<1> QED BY <1>3, <1>4 DEF Types

LEMMA JoinFindsTypes == ASSUME Types, NEW c \in Conn, NEW g \in Union, JoinFinds(c, g) PROVE Types'
<1>1. [reader[c] EXCEPT !.at = "joining", !.role = rid[c], !.group = g] \in ReaderRec
    BY Updates, ReaderTypes, ChatAssumption DEF Types, TypeOK, Places, Group
<1>2. reader' \in [Conn -> ReaderRec]
    BY <1>1 DEF Types, TypeOK, JoinFinds
<1>3. TypeOK'
    BY <1>2, ReaderTypes, ChatAssumption DEF Types, TypeOK, Asks, conns, roles, groups, JoinFinds
<1>4. HandlersKnow'
    BY ReaderTypes DEF Types, TypeOK, HandlersKnow, At, Asks, Pushing, conns, roles, groups,
       JoinFinds
<1> QED BY <1>3, <1>4 DEF Types

LEMMA SaysTypes == ASSUME Types, NEW c \in Conn, NEW g \in Group, Says(c, g) PROVE Types'
<1>1. [reader[c] EXCEPT !.at = "queueing", !.group = g] \in ReaderRec
    BY Updates, ReaderTypes, ChatAssumption DEF Types, TypeOK, Places, Group
<1>2. reader' \in [Conn -> ReaderRec]
    BY <1>1 DEF Types, TypeOK, Says
<1>3. TypeOK'
    BY <1>2, ReaderTypes, ChatAssumption DEF Types, TypeOK, Asks, conns, roles, groups, Says
<1>4. HandlersKnow'
    BY ReaderTypes DEF Types, TypeOK, HandlersKnow, At, Asks, Pushing, conns, roles, groups, Says
<1> QED BY <1>3, <1>4 DEF Types

\* The steps of a handler.
LEMMA RepliesTypes == ASSUME Types, NEW c \in Conn, Replies(c) PROVE Types'
<1>1. Resting \in ReaderRec
    BY DEF ReaderRec, Resting, Places, Group
<1>2. reader' \in [Conn -> ReaderRec]
    BY <1>1 DEF Types, TypeOK, Replies
<1>3. Append(outChan[c], Reply) \in Seq(0..made) /\ Len(Append(outChan[c], Reply)) <= OutCap
    BY ChatAssumption DEF Types, TypeOK, HandlersKnow, Reply, Pushing, At, Replies
<1>4. outChan' \in [Conn -> Seq(0..made')] /\ \A d \in Conn : Len(outChan'[d]) <= OutCap
    BY <1>3, Buffered DEF Types, HandlersKnow, At, Replies
<1>5. TypeOK'
    BY <1>2, <1>4, ReaderTypes, ChatAssumption DEF Types, TypeOK, conns, roles, groups,
       Replies, Resting
<1>6. HandlersKnow'
    BY ReaderTypes DEF Types, TypeOK, HandlersKnow, At, Pushing, conns, roles, groups,
       Replies, Resting
<1> QED BY <1>5, <1>6 DEF Types

LEMMA EntersTypes == ASSUME Types, NEW c \in Conn, Enters(c) PROVE Types'
<1>1. reader' \in [Conn -> ReaderRec]
    BY GoesTypes DEF Types, Places, Enters
<1>2. TypeOK'
    BY <1>1, ReaderTypes, ChatAssumption DEF Types, TypeOK, HandlersKnow, At, Group, conns,
       roles, Enters
<1>3. HandlersKnow'
    BY ReaderTypes DEF Types, TypeOK, HandlersKnow, At, Goes, Pushing, conns, roles, Enters
<1> QED BY <1>2, <1>3 DEF Types

LEMMA ClearsTypes == ASSUME Types, NEW c \in Conn, Clears(c) PROVE Types'
<1>1. reader' \in [Conn -> ReaderRec]
    BY GoesTypes DEF Types, Places, Clears
<1>2. TypeOK'
    BY <1>1, ReaderTypes, ChatAssumption DEF Types, TypeOK, conns, groups, Clears
<1>3. HandlersKnow'
    BY ReaderTypes DEF Types, TypeOK, HandlersKnow, At, Goes, Pushing, conns, groups, Clears
<1> QED BY <1>2, <1>3 DEF Types

LEMMA ExitsTypes == ASSUME Types, NEW c \in Conn, Exits(c) PROVE Types'
<1>1. reader' \in [Conn -> ReaderRec]
    BY GoesTypes DEF Types, Places, Exits
<1>2. TypeOK'
    BY <1>1, ReaderTypes, ChatAssumption DEF Types, TypeOK, Group, conns, roles, Exits
<1>3. HandlersKnow'
    BY ReaderTypes DEF Types, TypeOK, HandlersKnow, At, Goes, Pushing, conns, roles, Exits
<1> QED BY <1>2, <1>3 DEF Types

LEMMA JoinTypes == ASSUME Types, NEW c \in Conn, Join(c) PROVE Types'
<1>1. reader' \in [Conn -> ReaderRec]
    BY GoesTypes DEF Types, Places, Join
<1>2. reader[c].role \in Role /\ reader[c].group \in Union
    BY DEF Types, HandlersKnow, Join
<1>3. users' \in [Group -> SUBSET Role] /\ ridToUnionGroups' \in [Role -> Union \cup {NoGroup}]
  <2>1. CASE ridToUnionGroups[reader[c].role] = reader[c].group
    BY <2>1 DEF Types, TypeOK, Join, groups
  <2>2. CASE ridToUnionGroups[reader[c].role] # reader[c].group
    <3>1. \A h \in Group : /\ users[h] \cup {reader[c].role} \in SUBSET Role
                           /\ users[h] \ {reader[c].role} \in SUBSET Role
                           /\ users[h] \in SUBSET Role
      BY <1>2 DEF Types, TypeOK
    <3>2. users' \in [Group -> SUBSET Role]
      BY <2>2, <3>1 DEF Join
    <3>3. ridToUnionGroups' \in [Role -> Union \cup {NoGroup}]
      BY <1>2, <2>2 DEF Types, TypeOK, Join
    <3> QED BY <3>2, <3>3
  <2> QED BY <2>1, <2>2
<1>4. TypeOK'
    BY <1>1, <1>3, ChatAssumption DEF Types, TypeOK, Group, conns, roles, groups, Join
<1>5. HandlersKnow'
    BY ReaderTypes DEF Types, TypeOK, HandlersKnow, At, Goes, Pushing, conns, roles, groups, Join
<1> QED BY <1>4, <1>5 DEF Types

LEMMA ExitTypes == ASSUME Types, NEW c \in Conn, Exit(c) PROVE Types'
<1>1. reader' \in [Conn -> ReaderRec]
    BY GoesTypes DEF Types, Places, Exit
<1>2. TypeOK'
    BY <1>1, ReaderTypes, ChatAssumption DEF Types, TypeOK, HandlersKnow, At, Group, conns,
       roles, Exit, Left
<1>3. HandlersKnow'
    BY ReaderTypes DEF Types, TypeOK, HandlersKnow, At, Goes, Pushing, conns, roles, Exit
<1> QED BY <1>2, <1>3 DEF Types

LEMMA EnqueueTypes == ASSUME Types, NEW c \in Conn, Enqueue(c) PROVE Types'
<1>1. made + 1 \in Nat /\ "casting" \in Places /\ TypeOK
    BY DEF Types, TypeOK, Places
<1>2. [reader[c] EXCEPT !.at = "casting", !.msg = made + 1] \in ReaderRec
    BY <1>1, Updates
<1>3. reader' \in [Conn -> ReaderRec]
    BY <1>2 DEF Types, TypeOK, Enqueue
<1>4. LET s == Queued(reader[c].group, made + 1) IN s \in Seq(1..made + 1) /\ Len(s) <=
   HistoryCap + 1
  <2> DEFINE q == msgs[reader[c].group]
  <2>1. q \in Seq(1..made) /\ Len(q) <= HistoryCap + 1 /\ made \in Nat /\ HistoryCap \in Nat
    BY ReaderTypes, ChatAssumption DEF Types, TypeOK
  <2> HIDE DEF q
  <2>2. q \in Seq(1..made + 1) /\ made + 1 \in 1..made + 1
    BY <2>1
  <2>3. CASE Len(q) > HistoryCap
    <3>1. Tail(q) \in Seq(1..made + 1) /\ Len(Tail(q)) = Len(q) - 1
      BY <2>1, <2>2, <2>3
    <3>2. Append(Tail(q), made + 1) \in Seq(1..made + 1) /\ Len(Append(Tail(q), made + 1)) = Len(q)
      BY <2>1, <2>2, <3>1
    <3> QED BY <2>1, <2>3, <3>2 DEF Queued, q
  <2>4. CASE ~(Len(q) > HistoryCap)
    <3>1. Append(q, made + 1) \in Seq(1..made + 1) /\ Len(Append(q, made + 1)) = Len(q) + 1
      BY <2>1, <2>2
    <3>2. Len(Append(q, made + 1)) <= HistoryCap + 1
      BY <2>1, <2>4, <3>1
    <3>3. Queued(reader[c].group, made + 1) = Append(q, made + 1)
      BY <2>4 DEF Queued, q
    <3> QED BY <3>1, <3>2, <3>3
  <2> QED BY <2>3, <2>4
<1>5. msgs' \in [Group -> Seq(1..made')] /\ \A g \in Group : Len(msgs'[g]) <= HistoryCap + 1
    BY <1>4, ReaderTypes DEF Types, TypeOK, Enqueue
<1>6. outChan' \in [Conn -> Seq(0..made')]
    BY DEF Types, TypeOK, Enqueue
<1>7. TypeOK'
    BY <1>3, <1>5, <1>6, ReaderTypes, ChatAssumption DEF Types, TypeOK, Group, conns, roles,
       groups, Enqueue
<1>8. HandlersKnow'
    BY ReaderTypes DEF Types, TypeOK, HandlersKnow, At, Pushing, conns, roles, groups, Enqueue
<1> QED BY <1>7, <1>8 DEF Types

LEMMA BroadcastTypes == ASSUME Types, NEW c \in Conn, Broadcast(c) PROVE Types'
<1>1. users[reader[c].group] \in SUBSET Role /\ "pushing" \in Places /\ TypeOK
    BY ReaderTypes DEF Types, Places
<1>2. [reader[c] EXCEPT !.at = "pushing", !.left = users[reader[c].group]] \in ReaderRec
    BY <1>1, Updates
<1>3. reader' \in [Conn -> ReaderRec]
    BY <1>2 DEF Types, TypeOK, Broadcast
<1>4. TypeOK'
    BY <1>3, ReaderTypes, ChatAssumption DEF Types, TypeOK, conns, roles, groups, Broadcast
<1>5. HandlersKnow'
    BY ReaderTypes DEF Types, TypeOK, HandlersKnow, At, Pushing, conns, roles, groups, Broadcast
<1> QED BY <1>4, <1>5 DEF Types

LEMMA PushTypes == ASSUME Types, NEW c \in Conn, NEW r \in Role, Push(c, r) PROVE Types'
<1> DEFINE d == roleCache[r]
           full == d # NoConn /\ Len(outChan[d]) = OutCap
           p == IF full THEN "blocked" ELSE "pushing"
           t == IF full THEN d ELSE NoConn
<1>1. /\ d \in Conn \cup {NoConn} /\ p \in Places /\ t \in Conn \cup {NoConn}
      /\ reader[c].left \ {r} \in SUBSET Role
    BY ReaderTypes DEF Types, TypeOK, Places
<1>2. reader' = [reader EXCEPT ![c] =
          [reader[c] EXCEPT !.at = p, !.left = reader[c].left \ {r}, !.to = t]]
    BY DEF Push
<1> HIDE DEF p, t
<1>3. reader' \in [Conn -> ReaderRec]
    BY <1>1, <1>2, Updates DEF Types, TypeOK
<1>4. outChan' \in [Conn -> Seq(0..made')] /\ \A e \in Conn : Len(outChan'[e]) <= OutCap
  <2>1. CASE d = NoConn \/ full
    BY <2>1 DEF Types, TypeOK, Push
  <2>2. CASE ~(d = NoConn \/ full)
    <3>1. reader[c].msg \in 0..made /\ d \in Conn
      BY <1>1, <2>2 DEF Types, HandlersKnow, Pushing, Push, At
    <3>2. /\ Append(outChan[d], reader[c].msg) \in Seq(0..made)
          /\ Len(Append(outChan[d], reader[c].msg)) <= OutCap
      BY <2>2, <3>1, ChatAssumption DEF Types, TypeOK
    <3>3. outChan' = [outChan EXCEPT ![d] = Append(outChan[d], reader[c].msg)] /\ made' = made
      BY <2>2 DEF Push
    <3> HIDE DEF d
    <3> QED BY <3>1, <3>2, <3>3, Buffered DEF Types
  <2> QED BY <2>1, <2>2
<1>5. TypeOK'
    BY <1>1, <1>3, <1>4, ChatAssumption DEF Types, TypeOK, At, conns, roles, groups,
       Pushing, HandlersKnow, Push
<1>6. HandlersKnow'
    BY ReaderTypes DEF Types, TypeOK, HandlersKnow, At, Pushing, conns, roles, groups, Push
<1> QED BY <1>5, <1>6 DEF Types

LEMMA PushGoesOnTypes == ASSUME Types, NEW c \in Conn, PushGoesOn(c) PROVE Types'
<1>1. [reader[c] EXCEPT !.at = "pushing", !.to = NoConn] \in ReaderRec
    BY Updates, ReaderTypes, ChatAssumption DEF Types, TypeOK, Places, Group
<1>2. reader' \in [Conn -> ReaderRec]
    BY <1>1 DEF Types, TypeOK, PushGoesOn
<1>3. Append(outChan[reader[c].to], reader[c].msg) \in Seq(0..made) /\
   Len(Append(outChan[reader[c].to], reader[c].msg)) <= OutCap
    BY ChatAssumption DEF Types, TypeOK, HandlersKnow, Reply, Pushing, At, PushGoesOn
<1>4. outChan' \in [Conn -> Seq(0..made')] /\ \A d \in Conn : Len(outChan'[d]) <= OutCap
    BY <1>3, Buffered DEF Types, HandlersKnow, At, PushGoesOn
<1>5. TypeOK'
    BY <1>2, <1>4, ReaderTypes, ChatAssumption DEF Types, TypeOK, conns, roles, groups, PushGoesOn
<1>6. HandlersKnow'
    BY ReaderTypes DEF Types, TypeOK, HandlersKnow, At, Pushing, conns, roles, groups, PushGoesOn
<1> QED BY <1>5, <1>6 DEF Types

LEMMA PushedTypes == ASSUME Types, NEW c \in Conn, Pushed(c) PROVE Types'
<1>1. reader' \in [Conn -> ReaderRec]
    BY GoesTypes DEF Types, Places, Pushed
<1>2. TypeOK'
    BY <1>1, ReaderTypes, ChatAssumption DEF Types, TypeOK, conns, roles, groups, Pushed
<1>3. HandlersKnow'
    BY ReaderTypes DEF Types, TypeOK, HandlersKnow, At, Goes, Pushing, conns, roles, groups, Pushed
<1> QED BY <1>2, <1>3 DEF Types

\* The writer, and Close.
LEMMA WritesTypes == ASSUME Types, NEW c \in Conn, Writes(c) PROVE Types'
<1>1. Tail(outChan[c]) \in Seq(0..made) /\ Len(Tail(outChan[c])) <= OutCap
    BY ChatAssumption DEF Types, TypeOK, HandlersKnow, Reply, Pushing, At, Writes
<1>2. outChan' \in [Conn -> Seq(0..made')] /\ \A d \in Conn : Len(outChan'[d]) <= OutCap
    BY <1>1, Buffered DEF Types, HandlersKnow, At, Writes
<1>3. TypeOK'
    BY <1>2, ReaderTypes, ChatAssumption DEF Types, TypeOK, conns, roles, groups, Goroutine, Writes
<1>4. HandlersKnow'
    BY ReaderTypes DEF Types, TypeOK, HandlersKnow, At, Pushing, conns, roles, groups, Writes
<1> QED BY <1>3, <1>4 DEF Types

LEMMA WriteFailsTypes == ASSUME Types, NEW c \in Conn, WriteFails(c) PROVE Types'
<1>1. Tail(outChan[c]) \in Seq(0..made) /\ Len(Tail(outChan[c])) <= OutCap
    BY ChatAssumption DEF Types, TypeOK, HandlersKnow, Reply, Pushing, At, WriteFails
<1>2. outChan' \in [Conn -> Seq(0..made')] /\ \A d \in Conn : Len(outChan'[d]) <= OutCap
    BY <1>1, Buffered DEF Types, HandlersKnow, At, WriteFails
<1>3. TypeOK'
    BY <1>2, ReaderTypes, ChatAssumption DEF Types, TypeOK, roles, groups, Goroutine,
       WriteFails, Closed
<1>4. HandlersKnow'
    BY ReaderTypes DEF Types, TypeOK, HandlersKnow, At, Pushing, roles, groups, WriteFails, Closed
<1> QED BY <1>3, <1>4 DEF Types

LEMMA ReadFailsTypes == ASSUME Types, NEW c \in Conn, ReadFails(c) PROVE Types'
<1>1. reader' \in [Conn -> ReaderRec]
    BY GoesTypes DEF Types, Places, ReadFails
<1>2. TypeOK'
    BY <1>1, ReaderTypes, ChatAssumption DEF Types, TypeOK, roles, groups, Goroutine,
       ReadFails, Closed
<1>3. reader'[c].at = "ended" /\ ~Pushing(c) /\ \A d \in Conn : d # c => reader'[d] = reader[d]
    BY ReaderTypes DEF Types, TypeOK, ReaderRec, ReadFails, Goes, At, Pushing
<1>4. \A d \in Conn : d # c => closer'[d] = closer[d]
    BY DEF Types, TypeOK, ReadFails, Closed
<1>5. HandlersKnow'
    BY <1>3, <1>4 DEF Types, HandlersKnow, ReadFails, At, Pushing
<1> QED BY <1>2, <1>5 DEF Types

LEMMA CloseSetsTypes == ASSUME Types, NEW c \in Conn, NEW w \in Goroutine, CloseSets(c, w) PROVE
   Types'
<1>1. TypeOK'
    BY ReaderTypes, ChatAssumption DEF Types, TypeOK, roles, groups, Goroutine, CloseSets
<1>2. HandlersKnow'
    BY ReaderTypes DEF Types, TypeOK, HandlersKnow, At, Pushing, roles, groups, CloseSets
<1> QED BY <1>1, <1>2 DEF Types

LEMMA CloseRemovesTypes == ASSUME Types, NEW c \in Conn, NEW w \in Goroutine, CloseRemoves(c, w)
   PROVE Types'
<1>1. TypeOK'
    BY ReaderTypes, ChatAssumption DEF Types, TypeOK, groups, Goroutine, CloseRemoves, Removed
<1>2. HandlersKnow'
    BY ReaderTypes DEF Types, TypeOK, HandlersKnow, At, Pushing, groups, CloseRemoves
<1> QED BY <1>1, <1>2 DEF Types

LEMMA CloseClearsTypes == ASSUME Types, NEW c \in Conn, NEW w \in Goroutine, CloseClears(c, w)
   PROVE Types'
<1>1. TypeOK'
    BY ReaderTypes, ChatAssumption DEF Types, TypeOK, groups, Goroutine, CloseClears
<1>2. HandlersKnow'
    BY ReaderTypes DEF Types, TypeOK, HandlersKnow, At, Pushing, groups, CloseClears
<1> QED BY <1>1, <1>2 DEF Types

LEMMA BreaksTypes == ASSUME Types, NEW c \in Conn, Breaks(c) PROVE Types'
<1>1. TypeOK'
    BY ReaderTypes, ChatAssumption DEF Types, TypeOK, roles, groups, Goroutine, Breaks
<1>2. HandlersKnow'
    BY ReaderTypes DEF Types, TypeOK, HandlersKnow, At, Pushing, roles, groups, Breaks
<1> QED BY <1>1, <1>2 DEF Types

\* Every step keeps the types.
LEMMA TypesStep == ASSUME Types, [Next]_vars PROVE Types'
<1>1. CASE UNCHANGED vars
    BY <1>1 DEF Types, TypeOK, HandlersKnow, At, Pushing, vars, conns, roles, groups
<1>2. CASE Next
  <2>1. PICK c \in Conn : Request(c) \/ Read(c) \/ Write(c) \/ Breaks(c)
                              \/ \E w \in Goroutine : Close(c, w)
    BY <1>2 DEF Next
  <2>2. CASE Request(c)
    BY <2>2, RefusedTypes, LogoutTypes, ExitBeginsTypes, LoginTypes, JoinFindsTypes,
       SaysTypes DEF Request
  <2>3. CASE Read(c)
    BY <2>3, RepliesTypes, EntersTypes, ClearsTypes, ExitsTypes, JoinTypes, ExitTypes, EnqueueTypes,
       BroadcastTypes, PushGoesOnTypes, PushedTypes, ReadFailsTypes, PushTypes DEF Read
  <2>4. CASE Write(c)
    BY <2>4, WritesTypes, WriteFailsTypes DEF Write
  <2>5. CASE Breaks(c)
    BY <2>5, BreaksTypes
  <2>6. CASE \E w \in Goroutine : Close(c, w)
    BY <2>6, CloseSetsTypes, CloseRemovesTypes, CloseClearsTypes DEF Close
  <2> QED BY <2>1, <2>2, <2>3, <2>4, <2>5, <2>6
<1> QED BY <1>1, <1>2

(***************************************************************************)
(* Channels.                                                               *)
(***************************************************************************)
\* The steps that leave channels and members alone, and those that change the
\* members of the world's group only.
Apart == \/ UNCHANGED groups
         \/ /\ ridToUnionGroups' = ridToUnionGroups
            /\ \E S : users' = [users EXCEPT ![World] = S]

LEMMA ApartOne == ASSUME Types, OneChannel, Apart PROVE OneChannel'
<1>1. \A g \in Union : users'[g] = users[g]
    BY ChatAssumption DEF Types, TypeOK, Apart, groups, Group
<1>2. ridToUnionGroups' = ridToUnionGroups
    BY DEF Apart, groups
<1> QED BY <1>1, <1>2 DEF OneChannel

\* Joining enters one channel and leaves the old one.
LEMMA JoinOne == ASSUME Types, OneChannel, NEW c \in Conn, Join(c) PROVE OneChannel'
<1> DEFINE r == reader[c].role
           g == reader[c].group
<1>1. r \in Role /\ g \in Union
    BY DEF Types, HandlersKnow, Join
<1>2. CASE ridToUnionGroups[r] = g
    BY <1>2 DEF OneChannel, Join, groups
<1>3. CASE ridToUnionGroups[r] # g
  <2>1. ridToUnionGroups' = [ridToUnionGroups EXCEPT ![r] = g]
    BY <1>3 DEF Join
  <2>2. users' = [h \in Group |-> IF h = g THEN users[h] \cup {r}
                                 ELSE IF h = ridToUnionGroups[r] THEN users[h] \ {r}
                                 ELSE users[h]]
    BY <1>3 DEF Join
  <2> HIDE DEF r, g
  <2>3. ASSUME NEW q \in Role, NEW h \in Union PROVE q \in users'[h] <=> ridToUnionGroups'[q] = h
    <3>1. h \in Group /\ (q \in users[h] <=> ridToUnionGroups[q] = h)
        BY DEF Group, OneChannel
    <3>2. q # r => ridToUnionGroups'[q] = ridToUnionGroups[q]
        BY <2>1 DEF Types, TypeOK
    <3>3. ridToUnionGroups'[r] = g
        BY <1>1, <2>1 DEF Types, TypeOK
    <3>4. users'[h] = IF h = g THEN users[h] \cup {r}
                      ELSE IF h = ridToUnionGroups[r] THEN users[h] \ {r} ELSE users[h]
        BY <2>2, <3>1
    <3> QED BY <3>1, <3>2, <3>3, <3>4
  <2> QED BY <2>3 DEF OneChannel
<1> QED BY <1>2, <1>3

\* Leaving leaves the channel the role talks to, the only one that lists it.
LEMMA ExitOne == ASSUME Types, OneChannel, NEW c \in Conn, Exit(c) PROVE OneChannel'
<1> DEFINE r == reader[c].role
<1>1. r \in Role
    BY DEF Types, HandlersKnow, Exit
<1>2. ridToUnionGroups' = [ridToUnionGroups EXCEPT ![r] = NoGroup] /\ users' = Left(r)
    BY DEF Exit
<1> HIDE DEF r
<1>3. ASSUME NEW q \in Role, NEW h \in Union PROVE q \in users'[h] <=> ridToUnionGroups'[q] = h
  <2>1. h \in Group /\ h # NoGroup /\ (q \in users[h] <=> ridToUnionGroups[q] = h)
      BY ChatAssumption DEF Group, OneChannel
  <2>2. (q # r => ridToUnionGroups'[q] = ridToUnionGroups[q]) /\ ridToUnionGroups'[r] = NoGroup
      BY <1>1, <1>2 DEF Types, TypeOK
  <2>3. users'[h] = IF h = ridToUnionGroups[r] THEN users[h] \ {r} ELSE users[h]
      BY <1>2, <2>1 DEF Left
  <2> QED BY <2>1, <2>2, <2>3
<1> QED BY <1>3 DEF OneChannel

\* What a step of one connection may do to what is left to be pushed.
LEMMA Pushers ==
    ASSUME Types, NoStranger, NEW c \in Conn,
           ridToUnionGroups' = ridToUnionGroups \/ UnionFree,
           \A d \in Conn : d # c => reader'[d] = reader[d],
           \/ ~Pushing(c)'
           \/ reader'[c] = reader[c]
           \/ /\ Pushing(c) /\ reader'[c].group = reader[c].group
              /\ reader'[c].left \subseteq reader[c].left
              /\ ridToUnionGroups' = ridToUnionGroups
    PROVE  NoStranger'
<1>1. ASSUME NEW d \in Conn, Pushing(d)', reader'[d].group # World, NEW r \in reader'[d].left
      PROVE  ridToUnionGroups'[r] = reader'[d].group
  <2>1. Pushing(d) /\ reader'[d].group = reader[d].group /\ r \in reader[d].left
      BY <1>1 DEF Pushing
  <2>2. ridToUnionGroups' = ridToUnionGroups
      BY <1>1, <2>1 DEF UnionFree, Talking
  <2> QED BY <1>1, <2>1, <2>2 DEF NoStranger
<1> QED BY <1>1 DEF NoStranger

\* Whoever pushes to a channel begins with its members.
LEMMA BroadcastStrangers ==
    ASSUME Types, OneChannel, NoStranger, NEW c \in Conn, Broadcast(c) PROVE NoStranger'
<1>1. ASSUME NEW d \in Conn, Pushing(d)', reader'[d].group # World, NEW r \in reader'[d].left
      PROVE  ridToUnionGroups'[r] = reader'[d].group
  <2>1. CASE d = c
    <3>1. reader'[c].group = reader[c].group /\ reader'[c].left = users[reader[c].group]
        BY ReaderTypes DEF Broadcast, Types, TypeOK, ReaderRec
    <3>2. reader[c].group \in Union /\ r \in Role
        BY <1>1, <2>1, <3>1, ReaderTypes DEF Types, Group
    <3> QED BY <1>1, <2>1, <3>1, <3>2 DEF OneChannel, Broadcast, groups
  <2>2. CASE d # c
    BY <1>1, <2>2 DEF Broadcast, NoStranger, Pushing, groups, Types, TypeOK
  <2> QED BY <2>1, <2>2
<1> QED BY <1>1 DEF NoStranger

\* Every step keeps one channel for each role.
LEMMA OneChannelStep == ASSUME Types, OneChannel, [Next]_vars PROVE OneChannel'
<1>1. CASE UNCHANGED vars
    BY <1>1 DEF OneChannel, vars, groups
<1>2. CASE Next
  <2>1. PICK c \in Conn : Request(c) \/ Read(c) \/ Write(c) \/ Breaks(c)
                              \/ \E w \in Goroutine : Close(c, w)
    BY <1>2 DEF Next
  <2>2. CASE Join(c) \/ Exit(c)
    BY <2>2, JoinOne, ExitOne
  <2>3. CASE Enters(c) \/ Exits(c)
    <3>1. Apart
      BY <2>3 DEF Enters, Exits, Apart
    <3> QED BY <3>1, ApartOne
  <2>4. CASE UNCHANGED groups
    BY <2>4, ApartOne DEF Apart
  <2>5. Request(c) => UNCHANGED groups
    BY DEF Request, Refused, Logout, ExitBegins, Login, JoinFinds, Says
  <2>6. Read(c) => Join(c) \/ Exit(c) \/ Enters(c) \/ Exits(c) \/ UNCHANGED groups
    BY DEF Read, Replies, Clears, Enqueue, Broadcast, PushGoesOn, Pushed, ReadFails, Push
  <2>7. Write(c) \/ Breaks(c) \/ (\E w \in Goroutine : Close(c, w)) => UNCHANGED groups
    BY DEF Write, Writes, WriteFails, Breaks, Close, CloseSets, CloseRemoves, CloseClears
  <2> QED BY <2>1, <2>2, <2>3, <2>4, <2>5, <2>6, <2>7
<1> QED BY <1>1, <1>2

\* Where a step of the reader of c leads that does not push.
Elsewhere(c) ==
    /\ \E w \in ReaderRec : w.at \notin {"pushing", "blocked"} /\ reader' = [reader EXCEPT ![c] = w]
    /\ ridToUnionGroups' = ridToUnionGroups \/ UnionFree

LEMMA ElsewhereStrangers ==
    ASSUME Types, NoStranger, NEW c \in Conn, Elsewhere(c) PROVE NoStranger'
<1>1. PICK w \in ReaderRec : w.at \notin {"pushing", "blocked"} /\ reader' = [reader EXCEPT ![c]
   = w]
    BY DEF Elsewhere
<1>2. reader'[c] = w /\ \A d \in Conn : d # c => reader'[d] = reader[d]
    BY <1>1 DEF Types, TypeOK
<1>3. ~Pushing(c)'
    BY <1>1, <1>2 DEF Pushing
<1> QED BY <1>2, <1>3, Pushers DEF Elsewhere

\* Going to another place is a step elsewhere unless it is one of Push's.
LEMMA GoesElsewhere ==
    ASSUME Types, NEW c \in Conn, NEW p \in Places \ {"pushing", "blocked"}, Goes(c, p),
           ridToUnionGroups' = ridToUnionGroups \/ UnionFree
    PROVE  Elsewhere(c)
<1>1. [reader[c] EXCEPT !.at = p] \in ReaderRec /\ [reader[c] EXCEPT !.at = p].at = p
    BY ReaderTypes DEF Types, ReaderRec
<1>2. reader' = [reader EXCEPT ![c] = [reader[c] EXCEPT !.at = p]]
    BY DEF Goes
<1> QED BY <1>1, <1>2 DEF Elsewhere

\* Every step keeps strangers out of what is left to be pushed.
LEMMA StrangerStep == ASSUME Types, OneChannel, NoStranger, [Next]_vars PROVE NoStranger'
<1>1. CASE UNCHANGED vars
    BY <1>1 DEF NoStranger, Pushing, vars, groups
<1>2. CASE Next
  <2>1. PICK c \in Conn : Request(c) \/ Read(c) \/ Write(c) \/ Breaks(c)
                              \/ \E w \in Goroutine : Close(c, w)
    BY <1>2 DEF Next
  <2>2. CASE reader' = reader /\ UNCHANGED groups
    BY <2>2, Pushers DEF groups
  <2>3. CASE Refused(c) \/ Enters(c) \/ Exits(c) \/ Pushed(c)
    <3>1. Goes(c, "replying") /\ ridToUnionGroups' = ridToUnionGroups
      BY <2>3 DEF Refused, Enters, Exits, Pushed, groups
    <3> QED BY <3>1, GoesElsewhere, ElsewhereStrangers DEF Places
  <2>4. CASE Join(c) \/ Exit(c)
    <3>1. Goes(c, "replying") /\ UnionFree
      BY <2>4 DEF Join, Exit
    <3> QED BY <3>1, GoesElsewhere, ElsewhereStrangers DEF Places
  <2>5. CASE Clears(c)
    BY <2>5, GoesElsewhere, ElsewhereStrangers DEF Places, Clears, groups
  <2>6. CASE ReadFails(c)
    BY <2>6, GoesElsewhere, ElsewhereStrangers DEF Places, ReadFails, groups
  <2>7. CASE Enqueue(c) \/ Replies(c) \/ Logout(c) \/ ExitBegins(c)
    <3> DEFINE Quiet == UNCHANGED groups /\ ~Pushing(c)' /\ \A d \in Conn : d # c =>
       reader'[d] = reader[d]
    <3>1. Enqueue(c) => Quiet
      BY ReaderTypes DEF Enqueue, Pushing, Types, TypeOK, ReaderRec, groups
    <3>2. Replies(c) => Quiet
      BY DEF Replies, Pushing, Types, TypeOK, Resting, groups
    <3>3. Logout(c) => Quiet
      BY ReaderTypes DEF Logout, Pushing, Types, TypeOK, ReaderRec, groups
    <3>4. ExitBegins(c) => Quiet
      BY ReaderTypes DEF ExitBegins, Pushing, Types, TypeOK, ReaderRec, groups
    <3> QED BY <2>7, <3>1, <3>2, <3>3, <3>4, Pushers DEF groups
  <2>8. CASE (\E r \in Role : Login(c, r)) \/ (\E g \in Union : JoinFinds(c, g))
                \/ (\E g \in Group : Says(c, g))
    <3> DEFINE Quiet == UNCHANGED groups /\ ~Pushing(c)' /\ \A d \in Conn : d # c =>
       reader'[d] = reader[d]
    <3>1. ASSUME NEW r \in Role, Login(c, r) PROVE Quiet
      BY <3>1, ReaderTypes DEF Login, Pushing, Types, TypeOK, ReaderRec, groups
    <3>2. ASSUME NEW g \in Union, JoinFinds(c, g) PROVE Quiet
      BY <3>2, ReaderTypes DEF JoinFinds, Pushing, Types, TypeOK, ReaderRec, groups
    <3>3. ASSUME NEW g \in Group, Says(c, g) PROVE Quiet
      BY <3>3, ReaderTypes DEF Says, Pushing, Types, TypeOK, ReaderRec, groups
    <3> QED BY <2>8, <3>1, <3>2, <3>3, Pushers DEF groups
  <2>9. CASE Broadcast(c)
    BY <2>9, BroadcastStrangers
  <2>10. CASE PushGoesOn(c)
    <3>1. /\ UNCHANGED groups /\ \A d \in Conn : d # c => reader'[d] = reader[d]
          /\ reader'[c].group = reader[c].group /\ reader'[c].left = reader[c].left /\ Pushing(c)
      BY <2>10 DEF PushGoesOn, At, Pushing, Types, TypeOK, ReaderRec, groups
    <3> QED BY <3>1, Pushers DEF groups
  <2>11. CASE \E r \in Role : Push(c, r)
    <3>1. /\ UNCHANGED groups /\ \A d \in Conn : d # c => reader'[d] = reader[d]
          /\ reader'[c].group = reader[c].group /\ reader'[c].left \subseteq
             reader[c].left /\ Pushing(c)
      BY <2>11 DEF Push, At, Pushing, Types, TypeOK, ReaderRec, groups
    <3> QED BY <3>1, Pushers DEF groups
  <2>12. Write(c) \/ Breaks(c) \/ (\E w \in Goroutine : Close(c, w))
            => reader' = reader /\ UNCHANGED groups
    BY DEF Write, Writes, WriteFails, Breaks, Close, CloseSets, CloseRemoves, CloseClears
  <2>13. CASE Request(c)
    BY <2>13, <2>3, <2>7, <2>8 DEF Request
  <2>14. CASE Read(c)
    BY <2>14, <2>3, <2>4, <2>5, <2>6, <2>7, <2>9, <2>10, <2>11 DEF Read
  <2> QED BY <2>1, <2>2, <2>12, <2>13, <2>14
<1> QED BY <1>1, <1>2

(***************************************************************************)
(* Whoever entered last is pushed to.                                      *)
(***************************************************************************)
\* What Takeover says of r.
Latest(r) ==
    LET c == entrant[r] IN
    c # NoConn /\ rid[c] = r /\ ~At(c, "clearing")
        /\ (\A w \in Goroutine : closer[c][w] # "clearing")
    => roleCache[r] = c

\* Steps that do not enter or take away a role, and stop no clearing.
LEMMA CalmTakeover ==
    ASSUME Types, Takeover, UNCHANGED roles,
           \A c \in Conn : /\ At(c, "clearing") => At(c, "clearing")'
                           /\ \A w \in Goroutine : closer[c][w] =
                              "clearing" => closer'[c][w] =
                              "clearing"
    PROVE  Takeover'
<1>1. ASSUME NEW r \in Role PROVE Latest(r)'
  <2>1. entrant[r] \in Conn \cup {NoConn} /\ Latest(r)
    BY DEF Types, TypeOK, Takeover, Latest
  <2> QED BY <2>1 DEF Latest, roles
<1> QED BY <1>1 DEF Takeover, Latest

\* A log-in makes its connection the latest one.
LEMMA LoginTakeover ==
    ASSUME Types, Takeover, NEW c \in Conn, NEW r \in Role, Login(c, r) PROVE Takeover'
<1>1. /\ roleCache' = [roleCache EXCEPT ![r] = c] /\ entrant' = [entrant EXCEPT ![r] = c]
      /\ rid' = [rid EXCEPT ![c] = r] /\ closer' = closer
      /\ \A d \in Conn : d # c => reader'[d] = reader[d]
    BY DEF Login, conns, Types, TypeOK
<1>2. ~At(c, "clearing")
    BY DEF Login, Asks, At
<1>3. ASSUME NEW q \in Role PROVE Latest(q)'
  <2>1. CASE q = r
    BY <1>1, <2>1 DEF Latest, Types, TypeOK
  <2>2. CASE q # r
    <3>1. entrant'[q] = entrant[q] /\ roleCache'[q] = roleCache[q] /\ entrant[q] \in Conn
       \cup {NoConn}
      BY <1>1, <2>2 DEF Types, TypeOK
    <3>2. CASE entrant[q] = c
      BY <1>1, <2>2, <3>1, <3>2 DEF Latest, Types, TypeOK
    <3>3. CASE entrant[q] # c
      <4>1. Latest(q)
        BY DEF Takeover, Latest
      <4> QED BY <1>1, <3>1, <3>3, <4>1 DEF Latest, At, Types, TypeOK
    <3> QED BY <3>2, <3>3
  <2> QED BY <2>1, <2>2
<1> QED BY <1>3 DEF Takeover, Latest

\* Removing takes only one's own entry away, and clears afterwards.
LEMMA RemoveTakeover ==
    ASSUME Types, Takeover, NEW c \in Conn,
           roleCache' = Removed(c) \/ roleCache' = roleCache, UNCHANGED <<rid, entrant>>,
           \A d \in Conn : /\ At(d, "clearing") => At(d, "clearing")'
                           /\ \A w \in Goroutine : closer[d][w] =
                              "clearing" => closer'[d][w] =
                              "clearing",
           At(c, "clearing")' \/ \E w \in Goroutine : closer'[c][w] = "clearing"
    PROVE  Takeover'
<1>1. ASSUME NEW q \in Role PROVE Latest(q)'
  <2>1. entrant[q] \in Conn \cup {NoConn} /\ Latest(q) /\ entrant'[q] = entrant[q]
    BY DEF Types, TypeOK, Takeover, Latest
  <2>2. CASE entrant[q] = c
    BY <2>1, <2>2 DEF Latest
  <2>3. CASE entrant[q] # c
    <3>1. roleCache[q] = entrant[q] => roleCache'[q] = entrant[q]
      BY <2>3 DEF Removed, Types, TypeOK
    <3> QED BY <2>1, <3>1 DEF Latest
  <2> QED BY <2>2, <2>3
<1> QED BY <1>1 DEF Takeover, Latest

\* Who is cleared is nobody's latest connection any more.
LEMMA ClearTakeover ==
    ASSUME Types, Takeover, NEW c \in Conn,
           rid' = [rid EXCEPT ![c] = NoRole], UNCHANGED <<roleCache, entrant>>,
           \A d \in Conn \ {c} : closer'[d] = closer[d] /\ reader'[d] = reader[d]
    PROVE  Takeover'
<1>1. ASSUME NEW q \in Role PROVE Latest(q)'
  <2>1. entrant[q] \in Conn \cup {NoConn} /\ Latest(q) /\ q # NoRole
    BY ChatAssumption DEF Types, TypeOK, Takeover, Latest
  <2>2. CASE entrant[q] = c
    BY <2>1, <2>2 DEF Latest, Types, TypeOK
  <2>3. CASE entrant[q] # c
    BY <2>1, <2>3 DEF Latest, At, Types, TypeOK
  <2> QED BY <2>2, <2>3
<1> QED BY <1>1 DEF Takeover, Latest

\* Whoever begins to close is in no earlier Close.
LEMMA ClosedKeeps ==
    ASSUME Types, NEW c \in Conn, NEW w \in Goroutine, Closed(c, w), closer[c][w] = "no"
    PROVE  \A d \in Conn, x \in Goroutine : closer[d][x] = "clearing" => closer'[d][x] = "clearing"
<1>1. CASE closer' = closer
    BY <1>1
<1>2. CASE closer' = [closer EXCEPT ![c][w] = "closing"]
    BY <1>2 DEF Types, TypeOK
<1> QED BY <1>1, <1>2 DEF Closed

\* Every step keeps the latest connection in the cache.
LEMMA TakeoverStep == ASSUME Types, Takeover, [Next]_vars PROVE Takeover'
<1> DEFINE Kept == \A d \in Conn :
               /\ At(d, "clearing") => At(d, "clearing")'
               /\ \A w \in Goroutine : closer[d][w] = "clearing" => closer'[d][w] = "clearing"
<1>1. CASE UNCHANGED vars
    BY <1>1, CalmTakeover DEF At, vars, roles, conns
<1>2. CASE Next
  <2>1. PICK c \in Conn : Request(c) \/ Read(c) \/ Write(c) \/ Breaks(c)
                              \/ \E w \in Goroutine : Close(c, w)
    BY <1>2 DEF Next
  <2>2. CASE Request(c)
    <3>1. ASSUME NEW r \in Role, Login(c, r) PROVE Takeover'
      BY <3>1, LoginTakeover
    <3>2. CASE Logout(c)
      <4>1. /\ \A d \in Conn : d # c => reader'[d] = reader[d]
            /\ reader'[c].at = "clearing" /\ closer' = closer
        BY <3>2, ReaderTypes DEF Logout, Types, TypeOK, ReaderRec, conns
      <4>2. Kept /\ At(c, "clearing")'
        BY <4>1 DEF At
      <4>3. roleCache' = Removed(c) /\ UNCHANGED <<rid, entrant>>
        BY <3>2 DEF Logout
      <4> QED BY <4>2, <4>3, RemoveTakeover
    <3>3. CASE Refused(c) \/ ExitBegins(c) \/ (\E g \in Union : JoinFinds(c, g))
                  \/ (\E g \in Group : Says(c, g))
      <4>1. /\ \A d \in Conn : d # c => reader'[d] = reader[d]
            /\ ~At(c, "clearing") /\ closer' = closer /\ UNCHANGED roles
        BY <3>3 DEF Refused, ExitBegins, JoinFinds, Says, Asks, At, Goes, Types, TypeOK, conns
      <4> QED BY <4>1, CalmTakeover DEF At
    <3> QED BY <2>2, <3>1, <3>2, <3>3 DEF Request
  <2>3. CASE Read(c)
    <3>1. CASE Clears(c)
      <4>1. /\ rid' = [rid EXCEPT ![c] = NoRole] /\ UNCHANGED <<roleCache, entrant>>
            /\ closer' = closer /\ \A d \in Conn : d # c => reader'[d] = reader[d]
        BY <3>1 DEF Clears, Goes, Types, TypeOK, conns
      <4> QED BY <4>1, ClearTakeover
    <3>2. CASE ReadFails(c)
      <4>1. /\ \A d \in Conn : d # c => reader'[d] = reader[d]
            /\ ~At(c, "clearing") /\ UNCHANGED roles
        BY <3>2 DEF ReadFails, At, Goes, Types, TypeOK
      <4>2. closer[c]["read"] = "no" /\ Closed(c, "read")
        BY <3>2 DEF ReadFails, At, Types, HandlersKnow
      <4>3. Kept
        BY <4>1, <4>2, ClosedKeeps DEF At, Goroutine
      <4> QED BY <4>1, <4>3, CalmTakeover
    <3>3. CASE ~Clears(c) /\ ~ReadFails(c)
      <4>1. /\ \A d \in Conn : d # c => reader'[d] = reader[d]
            /\ ~At(c, "clearing") /\ closer' = closer /\ UNCHANGED roles
        BY <2>3, <3>3 DEF Read, Replies, Enters, Exits, Join, Exit, Enqueue, Broadcast, PushGoesOn,
           Pushed, Push, At, Goes, Types, TypeOK, conns
      <4> QED BY <4>1, CalmTakeover DEF At
    <3> QED BY <3>1, <3>2, <3>3
  <2>4. CASE Write(c)
    <3>1. reader' = reader /\ UNCHANGED roles
      BY <2>4 DEF Write, Writes, WriteFails
    <3>2. \A d \in Conn, w \in Goroutine : closer[d][w] = "clearing" => closer'[d][w] = "clearing"
      <4>1. CASE Writes(c)
        BY <4>1 DEF Writes, conns
      <4>2. CASE WriteFails(c)
        BY <4>2, ClosedKeeps DEF WriteFails, Goroutine
      <4> QED BY <2>4, <4>1, <4>2 DEF Write
    <3> QED BY <3>1, <3>2, CalmTakeover DEF At
  <2>5. CASE Breaks(c)
    BY <2>5, CalmTakeover DEF Breaks, At, roles
  <2>6. ASSUME NEW w \in Goroutine, Close(c, w) PROVE Takeover'
    <3>1. CASE CloseSets(c, w)
      <4>1. /\ reader' = reader /\ UNCHANGED roles
            /\ \A d \in Conn, x \in Goroutine : closer[d][x] = "clearing" =>
               closer'[d][x] = "clearing"
        BY <3>1 DEF CloseSets, Types, TypeOK
      <4> QED BY <4>1, CalmTakeover DEF At
    <3>2. CASE CloseRemoves(c, w)
      <4>1. /\ reader' = reader /\ UNCHANGED <<rid, entrant>>
            /\ roleCache' = Removed(c) \/ roleCache' = roleCache
            /\ \A d \in Conn, x \in Goroutine : closer[d][x] = "clearing" =>
               closer'[d][x] = "clearing"
            /\ closer'[c][w] = "clearing"
        BY <3>2 DEF CloseRemoves, Types, TypeOK
      <4> QED BY <4>1, RemoveTakeover DEF At
    <3>3. CASE CloseClears(c, w)
      <4>1. /\ rid' = [rid EXCEPT ![c] = NoRole] /\ UNCHANGED <<roleCache, entrant>>
            /\ reader' = reader /\ \A d \in Conn \ {c} : closer'[d] = closer[d]
        BY <3>3 DEF CloseClears, Types, TypeOK
      <4> QED BY <4>1, ClearTakeover
    <3> QED BY <2>6, <3>1, <3>2, <3>3 DEF Close
  <2> QED BY <2>1, <2>2, <2>3, <2>4, <2>5, <2>6
<1> QED BY <1>1, <1>2

(***************************************************************************)
(* The theorems.                                                           *)
(***************************************************************************)
\* It holds at the start.
LEMMA InitInv == Init => IInv
<1> SUFFICES ASSUME Init PROVE IInv
    OBVIOUS
<1>1. TypeOK
    BY ChatAssumption DEF Init, TypeOK, ReaderRec, Resting, Places, Group, Goroutine
<1>2. HandlersKnow /\ NoStranger
    BY DEF Init, HandlersKnow, NoStranger, At, Pushing, Resting, Goroutine
<1>3. OneChannel
    BY ChatAssumption DEF Init, OneChannel, Group
<1>4. Takeover
    BY DEF Init, Takeover
<1> QED BY <1>1, <1>2, <1>3, <1>4 DEF IInv, Types

\* Types, what handlers know, who is listed where, who is still to be pushed to
\* and where a role entered last are inductive together.
THEOREM Invariance == Spec => []IInv
<1>1. IInv /\ [Next]_vars => IInv'
    BY TypesStep, OneChannelStep, StrangerStep, TakeoverStep DEF IInv
<1> QED BY <1>1, InitInv, PTL DEF Spec

\* The state of the chat server keeps its types: no outChan and no history is
\* longer than it may be (serverconn.go:36, group.go:51).
THEOREM TypeCorrect == Spec => []TypeOK
<1>1. IInv => TypeOK
    BY DEF IInv, Types
<1> QED BY <1>1, Invariance, PTL

\* A role is listed in the channel it talks to and in no other one
\* (chat.go:155-179), however many connections it is on.
THEOREM MembersAreListed == Spec => []OneChannel
<1>1. IInv => OneChannel
    BY DEF IInv
<1> QED BY <1>1, Invariance, PTL

\* Nobody who has left a union's channel is pushed what is said there: join and
\* exit wait for unionMutex, which chat holds till the push is done
\* (chat.go:95-106).
THEOREM NobodyElseIsPushedTo == Spec => []NoStranger
<1>1. IInv => NoStranger
    BY DEF IInv
<1> QED BY <1>1, Invariance, PTL

\* The connection that entered as a role last is pushed to, though older ones
\* log out or close (connMgr.go:88-97).
THEOREM LatestIsPushedTo == Spec => []Takeover
<1>1. IInv => Takeover
    BY DEF IInv
<1> QED BY <1>1, Invariance, PTL

(***************************************************************************)
(* Somebody can go on.                                                     *)
(***************************************************************************)
\* rm is locked by whoever waits with it, and by nobody else.
Held == \A c \in Conn : At(c, "blocked") <=> rm = c

\* A connection that has not broken has its reader and its writer.
Open ==
    \A c \in Conn : c \in alive =>
        c \notin isClosed /\ ~At(c, "ended") /\ \A w \in Goroutine : closer[c][w] = "no"

SInv == Held /\ Open /\ rm \in Conn \cup {NoConn}

\* A reader goes to another place, neither to wait with rm nor to end.
LEMMA PlacesStep ==
    ASSUME SInv, NEW c \in Conn, UNCHANGED <<rm, conns>>,
           ~At(c, "blocked"), reader'[c].at \notin {"blocked", "ended"},
           \A d \in Conn : d # c => reader'[d] = reader[d]
    PROVE  SInv'
<1>1. Held'
    BY DEF SInv, Held, At
<1>2. Open'
    BY DEF SInv, Open, At, conns
<1> QED BY <1>1, <1>2 DEF SInv

\* The readers stay where they are, and no connection is the worse for it.
LEMMA StillStep ==
    ASSUME SInv, UNCHANGED <<reader, rm>>, alive' \subseteq alive,
           \A c \in Conn : c \in alive' =>
               /\ c \in isClosed' => c \in isClosed
               /\ \A w \in Goroutine : closer'[c][w] = closer[c][w]
    PROVE  SInv'
<1>1. Held'
    BY DEF SInv, Held, At
<1>2. Open'
    BY DEF SInv, Open, At
<1> QED BY <1>1, <1>2 DEF SInv

LEMMA RequestStands == ASSUME Types, SInv, NEW c \in Conn, Request(c) PROVE SInv'
<1>1. reader \in [Conn -> ReaderRec] /\ reader[c] \in ReaderRec
    BY DEF Types, TypeOK
<1>2. At(c, "idle") /\ ~At(c, "blocked") /\ UNCHANGED <<rm, conns>>
    BY DEF Request, Refused, Logout, ExitBegins, Login, JoinFinds, Says, Asks, At
<1>3. /\ reader'[c].at \notin {"blocked", "ended"}
      /\ \A d \in Conn : d # c => reader'[d] = reader[d]
  <2>1. CASE Refused(c) \/ Logout(c) \/ ExitBegins(c)
    BY <1>1, <2>1 DEF Refused, Logout, ExitBegins, Goes, ReaderRec
  <2>2. CASE \E r \in Role : Login(c, r)
    BY <1>1, <2>2 DEF Login, ReaderRec
  <2>3. CASE \E g \in Union : JoinFinds(c, g)
    BY <1>1, <2>3 DEF JoinFinds, ReaderRec
  <2>4. CASE \E g \in Group : Says(c, g)
    BY <1>1, <2>4 DEF Says, ReaderRec
  <2> QED BY <2>1, <2>2, <2>3, <2>4 DEF Request
<1> QED BY <1>2, <1>3, PlacesStep

LEMMA PushStands ==
    ASSUME Types, SInv, NEW c \in Conn, NEW r \in Role, Push(c, r)
    PROVE  SInv'
<1>1. reader \in [Conn -> ReaderRec] /\ reader[c] \in ReaderRec
    BY DEF Types, TypeOK
<1> DEFINE d == roleCache[r]
           full == d # NoConn /\ Len(outChan[d]) = OutCap
<1>2. /\ rm = NoConn /\ At(c, "pushing") /\ UNCHANGED conns
      /\ rm' = IF full THEN c ELSE NoConn
    BY DEF Push, RmFree
<1>3. /\ reader'[c].at = IF full THEN "blocked" ELSE "pushing"
      /\ \A e \in Conn : e # c => reader'[e] = reader[e]
    BY <1>1 DEF Push, ReaderRec
<1> HIDE DEF full
<1>4. \A e \in Conn : ~At(e, "blocked")
    BY <1>2, ChatAssumption DEF SInv, Held
<1>5. Held'
    BY <1>2, <1>3, <1>4, ChatAssumption DEF Held, At
<1>6. Open'
    BY <1>2, <1>3 DEF SInv, Open, At, conns
<1>7. rm' \in Conn \cup {NoConn}
    BY <1>2
<1> QED BY <1>5, <1>6, <1>7 DEF SInv

LEMMA PushGoesOnStands ==
    ASSUME Types, SInv, NEW c \in Conn, PushGoesOn(c)
    PROVE  SInv'
<1>1. reader \in [Conn -> ReaderRec] /\ reader[c] \in ReaderRec
    BY DEF Types, TypeOK
<1>2. /\ At(c, "blocked") /\ rm' = NoConn /\ UNCHANGED conns
      /\ reader'[c].at = "pushing" /\ \A e \in Conn : e # c => reader'[e] = reader[e]
    BY <1>1 DEF PushGoesOn, ReaderRec
<1>3. \A e \in Conn : e # c => ~At(e, "blocked")
    BY <1>2 DEF SInv, Held
<1>4. Held'
    BY <1>2, <1>3, ChatAssumption DEF Held, At
<1>5. Open'
    BY <1>2 DEF SInv, Open, At, conns
<1> QED BY <1>2, <1>4, <1>5 DEF SInv

LEMMA ReadFailsStands ==
    ASSUME Types, SInv, NEW c \in Conn, ReadFails(c)
    PROVE  SInv'
<1>1. reader \in [Conn -> ReaderRec] /\ reader[c] \in ReaderRec
    BY DEF Types, TypeOK
<1>2. /\ At(c, "idle") /\ c \notin alive /\ UNCHANGED <<alive, isClosed, rm>>
      /\ reader'[c].at = "ended" /\ \A e \in Conn : e # c => reader'[e] = reader[e]
    BY <1>1 DEF ReadFails, Goes, ReaderRec
<1>3. \A e \in Conn : e # c => closer'[e] = closer[e]
    BY DEF ReadFails, Closed, Types, TypeOK
<1>4. Held'
    BY <1>2 DEF SInv, Held, At
<1>5. Open'
    BY <1>2, <1>3 DEF SInv, Open, At
<1> QED BY <1>2, <1>4, <1>5 DEF SInv

LEMMA ReadStands == ASSUME Types, SInv, NEW c \in Conn, Read(c) PROVE SInv'
<1>1. reader \in [Conn -> ReaderRec] /\ reader[c] \in ReaderRec
    BY DEF Types, TypeOK
<1>2. CASE \/ Replies(c) \/ Enters(c) \/ Clears(c) \/ Exits(c) \/ Join(c) \/ Exit(c)
           \/ Enqueue(c) \/ Broadcast(c) \/ Pushed(c)
  <2>1. ~At(c, "blocked") /\ UNCHANGED <<rm, conns>>
    BY <1>2 DEF Replies, Enters, Clears, Exits, Join, Exit, Enqueue, Broadcast, Pushed, At
  <2>2. /\ reader'[c].at \notin {"blocked", "ended"}
        /\ \A d \in Conn : d # c => reader'[d] = reader[d]
    <3>1. CASE Replies(c)
      BY <1>1, <3>1 DEF Replies, Resting
    <3>2. CASE Enters(c) \/ Clears(c) \/ Exits(c) \/ Join(c) \/ Exit(c) \/ Pushed(c)
      BY <1>1, <3>2 DEF Enters, Clears, Exits, Join, Exit, Pushed, Goes, ReaderRec
    <3>3. CASE Enqueue(c)
      BY <1>1, <3>3 DEF Enqueue, ReaderRec
    <3>4. CASE Broadcast(c)
      BY <1>1, <3>4 DEF Broadcast, ReaderRec
    <3> QED BY <1>2, <3>1, <3>2, <3>3, <3>4
  <2> QED BY <2>1, <2>2, PlacesStep
<1> QED BY <1>2, PushStands, PushGoesOnStands, ReadFailsStands DEF Read

LEMMA WriteStands == ASSUME Types, SInv, NEW c \in Conn, Write(c) PROVE SInv'
<1>1. UNCHANGED <<reader, rm, alive, isClosed>>
    BY DEF Write, Writes, WriteFails, conns
<1>2. \A d \in Conn : d \in alive => closer'[d] = closer[d]
    BY DEF Write, Writes, WriteFails, Closed, conns, Types, TypeOK
<1> QED BY <1>1, <1>2, StillStep

\* Only broken connections are closed.
LEMMA CloseStands ==
    ASSUME Types, SInv, NEW c \in Conn, NEW w \in Goroutine, Close(c, w)
    PROVE  SInv'
<1>1. c \notin alive
    BY DEF Close, CloseSets, CloseRemoves, CloseClears, SInv, Open
<1>2. /\ UNCHANGED <<reader, rm, alive>> /\ isClosed' \subseteq isClosed \cup {c}
      /\ \A d \in Conn : d # c => closer'[d] = closer[d]
    BY DEF Close, CloseSets, CloseRemoves, CloseClears, Types, TypeOK
<1> QED BY <1>1, <1>2, StillStep

LEMMA NextStands == ASSUME Types, SInv, [Next]_vars PROVE SInv'
<1>1. CASE UNCHANGED vars
    BY <1>1, StillStep DEF vars, conns
<1>2. ASSUME NEW c \in Conn, Breaks(c) PROVE SInv'
    BY <1>2, StillStep DEF Breaks
<1> QED BY <1>1, <1>2, RequestStands, ReadStands, WriteStands, CloseStands DEF Next

\* Of the locks, rm is waited for by those that hold userMutex, and userMutex by
\* those that hold unionMutex; and rm waits for a writer only.
LEMMA SomebodyGoesOn == ASSUME Types, SInv PROVE NoStandstill
<1> SUFFICES ASSUME alive = Conn, NEW b \in Conn, ~At(b, "idle"),
                    \A c \in Conn : ~CanRead(c) /\ ~CanWrite(c)
             PROVE  FALSE
    BY DEF NoStandstill
<1>1. \A c \in Conn : Len(outChan[c]) < OutCap
  <2>1. \A c \in Conn : outChan[c] = << >>
    BY DEF CanWrite, SInv, Open, Goroutine
  <2> QED BY <2>1, ChatAssumption
<1>2. \A c \in Conn : ~At(c, "blocked") /\ ~At(c, "replying")
    BY <1>1 DEF CanRead, Types, HandlersKnow
<1>3. rm = NoConn
    BY <1>2 DEF SInv, Held
<1>4. \A c \in Conn : ~Pushing(c)
    BY <1>2, <1>3 DEF CanRead, Pushing, At, RmFree
<1>5. \A c \in Conn : ~Talking(c)
    BY <1>4 DEF CanRead, Talking, At
<1>6. UserFree(World) /\ UnionFree
    BY <1>4, <1>5 DEF UserFree, UnionFree
<1>7. reader[b].at \in Places /\ ~At(b, "ended")
    BY DEF Types, TypeOK, ReaderRec, SInv, Open
<1> QED BY <1>2, <1>4, <1>6, <1>7 DEF CanRead, At, Places, Pushing

\* While no connection breaks the chat server does not come to a standstill: the
\* three kinds of lock are taken in one order, and the last of them, rm, waits
\* for nothing but a writer (chat.go:93-180, group.go:22-65, connMgr.go:124-135).
THEOREM SomebodyCanGoOn == Spec => []NoStandstill
<1>1. Init => SInv
    BY ChatAssumption DEF Init, SInv, Held, Open, At, Resting, Goroutine
<1>2. IInv /\ SInv /\ [Next]_vars => SInv'
    BY NextStands DEF IInv
<1>3. IInv /\ SInv => NoStandstill
    BY SomebodyGoesOn DEF IInv
<1> QED BY <1>1, <1>2, <1>3, Invariance, PTL DEF Spec

=============================================================================
