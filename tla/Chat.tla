-------------------------------- MODULE Chat --------------------------------
(***************************************************************************)
(* The chat server: chatserver/controller/chat.go and logic/group.go, with *)
(* the connections they answer and push over, net/serverconn.go, and the   *)
(* part of net/connMgr.go that says which connection a role is on.         *)
(*                                                                         *)
(* Each connection has a goroutine that reads requests and runs their      *)
(* handlers one after the other, the reader, and one that writes what is   *)
(* in outChan, the writer.  Either may find the connection broken and run  *)
(* Close, at the same time as the other one does.                          *)
(*                                                                         *)
(* Four kinds of lock are taken: unionMutex, the userMutex of each group,  *)
(* rm of ConnMgr, and msgMutex, which is never held while waiting.  A step *)
(* ends where a lock is given back, and where a goroutine may have to wait *)
(* with locks in its hands.  Operators named ..._Bug are mutants of the    *)
(* definition that follows.                                                *)
(***************************************************************************)
EXTENDS Integers, FiniteSets, SequencesExt

CONSTANTS
    Conn, NoConn,    \* connections, and none
    Role, NoRole,    \* role ids
    Union, NoGroup,  \* unions with a channel of their own
    World,           \* the group everybody is in
    OutCap,      \* capacity of outChan (1000 in the code)
    HistoryCap,  \* the size from which PutMsg drops the oldest message (100)
    MaxRequests  \* bound: requests of all connections

Group == Union \cup {World}

ASSUME ChatAssumption ==
    /\ NoConn \notin Conn /\ NoRole \notin Role
    /\ World \notin Union /\ NoGroup \notin Group
    /\ OutCap \in Nat \ {0} /\ HistoryCap \in Nat /\ MaxRequests \in Nat

VARIABLES
    reader,    \* [Conn -> what its reader is doing, with local variables]
    closer,    \* [Conn -> [Goroutine -> how far its Close is]]
    alive,     \* the connections whose socket works
    isClosed,  \* the connections Close has marked
    rid,       \* [Conn -> the property "rid"]
    roleCache, \* ConnMgr.roleCache
    rm,        \* the connection whose reader waits with rm locked, or NoConn
    outChan,   \* [Conn -> what is to be written]
    users,     \* [Group -> SUBSET Role]
    msgs,      \* [Group -> the last messages, as their numbers]
    ridToUnionGroups,  \* [Role -> Union or NoGroup]
    entrant,   \* auxiliary: [Role -> the connection that entered as it last]
    made,      \* messages made so far
    requests   \* requests so far

conns == <<closer, alive, isClosed>>
roles == <<rid, roleCache, entrant>>
groups == <<users, ridToUnionGroups>>
vars == <<reader, conns, roles, rm, outChan, groups, msgs, made, requests>>

Goroutine == {"read", "write"}
Places == {"idle", "entering", "clearing", "exiting", "joining", "leaving", "queueing", "casting",
           "pushing", "blocked", "replying", "ended"}
ReaderRec == [at : Places, group : Group, role : Role \cup {NoRole},
              left : SUBSET Role, to : Conn \cup {NoConn}, msg : Nat]
Resting == [at |-> "idle", group |-> World, role |-> NoRole, left |-> {},
            to |-> NoConn, msg |-> 0]
Reply == 0   \* in outChan; messages have positive numbers

TypeOK ==
    /\ reader \in [Conn -> ReaderRec]
    /\ closer \in [Conn -> [Goroutine -> {"no", "closing", "removing", "clearing"}]]
    /\ alive \subseteq Conn /\ isClosed \subseteq Conn
    /\ rid \in [Conn -> Role \cup {NoRole}] /\ roleCache \in [Role -> Conn \cup {NoConn}]
    /\ entrant \in [Role -> Conn \cup {NoConn}] /\ rm \in Conn \cup {NoConn}
    /\ outChan \in [Conn -> Seq(0..made)] /\ \A c \in Conn : Len(outChan[c]) <= OutCap
    /\ users \in [Group -> SUBSET Role]
    /\ msgs \in [Group -> Seq(1..made)] /\ \A g \in Group : Len(msgs[g]) <= HistoryCap + 1
    /\ ridToUnionGroups \in [Role -> Union \cup {NoGroup}]
    /\ made \in Nat /\ requests \in 0..MaxRequests

-----------------------------------------------------------------------------
(* Who holds which lock.  rm is held by a reader that waits, or for a step. *)

At(c, place) == reader[c].at = place
Goes(c, place) == reader' = [reader EXCEPT ![c].at = place]
Pushing(c) == reader[c].at \in {"pushing", "blocked"}
Talking(c) == reader[c].at \in {"queueing", "casting"} \/ Pushing(c)

RmFree == rm = NoConn
UserFree(g) == \A c \in Conn : Pushing(c) => reader[c].group # g
UnionFree == \A c \in Conn : Talking(c) => reader[c].group = World

\* The next request of a connection.
Asks(c) ==
    /\ At(c, "idle") /\ c \in alive
    /\ requests < MaxRequests
    /\ requests' = requests + 1

\* A request without effect: one that needs the property "rid" before log-in,
\* one for the channel of a union by somebody who has joined none, a history.
Refused(c) ==
    /\ Asks(c)
    /\ Goes(c, "replying")
    /\ UNCHANGED <<conns, roles, rm, outChan, groups, msgs, made>>

\* outChan <- rsp
Replies(c) ==
    /\ At(c, "replying") /\ Len(outChan[c]) < OutCap
    /\ outChan' = [outChan EXCEPT ![c] = Append(@, Reply)]
    /\ reader' = [reader EXCEPT ![c] = Resting]
    /\ UNCHANGED <<conns, roles, rm, groups, msgs, made, requests>>

-----------------------------------------------------------------------------
(* login and logout *)

\* The session is one of role r.  ConnMgr.RoleEnter.
Login(c, r) ==
    /\ Asks(c) /\ RmFree
    /\ rid' = [rid EXCEPT ![c] = r]
    /\ roleCache' = [roleCache EXCEPT ![r] = c]
    /\ entrant' = [entrant EXCEPT ![r] = c]
    /\ reader' = [reader EXCEPT ![c] = [@ EXCEPT !.at = "entering", !.role = r]]
    /\ UNCHANGED <<conns, rm, outChan, groups, msgs, made>>

Enters(c) ==
    /\ At(c, "entering") /\ UserFree(World)
    /\ users' = [users EXCEPT ![World] = @ \cup {reader[c].role}]
    /\ Goes(c, "replying")
    /\ UNCHANGED <<conns, roles, rm, outChan, ridToUnionGroups, msgs, made, requests>>

Removed_Bug(c) == [roleCache EXCEPT ![rid[c]] = NoConn]
\* removeUser: only one's own entry goes.
Removed(c) ==
    [roleCache EXCEPT ![rid[c]] = IF roleCache[rid[c]] = c THEN NoConn ELSE @]

Logout(c) ==
    /\ Asks(c) /\ RmFree /\ rid[c] # NoRole
    /\ roleCache' = Removed(c)
    /\ reader' = [reader EXCEPT ![c] = [@ EXCEPT !.at = "clearing", !.role = rid[c]]]
    /\ UNCHANGED <<conns, rid, entrant, rm, outChan, groups, msgs, made>>

Clears(c) ==
    /\ At(c, "clearing")
    /\ rid' = [rid EXCEPT ![c] = NoRole]
    /\ Goes(c, "exiting")
    /\ UNCHANGED <<conns, roleCache, entrant, rm, outChan, groups, msgs, made, requests>>

\* The role that the client names is its own.  Its union's channel keeps it.
Exits(c) ==
    /\ At(c, "exiting") /\ UserFree(World)
    /\ users' = [users EXCEPT ![World] = @ \ {reader[c].role}]
    /\ Goes(c, "replying")
    /\ UNCHANGED <<conns, roles, rm, outChan, ridToUnionGroups, msgs, made, requests>>

-----------------------------------------------------------------------------
(* join and exit: the channel of a union *)

JoinFinds(c, g) ==
    /\ Asks(c) /\ rid[c] # NoRole
    /\ UserFree(World) /\ rid[c] \in users[World]
    /\ reader' = [reader EXCEPT ![c] =
           [@ EXCEPT !.at = "joining", !.role = rid[c], !.group = g]]
    /\ UNCHANGED <<conns, roles, rm, outChan, groups, msgs, made>>

Join_Bug(c) ==
    /\ At(c, "joining") /\ UnionFree
    /\ LET r == reader[c].role
           g == reader[c].group
       IN  /\ ridToUnionGroups' = [ridToUnionGroups EXCEPT ![r] = g]
           /\ users' = [users EXCEPT ![g] = @ \cup {r}]
    /\ Goes(c, "replying")
    /\ UNCHANGED <<conns, roles, rm, outChan, msgs, made, requests>>
\* One is in one union's channel at a time: the old one is left.
Join(c) ==
    /\ At(c, "joining") /\ UnionFree
    /\ LET r == reader[c].role
           g == reader[c].group
           old == ridToUnionGroups[r]
       IN  IF old = g THEN UNCHANGED groups
           ELSE /\ ridToUnionGroups' = [ridToUnionGroups EXCEPT ![r] = g]
                /\ users' = [h \in Group |-> IF h = g THEN users[h] \cup {r}
                                             ELSE IF h = old THEN users[h] \ {r}
                                             ELSE users[h]]
    /\ Goes(c, "replying")
    /\ UNCHANGED <<conns, roles, rm, outChan, msgs, made, requests>>

ExitBegins(c) ==
    /\ Asks(c) /\ rid[c] # NoRole
    /\ reader' = [reader EXCEPT ![c] = [@ EXCEPT !.at = "leaving", !.role = rid[c]]]
    /\ UNCHANGED <<conns, roles, rm, outChan, groups, msgs, made>>

\* The channel a role talks to, without the role.
Left(r) == [h \in Group |-> IF h = ridToUnionGroups[r] THEN users[h] \ {r} ELSE users[h]]

Exit_Bug(c) ==
    /\ At(c, "leaving")
    /\ LET r == reader[c].role IN
       /\ ridToUnionGroups' = [ridToUnionGroups EXCEPT ![r] = NoGroup]
       /\ users' = Left(r)
    /\ Goes(c, "replying")
    /\ UNCHANGED <<conns, roles, rm, outChan, msgs, made, requests>>
Exit(c) ==
    /\ At(c, "leaving") /\ UnionFree
    /\ LET r == reader[c].role IN
       /\ ridToUnionGroups' = [ridToUnionGroups EXCEPT ![r] = NoGroup]
       /\ users' = Left(r)
    /\ Goes(c, "replying")
    /\ UNCHANGED <<conns, roles, rm, outChan, msgs, made, requests>>

-----------------------------------------------------------------------------
(* chat: Group.PutMsg *)

\* unionMutex is held for reading from here on if the group is a union's.
Says(c, g) ==
    /\ Asks(c) /\ rid[c] \in users[g]
    /\ g # World => g = ridToUnionGroups[rid[c]]
    /\ reader' = [reader EXCEPT ![c] = [@ EXCEPT !.at = "queueing", !.group = g]]
    /\ UNCHANGED <<conns, roles, rm, outChan, groups, msgs, made>>

Queued_Bug(g, m) == IF Len(msgs[g]) > HistoryCap + 1 THEN Append(Tail(msgs[g]), m)
                    ELSE Append(msgs[g], m)
Queued(g, m) == IF Len(msgs[g]) > HistoryCap THEN Append(Tail(msgs[g]), m)
                ELSE Append(msgs[g], m)

Enqueue(c) ==
    /\ At(c, "queueing")
    /\ made' = made + 1
    /\ msgs' = [msgs EXCEPT ![reader[c].group] = Queued(reader[c].group, made + 1)]
    /\ reader' = [reader EXCEPT ![c] = [@ EXCEPT !.at = "casting", !.msg = made + 1]]
    /\ UNCHANGED <<conns, roles, rm, outChan, groups, requests>>

\* userMutex of the group is held for reading from here on.
Broadcast(c) ==
    /\ At(c, "casting")
    /\ reader' = [reader EXCEPT ![c] = [@ EXCEPT !.at = "pushing", !.left = users[reader[c].group]]]
    /\ UNCHANGED <<conns, roles, rm, outChan, groups, msgs, made, requests>>

Push_Bug(c, r) ==
    /\ At(c, "pushing") /\ r \in reader[c].left /\ RmFree
    /\ LET d == roleCache[r]
           full == d # NoConn /\ Len(outChan[d]) = OutCap
       IN  /\ rm' = IF full \/ d = NoConn THEN c ELSE NoConn
           /\ outChan' = IF d = NoConn \/ full THEN outChan
                         ELSE [outChan EXCEPT ![d] = Append(@, reader[c].msg)]
           /\ reader' = [reader EXCEPT ![c] =
                  [@ EXCEPT !.at = IF full THEN "blocked" ELSE "pushing", !.left = reader[c].left \ {r},
                            !.to = IF full THEN d ELSE NoConn]]
    /\ UNCHANGED <<conns, roles, groups, msgs, made, requests>>
\* PushByRoleId: nothing for a role that is on no connection; waits with rm
\* locked when the outChan is full.
Push(c, r) ==
    /\ At(c, "pushing") /\ r \in reader[c].left /\ RmFree
    /\ LET d == roleCache[r]
           full == d # NoConn /\ Len(outChan[d]) = OutCap
       IN  /\ rm' = IF full THEN c ELSE NoConn
           /\ outChan' = IF d = NoConn \/ full THEN outChan
                         ELSE [outChan EXCEPT ![d] = Append(@, reader[c].msg)]
           /\ reader' = [reader EXCEPT ![c] =
                  [@ EXCEPT !.at = IF full THEN "blocked" ELSE "pushing", !.left = reader[c].left \ {r},
                            !.to = IF full THEN d ELSE NoConn]]
    /\ UNCHANGED <<conns, roles, groups, msgs, made, requests>>

PushGoesOn(c) ==
    /\ At(c, "blocked")
    /\ LET d == reader[c].to IN
       /\ Len(outChan[d]) < OutCap
       /\ outChan' = [outChan EXCEPT ![d] = Append(@, reader[c].msg)]
    /\ rm' = NoConn
    /\ reader' = [reader EXCEPT ![c] = [@ EXCEPT !.at = "pushing", !.to = NoConn]]
    /\ UNCHANGED <<conns, roles, groups, msgs, made, requests>>

Pushed(c) ==
    /\ At(c, "pushing") /\ reader[c].left = {}
    /\ Goes(c, "replying")
    /\ UNCHANGED <<conns, roles, rm, outChan, groups, msgs, made, requests>>

-----------------------------------------------------------------------------
(* The connection: ServerConn.write and Close, by the goroutine w. *)

\* Close tests isClosed.
Closed(c, w) ==
    closer' = IF c \in isClosed THEN closer ELSE [closer EXCEPT ![c][w] = "closing"]

\* A socket whose other end has gone may still take something.
Writes(c) ==
    /\ outChan[c] # << >> /\ closer[c]["write"] = "no"
    /\ c \notin isClosed
    /\ outChan' = [outChan EXCEPT ![c] = Tail(@)]
    /\ UNCHANGED <<reader, conns, roles, rm, groups, msgs, made, requests>>

WriteFails(c) ==
    /\ outChan[c] # << >> /\ closer[c]["write"] = "no"
    /\ c \notin alive
    /\ outChan' = [outChan EXCEPT ![c] = Tail(@)]
    /\ Closed(c, "write")
    /\ UNCHANGED <<reader, alive, isClosed, roles, rm, groups, msgs, made, requests>>

\* A handler that finds "rid" gone after its check panics, and ends like this.
ReadFails(c) ==
    /\ At(c, "idle") /\ c \notin alive
    /\ Closed(c, "read")
    /\ Goes(c, "ended")
    /\ UNCHANGED <<alive, isClosed, roles, rm, outChan, groups, msgs, made, requests>>

CloseSets(c, w) ==
    /\ closer[c][w] = "closing"
    /\ isClosed' = isClosed \cup {c}
    /\ closer' = [closer EXCEPT ![c][w] = "removing"]
    /\ UNCHANGED <<reader, alive, roles, rm, outChan, groups, msgs, made, requests>>

\* RemoveConn, removeUser.  Nothing of the groups is left.
CloseRemoves(c, w) ==
    /\ closer[c][w] = "removing" /\ RmFree
    /\ roleCache' = IF rid[c] = NoRole THEN roleCache ELSE Removed(c)
    /\ closer' = [closer EXCEPT ![c][w] = "clearing"]
    /\ UNCHANGED <<reader, alive, isClosed, rid, entrant, rm, outChan, groups, msgs, made, requests>>

CloseClears(c, w) ==
    /\ closer[c][w] = "clearing"
    /\ rid' = [rid EXCEPT ![c] = NoRole]
    /\ closer' = [closer EXCEPT ![c][w] = "no"]
    /\ UNCHANGED <<reader, alive, isClosed, roleCache, entrant, rm, outChan, groups, msgs, made,
                   requests>>

\* The other end goes, or the network does.
Breaks(c) ==
    /\ c \in alive
    /\ alive' = alive \ {c}
    /\ UNCHANGED <<reader, closer, isClosed, roles, rm, outChan, groups, msgs, made, requests>>

-----------------------------------------------------------------------------
Init ==
    /\ reader = [c \in Conn |-> Resting]
    /\ closer = [c \in Conn |-> [w \in Goroutine |-> "no"]]
    /\ alive = Conn /\ isClosed = {}
    /\ rid = [c \in Conn |-> NoRole] /\ rm = NoConn
    /\ roleCache = [r \in Role |-> NoConn] /\ entrant = [r \in Role |-> NoConn]
    /\ outChan = [c \in Conn |-> << >>]
    /\ users = [g \in Group |-> {}] /\ msgs = [g \in Group |-> << >>]
    /\ ridToUnionGroups = [r \in Role |-> NoGroup]
    /\ made = 0 /\ requests = 0

Request(c) ==
    \/ Refused(c) \/ Logout(c) \/ ExitBegins(c)
    \/ \E r \in Role : Login(c, r)
    \/ \E g \in Union : JoinFinds(c, g)
    \/ \E g \in Group : Says(c, g)
\* A handler that has begun goes on.
Read(c) ==
    \/ Replies(c) \/ Enters(c) \/ Clears(c) \/ Exits(c) \/ Join(c) \/ Exit(c)
    \/ Enqueue(c) \/ Broadcast(c) \/ PushGoesOn(c) \/ Pushed(c) \/ ReadFails(c)
    \/ \E r \in Role : Push(c, r)
Close(c, w) == CloseSets(c, w) \/ CloseRemoves(c, w) \/ CloseClears(c, w)
Write(c) == Writes(c) \/ WriteFails(c)

Next ==
    \E c \in Conn : \/ Request(c) \/ Read(c) \/ Write(c) \/ Breaks(c)
                    \/ \E w \in Goroutine : Close(c, w)

Spec == Init /\ [][Next]_vars

\* The goroutines go on, and a lock that is free again and again is got.
\* Nothing is assumed of clients.
FairSpec ==
    /\ Spec
    /\ \A c \in Conn : /\ SF_vars(Read(c)) /\ WF_vars(Write(c))
                       /\ \A w \in Goroutine : SF_vars(Close(c, w))

-----------------------------------------------------------------------------
(* Properties. *)

\* "One can only be in one union's channel, the old one is pushed out"
\* (chat.go:159): the channel a role is listed in is the one it talks to.
OneChannel ==
    \A r \in Role, g \in Union : r \in users[g] <=> ridToUnionGroups[r] = g

\* What is said in a union's channel is pushed to nobody who has left it, though
\* pushing to all members takes many steps and may have to wait.
NoStranger ==
    \A c \in Conn : Pushing(c) /\ reader[c].group # World =>
        \A r \in reader[c].left : ridToUnionGroups[r] = reader[c].group

\* Whoever entered as a role last gets what is pushed to it, though an older
\* connection of the same role logs out, or breaks and is closed, by now.
Takeover ==
    \A r \in Role : LET c == entrant[r] IN
        c # NoConn /\ rid[c] = r /\ ~At(c, "clearing")
            /\ (\A w \in Goroutine : closer[c][w] # "clearing")
        => roleCache[r] = c

\* The guards of Read and of Write: what a goroutine that has something to do
\* waits for.
CanRead(c) ==
    \/ At(c, "idle") /\ c \notin alive
    \/ \E place \in {"clearing", "queueing", "casting"} : At(c, place)
    \/ (At(c, "entering") \/ At(c, "exiting")) /\ UserFree(World)
    \/ (At(c, "joining") \/ At(c, "leaving")) /\ UnionFree
    \/ At(c, "pushing") /\ (reader[c].left = {} \/ RmFree)
    \/ At(c, "blocked") /\ Len(outChan[reader[c].to]) < OutCap
    \/ At(c, "replying") /\ Len(outChan[c]) < OutCap
CanWrite(c) ==
    outChan[c] # << >> /\ closer[c]["write"] = "no" /\ c \notin isClosed \cap alive

\* While no connection breaks, some goroutine can go on whenever a request is
\* being answered: unionMutex, userMutex and rm are taken in this order, and rm
\* is waited with for nothing but a full outChan, which its writer empties.
NoStandstill ==
    alive = Conn /\ (\E c \in Conn : ~At(c, "idle")) =>
        \E c \in Conn : CanRead(c) \/ CanWrite(c)

-----------------------------------------------------------------------------
(* What does not hold of the code. *)

\* rm is always given back.
RmIsGivenBack == rm # NoConn ~> rm = NoConn

\* What is pushed for a role comes to a connection that is in as that role.
PushedToRole == \A r \in Role : roleCache[r] # NoConn => rid[roleCache[r]] = r

\* Two messages do not reach two members in different orders.
SameOrder ==
    \A c, d \in Conn : \A i, j \in 1..Len(outChan[c]) : \A k, l \in 1..Len(outChan[d]) :
        outChan[c][i] = outChan[d][l] /\ outChan[c][j] = outChan[d][k] /\ outChan[c][i] # Reply
            /\ outChan[c][j] # Reply /\ i < j => l <= k

=============================================================================
