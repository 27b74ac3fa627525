-------------------------------- MODULE Gate --------------------------------
(***************************************************************************)
(* The gate's proxy connections: gateserver/controller/handle.go with the  *)
(* client side of a connection, net/proxyClient.go, net/clientconn.go and  *)
(* syncCtx of net/conn.go.                                                 *)
(*                                                                         *)
(* A client's requests are read by one goroutine, its worker, and handed   *)
(* to deal one after the other.  deal finds or makes the client's proxy    *)
(* for the server the request is meant for, sends the request over it and  *)
(* waits.  Each proxy has a goroutine of its own, its read loop, which     *)
(* hands an answer to the worker that waits for it and a push to the       *)
(* client.  Both hand things over on channels without room, so that the    *)
(* reader waits until somebody takes them.                                 *)
(*                                                                         *)
(* A step ends where another goroutine can get in: at an unlock, when a    *)
(* goroutine waits, and between the test of isClosed and its assignment,   *)
(* which no lock protects.  Time-outs may strike at any time.              *)
(* Operators named ..._Bug are mutants of the definition that follows.     *)
(***************************************************************************)
EXTENDS Integers, SequencesExt

CONSTANTS
    Client,      \* connections of clients to the gate (their cid)
    Server,      \* what deal tells apart by the message name
    SlgServer,   \* the server that role.enterServer goes to
    ChatServer,  \* the server the gate then logs the role in to
    MaxRequests, \* bound: requests of the clients and pushes together
    MaxPushes,   \* bound: pushes of the servers
    MaxStops     \* bound: connections that servers drop

\* A request is dealt with once or twice, and may make a proxy each time.
Proxy == 1..(2 * MaxRequests)
NoProxy == 0
None == 0

ASSUME GateAssumption ==
    /\ SlgServer \in Server /\ ChatServer \in Server
    /\ MaxRequests \in Nat /\ MaxPushes \in Nat /\ MaxStops \in Nat

VARIABLES
    worker,  \* [Client -> where its worker is, with the local variables of deal]
    proxys,  \* Handle.proxys: [Server -> [Client -> Proxy or NoProxy]]
    conn,    \* [Proxy -> its ClientConn]
    wire,    \* [Proxy -> what the server sent and the read loop has not read]
    backlog, \* [Proxy -> requests the server has not answered]
    replied, \* [Client -> the last reply it was sent]
    client,  \* [Client -> its connection: "here", "leaving" while Close closes
             \* the proxies arr, "gone" without the property "cid"]
    jammed,  \* proxyMutex was left locked
    made,    \* requests made so far; the last one has this number
    pushes, stops   \* counters behind MaxPushes and MaxStops

counters == <<made, pushes, stops>>
vars == <<worker, replied, proxys, conn, wire, backlog, client, jammed, counters>>

NoReply == [got |-> "Lost", of |-> None]
Failed == [got |-> "Failed", of |-> None]
Empty == [got |-> "Empty", of |-> None]
Answer(id) == [got |-> "Answer", of |-> id]
ReplyRec == [got : {"Lost", "Failed", "Empty", "Answer"}, of : 0..MaxRequests]

\* id is the number of the request; enter says that it is a role.enterServer
\* that the server will accept, login that the log-in to the chat server which
\* follows it is dealt with; first is the reply the client will get then.
Places == {"idle", "lookup", "insert", "connect", "started", "handshake", "hooks",
           "discard", "send", "wait", "closing", "forget"}
WorkerRec == [at : Places, id : 0..MaxRequests, server : Server, enter : BOOLEAN,
              login : BOOLEAN, proxy : Proxy \cup {NoProxy}, seq : Nat,
              reply : ReplyRec, first : ReplyRec]
Resting == [at |-> "idle", id |-> None, server |-> ChatServer, enter |-> FALSE,
            login |-> FALSE, proxy |-> NoProxy, seq |-> 0, reply |-> NoReply, first |-> NoReply]

\* ws: "none" before Connect succeeded, "cut" when the server is gone and the
\* gate has not noticed, "closed" when the gate closed it.
Request == [seq : Nat \ {0}, id : 0..MaxRequests]
NoRequest == [seq |-> 0, id |-> None]
ConnRec == [client : Client, server : Server, ws : {"none", "open", "cut", "closed"},
            loop : {"reading", "shaking", "handing", "closing", "stopped"},
            held : Request \cup {NoRequest},
            handshake : BOOLEAN, hooked : BOOLEAN, isClosed : BOOLEAN,
            Seq : Nat, syncCtxs : SUBSET Nat]
ClientRec == [is : {"here", "leaving", "gone"}, arr : SUBSET Proxy]
Handshake == [kind |-> "Handshake"]
Push == [kind |-> "Push"]
Frame == [kind : {"Answer"}, req : Request] \cup {Handshake, Push}

TypeOK ==
    /\ worker \in [Client -> WorkerRec] /\ replied \in [Client -> ReplyRec]
    /\ proxys \in [Server -> [Client -> Proxy \cup {NoProxy}]]
    /\ conn \in [Proxy -> ConnRec]
    /\ wire \in [Proxy -> Seq(Frame)] /\ backlog \in [Proxy -> Seq(Request)]
    /\ client \in [Client -> ClientRec] /\ jammed \in BOOLEAN
    /\ made \in 0..MaxRequests
    /\ pushes \in 0..MaxPushes /\ stops \in 0..MaxStops

-----------------------------------------------------------------------------
(* The worker: wsReadLoop of the client's connection, all and deal. *)

At(c, place) == worker[c].at = place
Goes(c, place) == worker' = [worker EXCEPT ![c].at = place]
Mine(c) == worker[c].proxy

Ask(c, s, enter) ==
    /\ At(c, "idle") /\ client[c].is = "here"
    /\ made + pushes < MaxRequests
    /\ enter => s = SlgServer
    /\ made' = made + 1
    /\ worker' = [worker EXCEPT ![c] = [Resting EXCEPT
           !.at = "lookup", !.id = made + 1, !.server = s, !.enter = enter]]
    /\ UNCHANGED <<replied, proxys, conn, wire, backlog, client, jammed, pushes, stops>>

\* deal returns to all: role.enterServer is followed by chat.login, unless it
\* failed.  Then the reply goes out, which chat.login has no part in.
DealEnds(c, reply) ==
    LET w == worker[c] IN
    IF w.enter /\ reply.got \in {"Answer", "Empty"}
    THEN /\ worker' = [worker EXCEPT ![c] = [Resting EXCEPT
               !.at = "lookup", !.id = w.id, !.login = TRUE, !.first = reply]]
         /\ UNCHANGED replied
    ELSE /\ worker' = [worker EXCEPT ![c] = Resting]
         /\ replied' = [replied EXCEPT ![c] = IF w.login THEN w.first ELSE reply]

Lookup(c) ==
    /\ At(c, "lookup") /\ client[c].is # "gone" /\ ~jammed
    /\ LET p == proxys[worker[c].server][c] IN
       worker' = [worker EXCEPT ![c] = IF p = NoProxy THEN [@ EXCEPT !.at = "insert"]
                                       ELSE [@ EXCEPT !.at = "send", !.proxy = p]]
    /\ UNCHANGED <<replied, proxys, conn, wire, backlog, client, jammed, counters>>

\* Without the property "cid" deal panics between Lock and Unlock.  The panic
\* is caught in wsReadLoop: the worker ends, proxyMutex stays locked.
LookupPanics(c) ==
    /\ At(c, "lookup") /\ client[c].is = "gone" /\ ~jammed
    /\ jammed' = TRUE
    /\ worker' = [worker EXCEPT ![c] = Resting]
    /\ replied' = [replied EXCEPT ![c] = NoReply]
    /\ UNCHANGED <<proxys, conn, wire, backlog, client, counters>>

Fresh(c) == 2 * worker[c].id - (IF worker[c].login THEN 0 ELSE 1)

\* The proxy is in the map before it is connected.
Insert(c) ==
    /\ At(c, "insert") /\ ~jammed
    /\ LET p == Fresh(c)
           s == worker[c].server
       IN  /\ proxys' = [proxys EXCEPT ![s][c] = p]
           /\ conn' = [conn EXCEPT ![p] = [@ EXCEPT !.client = c, !.server = s]]
           /\ worker' = [worker EXCEPT ![c] = [@ EXCEPT !.at = "connect", !.proxy = p]]
    /\ UNCHANGED <<replied, wire, backlog, client, jammed, counters>>

\* ProxyClient.Connect: the server greets with a handshake; the read loop starts.
Connect(c) ==
    /\ At(c, "connect")
    /\ conn' = [conn EXCEPT ![Mine(c)] = [@ EXCEPT !.ws = "open"]]
    /\ wire' = [wire EXCEPT ![Mine(c)] = <<Handshake>>]
    /\ Goes(c, "started")
    /\ UNCHANGED <<replied, proxys, backlog, client, jammed, counters>>

\* waitHandshake: does not wait when the read loop was faster.
WaitHandshake(c) ==
    /\ At(c, "started")
    /\ Goes(c, IF conn[Mine(c)].handshake THEN "hooks" ELSE "handshake")
    /\ UNCHANGED <<replied, proxys, conn, wire, backlog, client, jammed, counters>>

\* The server cannot be reached, or its handshake does not come.
ConnectFails(c) ==
    /\ At(c, "connect") \/ At(c, "handshake")
    /\ Goes(c, "discard")
    /\ UNCHANGED <<replied, proxys, conn, wire, backlog, client, jammed, counters>>

SetHooks(c) ==
    /\ At(c, "hooks")
    /\ conn' = [conn EXCEPT ![Mine(c)].hooked = TRUE]
    /\ Goes(c, "send")
    /\ UNCHANGED <<replied, proxys, wire, backlog, client, jammed, counters>>

Discard_Bug(c) ==
    /\ At(c, "discard") /\ ~jammed
    /\ UNCHANGED proxys
    /\ DealEnds(c, Failed)
    /\ UNCHANGED <<conn, wire, backlog, client, jammed, counters>>
\* The entry goes; a connection whose handshake did not come stays.
Discard(c) ==
    /\ At(c, "discard") /\ ~jammed
    /\ proxys' = [proxys EXCEPT ![worker[c].server][c] = NoProxy]
    /\ DealEnds(c, Failed)
    /\ UNCHANGED <<conn, wire, backlog, client, jammed, counters>>

-----------------------------------------------------------------------------
(* ClientConn.Send. *)

Registered_Bug(p) == [conn[p] EXCEPT !.syncCtxs = @ \cup {conn[p].Seq + 1}]
\* What a connection is after Send has counted and registered a request.
Registered(p) == [conn[p] EXCEPT !.Seq = @ + 1, !.syncCtxs = @ \cup {conn[p].Seq + 1}]
Waits(c) == [worker EXCEPT ![c] = [@ EXCEPT !.at = "wait", !.seq = conn[Mine(c)].Seq + 1]]

SendWrites_Bug(c) ==
    /\ At(c, "send")
    /\ LET p == Mine(c) IN
       /\ conn[p].ws \in {"open", "cut"}
       /\ conn' = [conn EXCEPT ![p] = Registered(p)]
       /\ backlog' = IF conn[p].ws = "open"
             THEN [backlog EXCEPT ![p] = Append(@, [seq |-> conn[p].Seq, id |-> worker[c].id])]
             ELSE backlog
    /\ worker' = Waits(c)
    /\ UNCHANGED <<replied, proxys, wire, client, jammed, counters>>
\* The write succeeds; the request is lost if the server has gone.
SendWrites(c) ==
    /\ At(c, "send")
    /\ LET p == Mine(c) IN
       /\ conn[p].ws \in {"open", "cut"}
       /\ conn' = [conn EXCEPT ![p] = Registered(p)]
       /\ backlog' = IF conn[p].ws = "open"
             THEN [backlog EXCEPT ![p] = Append(@, [seq |-> conn[p].Seq + 1, id |-> worker[c].id])]
             ELSE backlog
    /\ worker' = Waits(c)
    /\ UNCHANGED <<replied, proxys, wire, client, jammed, counters>>

\* The write fails: Close, unless isClosed; the code of the reply is still OK.
SendFails(c) ==
    /\ At(c, "send")
    /\ LET p == Mine(c) IN
       /\ conn[p].ws \in {"cut", "closed"}
       /\ conn' = [conn EXCEPT ![p] = [Registered(p) EXCEPT !.ws = "closed"]]
       /\ worker' = [Waits(c) EXCEPT
              ![c].at = IF conn[p].isClosed THEN "forget" ELSE "closing", ![c].reply = Empty]
    /\ UNCHANGED <<replied, proxys, wire, backlog, client, jammed, counters>>

\* onProxyClose, if the hook is set: the entry under the cid goes, whichever
\* proxy it is by now.
ProxyCloses(p) ==
    IF conn[p].hooked
    THEN ~jammed /\ proxys' = [proxys EXCEPT ![conn[p].server][conn[p].client] = NoProxy]
    ELSE UNCHANGED proxys

\* Close, past the test of isClosed.
SendCloses(c) ==
    /\ At(c, "closing")
    /\ conn' = [conn EXCEPT ![Mine(c)].isClosed = TRUE]
    /\ ProxyCloses(Mine(c))
    /\ Goes(c, "forget")
    /\ UNCHANGED <<replied, wire, backlog, client, jammed, counters>>

\* syncCtx.wait gives up.
SendTimeout(c) ==
    /\ At(c, "wait")
    /\ worker' = [worker EXCEPT ![c] = [@ EXCEPT !.at = "forget", !.reply = Failed]]
    /\ UNCHANGED <<replied, proxys, conn, wire, backlog, client, jammed, counters>>

SendReturns_Bug(c) ==
    /\ At(c, "forget")
    /\ conn' = IF worker[c].reply.got = "Answer"
               THEN [conn EXCEPT ![Mine(c)].syncCtxs = @ \ {worker[c].seq}] ELSE conn
    /\ DealEnds(c, worker[c].reply)
    /\ UNCHANGED <<proxys, wire, backlog, client, jammed, counters>>
SendReturns(c) ==
    /\ At(c, "forget")
    /\ conn' = [conn EXCEPT ![Mine(c)].syncCtxs = @ \ {worker[c].seq}]
    /\ DealEnds(c, worker[c].reply)
    /\ UNCHANGED <<proxys, wire, backlog, client, jammed, counters>>

-----------------------------------------------------------------------------
(* ClientConn.wsReadLoop. *)

Reads(p, kind) ==
    /\ conn[p].loop = "reading" /\ conn[p].ws # "none"
    /\ wire[p] # << >> /\ Head(wire[p]).kind = kind
    /\ wire' = [wire EXCEPT ![p] = Tail(@)]
    /\ UNCHANGED <<worker, replied, proxys, backlog, client, jammed, counters>>

ReadHandshake(p) ==
    /\ Reads(p, "Handshake")
    /\ conn' = [conn EXCEPT ![p] = [@ EXCEPT !.handshake = TRUE, !.loop = "shaking"]]

\* handshakeChan <- true: waits until waitHandshake receives.
Shake(p) ==
    /\ conn[p].loop = "shaking"
    /\ LET c == conn[p].client IN
       At(c, "handshake") /\ Mine(c) = p /\ Goes(c, "hooks")
    /\ conn' = [conn EXCEPT ![p].loop = "reading"]
    /\ UNCHANGED <<replied, proxys, wire, backlog, client, jammed, counters>>

\* Forwarded to the client; dropped when the hook is not set.
ReadPush(p) == Reads(p, "Push") /\ UNCHANGED conn

\* An answer nobody is registered for is dropped.
ReadAnswer(p) ==
    /\ Reads(p, "Answer")
    /\ LET r == Head(wire[p]).req IN
       conn' = IF r.seq \in conn[p].syncCtxs
               THEN [conn EXCEPT ![p] = [@ EXCEPT !.loop = "handing", !.held = r]]
               ELSE conn

\* s.outChan <- body: waits until the worker that is registered receives.
HandOver(p) ==
    /\ conn[p].loop = "handing"
    /\ LET c == conn[p].client IN
       /\ At(c, "wait") /\ Mine(c) = p /\ worker[c].seq = conn[p].held.seq
       /\ worker' = [worker EXCEPT ![c] =
              [@ EXCEPT !.at = "forget", !.reply = Answer(conn[p].held.id)]]
    /\ conn' = [conn EXCEPT ![p] = [@ EXCEPT !.loop = "reading", !.held = NoRequest]]
    /\ UNCHANGED <<replied, proxys, wire, backlog, client, jammed, counters>>

\* ReadMessage fails: Close, unless isClosed.
ReadFails(p) ==
    /\ conn[p].loop = "reading"
    /\ conn[p].ws = "closed" \/ (conn[p].ws = "cut" /\ wire[p] = << >>)
    /\ conn' = [conn EXCEPT ![p] = [@ EXCEPT !.ws = "closed",
                    !.loop = IF conn[p].isClosed THEN "stopped" ELSE "closing"]]
    /\ UNCHANGED <<worker, replied, proxys, wire, backlog, client, jammed, counters>>

LoopCloses(p) ==
    /\ conn[p].loop = "closing"
    /\ conn' = [conn EXCEPT ![p] = [@ EXCEPT !.isClosed = TRUE, !.loop = "stopped"]]
    /\ ProxyCloses(p)
    /\ UNCHANGED <<worker, replied, wire, backlog, client, jammed, counters>>

-----------------------------------------------------------------------------
(* The servers, and clients that leave. *)

\* A server answers its requests in their order.
ServerAnswers(p) ==
    /\ backlog[p] # << >>
    /\ backlog' = [backlog EXCEPT ![p] = Tail(@)]
    /\ wire' = [wire EXCEPT ![p] = Append(@, [kind |-> "Answer", req |-> Head(backlog[p])])]
    /\ UNCHANGED <<worker, replied, proxys, conn, client, jammed, counters>>

\* It pushes to connections that have sent something.
ServerPushes(p) ==
    /\ pushes < MaxPushes /\ made + pushes < MaxRequests
    /\ conn[p].ws = "open" /\ conn[p].Seq > 0
    /\ wire' = [wire EXCEPT ![p] = Append(@, Push)]
    /\ pushes' = pushes + 1
    /\ UNCHANGED <<worker, replied, proxys, conn, backlog, client, jammed, made, stops>>

\* What it has sent may still arrive, or not.
ServerGoes(p) ==
    /\ stops < MaxStops
    /\ conn[p].ws = "open"
    /\ conn' = [conn EXCEPT ![p].ws = "cut"]
    /\ wire' \in {wire, [wire EXCEPT ![p] = << >>]}
    /\ backlog' = [backlog EXCEPT ![p] = << >>]
    /\ stops' = stops + 1
    /\ UNCHANGED <<worker, replied, proxys, client, jammed, made, pushes>>

\* ServerConn.Close for a client that is gone, by the worker or, in the middle
\* of a request, by the goroutine that writes to the client.  OnServerConnClose
\* takes its proxies out of the map.
ClientLeaves(c) ==
    /\ client[c].is = "here" /\ ~jammed
    /\ client' = [client EXCEPT ![c] =
           [is |-> "leaving", arr |-> {proxys[s][c] : s \in Server} \ {NoProxy}]]
    /\ proxys' = [s \in Server |-> [proxys[s] EXCEPT ![c] = NoProxy]]
    /\ UNCHANGED <<worker, replied, conn, wire, backlog, jammed, counters>>

\* It then closes them without the lock, those that are connected by now.
CloseProxy(c, p) ==
    /\ p \in client[c].arr
    /\ client' = [client EXCEPT ![c].arr = @ \ {p}]
    /\ \/ /\ conn[p].ws = "none"
          /\ UNCHANGED <<conn, backlog, proxys>>
       \/ /\ conn[p].ws # "none"
          /\ conn' = [conn EXCEPT ![p] = [@ EXCEPT !.ws = "closed", !.isClosed = TRUE]]
          /\ backlog' = [backlog EXCEPT ![p] = << >>]
          /\ IF conn[p].isClosed THEN UNCHANGED proxys ELSE ProxyCloses(p)
    /\ UNCHANGED <<worker, replied, wire, jammed, counters>>

\* RemoveConn.
CidRemoved(c) ==
    /\ client[c].is = "leaving" /\ client[c].arr = {}
    /\ client' = [client EXCEPT ![c] = [@ EXCEPT !.is = "gone"]]
    /\ UNCHANGED <<worker, replied, proxys, conn, wire, backlog, jammed, counters>>

-----------------------------------------------------------------------------
Init ==
    /\ worker = [c \in Client |-> Resting] /\ replied = [c \in Client |-> NoReply]
    /\ proxys = [s \in Server |-> [c \in Client |-> NoProxy]]
    /\ conn \in {[p \in Proxy |-> [client |-> c, server |-> ChatServer, ws |-> "none",
                     loop |-> "reading", held |-> NoRequest, handshake |-> FALSE,
                     hooked |-> FALSE, isClosed |-> FALSE, Seq |-> 0, syncCtxs |-> {}]]
                 : c \in Client}
    /\ wire = [p \in Proxy |-> << >>] /\ backlog = [p \in Proxy |-> << >>]
    /\ client = [c \in Client |-> [is |-> "here", arr |-> {}]] /\ jammed = FALSE
    /\ made = 0 /\ pushes = 0 /\ stops = 0

\* What a worker does with a request it has.
Work(c) ==
    \/ Lookup(c) \/ LookupPanics(c) \/ Insert(c) \/ Connect(c) \/ WaitHandshake(c)
    \/ ConnectFails(c) \/ SetHooks(c) \/ Discard(c)
    \/ SendWrites(c) \/ SendFails(c) \/ SendCloses(c) \/ SendTimeout(c) \/ SendReturns(c)
ReadLoop(p) ==
    \/ ReadHandshake(p) \/ Shake(p) \/ ReadPush(p) \/ ReadAnswer(p) \/ HandOver(p)
    \/ ReadFails(p) \/ LoopCloses(p)
Outside ==
    \/ \E c \in Client : \/ ClientLeaves(c) \/ CidRemoved(c)
                         \/ \E p \in Proxy : CloseProxy(c, p)
    \/ \E c \in Client, s \in Server, enter \in BOOLEAN : Ask(c, s, enter)
    \/ \E p \in Proxy : ServerAnswers(p) \/ ServerPushes(p) \/ ServerGoes(p)

Next == Outside \/ (\E c \in Client : Work(c)) \/ (\E p \in Proxy : ReadLoop(p))

Spec == Init /\ [][Next]_vars

\* The goroutines of the gate go on; time-outs end what they wait for.  Nothing
\* is assumed of clients and servers.
FairSpec ==
    /\ Spec
    /\ \A c \in Client : WF_vars(Work(c))
    /\ \A p \in Proxy : WF_vars(ReadLoop(p))

-----------------------------------------------------------------------------
(* Properties. *)

Asked == [c \in Client |-> IF At(c, "idle") THEN None ELSE worker[c].id]

\* Every request ends, with the answer of the server to that very request or
\* with none, although answers may come after the time-out and requests share
\* the connection.
Abstract == INSTANCE Forwarding WITH asked <- Asked
Forwards == Abstract!Spec

\* A proxy that deal finds in the map is connected, although it is put there
\* before it is: ClientConn is there to send with.
SendsConnected == \A c \in Client : At(c, "send") => conn[Mine(c)].ws # "none"

\* No request is left registered: an answer that comes after its time-out, and
\* after Send returned, finds nobody to wait for.
NothingPending ==
    \A p \in Proxy : \A q \in conn[p].syncCtxs :
        \E c \in Client : Mine(c) = p /\ worker[c].seq = q

-----------------------------------------------------------------------------
(* What comments of the code say of this state. *)

\* "Connecting blocks, so do not lock" (handle.go:176): no request has to wait
\* for ever because of what happens to another client's.
RequestsEnd == \A c \in Client : ~At(c, "idle") ~> At(c, "idle")

\* "A push has to be forwarded to the connection it is for" (clientconn.go:159):
\* what came over a connection is read, sooner or later.
PushesForwarded ==
    \A p \in Proxy : (wire[p] # << >> /\ conn[p].ws = "open")
                        ~> (wire[p] = << >> \/ conn[p].ws # "open")

=============================================================================
