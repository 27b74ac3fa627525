----------------------------- MODULE GateProofs -----------------------------
(***************************************************************************)
(* Proofs about Gate: its types, that a proxy is connected before it is    *)
(* sent with, that no request stays registered, and that a reply is the    *)
(* one to the request that was asked: Gate implements Forwarding, for any  *)
(* number of clients, servers and requests.                                *)
(*                                                                         *)
(* The heart of the argument is Frames: a number that a connection gave to *)
(* a request is never given again, so a late answer cannot be taken for    *)
(* the answer to a later request.                                          *)
(***************************************************************************)
EXTENDS Gate, TLAPS

Sent == {"wait", "closing", "forget"}
Connected == Sent \cup {"started", "handshake", "hooks", "send"}

\* What a worker knows at each place of deal and Send.
WorkerOK(c) ==
    LET w == worker[c] IN
    /\ w.at # "idle" => w.id # None
    /\ w.reply \in Abstract!Replies(w.id) /\ w.first \in Abstract!Replies(w.id)
    /\ w.at \in Connected \cup {"connect"} => w.proxy \in Proxy
    /\ w.at \in Connected => conn[w.proxy].ws # "none"
    /\ w.at \in Sent => w.seq \in 1..conn[w.proxy].Seq
Workers == \A c \in Client : WorkerOK(c)

\* The requests that p still has to do with.
InTransit(p) ==
    {backlog[p][i] : i \in 1..Len(backlog[p])}
        \cup {wire[p][i].req : i \in {j \in 1..Len(wire[p]) : wire[p][j].kind = "Answer"}}
        \cup (IF conn[p].loop = "handing" THEN {conn[p].held} ELSE {})

\* Such a request was counted, and if a worker waits for its number, it is that
\* worker's request.
Known(p, r) ==
    /\ r.seq <= conn[p].Seq
    /\ \A c \in Client : At(c, "wait") /\ Mine(c) = p /\ worker[c].seq = r.seq
                            => worker[c].id = r.id
Frames == \A p \in Proxy : \A r \in InTransit(p) : Known(p, r)

\* An entry of the map without a connection belongs to the worker that makes it.
Listed ==
    \A s \in Server, c \in Client :
        LET p == proxys[s][c] IN
        p # NoProxy /\ conn[p].ws = "none"
            => /\ At(c, "connect") \/ At(c, "discard")
               /\ worker[c].server = s /\ Mine(c) = p

\* A registered request has a worker in Send.
Pending ==
    \A p \in Proxy : \A q \in conn[p].syncCtxs :
        \E c \in Client : worker[c].at \in Sent /\ Mine(c) = p /\ worker[c].seq = q

IInv == TypeOK /\ Workers /\ Frames /\ Listed /\ Pending

\* The types that the steps below use.
LEMMA Types ==
    ASSUME IInv
    PROVE  /\ \A c \in Client : /\ worker[c] \in WorkerRec /\ worker[c].id \in 0..MaxRequests
                                /\ worker[c].server \in Server
                                /\ worker[c].reply \in ReplyRec /\ worker[c].first \in ReplyRec
           /\ \A p \in Proxy : /\ conn[p] \in ConnRec /\ conn[p].Seq \in Nat
                               /\ conn[p].client \in Client /\ conn[p].server \in Server
                               /\ wire[p] \in Seq(Frame) /\ backlog[p] \in Seq(Request)
           /\ \A s \in Server, c \in Client : proxys[s][c] \in Proxy \cup {NoProxy}
           /\ \A p \in Proxy : p # NoProxy
<1>1. \A c \in Client : worker[c] \in WorkerRec
    BY DEF IInv, TypeOK
<1>2. \A p \in Proxy : conn[p] \in ConnRec
    BY DEF IInv, TypeOK
<1>3. /\ \A p \in Proxy : wire[p] \in Seq(Frame) /\ backlog[p] \in Seq(Request)
      /\ \A s \in Server, c \in Client : proxys[s][c] \in Proxy \cup {NoProxy}
    BY DEF IInv, TypeOK
<1>4. \A p \in Proxy : p # NoProxy
    BY GateAssumption DEF Proxy, NoProxy
<1>5. \A w \in WorkerRec : /\ w.id \in 0..MaxRequests /\ w.server \in Server
                           /\ w.reply \in ReplyRec /\ w.first \in ReplyRec
    BY DEF WorkerRec
<1>6. \A d \in ConnRec : d.Seq \in Nat /\ d.client \in Client /\ d.server \in Server
    BY DEF ConnRec
<1> QED BY <1>1, <1>2, <1>3, <1>4, <1>5, <1>6

\* What is in transit is a request.
LEMMA TransitTypes ==
    ASSUME IInv, NEW p \in Proxy, NEW r \in InTransit(p)
    PROVE  r.seq \in Nat
<1>1. CASE \E i \in 1..Len(backlog[p]) : r = backlog[p][i]
  <2>1. PICK i \in 1..Len(backlog[p]) : r = backlog[p][i]
      BY <1>1
  <2>2. backlog[p][i] \in Request
      BY Types
  <2> QED BY <2>1, <2>2 DEF Request
<1>2. CASE \E i \in 1..Len(wire[p]) : wire[p][i].kind = "Answer" /\ r = wire[p][i].req
  <2>1. PICK i \in 1..Len(wire[p]) : wire[p][i].kind = "Answer" /\ r = wire[p][i].req
      BY <1>2
  <2>2. wire[p][i] \in Frame
      BY Types
  <2> QED BY <2>1, <2>2 DEF Frame, Handshake, Push, Request
<1>3. CASE conn[p].loop = "handing" /\ r = conn[p].held
    BY <1>3, Types DEF ConnRec, Request, NoRequest
<1> QED BY <1>1, <1>2, <1>3 DEF InTransit

\* What a worker may become while no request is sent.
Fits(c) ==
    LET w == worker'[c] IN
    /\ w.at # "idle" => w.id # None
    /\ w.reply \in Abstract!Replies(w.id) /\ w.first \in Abstract!Replies(w.id)
    /\ w.at \in Connected \cup {"connect"} => w.proxy \in Proxy
    /\ w.at \in Connected => conn'[w.proxy].ws # "none"
    /\ w.at \in Sent => w.seq \in 1..conn[w.proxy].Seq
    /\ w.at # "wait"

\* A step that sends no request and after which a worker knows what it has to
\* know, if it moved at all, keeps what workers know and what is in transit.
LEMMA Calm ==
    ASSUME IInv,
           \A c \in Client : worker'[c] = worker[c] \/ Fits(c),
           \A p \in Proxy : /\ conn'[p].Seq = conn[p].Seq
                            /\ conn[p].ws # "none" => conn'[p].ws # "none"
                            /\ InTransit(p)' \subseteq InTransit(p)
    PROVE  Workers' /\ Frames'
<1>1. ASSUME NEW c \in Client PROVE WorkerOK(c)'
  <2>1. CASE worker'[c] = worker[c]
      BY <2>1 DEF IInv, Workers, WorkerOK, Connected
  <2>2. CASE Fits(c)
    <3>1. worker'[c].at \in Sent => worker'[c].proxy \in Proxy
        BY <2>2 DEF Fits, Connected
    <3> QED BY <2>2, <3>1 DEF WorkerOK, Fits
  <2> QED BY <2>1, <2>2
<1>2. ASSUME NEW p \in Proxy, NEW r \in InTransit(p)' PROVE Known(p, r)'
  <2>1. Known(p, r)
      BY <1>2 DEF IInv, Frames
  <2>2. conn'[p].Seq = conn[p].Seq
      OBVIOUS
  <2>3. \A c \in Client : At(c, "wait")' => worker'[c] = worker[c]
      BY DEF Fits, At
  <2> QED BY <2>1, <2>2, <2>3 DEF Known, At, Mine
<1> QED BY <1>1, <1>2 DEF Workers, Frames

\* A step of one worker that changes nothing else.
LEMMA WorkerMoves ==
    ASSUME IInv, NEW c \in Client, NEW w \in WorkerRec, worker' = [worker EXCEPT ![c] = w],
           UNCHANGED <<proxys, conn, wire, backlog>>, Fits(c),
           worker[c].at \in Sent => w.at \in Sent /\ w.proxy = worker[c].proxy /\ w.seq = worker[c].seq,
           worker[c].at \in {"connect", "discard"}
               => w.at = "discard" /\ w.server = worker[c].server /\ w.proxy = worker[c].proxy
    PROVE  Workers' /\ Frames' /\ Listed' /\ Pending'
<1>1. worker'[c] = w /\ \A e \in Client \ {c} : worker'[e] = worker[e]
    BY DEF IInv, TypeOK
<1>2. Workers' /\ Frames'
  <2>1. \A p \in Proxy : InTransit(p)' = InTransit(p)
      BY DEF InTransit
  <2> QED BY <1>1, <2>1, Calm
<1>3. Listed'
    BY <1>1 DEF IInv, Listed, At, Mine
<1>4. Pending'
    BY <1>1 DEF IInv, Pending, Mine
<1> QED BY <1>2, <1>3, <1>4

(***************************************************************************)
(* The worker, up to Send.                                                 *)
(***************************************************************************)
\* A new request.
LEMMA AskInv ==
    ASSUME IInv, NEW c \in Client, NEW s \in Server, NEW enter \in BOOLEAN, Ask(c, s, enter)
    PROVE  IInv'
<1> DEFINE w == [Resting EXCEPT !.at = "lookup", !.id = made + 1, !.server = s, !.enter = enter]
<1>1. made + 1 \in 0..MaxRequests /\ made + 1 # None /\ None \in 0..MaxRequests
    BY GateAssumption DEF IInv, TypeOK, Ask, None
<1>2. NoReply \in ReplyRec /\ NoReply \in Abstract!Replies(made + 1)
    BY <1>1 DEF NoReply, ReplyRec, Abstract!Replies, None, Abstract!None
<1>3. w \in WorkerRec
    BY <1>1, <1>2 DEF WorkerRec, Places, Resting
<1>4. w.at = "lookup" /\ w.id = made + 1 /\ w.reply = NoReply /\ w.first = NoReply
    BY DEF Resting
<1>5. worker' = [worker EXCEPT ![c] = w] /\ worker[c].at = "idle" /\ worker'[c] = w
    BY DEF Ask, At, IInv, TypeOK
<1> HIDE DEF w
<1>6. TypeOK'
    BY <1>1, <1>3, <1>5 DEF IInv, TypeOK, Ask
<1>7. Fits(c)
    BY <1>1, <1>2, <1>4, <1>5 DEF Fits, Connected, Sent
<1>8. Workers' /\ Frames' /\ Listed' /\ Pending'
    BY <1>3, <1>5, <1>7, WorkerMoves DEF Ask, Sent
<1> QED BY <1>6, <1>8 DEF IInv

\* An entry of the map is a connected proxy: no other worker makes it.
LEMMA LookupInv == ASSUME IInv, NEW c \in Client, Lookup(c) PROVE IInv'
<1> DEFINE p == proxys[worker[c].server][c]
           w == IF p = NoProxy THEN [worker[c] EXCEPT !.at = "insert"]
                ELSE [worker[c] EXCEPT !.at = "send", !.proxy = p]
<1>1. worker[c] \in WorkerRec /\ p \in Proxy \cup {NoProxy} /\ worker[c].server \in Server
    BY Types
<1>2. /\ w \in WorkerRec /\ w.at \in {"insert", "send"} /\ w.id = worker[c].id
      /\ w.reply = worker[c].reply /\ w.first = worker[c].first
      /\ w.at = "send" => p \in Proxy /\ p # NoProxy /\ w.proxy = p
    BY <1>1, Types DEF WorkerRec, Places
<1>3. worker' = [worker EXCEPT ![c] = w] /\ worker[c].at = "lookup" /\ worker'[c] = w
    BY DEF Lookup, At, IInv, TypeOK
<1> HIDE DEF w
<1>4. TypeOK'
    BY <1>2, <1>3 DEF IInv, TypeOK, Lookup, counters
<1>5. w.at = "send" => conn'[p].ws # "none"
    BY <1>1, <1>2, <1>3 DEF IInv, Listed, At, Lookup
<1>6. Fits(c)
    BY <1>2, <1>3, <1>5 DEF Fits, Connected, Sent, IInv, Workers, WorkerOK
<1>7. Workers' /\ Frames' /\ Listed' /\ Pending'
    BY <1>2, <1>3, <1>6, WorkerMoves DEF Lookup, Sent
<1> QED BY <1>4, <1>7 DEF IInv

\* The worker that panics rests.
LEMMA RestingType ==
    Resting \in WorkerRec /\ Resting.at = "idle" /\ Resting.reply = NoReply
        /\ Resting.first = NoReply /\ Resting.id = None /\ NoReply \in Abstract!Replies(None)
        /\ NoReply \in ReplyRec
<1>1. NoReply \in ReplyRec /\ NoReply \in Abstract!Replies(None)
    BY GateAssumption DEF NoReply, ReplyRec, Abstract!Replies, None, Abstract!None
<1> QED BY <1>1, GateAssumption DEF Resting, WorkerRec, Places, None

LEMMA LookupPanicsInv == ASSUME IInv, NEW c \in Client, LookupPanics(c) PROVE IInv'
<1>1. worker' = [worker EXCEPT ![c] = Resting] /\ worker[c].at = "lookup" /\ worker'[c] = Resting
    BY DEF LookupPanics, At, IInv, TypeOK
<1>2. TypeOK'
    BY <1>1, RestingType DEF IInv, TypeOK, LookupPanics, counters
<1>3. Fits(c)
    BY <1>1, RestingType DEF Fits, Connected, Sent
<1>4. Workers' /\ Frames' /\ Listed' /\ Pending'
    BY <1>1, <1>3, RestingType, WorkerMoves DEF LookupPanics, Sent
<1> QED BY <1>2, <1>4 DEF IInv

\* A worker that goes from one place to another, and keeps what it knows.
LEMMA GoesOn ==
    ASSUME IInv, NEW c \in Client, NEW place \in Places, Goes(c, place),
           place \in Connected \cup {"connect"} => Mine(c) \in Proxy,
           place \in Connected => conn'[Mine(c)].ws # "none",
           place \notin {"idle", "wait"}, worker[c].at # "idle",
           place \in Sent => worker[c].at \in Sent
    PROVE  /\ worker' = [worker EXCEPT ![c] = [worker[c] EXCEPT !.at = place]]
           /\ worker'[c].at = place /\ worker'[c].proxy = Mine(c) /\ worker'[c].seq = worker[c].seq
           /\ worker'[c].server = worker[c].server
           /\ worker' \in [Client -> WorkerRec] /\ worker'[c] \in WorkerRec
           /\ Fits(c)
<1> DEFINE w == [worker[c] EXCEPT !.at = place]
<1>1. /\ w \in WorkerRec /\ w.at = place /\ w.proxy = Mine(c) /\ w.seq = worker[c].seq
      /\ w.server = worker[c].server /\ w.id = worker[c].id
      /\ w.reply = worker[c].reply /\ w.first = worker[c].first
    BY Types DEF WorkerRec, Mine
<1>2. worker' = [worker EXCEPT ![c] = w] /\ worker'[c] = w
    BY DEF Goes, IInv, TypeOK
<1> HIDE DEF w
<1>3. worker' \in [Client -> WorkerRec]
    BY <1>1, <1>2 DEF IInv, TypeOK
<1>4. Fits(c)
    BY <1>1, <1>2 DEF Fits, IInv, Workers, WorkerOK, Mine
<1> QED BY <1>1, <1>2, <1>3, <1>4 DEF w

LEMMA WaitHandshakeInv == ASSUME IInv, NEW c \in Client, WaitHandshake(c) PROVE IInv'
<1> DEFINE place == IF conn[Mine(c)].handshake THEN "hooks" ELSE "handshake"
<1>1. /\ place \in Places /\ Goes(c, place) /\ worker[c].at = "started"
      /\ place \in {"hooks", "handshake"}
    BY DEF WaitHandshake, At, Places
<1> HIDE DEF place
<1>2. Mine(c) \in Proxy /\ conn'[Mine(c)].ws # "none"
    BY <1>1 DEF IInv, Workers, WorkerOK, Connected, Mine, WaitHandshake
<1>3. /\ worker' = [worker EXCEPT ![c] = [worker[c] EXCEPT !.at = place]]
      /\ worker'[c].at = place /\ worker' \in [Client -> WorkerRec] /\ worker'[c] \in WorkerRec
      /\ Fits(c)
    BY <1>1, <1>2, GoesOn DEF Sent
<1>4. TypeOK'
    BY <1>3 DEF IInv, TypeOK, WaitHandshake, counters
<1>5. worker' = [worker EXCEPT ![c] = worker'[c]]
    BY <1>3 DEF IInv, TypeOK
<1>6. Workers' /\ Frames' /\ Listed' /\ Pending'
    BY <1>1, <1>3, <1>5, WorkerMoves DEF WaitHandshake, Sent
<1> QED BY <1>4, <1>6 DEF IInv

LEMMA ConnectFailsInv == ASSUME IInv, NEW c \in Client, ConnectFails(c) PROVE IInv'
<1>1. "discard" \in Places /\ Goes(c, "discard") /\ worker[c].at \in {"connect", "handshake"}
    BY DEF ConnectFails, At, Places
<1>2. /\ worker' = [worker EXCEPT ![c] = [worker[c] EXCEPT !.at = "discard"]]
      /\ worker'[c].at = "discard" /\ worker'[c].proxy = Mine(c)
      /\ worker'[c].server = worker[c].server
      /\ worker' \in [Client -> WorkerRec] /\ worker'[c] \in WorkerRec
      /\ Fits(c)
    BY <1>1, GoesOn DEF Sent, Connected
<1>3. TypeOK'
    BY <1>2 DEF IInv, TypeOK, ConnectFails, counters
<1>4. worker' = [worker EXCEPT ![c] = worker'[c]]
    BY <1>2 DEF IInv, TypeOK
<1>5. Workers' /\ Frames' /\ Listed' /\ Pending'
    BY <1>1, <1>2, <1>4, WorkerMoves DEF ConnectFails, Sent, Mine
<1> QED BY <1>3, <1>5 DEF IInv

LEMMA SendTimeoutInv == ASSUME IInv, NEW c \in Client, SendTimeout(c) PROVE IInv'
<1> DEFINE w == [worker[c] EXCEPT !.at = "forget", !.reply = Failed]
<1>1. worker[c] \in WorkerRec /\ Failed \in ReplyRec /\ Failed \in Abstract!Replies(worker[c].id)
    BY Types, GateAssumption DEF Failed, ReplyRec, Abstract!Replies, None, Abstract!None
<1>2. /\ w \in WorkerRec /\ w.at = "forget" /\ w.proxy = worker[c].proxy /\ w.seq = worker[c].seq
      /\ w.id = worker[c].id /\ w.reply = Failed /\ w.first = worker[c].first
    BY <1>1 DEF WorkerRec, Places
<1>3. worker' = [worker EXCEPT ![c] = w] /\ worker[c].at = "wait" /\ worker'[c] = w
    BY DEF SendTimeout, At, IInv, TypeOK
<1> HIDE DEF w
<1>4. TypeOK'
    BY <1>2, <1>3 DEF IInv, TypeOK, SendTimeout, counters
<1>5. Fits(c)
    BY <1>1, <1>2, <1>3 DEF Fits, Connected, Sent, IInv, Workers, WorkerOK, SendTimeout
<1>6. Workers' /\ Frames' /\ Listed' /\ Pending'
    BY <1>2, <1>3, <1>5, WorkerMoves DEF SendTimeout, Sent
<1> QED BY <1>4, <1>6 DEF IInv

(***************************************************************************)
(* Steps that change a connection.                                         *)
(***************************************************************************)
\* What is in transit, when nothing is read or written and no read loop gets
\* something to hand over.
LEMMA Quiet ==
    ASSUME NEW p \in Proxy, wire'[p] = wire[p], backlog'[p] = backlog[p] \/ backlog'[p] = << >>,
           conn'[p].loop = "handing" => conn[p].loop = "handing" /\ conn'[p].held = conn[p].held
    PROVE  InTransit(p)' \subseteq InTransit(p)
BY DEF InTransit

\* One connection changes, and its worker with it or not at all: no request is
\* counted, registered or put in transit.
LEMMA ConnChanges ==
    ASSUME IInv, NEW p \in Proxy, NEW d \in ConnRec, conn' = [conn EXCEPT ![p] = d],
           d.Seq = conn[p].Seq, d.syncCtxs = conn[p].syncCtxs,
           d.ws = "none" <=> conn[p].ws = "none",
           d.loop = "handing" => conn[p].loop = "handing" /\ d.held = conn[p].held,
           UNCHANGED <<wire, backlog>>,
           NEW c \in Client, \A e \in Client \ {c} : worker'[e] = worker[e],
           worker'[c] = worker[c] \/ Fits(c),
           worker[c].at \in Sent => /\ worker'[c].at \in Sent /\ worker'[c].seq = worker[c].seq
                                    /\ worker'[c].proxy = worker[c].proxy,
           worker[c].at \in {"connect", "discard"} => worker'[c] = worker[c],
           \A s \in Server, e \in Client : proxys'[s][e] \in {proxys[s][e], NoProxy}
    PROVE  Workers' /\ Frames' /\ Listed' /\ Pending'
<1>1. /\ conn'[p] = d /\ \A q \in Proxy \ {p} : conn'[q] = conn[q]
    BY DEF IInv, TypeOK
<1>2. Workers' /\ Frames'
  <2>1. ASSUME NEW q \in Proxy PROVE InTransit(q)' \subseteq InTransit(q)
      BY <1>1, Quiet
  <2> QED BY <1>1, <2>1, Calm
<1>3. Listed'
    BY <1>1, Types DEF IInv, Listed, At, Mine
<1>4. Pending'
    BY <1>1 DEF IInv, Pending, Mine
<1> QED BY <1>2, <1>3, <1>4

LEMMA SetHooksInv == ASSUME IInv, NEW c \in Client, SetHooks(c) PROVE IInv'
<1> DEFINE p == Mine(c)
           d == [conn[p] EXCEPT !.hooked = TRUE]
<1>1. Goes(c, "send") /\ worker[c].at = "hooks" /\ "send" \in Places
    BY DEF SetHooks, At, Places
<1>2. p \in Proxy /\ conn[p].ws # "none"
    BY <1>1 DEF IInv, Workers, WorkerOK, Connected, Mine
<1>3. /\ d \in ConnRec /\ d.Seq = conn[p].Seq /\ d.syncCtxs = conn[p].syncCtxs
      /\ d.ws = conn[p].ws /\ d.loop = conn[p].loop /\ d.held = conn[p].held
    BY <1>2, Types DEF ConnRec
<1>4. conn' = [conn EXCEPT ![p] = d]
    BY DEF SetHooks
<1> HIDE DEF p, d
<1>5. conn' \in [Proxy -> ConnRec] /\ conn'[p].ws # "none"
    BY <1>2, <1>3, <1>4 DEF IInv, TypeOK
<1>6. /\ worker' = [worker EXCEPT ![c] = [worker[c] EXCEPT !.at = "send"]]
      /\ worker' \in [Client -> WorkerRec] /\ Fits(c)
    BY <1>1, <1>2, <1>5, GoesOn DEF Sent, p
<1>7. TypeOK'
    BY <1>5, <1>6 DEF IInv, TypeOK, SetHooks, counters
<1>8. \A e \in Client \ {c} : worker'[e] = worker[e]
    BY <1>6 DEF IInv, TypeOK
<1>9. /\ worker[c].at \in Sent => /\ worker'[c].at \in Sent /\ worker'[c].seq = worker[c].seq
                                    /\ worker'[c].proxy = worker[c].proxy
      /\ worker[c].at \notin {"connect", "discard"}
    BY <1>1 DEF Sent, Mine
<1>10. UNCHANGED <<wire, backlog>> /\ \A s \in Server, e \in Client : proxys'[s][e] \in {proxys[s][e], NoProxy}
    BY DEF SetHooks
<1>11. Workers' /\ Frames' /\ Listed' /\ Pending'
    BY <1>2, <1>3, <1>4, <1>6, <1>8, <1>9, <1>10, ConnChanges
<1> QED BY <1>7, <1>11 DEF IInv

\* onProxyClose only takes entries out.
LEMMA ProxyClosesOut ==
    ASSUME IInv, NEW p \in Proxy, ProxyCloses(p)
    PROVE  /\ proxys' \in [Server -> [Client -> Proxy \cup {NoProxy}]]
           /\ \A s \in Server, e \in Client : proxys'[s][e] \in {proxys[s][e], NoProxy}
<1>1. proxys \in [Server -> [Client -> Proxy \cup {NoProxy}]]
    BY DEF IInv, TypeOK
<1>2. CASE proxys' = proxys
    BY <1>1, <1>2
<1>3. CASE proxys' = [proxys EXCEPT ![conn[p].server][conn[p].client] = NoProxy]
    BY <1>1, <1>3, Types
<1> QED BY <1>2, <1>3 DEF ProxyCloses

LEMMA SendClosesInv == ASSUME IInv, NEW c \in Client, SendCloses(c) PROVE IInv'
<1> DEFINE p == Mine(c)
           d == [conn[p] EXCEPT !.isClosed = TRUE]
<1>1. Goes(c, "forget") /\ worker[c].at = "closing" /\ "forget" \in Places
    BY DEF SendCloses, At, Places
<1>2. p \in Proxy /\ conn[p].ws # "none"
    BY <1>1 DEF IInv, Workers, WorkerOK, Connected, Sent, Mine
<1>3. /\ d \in ConnRec /\ d.Seq = conn[p].Seq /\ d.syncCtxs = conn[p].syncCtxs
      /\ d.ws = conn[p].ws /\ d.loop = conn[p].loop /\ d.held = conn[p].held
    BY <1>2, Types DEF ConnRec
<1>4. conn' = [conn EXCEPT ![p] = d] /\ ProxyCloses(p)
    BY DEF SendCloses
<1> HIDE DEF p, d
<1>5. conn' \in [Proxy -> ConnRec] /\ conn'[p].ws # "none"
    BY <1>2, <1>3, <1>4 DEF IInv, TypeOK
<1>6. /\ worker' = [worker EXCEPT ![c] = [worker[c] EXCEPT !.at = "forget"]]
      /\ worker'[c].at = "forget" /\ worker'[c].proxy = p /\ worker'[c].seq = worker[c].seq
      /\ worker' \in [Client -> WorkerRec] /\ Fits(c)
    BY <1>1, <1>2, <1>5, GoesOn DEF Sent, p
<1>7. TypeOK'
    BY <1>2, <1>4, <1>5, <1>6, ProxyClosesOut DEF IInv, TypeOK, SendCloses, counters
<1>8. \A e \in Client \ {c} : worker'[e] = worker[e]
    BY <1>6 DEF IInv, TypeOK
<1>9. /\ worker[c].at \in Sent => /\ worker'[c].at \in Sent /\ worker'[c].seq = worker[c].seq
                                    /\ worker'[c].proxy = worker[c].proxy
      /\ worker[c].at \notin {"connect", "discard"}
    BY <1>1, <1>6 DEF Sent, Mine, p
<1>10. UNCHANGED <<wire, backlog>> /\ \A s \in Server, e \in Client : proxys'[s][e] \in {proxys[s][e], NoProxy}
    BY <1>2, <1>4, ProxyClosesOut DEF SendCloses
<1>11. Workers' /\ Frames' /\ Listed' /\ Pending'
    BY <1>2, <1>3, <1>4, <1>6, <1>8, <1>9, <1>10, ConnChanges
<1> QED BY <1>7, <1>11 DEF IInv

LEMMA ShakeInv == ASSUME IInv, NEW p \in Proxy, Shake(p) PROVE IInv'
<1> DEFINE c == conn[p].client
           d == [conn[p] EXCEPT !.loop = "reading"]
<1>1. /\ c \in Client /\ Goes(c, "hooks") /\ worker[c].at = "handshake" /\ Mine(c) = p
      /\ "hooks" \in Places
    BY Types DEF Shake, At, Places
<1>2. conn[p].ws # "none"
    BY <1>1 DEF IInv, Workers, WorkerOK, Connected, Mine
<1>3. /\ d \in ConnRec /\ d.Seq = conn[p].Seq /\ d.syncCtxs = conn[p].syncCtxs
      /\ d.ws = conn[p].ws /\ d.loop = "reading"
    BY Types DEF ConnRec
<1>4. conn' = [conn EXCEPT ![p] = d]
    BY DEF Shake
<1> HIDE DEF c, d
<1>5. conn' \in [Proxy -> ConnRec] /\ conn'[p].ws # "none"
    BY <1>2, <1>3, <1>4 DEF IInv, TypeOK
<1>6. /\ worker' = [worker EXCEPT ![c] = [worker[c] EXCEPT !.at = "hooks"]]
      /\ worker' \in [Client -> WorkerRec] /\ Fits(c)
    BY <1>1, <1>5, GoesOn DEF Sent
<1>7. TypeOK'
    BY <1>5, <1>6 DEF IInv, TypeOK, Shake, counters
<1>8. \A e \in Client \ {c} : worker'[e] = worker[e]
    BY <1>6 DEF IInv, TypeOK
<1>9. /\ worker[c].at \in Sent => /\ worker'[c].at \in Sent /\ worker'[c].seq = worker[c].seq
                                    /\ worker'[c].proxy = worker[c].proxy
      /\ worker[c].at \notin {"connect", "discard"}
    BY <1>1 DEF Sent, Mine
<1>10. UNCHANGED <<wire, backlog>> /\ \A s \in Server, e \in Client : proxys'[s][e] \in {proxys[s][e], NoProxy}
    BY DEF Shake
<1>11. d.ws = "none" <=> conn[p].ws = "none"
    BY <1>3
<1>12. d.loop # "handing"
    BY <1>3
<1>13. Workers' /\ Frames' /\ Listed' /\ Pending'
    BY <1>1, <1>3, <1>4, <1>6, <1>8, <1>9, <1>10, <1>11, <1>12, ConnChanges
<1> QED BY <1>7, <1>13 DEF IInv

\* The answer that is handed over is the one the worker waits for.
LEMMA HandOverInv == ASSUME IInv, NEW p \in Proxy, HandOver(p) PROVE IInv'
<1> DEFINE c == conn[p].client
           r == conn[p].held
           a == Answer(r.id)
           d == [conn[p] EXCEPT !.loop = "reading", !.held = NoRequest]
           w == [worker[c] EXCEPT !.at = "forget", !.reply = a]
<1>1. /\ c \in Client /\ worker[c].at = "wait" /\ Mine(c) = p /\ worker[c].seq = r.seq
      /\ conn[p].loop = "handing" /\ worker[c] \in WorkerRec
    BY Types DEF HandOver, At
<1>2. r.id = worker[c].id
  <2>1. r \in InTransit(p)
      BY <1>1 DEF InTransit
  <2> QED BY <1>1, <2>1 DEF IInv, Frames, Known, At
<1>3. a \in ReplyRec /\ a \in Abstract!Replies(worker[c].id)
    BY <1>1, <1>2, Types DEF Answer, ReplyRec, Abstract!Replies
<1>4. /\ d \in ConnRec /\ d.Seq = conn[p].Seq /\ d.syncCtxs = conn[p].syncCtxs
      /\ d.ws = conn[p].ws /\ d.loop = "reading"
    BY Types DEF ConnRec
<1>5. /\ w \in WorkerRec /\ w.at = "forget" /\ w.proxy = p /\ w.seq = worker[c].seq
      /\ w.id = worker[c].id /\ w.reply = a /\ w.first = worker[c].first
    BY <1>1, <1>3 DEF WorkerRec, Places, Mine
<1>6. conn' = [conn EXCEPT ![p] = d] /\ worker' = [worker EXCEPT ![c] = w]
    BY DEF HandOver
<1> HIDE DEF c, r, a, d, w
<1>7. conn' \in [Proxy -> ConnRec] /\ conn'[p] = d /\ worker' \in [Client -> WorkerRec] /\ worker'[c] = w
    BY <1>1, <1>4, <1>5, <1>6 DEF IInv, TypeOK
<1>8. TypeOK'
    BY <1>7 DEF IInv, TypeOK, HandOver, counters
<1>9. Fits(c)
    BY <1>1, <1>3, <1>4, <1>5, <1>7 DEF Fits, Connected, Sent, IInv, Workers, WorkerOK, Mine
<1>10. \A e \in Client \ {c} : worker'[e] = worker[e]
    BY <1>6 DEF IInv, TypeOK
<1>11. /\ worker[c].at \in Sent => /\ worker'[c].at \in Sent /\ worker'[c].seq = worker[c].seq
                                    /\ worker'[c].proxy = worker[c].proxy
      /\ worker[c].at \notin {"connect", "discard"}
    BY <1>1, <1>5, <1>7 DEF Sent, Mine
<1>12. UNCHANGED <<wire, backlog>> /\ \A s \in Server, e \in Client : proxys'[s][e] \in {proxys[s][e], NoProxy}
    BY DEF HandOver
<1>13. d.loop # "handing"
    BY <1>4
<1>14. Workers' /\ Frames' /\ Listed' /\ Pending'
    BY <1>1, <1>4, <1>6, <1>9, <1>10, <1>11, <1>12, <1>13, ConnChanges
<1> QED BY <1>8, <1>14 DEF IInv

LEMMA ReadFailsInv == ASSUME IInv, NEW p \in Proxy, ReadFails(p) PROVE IInv'
<1> DEFINE d == [conn[p] EXCEPT !.ws = "closed",
                     !.loop = IF conn[p].isClosed THEN "stopped" ELSE "closing"]
<1>1. /\ d \in ConnRec /\ d.Seq = conn[p].Seq /\ d.syncCtxs = conn[p].syncCtxs
      /\ d.ws = "closed" /\ d.loop # "handing"
    BY Types DEF ConnRec
<1>2. conn' = [conn EXCEPT ![p] = d] /\ conn[p].ws # "none"
    BY DEF ReadFails
<1> HIDE DEF d
<1>3. TypeOK'
    BY <1>1, <1>2 DEF IInv, TypeOK, ReadFails, counters
<1>4. Workers' /\ Frames' /\ Listed' /\ Pending'
    BY <1>1, <1>2, ConnChanges, Types DEF ReadFails
<1> QED BY <1>3, <1>4 DEF IInv

LEMMA LoopClosesInv == ASSUME IInv, NEW p \in Proxy, LoopCloses(p) PROVE IInv'
<1> DEFINE d == [conn[p] EXCEPT !.isClosed = TRUE, !.loop = "stopped"]
<1>1. /\ d \in ConnRec /\ d.Seq = conn[p].Seq /\ d.syncCtxs = conn[p].syncCtxs
      /\ d.ws = conn[p].ws /\ d.loop # "handing"
    BY Types DEF ConnRec
<1>2. conn' = [conn EXCEPT ![p] = d] /\ ProxyCloses(p)
    BY DEF LoopCloses
<1> HIDE DEF d
<1>3. TypeOK'
    BY <1>1, <1>2, ProxyClosesOut DEF IInv, TypeOK, LoopCloses, counters
<1>4. Workers' /\ Frames' /\ Listed' /\ Pending'
    BY <1>1, <1>2, ConnChanges, ProxyClosesOut, Types DEF LoopCloses
<1> QED BY <1>3, <1>4 DEF IInv

\* A frame is read: what stays in transit was in transit.
LEMMA ReadKeeps ==
    ASSUME IInv, NEW p \in Proxy, NEW d \in ConnRec, wire[p] # << >>,
           conn' = [conn EXCEPT ![p] = d], wire' = [wire EXCEPT ![p] = Tail(wire[p])],
           UNCHANGED <<worker, proxys, backlog>>,
           d.Seq = conn[p].Seq, d.syncCtxs = conn[p].syncCtxs, d.ws = conn[p].ws,
           d.loop = "handing" => Head(wire[p]).kind = "Answer" /\ d.held = Head(wire[p]).req
    PROVE  /\ conn' \in [Proxy -> ConnRec] /\ wire' \in [Proxy -> Seq(Frame)]
           /\ Workers' /\ Frames' /\ Listed' /\ Pending'
<1>1. /\ conn' \in [Proxy -> ConnRec]
      /\ conn'[p] = d /\ \A q \in Proxy \ {p} : conn'[q] = conn[q]
      /\ wire'[p] = Tail(wire[p]) /\ \A q \in Proxy \ {p} : wire'[q] = wire[q]
    BY DEF IInv, TypeOK
<1>2. /\ Tail(wire[p]) \in Seq(Frame) /\ Len(Tail(wire[p])) = Len(wire[p]) - 1
      /\ \A i \in 1..Len(Tail(wire[p])) : Tail(wire[p])[i] = wire[p][i + 1]
      /\ 1 \in 1..Len(wire[p]) /\ Head(wire[p]) = wire[p][1] /\ Len(wire[p]) \in Nat
    BY Types
<1>3. wire' \in [Proxy -> Seq(Frame)]
    BY <1>2 DEF IInv, TypeOK
<1>4. InTransit(p)' \subseteq InTransit(p)
  <2> SUFFICES ASSUME NEW r \in InTransit(p)' PROVE r \in InTransit(p)
      OBVIOUS
  <2>1. CASE \E i \in 1..Len(backlog[p]) : r = backlog[p][i]
      BY <2>1 DEF InTransit
  <2>2. CASE \E i \in 1..Len(Tail(wire[p])) : Tail(wire[p])[i].kind = "Answer" /\ r = Tail(wire[p])[i].req
    <3>1. PICK i \in 1..Len(Tail(wire[p])) : Tail(wire[p])[i].kind = "Answer" /\ r = Tail(wire[p])[i].req
        BY <2>2
    <3>2. i + 1 \in 1..Len(wire[p]) /\ wire[p][i + 1].kind = "Answer" /\ r = wire[p][i + 1].req
        BY <1>2, <3>1
    <3> QED BY <3>2 DEF InTransit
  <2>3. CASE d.loop = "handing" /\ r = d.held
    <3>1. wire[p][1].kind = "Answer" /\ r = wire[p][1].req
        BY <1>2, <2>3
    <3> QED BY <1>2, <3>1 DEF InTransit
  <2> QED BY <1>1, <2>1, <2>2, <2>3 DEF InTransit
<1>5. ASSUME NEW q \in Proxy PROVE InTransit(q)' \subseteq InTransit(q)
  <2>1. CASE q # p
      BY <1>1, <2>1 DEF InTransit
  <2> QED BY <1>4, <2>1
<1>6. Workers' /\ Frames'
    BY <1>1, <1>5, Calm
<1>7. Listed'
    BY <1>1, Types DEF IInv, Listed, At, Mine
<1>8. Pending'
    BY <1>1 DEF IInv, Pending, Mine
<1> QED BY <1>1, <1>3, <1>6, <1>7, <1>8

LEMMA ReadInv ==
    ASSUME IInv, NEW p \in Proxy, ReadHandshake(p) \/ ReadPush(p) \/ ReadAnswer(p)
    PROVE  IInv'
<1> DEFINE r == Head(wire[p]).req
           d == IF Head(wire[p]).kind = "Handshake"
                THEN [conn[p] EXCEPT !.handshake = TRUE, !.loop = "shaking"]
                ELSE IF Head(wire[p]).kind = "Answer" /\ r.seq \in conn[p].syncCtxs
                THEN [conn[p] EXCEPT !.loop = "handing", !.held = r]
                ELSE conn[p]
<1>1. /\ wire[p] # << >> /\ wire' = [wire EXCEPT ![p] = Tail(wire[p])]
      /\ UNCHANGED <<worker, replied, proxys, backlog, client, jammed, counters>>
      /\ conn[p].loop = "reading"
    BY DEF ReadHandshake, ReadPush, ReadAnswer, Reads
<1>2. conn \in [Proxy -> ConnRec] /\ conn[p] \in ConnRec
    BY Types DEF IInv, TypeOK
<1>3. conn' = [conn EXCEPT ![p] = d]
  <2>1. CASE ReadHandshake(p)
      BY <2>1 DEF ReadHandshake, Reads
  <2>2. CASE ReadPush(p)
    <3>1. d = conn[p] /\ conn' = conn
        BY <2>2 DEF ReadPush, Reads
    <3> QED BY <1>2, <3>1
  <2>3. CASE ReadAnswer(p)
    <3>1. CASE r.seq \in conn[p].syncCtxs
        BY <2>3, <3>1 DEF ReadAnswer, Reads
    <3>2. CASE r.seq \notin conn[p].syncCtxs
      <4>1. d = conn[p] /\ conn' = conn
          BY <2>3, <3>2 DEF ReadAnswer, Reads
      <4> QED BY <1>2, <4>1
    <3> QED BY <3>1, <3>2
  <2> QED BY <2>1, <2>2, <2>3
<1>4. Head(wire[p]).kind = "Answer" => r \in Request
  <2>1. Head(wire[p]) \in Frame
      BY <1>1, Types
  <2> QED BY <2>1 DEF Frame, Handshake, Push
<1>5. /\ d \in ConnRec /\ d.Seq = conn[p].Seq /\ d.syncCtxs = conn[p].syncCtxs /\ d.ws = conn[p].ws
      /\ d.loop = "handing" => Head(wire[p]).kind = "Answer" /\ d.held = r
  <2>1. CASE Head(wire[p]).kind = "Handshake"
      BY <1>2, <2>1 DEF ConnRec
  <2>2. CASE Head(wire[p]).kind = "Answer" /\ r.seq \in conn[p].syncCtxs
      BY <1>2, <1>4, <2>2 DEF ConnRec
  <2>3. CASE d = conn[p]
      BY <1>1, <1>2, <2>3
  <2> QED BY <2>1, <2>2, <2>3
<1> HIDE DEF d
<1>6. /\ conn' \in [Proxy -> ConnRec] /\ wire' \in [Proxy -> Seq(Frame)]
      /\ Workers' /\ Frames' /\ Listed' /\ Pending'
    BY <1>1, <1>3, <1>5, ReadKeeps
<1>7. TypeOK'
    BY <1>1, <1>6 DEF IInv, TypeOK, counters
<1> QED BY <1>6, <1>7 DEF IInv

(***************************************************************************)
(* Making and discarding a proxy.                                          *)
(***************************************************************************)
LEMMA InsertInv == ASSUME IInv, NEW c \in Client, Insert(c) PROVE IInv'
<1> DEFINE p == Fresh(c)
           s == worker[c].server
           d == [conn[p] EXCEPT !.client = c, !.server = s]
           w == [worker[c] EXCEPT !.at = "connect", !.proxy = p]
<1>1. /\ worker[c] \in WorkerRec /\ s \in Server /\ worker[c].at = "insert"
      /\ worker[c].id \in 1..MaxRequests
    BY Types, GateAssumption DEF IInv, Workers, WorkerOK, Insert, At, None
<1>2. p \in Proxy /\ p # NoProxy
    BY <1>1, GateAssumption DEF Fresh, Proxy, NoProxy
<1>3. /\ d \in ConnRec /\ d.Seq = conn[p].Seq /\ d.syncCtxs = conn[p].syncCtxs
      /\ d.ws = conn[p].ws /\ d.loop = conn[p].loop /\ d.held = conn[p].held
    BY <1>1, <1>2, Types DEF ConnRec
<1>4. /\ w \in WorkerRec /\ w.at = "connect" /\ w.proxy = p /\ w.server = s
      /\ w.id = worker[c].id /\ w.reply = worker[c].reply /\ w.first = worker[c].first
    BY <1>1, <1>2 DEF WorkerRec, Places
<1>5. /\ conn' = [conn EXCEPT ![p] = d] /\ worker' = [worker EXCEPT ![c] = w]
      /\ proxys' = [proxys EXCEPT ![s][c] = p]
    BY DEF Insert
<1> HIDE DEF p, s, d, w
<1>6. /\ conn' \in [Proxy -> ConnRec] /\ conn'[p] = d /\ \A q \in Proxy \ {p} : conn'[q] = conn[q]
      /\ worker' \in [Client -> WorkerRec] /\ worker'[c] = w
      /\ \A e \in Client \ {c} : worker'[e] = worker[e]
    BY <1>2, <1>3, <1>4, <1>5 DEF IInv, TypeOK
<1>7. /\ proxys' \in [Server -> [Client -> Proxy \cup {NoProxy}]] /\ proxys'[s][c] = p
      /\ \A t \in Server, e \in Client : t # s \/ e # c => proxys'[t][e] = proxys[t][e]
    BY <1>1, <1>2, <1>5 DEF IInv, TypeOK
<1>8. TypeOK'
    BY <1>6, <1>7 DEF IInv, TypeOK, Insert, counters
<1>9. Workers' /\ Frames'
  <2>1. Fits(c)
      BY <1>1, <1>2, <1>4, <1>6 DEF Fits, Connected, Sent, IInv, Workers, WorkerOK
  <2>2. ASSUME NEW q \in Proxy PROVE InTransit(q)' = InTransit(q)
      BY <1>3, <1>6 DEF InTransit, Insert
  <2> QED BY <1>3, <1>6, <2>1, <2>2, Calm
<1>10. Listed'
  <2> SUFFICES ASSUME NEW t \in Server, NEW e \in Client,
                      proxys'[t][e] # NoProxy, conn'[proxys'[t][e]].ws = "none"
               PROVE  /\ At(e, "connect")' \/ At(e, "discard")'
                      /\ worker'[e].server = t /\ Mine(e)' = proxys'[t][e]
      BY DEF Listed
  <2>1. CASE t = s /\ e = c
      BY <1>4, <1>6, <1>7, <2>1 DEF At, Mine
  <2>2. CASE t # s \/ e # c
    <3>1. proxys'[t][e] = proxys[t][e] /\ conn[proxys[t][e]].ws = "none"
        BY <1>3, <1>6, <1>7, <2>2, Types
    <3>2. e # c
        BY <1>1, <3>1 DEF IInv, Listed, At
    <3> QED BY <1>6, <3>1, <3>2 DEF IInv, Listed, At, Mine
  <2> QED BY <2>1, <2>2
<1>11. Pending'
    BY <1>1, <1>3, <1>6 DEF IInv, Pending, Mine, Sent
<1> QED BY <1>8, <1>9, <1>10, <1>11 DEF IInv

LEMMA ConnectInv == ASSUME IInv, NEW c \in Client, Connect(c) PROVE IInv'
<1>1. Goes(c, "started") /\ worker[c].at = "connect" /\ "started" \in Places
    BY DEF Connect, At, Places
<1>2. PICK p \in Proxy : p = Mine(c)
    BY <1>1 DEF IInv, Workers, WorkerOK, Mine
<1> DEFINE d == [conn[p] EXCEPT !.ws = "open"]
<1>3. /\ d \in ConnRec /\ d.Seq = conn[p].Seq /\ d.syncCtxs = conn[p].syncCtxs
      /\ d.ws = "open" /\ d.loop = conn[p].loop /\ d.held = conn[p].held
    BY <1>2, Types DEF ConnRec
<1>4. conn' = [conn EXCEPT ![p] = d] /\ wire' = [wire EXCEPT ![p] = <<Handshake>>]
    BY <1>2 DEF Connect
<1>5. <<Handshake>> \in Seq(Frame) /\ Len(<<Handshake>>) = 1 /\ <<Handshake>>[1].kind # "Answer"
    BY DEF Frame, Handshake
<1> HIDE DEF d
<1>6. /\ conn' \in [Proxy -> ConnRec] /\ conn'[p] = d /\ \A q \in Proxy \ {p} : conn'[q] = conn[q]
      /\ wire' \in [Proxy -> Seq(Frame)] /\ wire'[p] = <<Handshake>>
      /\ \A q \in Proxy \ {p} : wire'[q] = wire[q]
    BY <1>2, <1>3, <1>4, <1>5 DEF IInv, TypeOK
<1>7. /\ worker' = [worker EXCEPT ![c] = [worker[c] EXCEPT !.at = "started"]]
      /\ worker' \in [Client -> WorkerRec] /\ Fits(c)
    BY <1>1, <1>2, <1>3, <1>6, GoesOn DEF Sent
<1>8. TypeOK'
    BY <1>6, <1>7 DEF IInv, TypeOK, Connect, counters
<1>9. \A e \in Client \ {c} : worker'[e] = worker[e]
    BY <1>7 DEF IInv, TypeOK
<1>10. Workers' /\ Frames'
  <2>1. InTransit(p)' \subseteq InTransit(p)
    <3> SUFFICES ASSUME NEW r \in InTransit(p)' PROVE r \in InTransit(p)
        OBVIOUS
    <3>1. r \notin {wire'[p][i].req : i \in {j \in 1..Len(wire'[p]) : wire'[p][j].kind = "Answer"}}
      <4>1. ~ \E i \in 1..Len(wire'[p]) : wire'[p][i].kind = "Answer"
          BY <1>5, <1>6
      <4> QED BY <4>1
    <3>2. /\ backlog'[p] = backlog[p] /\ conn'[p].loop = conn[p].loop
          /\ conn'[p].held = conn[p].held
        BY <1>3, <1>6 DEF Connect
    <3>3. \/ \E i \in 1..Len(backlog'[p]) : r = backlog'[p][i]
          \/ conn'[p].loop = "handing" /\ r = conn'[p].held
        BY <3>1, Zenon DEF InTransit
    <3>4. CASE \E i \in 1..Len(backlog[p]) : r = backlog[p][i]
        BY <3>4, Zenon DEF InTransit
    <3>5. CASE conn[p].loop = "handing" /\ r = conn[p].held
        BY <3>5 DEF InTransit
    <3> QED BY <3>2, <3>3, <3>4, <3>5
  <2>2. ASSUME NEW q \in Proxy PROVE InTransit(q)' \subseteq InTransit(q)
    <3>1. CASE q # p
      <4>1. wire'[q] = wire[q] /\ conn'[q] = conn[q] /\ backlog'[q] = backlog[q]
          BY <1>6, <3>1 DEF Connect
      <4> QED BY <4>1, Quiet
    <3> QED BY <2>1, <3>1
  <2> QED BY <1>3, <1>6, <1>7, <1>9, <2>2, Calm
<1>11. Listed'
  <2> SUFFICES ASSUME NEW t \in Server, NEW e \in Client,
                      proxys'[t][e] # NoProxy, conn'[proxys'[t][e]].ws = "none"
               PROVE  /\ At(e, "connect")' \/ At(e, "discard")'
                      /\ worker'[e].server = t /\ Mine(e)' = proxys'[t][e]
      BY DEF Listed
  <2>1. proxys'[t][e] = proxys[t][e] /\ proxys[t][e] \in Proxy
      BY Types DEF Connect
  <2>2. proxys[t][e] # p /\ conn[proxys[t][e]].ws = "none"
      BY <1>3, <1>6, <2>1
  <2>3. e # c
      BY <1>2, <2>1, <2>2 DEF IInv, Listed
  <2> QED BY <1>9, <2>1, <2>2, <2>3 DEF IInv, Listed, At, Mine
<1>12. Pending'
  <2>1. \A q \in Proxy : conn'[q].syncCtxs = conn[q].syncCtxs
      BY <1>3, <1>6
  <2>2. worker[c].at \notin Sent
      BY <1>1 DEF Sent
  <2> QED BY <1>9, <2>1, <2>2 DEF IInv, Pending, Mine
<1> QED BY <1>8, <1>10, <1>11, <1>12 DEF IInv

\* deal ends: the client gets the reply to its request, or the worker goes on
\* with the log-in to the chat server.
LEMMA DealEndsFits ==
    ASSUME IInv, NEW c \in Client, NEW reply \in ReplyRec,
           reply \in Abstract!Replies(worker[c].id), worker[c].at # "idle", DealEnds(c, reply)
    PROVE  /\ worker' \in [Client -> WorkerRec] /\ replied' \in [Client -> ReplyRec]
           /\ worker'[c].at \in {"idle", "lookup"}
           /\ \A e \in Client \ {c} : worker'[e] = worker[e]
           /\ Fits(c)
<1> DEFINE w == [Resting EXCEPT !.at = "lookup", !.id = worker[c].id, !.login = TRUE, !.first = reply]
<1>1. worker[c].id # None /\ worker[c].id \in 0..MaxRequests
    BY Types DEF IInv, Workers, WorkerOK
<1>2. NoReply \in Abstract!Replies(worker[c].id)
    BY DEF NoReply, Abstract!Replies, None, Abstract!None
<1>3. /\ w \in WorkerRec /\ w.at = "lookup" /\ w.id = worker[c].id /\ w.reply = NoReply
      /\ w.first = reply
    BY <1>1, RestingType DEF Resting, WorkerRec, Places
<1> HIDE DEF w
<1>4. CASE worker' = [worker EXCEPT ![c] = w] /\ replied' = replied
  <2>1. worker'[c] = w
      BY <1>4 DEF IInv, TypeOK
  <2> QED BY <1>1, <1>2, <1>3, <1>4, <2>1 DEF IInv, TypeOK, Fits, Connected, Sent
<1>5. CASE /\ worker' = [worker EXCEPT ![c] = Resting]
           /\ replied' = [replied EXCEPT ![c] = IF worker[c].login THEN worker[c].first ELSE reply]
  <2>1. worker'[c] = Resting
      BY <1>5 DEF IInv, TypeOK
  <2> QED BY <1>5, <2>1, RestingType, Types DEF IInv, TypeOK, Fits, Connected, Sent
<1> QED BY <1>4, <1>5 DEF DealEnds, w

LEMMA DiscardInv == ASSUME IInv, NEW c \in Client, Discard(c) PROVE IInv'
<1> DEFINE s == worker[c].server
<1>1. /\ DealEnds(c, Failed) /\ worker[c].at = "discard" /\ s \in Server
      /\ proxys' = [proxys EXCEPT ![s][c] = NoProxy]
    BY Types DEF Discard, At
<1>2. Failed \in ReplyRec /\ Failed \in Abstract!Replies(worker[c].id)
    BY GateAssumption DEF Failed, ReplyRec, Abstract!Replies, None, Abstract!None
<1>3. /\ worker' \in [Client -> WorkerRec] /\ replied' \in [Client -> ReplyRec]
      /\ worker'[c].at \in {"idle", "lookup"}
      /\ \A e \in Client \ {c} : worker'[e] = worker[e]
      /\ Fits(c)
    BY <1>1, <1>2, DealEndsFits
<1> HIDE DEF s
<1>4. /\ proxys' \in [Server -> [Client -> Proxy \cup {NoProxy}]] /\ proxys'[s][c] = NoProxy
      /\ \A t \in Server, e \in Client : t # s \/ e # c => proxys'[t][e] = proxys[t][e]
    BY <1>1 DEF IInv, TypeOK
<1>5. TypeOK'
    BY <1>3, <1>4 DEF IInv, TypeOK, Discard, counters
<1>6. Workers' /\ Frames'
  <2>1. ASSUME NEW q \in Proxy PROVE InTransit(q)' = InTransit(q)
      BY DEF InTransit, Discard
  <2> QED BY <1>3, <2>1, Calm DEF Discard
<1>7. Listed'
  <2> SUFFICES ASSUME NEW t \in Server, NEW e \in Client,
                      proxys'[t][e] # NoProxy, conn'[proxys'[t][e]].ws = "none"
               PROVE  /\ At(e, "connect")' \/ At(e, "discard")'
                      /\ worker'[e].server = t /\ Mine(e)' = proxys'[t][e]
      BY DEF Listed
  <2>1. proxys'[t][e] = proxys[t][e] /\ (t # s \/ e # c) /\ conn' = conn
      BY <1>4 DEF Discard
  <2>2. e # c
      BY <2>1 DEF IInv, Listed, s
  <2> QED BY <1>3, <2>1, <2>2 DEF IInv, Listed, At, Mine
<1>8. Pending'
    BY <1>1, <1>3 DEF IInv, Pending, Mine, Sent, Discard
<1> QED BY <1>5, <1>6, <1>7, <1>8 DEF IInv

(***************************************************************************)
(* Send.                                                                   *)
(***************************************************************************)
\* A request is counted and registered under a number that was not given
\* before: no request in transit has it, and no worker.
LEMMA Registers ==
    ASSUME IInv, NEW c \in Client, NEW p \in Proxy,
           NEW w \in WorkerRec, NEW d \in ConnRec,
           worker[c].at = "send", worker[c].proxy = p,
           worker' = [worker EXCEPT ![c] = w], conn' = [conn EXCEPT ![p] = d],
           UNCHANGED <<proxys, wire>>,
           w.at \in Sent, w.seq = conn[p].Seq + 1, w.proxy = p, w.id = worker[c].id,
           w.reply \in Abstract!Replies(w.id), w.first = worker[c].first,
           d.Seq = w.seq, d.syncCtxs = conn[p].syncCtxs \cup {w.seq}, d.ws # "none",
           d.loop = conn[p].loop, d.held = conn[p].held,
           \/ backlog' = backlog
           \/ backlog' = [backlog EXCEPT ![p] = Append(@, [seq |-> w.seq, id |-> worker[c].id])]
    PROVE  Workers' /\ Frames' /\ Listed' /\ Pending'
<1> DEFINE n == w.seq
           r == [seq |-> n, id |-> worker[c].id]
<1>1. /\ conn'[p] = d /\ \A q \in Proxy \ {p} : conn'[q] = conn[q]
      /\ worker'[c] = w /\ \A e \in Client \ {c} : worker'[e] = worker[e]
    BY DEF IInv, TypeOK
<1>2. conn[p].Seq \in Nat /\ n \in Nat /\ n > conn[p].Seq
    BY Types
<1>3. Workers'
  <2> SUFFICES ASSUME NEW e \in Client PROVE WorkerOK(e)'
      BY DEF Workers
  <2>1. CASE e = c
      BY <1>1, <1>2, <2>1 DEF IInv, Workers, WorkerOK, Connected, Sent
  <2>2. CASE e # c
    <3>1. /\ worker'[e] = worker[e] /\ WorkerOK(e)
          /\ worker[e].at \in Connected => worker[e].proxy \in Proxy
        BY <1>1, <2>2 DEF IInv, Workers, WorkerOK
    <3>2. CASE worker[e].proxy = p
        BY <1>1, <1>2, <3>1, <3>2, Types DEF WorkerOK, Connected
    <3>3. CASE worker[e].proxy # p
        BY <1>1, <3>1, <3>3 DEF WorkerOK, Connected
    <3> QED BY <3>2, <3>3
  <2> QED BY <2>1, <2>2
<1>4. \A q \in Proxy : \A x \in InTransit(q)' : x \in InTransit(q) \/ (q = p /\ x = r)
  <2> SUFFICES ASSUME NEW q \in Proxy, NEW x \in InTransit(q)'
               PROVE  x \in InTransit(q) \/ (q = p /\ x = r)
      OBVIOUS
  <2>1. wire'[q] = wire[q] /\ conn'[q].loop = conn[q].loop /\ conn'[q].held = conn[q].held
      BY <1>1
  <2>2. CASE backlog'[q] = backlog[q]
      BY <2>1, <2>2, Quiet
  <2>3. CASE q = p /\ backlog'[q] = Append(backlog[q], r)
    <3>1. backlog[q] \in Seq(Request)
        BY Types
    <3>2. /\ \A i \in 1..Len(backlog'[q]) : backlog'[q][i] = r \/ \E j \in 1..Len(backlog[q]) : backlog'[q][i] = backlog[q][j]
        BY <2>3, <3>1
    <3>3. CASE \E i \in 1..Len(backlog'[q]) : x = backlog'[q][i]
      <4>1. x = r \/ \E j \in 1..Len(backlog[q]) : x = backlog[q][j]
          BY <3>2, <3>3
      <4> QED BY <2>3, <4>1 DEF InTransit
    <3>4. CASE \E i \in 1..Len(wire[q]) : wire[q][i].kind = "Answer" /\ x = wire[q][i].req
        BY <3>4 DEF InTransit
    <3>5. CASE conn[q].loop = "handing" /\ x = conn[q].held
        BY <3>5 DEF InTransit
    <3>6. \/ \E i \in 1..Len(backlog'[q]) : x = backlog'[q][i]
          \/ \E i \in 1..Len(wire'[q]) : wire'[q][i].kind = "Answer" /\ x = wire'[q][i].req
          \/ conn'[q].loop = "handing" /\ x = conn'[q].held
        BY DEF InTransit
    <3> QED BY <2>1, <3>3, <3>4, <3>5, <3>6
  <2> QED BY <2>2, <2>3 DEF IInv, TypeOK
<1>5. Frames'
  <2> SUFFICES ASSUME NEW q \in Proxy, NEW x \in InTransit(q)' PROVE Known(q, x)'
      BY DEF Frames
  <2>1. CASE x \in InTransit(q)
    <3>1. Known(q, x) /\ x.seq \in Nat /\ conn[q].Seq \in Nat
        BY <2>1, TransitTypes, Types DEF IInv, Frames
    <3>2. CASE q = p
        BY <1>1, <1>2, <3>1, <3>2 DEF Known, At, Mine
    <3>3. CASE q # p
        BY <1>1, <3>1, <3>3 DEF Known, At, Mine
    <3> QED BY <3>2, <3>3
  <2>2. CASE q = p /\ x = r
    <3>1. ASSUME NEW e \in Client \ {c}, worker[e].at \in Sent, worker[e].proxy = p
          PROVE  worker[e].seq # n
        BY <1>2, <3>1 DEF IInv, Workers, WorkerOK
    <3> QED BY <1>1, <1>2, <2>2, <3>1 DEF Known, At, Mine, Sent
  <2> QED BY <1>4, <2>1, <2>2
<1>6. Listed'
  <2> SUFFICES ASSUME NEW t \in Server, NEW e \in Client,
                      proxys[t][e] # NoProxy, conn'[proxys[t][e]].ws = "none"
               PROVE  /\ At(e, "connect")' \/ At(e, "discard")'
                      /\ worker'[e].server = t /\ Mine(e)' = proxys[t][e]
      BY DEF Listed
  <2>1. proxys[t][e] \in Proxy /\ proxys[t][e] # p /\ conn[proxys[t][e]].ws = "none"
      BY <1>1, Types
  <2>2. e # c
      BY <2>1 DEF IInv, Listed, At
  <2> QED BY <1>1, <2>1, <2>2 DEF IInv, Listed, At, Mine
<1>7. Pending'
  <2> SUFFICES ASSUME NEW q \in Proxy, NEW x \in conn'[q].syncCtxs
               PROVE  \E e \in Client : worker'[e].at \in Sent /\ Mine(e)' = q /\ worker'[e].seq = x
      BY DEF Pending
  <2>1. CASE q = p /\ x = n
      BY <1>1, <2>1 DEF Mine
  <2>2. CASE x \in conn[q].syncCtxs
    <3>1. PICK e \in Client : worker[e].at \in Sent /\ Mine(e) = q /\ worker[e].seq = x
        BY <2>2 DEF IInv, Pending
    <3>2. e # c
        BY <3>1 DEF Sent
    <3> QED BY <1>1, <3>1, <3>2 DEF Mine
  <2> QED BY <1>1, <2>1, <2>2
<1> QED BY <1>3, <1>5, <1>6, <1>7

LEMMA SendWritesInv == ASSUME IInv, NEW c \in Client, SendWrites(c) PROVE IInv'
<1>1. worker[c].at = "send" /\ worker[c] \in WorkerRec
    BY Types DEF SendWrites, At
<1>2. PICK p \in Proxy : p = Mine(c)
    BY <1>1 DEF IInv, Workers, WorkerOK, Connected, Mine
<1> DEFINE n == conn[p].Seq + 1
           r == [seq |-> n, id |-> worker[c].id]
           w == [worker[c] EXCEPT !.at = "wait", !.seq = n]
           d == Registered(p)
<1>3. conn[p] \in ConnRec /\ n \in Nat \ {0} /\ worker[c].id \in 0..MaxRequests
    BY Types
<1>4. /\ w \in WorkerRec /\ w.at = "wait" /\ w.seq = n /\ w.proxy = p /\ w.id = worker[c].id
      /\ w.reply = worker[c].reply /\ w.first = worker[c].first
    BY <1>1, <1>2, <1>3 DEF WorkerRec, Places, Mine
<1>5. /\ d \in ConnRec /\ d.Seq = n /\ d.syncCtxs = conn[p].syncCtxs \cup {n}
      /\ d.ws = conn[p].ws /\ d.loop = conn[p].loop /\ d.held = conn[p].held
    BY <1>3 DEF ConnRec, Registered
<1>6. r \in Request
    BY <1>3 DEF Request
<1>7. /\ worker' = [worker EXCEPT ![c] = w] /\ conn' = [conn EXCEPT ![p] = d]
      /\ \/ backlog' = backlog
         \/ backlog' = [backlog EXCEPT ![p] = Append(@, r)]
      /\ UNCHANGED <<replied, proxys, wire, client, jammed, counters>>
      /\ conn[p].ws \in {"open", "cut"}
    BY <1>2 DEF SendWrites, Waits
<1> HIDE DEF w, d
<1>8. backlog' \in [Proxy -> Seq(Request)]
  <2>1. backlog \in [Proxy -> Seq(Request)] /\ Append(backlog[p], r) \in Seq(Request)
      BY <1>6, Types DEF IInv, TypeOK
  <2> QED BY <1>7, <2>1
<1>9. TypeOK'
    BY <1>4, <1>5, <1>7, <1>8 DEF IInv, TypeOK, counters
<1>10. w.at \in Sent /\ w.reply \in Abstract!Replies(w.id) /\ d.ws # "none"
    BY <1>4, <1>5, <1>7 DEF Sent, IInv, Workers, WorkerOK
<1>11. worker[c].proxy = p /\ UNCHANGED <<proxys, wire>>
    BY <1>2, <1>7 DEF Mine
<1>12. d.Seq = w.seq /\ d.syncCtxs = conn[p].syncCtxs \cup {w.seq} /\ r = [seq |-> w.seq, id |-> worker[c].id]
    BY <1>4, <1>5
<1>13. w.seq = conn[p].Seq + 1
    BY <1>4
<1> HIDE DEF n, r
<1>14. Workers' /\ Frames' /\ Listed' /\ Pending'
    BY <1>1, <1>4, <1>5, <1>7, <1>10, <1>11, <1>12, <1>13, Registers
<1> QED BY <1>9, <1>14 DEF IInv

LEMMA SendFailsInv == ASSUME IInv, NEW c \in Client, SendFails(c) PROVE IInv'
<1>1. worker[c].at = "send" /\ worker[c] \in WorkerRec
    BY Types DEF SendFails, At
<1>2. PICK p \in Proxy : p = Mine(c)
    BY <1>1 DEF IInv, Workers, WorkerOK, Connected, Mine
<1> DEFINE n == conn[p].Seq + 1
           place == IF conn[p].isClosed THEN "forget" ELSE "closing"
           w == [worker[c] EXCEPT !.at = place, !.seq = n, !.reply = Empty]
           d == [Registered(p) EXCEPT !.ws = "closed"]
<1>3. conn[p] \in ConnRec /\ n \in Nat \ {0} /\ worker[c].id \in 0..MaxRequests
    BY Types
<1>4. Empty \in ReplyRec /\ Empty \in Abstract!Replies(worker[c].id)
    BY GateAssumption DEF Empty, ReplyRec, Abstract!Replies, None, Abstract!None
<1>5. /\ w \in WorkerRec /\ w.at \in {"forget", "closing"} /\ w.seq = n /\ w.proxy = p
      /\ w.id = worker[c].id /\ w.reply = Empty /\ w.first = worker[c].first
    BY <1>1, <1>2, <1>3, <1>4 DEF WorkerRec, Places, Mine
<1>6. /\ d \in ConnRec /\ d.Seq = n /\ d.syncCtxs = conn[p].syncCtxs \cup {n}
      /\ d.ws = "closed" /\ d.loop = conn[p].loop /\ d.held = conn[p].held
    BY <1>3 DEF ConnRec, Registered
<1>7. worker' = [worker EXCEPT ![c] = w]
    BY <1>1, <1>2 DEF SendFails, Waits, WorkerRec, IInv, TypeOK
<1>8. /\ conn' = [conn EXCEPT ![p] = d]
      /\ UNCHANGED <<replied, proxys, wire, backlog, client, jammed, counters>>
    BY <1>2 DEF SendFails
<1> HIDE DEF w, d
<1>9. TypeOK'
    BY <1>5, <1>6, <1>7, <1>8 DEF IInv, TypeOK, counters
<1>10. w.at \in Sent /\ w.reply \in Abstract!Replies(w.id)
    BY <1>4, <1>5 DEF Sent
<1>11. Workers' /\ Frames' /\ Listed' /\ Pending'
    BY <1>1, <1>2, <1>5, <1>6, <1>7, <1>8, <1>10, Registers DEF Mine
<1> QED BY <1>9, <1>11 DEF IInv

LEMMA SendReturnsInv == ASSUME IInv, NEW c \in Client, SendReturns(c) PROVE IInv'
<1>1. worker[c].at = "forget" /\ DealEnds(c, worker[c].reply)
    BY DEF SendReturns, At
<1>2. PICK p \in Proxy : p = Mine(c)
    BY <1>1 DEF IInv, Workers, WorkerOK, Connected, Sent, Mine
<1> DEFINE d == [conn[p] EXCEPT !.syncCtxs = @ \ {worker[c].seq}]
<1>3. /\ d \in ConnRec /\ d.Seq = conn[p].Seq /\ d.syncCtxs = conn[p].syncCtxs \ {worker[c].seq}
      /\ d.ws = conn[p].ws /\ d.loop = conn[p].loop /\ d.held = conn[p].held
    BY Types DEF ConnRec
<1>4. /\ conn' = [conn EXCEPT ![p] = d]
      /\ UNCHANGED <<proxys, wire, backlog, client, jammed, counters>>
    BY <1>2 DEF SendReturns
<1>5. /\ worker[c].reply \in ReplyRec /\ worker[c].reply \in Abstract!Replies(worker[c].id)
      /\ worker[c].at # "idle"
    BY <1>1, Types DEF IInv, Workers, WorkerOK
<1>6. /\ worker' \in [Client -> WorkerRec] /\ replied' \in [Client -> ReplyRec]
      /\ worker'[c].at \in {"idle", "lookup"}
      /\ \A e \in Client \ {c} : worker'[e] = worker[e]
      /\ Fits(c)
    BY <1>1, <1>5, DealEndsFits
<1> HIDE DEF d
<1>7. /\ conn' \in [Proxy -> ConnRec] /\ conn'[p] = d /\ \A q \in Proxy \ {p} : conn'[q] = conn[q]
    BY <1>3, <1>4 DEF IInv, TypeOK
<1>8. TypeOK'
    BY <1>4, <1>6, <1>7 DEF IInv, TypeOK, counters
<1>9. Workers' /\ Frames'
  <2>1. ASSUME NEW q \in Proxy PROVE InTransit(q)' \subseteq InTransit(q)
      BY <1>3, <1>4, <1>7, Quiet
  <2> QED BY <1>3, <1>6, <1>7, <2>1, Calm
<1>10. Listed'
  <2> SUFFICES ASSUME NEW t \in Server, NEW e \in Client,
                      proxys[t][e] # NoProxy, conn'[proxys[t][e]].ws = "none"
               PROVE  /\ At(e, "connect")' \/ At(e, "discard")'
                      /\ worker'[e].server = t /\ Mine(e)' = proxys[t][e]
      BY <1>4 DEF Listed
  <2>1. conn[proxys[t][e]].ws = "none"
      BY <1>3, <1>7, Types
  <2>2. e # c
      BY <1>1, <2>1 DEF IInv, Listed, At
  <2> QED BY <1>6, <2>1, <2>2 DEF IInv, Listed, At, Mine
<1>11. Pending'
  <2> SUFFICES ASSUME NEW q \in Proxy, NEW x \in conn'[q].syncCtxs
               PROVE  \E e \in Client : worker'[e].at \in Sent /\ Mine(e)' = q /\ worker'[e].seq = x
      BY DEF Pending
  <2>1. x \in conn[q].syncCtxs /\ ~(q = p /\ x = worker[c].seq)
      BY <1>3, <1>7
  <2>2. PICK e \in Client : worker[e].at \in Sent /\ Mine(e) = q /\ worker[e].seq = x
      BY <2>1 DEF IInv, Pending
  <2>3. e # c
      BY <1>2, <2>1, <2>2
  <2> QED BY <1>6, <2>2, <2>3 DEF Mine
<1> QED BY <1>8, <1>9, <1>10, <1>11 DEF IInv

(***************************************************************************)
(* Servers, and clients that leave.                                        *)
(***************************************************************************)
\* Workers and the map stay, and so do the numbers: what a step of a server or
\* a leaving client has to show is what is in transit then.
LEMMA OutsideKeeps ==
    ASSUME IInv, worker' = worker,
           \A s \in Server, e \in Client : proxys'[s][e] \in {proxys[s][e], NoProxy},
           \A p \in Proxy : /\ conn'[p].Seq = conn[p].Seq /\ conn'[p].syncCtxs = conn[p].syncCtxs
                            /\ conn'[p].ws = "none" <=> conn[p].ws = "none"
                            /\ InTransit(p)' \subseteq InTransit(p)
    PROVE  Workers' /\ Frames' /\ Listed' /\ Pending'
<1>1. Workers' /\ Frames'
    BY Calm
<1>2. Listed'
    BY Types DEF IInv, Listed, At, Mine
<1>3. Pending'
    BY DEF IInv, Pending, Mine
<1> QED BY <1>1, <1>2, <1>3

LEMMA ServerAnswersInv == ASSUME IInv, NEW p \in Proxy, ServerAnswers(p) PROVE IInv'
<1> DEFINE r == Head(backlog[p])
           f == [kind |-> "Answer", req |-> r]
<1>1. /\ backlog[p] \in Seq(Request) /\ backlog[p] # << >> /\ wire[p] \in Seq(Frame)
      /\ backlog' = [backlog EXCEPT ![p] = Tail(backlog[p])]
      /\ wire' = [wire EXCEPT ![p] = Append(wire[p], f)]
      /\ UNCHANGED <<worker, replied, proxys, conn, client, jammed, counters>>
    BY Types DEF ServerAnswers
<1>2. r \in Request /\ f \in Frame
    BY <1>1 DEF Frame
<1>3. Tail(backlog[p]) \in Seq(Request) /\ Append(wire[p], f) \in Seq(Frame)
    BY <1>1, <1>2
<1>4. /\ backlog' \in [Proxy -> Seq(Request)] /\ wire' \in [Proxy -> Seq(Frame)]
      /\ backlog'[p] = Tail(backlog[p]) /\ wire'[p] = Append(wire[p], f)
      /\ \A q \in Proxy \ {p} : backlog'[q] = backlog[q] /\ wire'[q] = wire[q]
    BY <1>1, <1>3 DEF IInv, TypeOK
<1>5. TypeOK'
    BY <1>1, <1>4 DEF IInv, TypeOK, counters
<1>6. \E j \in 1..Len(backlog[p]) : r = backlog[p][j]
    BY <1>1
<1>7. f.req = r
    OBVIOUS
<1> HIDE DEF f, r
<1>8. /\ \A i \in 1..Len(Tail(backlog[p])) :
            \E j \in 1..Len(backlog[p]) : Tail(backlog[p])[i] = backlog[p][j]
      /\ \A i \in 1..Len(Append(wire[p], f)) :
            \/ Append(wire[p], f)[i] = f
            \/ \E j \in 1..Len(wire[p]) : Append(wire[p], f)[i] = wire[p][j]
    BY <1>1, <1>2
<1>9. InTransit(p)' \subseteq InTransit(p)
  <2> SUFFICES ASSUME NEW x \in InTransit(p)' PROVE x \in InTransit(p)
      OBVIOUS
  <2>1. \/ \E i \in 1..Len(backlog'[p]) : x = backlog'[p][i]
        \/ \E i \in 1..Len(wire'[p]) : wire'[p][i].kind = "Answer" /\ x = wire'[p][i].req
        \/ conn'[p].loop = "handing" /\ x = conn'[p].held
      BY DEF InTransit
  <2>2. CASE \E j \in 1..Len(backlog[p]) : x = backlog[p][j]
      BY <2>2 DEF InTransit
  <2>3. CASE \E j \in 1..Len(wire[p]) : wire[p][j].kind = "Answer" /\ x = wire[p][j].req
      BY <2>3 DEF InTransit
  <2>4. CASE conn[p].loop = "handing" /\ x = conn[p].held
      BY <2>4 DEF InTransit
  <2>5. CASE \E i \in 1..Len(backlog'[p]) : x = backlog'[p][i]
    <3>1. PICK i \in 1..Len(Tail(backlog[p])) : x = Tail(backlog[p])[i]
        BY <1>4, <2>5
    <3> QED BY <1>8, <2>2, <3>1
  <2>6. CASE \E i \in 1..Len(wire'[p]) : wire'[p][i].kind = "Answer" /\ x = wire'[p][i].req
    <3>1. PICK i \in 1..Len(Append(wire[p], f)) :
              Append(wire[p], f)[i].kind = "Answer" /\ x = Append(wire[p], f)[i].req
        BY <1>4, <2>6
    <3>2. CASE Append(wire[p], f)[i] = f
        BY <1>6, <1>7, <2>2, <3>1, <3>2
    <3>3. CASE \E j \in 1..Len(wire[p]) : Append(wire[p], f)[i] = wire[p][j]
        BY <2>3, <3>1, <3>3
    <3> QED BY <1>8, <3>2, <3>3
  <2>7. CASE conn'[p].loop = "handing" /\ x = conn'[p].held
      BY <1>1, <2>4, <2>7
  <2> QED BY <2>1, <2>5, <2>6, <2>7
<1>10. ASSUME NEW q \in Proxy PROVE InTransit(q)' \subseteq InTransit(q)
  <2>1. CASE q # p
    <3>1. wire'[q] = wire[q] /\ backlog'[q] = backlog[q] /\ conn' = conn
        BY <1>1, <1>4, <2>1
    <3> QED BY <3>1, Quiet
  <2> QED BY <1>9, <2>1
<1>11. Workers' /\ Frames' /\ Listed' /\ Pending'
    BY <1>1, <1>10, OutsideKeeps
<1> QED BY <1>5, <1>11 DEF IInv

LEMMA ServerPushesInv == ASSUME IInv, NEW p \in Proxy, ServerPushes(p) PROVE IInv'
<1>1. /\ wire[p] \in Seq(Frame) /\ wire' = [wire EXCEPT ![p] = Append(wire[p], Push)]
      /\ UNCHANGED <<worker, replied, proxys, conn, backlog, client, jammed, made, stops>>
      /\ pushes' \in 0..MaxPushes
    BY Types, GateAssumption DEF ServerPushes, IInv, TypeOK
<1>2. Push \in Frame /\ Push.kind # "Answer"
    BY DEF Frame, Push
<1>3. Append(wire[p], Push) \in Seq(Frame)
    BY <1>1, <1>2
<1>4. /\ wire' \in [Proxy -> Seq(Frame)] /\ wire'[p] = Append(wire[p], Push)
      /\ \A q \in Proxy \ {p} : wire'[q] = wire[q]
    BY <1>1, <1>3 DEF IInv, TypeOK
<1>5. TypeOK'
    BY <1>1, <1>4 DEF IInv, TypeOK
<1>6. \A i \in 1..Len(Append(wire[p], Push)) :
          \/ Append(wire[p], Push)[i] = Push
          \/ \E j \in 1..Len(wire[p]) : Append(wire[p], Push)[i] = wire[p][j]
    BY <1>1, <1>2
<1>7. ASSUME NEW q \in Proxy PROVE InTransit(q)' \subseteq InTransit(q)
  <2>1. CASE q # p
    <3>1. wire'[q] = wire[q] /\ backlog'[q] = backlog[q] /\ conn' = conn
        BY <1>1, <1>4, <2>1
    <3> QED BY <3>1, Quiet
  <2>2. CASE q = p
    <3> SUFFICES ASSUME NEW x \in InTransit(q)' PROVE x \in InTransit(q)
        OBVIOUS
    <3>1. \/ \E i \in 1..Len(backlog'[q]) : x = backlog'[q][i]
          \/ \E i \in 1..Len(wire'[q]) : wire'[q][i].kind = "Answer" /\ x = wire'[q][i].req
          \/ conn'[q].loop = "handing" /\ x = conn'[q].held
        BY DEF InTransit
    <3>2. CASE \E i \in 1..Len(backlog'[q]) : x = backlog'[q][i]
      <4>1. \E i \in 1..Len(backlog[q]) : x = backlog[q][i]
          BY <1>1, <3>2
      <4> QED BY <4>1 DEF InTransit
    <3>3. CASE \E i \in 1..Len(wire'[q]) : wire'[q][i].kind = "Answer" /\ x = wire'[q][i].req
      <4>1. \E i \in 1..Len(wire[q]) : wire[q][i].kind = "Answer" /\ x = wire[q][i].req
          BY <1>2, <1>4, <1>6, <2>2, <3>3
      <4> QED BY <4>1 DEF InTransit
    <3>4. CASE conn'[q].loop = "handing" /\ x = conn'[q].held
      <4>1. conn[q].loop = "handing" /\ x = conn[q].held
          BY <1>1, <3>4
      <4> QED BY <4>1 DEF InTransit
    <3> QED BY <3>1, <3>2, <3>3, <3>4
  <2> QED BY <2>1, <2>2
<1>8. Workers' /\ Frames' /\ Listed' /\ Pending'
    BY <1>1, <1>7, OutsideKeeps
<1> QED BY <1>5, <1>8 DEF IInv

LEMMA ServerGoesInv == ASSUME IInv, NEW p \in Proxy, ServerGoes(p) PROVE IInv'
<1> DEFINE d == [conn[p] EXCEPT !.ws = "cut"]
<1>1. /\ d \in ConnRec /\ d.Seq = conn[p].Seq /\ d.syncCtxs = conn[p].syncCtxs
      /\ d.ws = "cut" /\ d.loop = conn[p].loop /\ d.held = conn[p].held
    BY Types DEF ConnRec
<1>2. /\ conn' = [conn EXCEPT ![p] = d] /\ conn[p].ws # "none"
      /\ wire' = wire \/ wire' = [wire EXCEPT ![p] = << >>]
      /\ backlog' = [backlog EXCEPT ![p] = << >>]
      /\ UNCHANGED <<worker, replied, proxys, client, jammed, made, pushes>>
      /\ stops' \in 0..MaxStops
    BY GateAssumption DEF ServerGoes, IInv, TypeOK
<1>3. << >> \in Seq(Frame) /\ << >> \in Seq(Request)
    OBVIOUS
<1> HIDE DEF d
<1>4. /\ conn' \in [Proxy -> ConnRec] /\ conn'[p] = d /\ \A q \in Proxy \ {p} : conn'[q] = conn[q]
      /\ wire' \in [Proxy -> Seq(Frame)]
      /\ \A q \in Proxy : wire'[q] = wire[q] \/ wire'[q] = << >>
      /\ backlog' \in [Proxy -> Seq(Request)]
      /\ \A q \in Proxy : backlog'[q] = backlog[q] \/ backlog'[q] = << >>
    BY <1>1, <1>2, <1>3 DEF IInv, TypeOK
<1>5. TypeOK'
    BY <1>2, <1>4 DEF IInv, TypeOK
<1>6. ASSUME NEW q \in Proxy PROVE InTransit(q)' \subseteq InTransit(q)
  <2>1. conn'[q].loop = conn[q].loop /\ conn'[q].held = conn[q].held
      BY <1>1, <1>4
  <2>2. CASE wire'[q] = wire[q]
      BY <1>4, <2>1, <2>2, Quiet
  <2>3. CASE wire'[q] = << >>
    <3> SUFFICES ASSUME NEW x \in InTransit(q)' PROVE x \in InTransit(q)
        OBVIOUS
    <3>1. \/ \E i \in 1..Len(backlog'[q]) : x = backlog'[q][i]
          \/ conn'[q].loop = "handing" /\ x = conn'[q].held
        BY <2>3 DEF InTransit
    <3>2. CASE \E i \in 1..Len(backlog'[q]) : x = backlog'[q][i]
      <4>1. backlog'[q] # << >>
          BY <3>2
      <4>2. \E i \in 1..Len(backlog[q]) : x = backlog[q][i]
          BY <1>4, <3>2, <4>1
      <4> QED BY <4>2 DEF InTransit
    <3>3. CASE conn'[q].loop = "handing" /\ x = conn'[q].held
        BY <2>1, <3>3 DEF InTransit
    <3> QED BY <3>1, <3>2, <3>3
  <2> QED BY <1>4, <2>2, <2>3
<1>7. Workers' /\ Frames' /\ Listed' /\ Pending'
    BY <1>1, <1>2, <1>4, <1>6, OutsideKeeps
<1> QED BY <1>5, <1>7 DEF IInv

LEMMA ClientLeavesInv == ASSUME IInv, NEW c \in Client, ClientLeaves(c) PROVE IInv'
<1> DEFINE d == [is |-> "leaving", arr |-> {proxys[s][c] : s \in Server} \ {NoProxy}]
<1>1. /\ client' = [client EXCEPT ![c] = d]
      /\ proxys' = [s \in Server |-> [proxys[s] EXCEPT ![c] = NoProxy]]
      /\ UNCHANGED <<worker, replied, conn, wire, backlog, jammed, counters>>
    BY DEF ClientLeaves
<1>2. d \in ClientRec
    BY Types DEF ClientRec
<1> HIDE DEF d
<1>3. client' \in [Client -> ClientRec]
    BY <1>1, <1>2 DEF IInv, TypeOK
<1>4. /\ proxys' \in [Server -> [Client -> Proxy \cup {NoProxy}]]
      /\ \A s \in Server, e \in Client : proxys'[s][e] \in {proxys[s][e], NoProxy}
    BY <1>1 DEF IInv, TypeOK
<1>5. TypeOK'
    BY <1>1, <1>3, <1>4 DEF IInv, TypeOK, counters
<1>6. ASSUME NEW p \in Proxy PROVE InTransit(p)' \subseteq InTransit(p)
    BY <1>1, Quiet
<1>7. Workers' /\ Frames' /\ Listed' /\ Pending'
    BY <1>1, <1>4, <1>6, OutsideKeeps
<1> QED BY <1>5, <1>7 DEF IInv

LEMMA CloseProxyInv ==
    ASSUME IInv, NEW c \in Client, NEW p \in Proxy, CloseProxy(c, p)
    PROVE  IInv'
<1> DEFINE d == [conn[p] EXCEPT !.ws = "closed", !.isClosed = TRUE]
           k == [client[c] EXCEPT !.arr = client[c].arr \ {p}]
<1>1. /\ d \in ConnRec /\ d.Seq = conn[p].Seq /\ d.syncCtxs = conn[p].syncCtxs
      /\ d.ws = "closed" /\ d.loop = conn[p].loop /\ d.held = conn[p].held
    BY Types DEF ConnRec
<1>2. client[c] \in ClientRec
    BY DEF IInv, TypeOK
<1>3. k \in ClientRec
    BY <1>2 DEF ClientRec
<1>4. /\ client' = [client EXCEPT ![c] = k]
      /\ UNCHANGED <<worker, replied, wire, jammed, counters>>
    BY DEF CloseProxy
<1>5. \/ UNCHANGED <<conn, backlog, proxys>>
      \/ /\ conn[p].ws # "none" /\ conn' = [conn EXCEPT ![p] = d]
         /\ backlog' = [backlog EXCEPT ![p] = << >>]
         /\ UNCHANGED proxys \/ ProxyCloses(p)
  <2>1. CASE conn[p].ws = "none"
      BY <2>1 DEF CloseProxy
  <2>2. CASE conn[p].ws # "none" /\ conn[p].isClosed
      BY <2>2 DEF CloseProxy
  <2>3. CASE conn[p].ws # "none" /\ ~conn[p].isClosed
    <3> HIDE DEF d
    <3>1. conn' = [conn EXCEPT ![p] = d]
        BY <2>3 DEF CloseProxy, d
    <3>2. backlog' = [backlog EXCEPT ![p] = << >>] /\ ProxyCloses(p)
        BY <2>3 DEF CloseProxy
    <3> QED BY <2>3, <3>1, <3>2
  <2> QED BY <2>1, <2>2, <2>3
<1> HIDE DEF d, k
<1>6. client' \in [Client -> ClientRec]
    BY <1>3, <1>4 DEF IInv, TypeOK
<1>7. << >> \in Seq(Request)
    OBVIOUS
<1>8. /\ conn' \in [Proxy -> ConnRec]
      /\ \A q \in Proxy : \/ conn'[q] = conn[q]
                          \/ q = p /\ conn'[q] = d /\ conn[p].ws # "none"
      /\ backlog' \in [Proxy -> Seq(Request)]
      /\ \A q \in Proxy : backlog'[q] = backlog[q] \/ backlog'[q] = << >>
    BY <1>1, <1>5, <1>7 DEF IInv, TypeOK
<1>9. /\ proxys' \in [Server -> [Client -> Proxy \cup {NoProxy}]]
      /\ \A s \in Server, e \in Client : proxys'[s][e] \in {proxys[s][e], NoProxy}
  <2>1. CASE UNCHANGED proxys
      BY <2>1 DEF IInv, TypeOK
  <2>2. CASE ProxyCloses(p)
      BY <2>2, ProxyClosesOut
  <2> QED BY <1>5, <2>1, <2>2
<1>10. TypeOK'
    BY <1>4, <1>6, <1>8, <1>9 DEF IInv, TypeOK, counters
<1>11. ASSUME NEW q \in Proxy
       PROVE  /\ conn'[q].Seq = conn[q].Seq /\ conn'[q].syncCtxs = conn[q].syncCtxs
              /\ conn'[q].ws = "none" <=> conn[q].ws = "none"
              /\ conn'[q].loop = conn[q].loop /\ conn'[q].held = conn[q].held
    BY <1>1, <1>8
<1>12. ASSUME NEW q \in Proxy PROVE InTransit(q)' \subseteq InTransit(q)
    BY <1>4, <1>8, <1>11, Quiet
<1>13. Workers' /\ Frames' /\ Listed' /\ Pending'
    BY <1>4, <1>9, <1>11, <1>12, OutsideKeeps
<1> QED BY <1>10, <1>13 DEF IInv

\* Steps that leave workers, map and connections alone.
LEMMA StutterInv ==
    ASSUME IInv, UNCHANGED <<worker, replied, proxys, conn, wire, backlog>>, TypeOK'
    PROVE  IInv'
<1>1. \A p \in Proxy : InTransit(p)' \subseteq InTransit(p)
    BY Quiet
<1> QED BY <1>1, OutsideKeeps DEF IInv

(***************************************************************************)
(* The invariant.                                                          *)
(***************************************************************************)
LEMMA InitInv == Init => IInv
<1> SUFFICES ASSUME Init PROVE IInv
    OBVIOUS
<1>1. PICK k \in Client :
          conn = [p \in Proxy |-> [client |-> k, server |-> ChatServer, ws |-> "none",
                     loop |-> "reading", held |-> NoRequest, handshake |-> FALSE,
                     hooked |-> FALSE, isClosed |-> FALSE, Seq |-> 0, syncCtxs |-> {}]]
    BY DEF Init
<1>2. conn \in [Proxy -> ConnRec] /\ \A p \in Proxy : conn[p].loop = "reading" /\ conn[p].syncCtxs = {}
    BY <1>1, GateAssumption DEF ConnRec
<1>3. worker \in [Client -> WorkerRec] /\ replied \in [Client -> ReplyRec]
    BY RestingType DEF Init
<1>4. TypeOK
  <2>0. << >> \in Seq(Frame) /\ << >> \in Seq(Request)
      OBVIOUS
  <2>1. wire \in [Proxy -> Seq(Frame)] /\ backlog \in [Proxy -> Seq(Request)]
      BY <2>0 DEF Init
  <2>2. proxys \in [Server -> [Client -> Proxy \cup {NoProxy}]]
      BY DEF Init
  <2>3. client \in [Client -> ClientRec] /\ jammed \in BOOLEAN
      BY DEF Init, ClientRec
  <2>4. made \in 0..MaxRequests /\ pushes \in 0..MaxPushes /\ stops \in 0..MaxStops
    <3>1. made = 0 /\ pushes = 0 /\ stops = 0
        BY DEF Init
    <3> QED BY <3>1, GateAssumption
  <2> QED BY <1>2, <1>3, <2>1, <2>2, <2>3, <2>4 DEF TypeOK
<1>5. Workers
    BY RestingType DEF Init, Workers, WorkerOK, Connected, Sent
<1>6. Frames
    BY <1>2 DEF Init, Frames, InTransit
<1>7. Listed
    BY DEF Init, Listed, NoProxy
<1>8. Pending
    BY <1>2 DEF Pending
<1> QED BY <1>4, <1>5, <1>6, <1>7, <1>8 DEF IInv

LEMMA NextInv == IInv /\ [Next]_vars => IInv'
<1> SUFFICES ASSUME IInv, [Next]_vars PROVE IInv'
    OBVIOUS
<1>1. CASE UNCHANGED vars
  <2>1. TypeOK'
      BY <1>1 DEF IInv, TypeOK, vars, counters
  <2> QED BY <1>1, <2>1, StutterInv DEF vars
<1>2. ASSUME NEW c \in Client, Work(c) PROVE IInv'
    BY <1>2, LookupInv, LookupPanicsInv, InsertInv, ConnectInv, WaitHandshakeInv,
       ConnectFailsInv, SetHooksInv, DiscardInv, SendWritesInv, SendFailsInv, SendClosesInv,
       SendTimeoutInv, SendReturnsInv DEF Work
<1>3. ASSUME NEW p \in Proxy, ReadLoop(p) PROVE IInv'
    BY <1>3, ShakeInv, ReadInv, HandOverInv, ReadFailsInv, LoopClosesInv DEF ReadLoop
<1>4. ASSUME NEW c \in Client,
             ClientLeaves(c) \/ CidRemoved(c) \/ \E p \in Proxy : CloseProxy(c, p)
      PROVE  IInv'
  <2>1. CASE ClientLeaves(c)
      BY <2>1, ClientLeavesInv
  <2>2. CASE CidRemoved(c)
    <3>1. [client[c] EXCEPT !.is = "gone"] \in ClientRec
        BY DEF IInv, TypeOK, ClientRec
    <3>2. client' \in [Client -> ClientRec]
        BY <2>2, <3>1 DEF CidRemoved, IInv, TypeOK
    <3>3. TypeOK'
        BY <2>2, <3>2 DEF CidRemoved, IInv, TypeOK, counters
    <3> QED BY <2>2, <3>3, StutterInv DEF CidRemoved
  <2>3. CASE \E p \in Proxy : CloseProxy(c, p)
      BY <2>3, CloseProxyInv
  <2> QED BY <1>4, <2>1, <2>2, <2>3
<1>5. ASSUME NEW c \in Client, NEW s \in Server, NEW enter \in BOOLEAN, Ask(c, s, enter)
      PROVE  IInv'
    BY <1>5, AskInv
<1>6. ASSUME NEW p \in Proxy, ServerAnswers(p) \/ ServerPushes(p) \/ ServerGoes(p) PROVE IInv'
    BY <1>6, ServerAnswersInv, ServerPushesInv, ServerGoesInv
<1> QED BY <1>1, <1>2, <1>3, <1>4, <1>5, <1>6 DEF Next, Outside

\* What workers know, what is in transit, what is listed and what is registered
\* is inductive together, whatever servers and clients do.
THEOREM Invariance == Spec => []IInv
<1> QED BY InitInv, NextInv, PTL DEF Spec

\* The state of the gate keeps its types; no request goes out under number 0,
\* which would make its answer a push.
THEOREM TypeCorrect == Spec => []TypeOK
<1>1. IInv => TypeOK
    BY DEF IInv
<1> QED BY <1>1, Invariance, PTL

\* The proxy that deal sends with is connected.
THEOREM ProxiesAreConnected == Spec => []SendsConnected
<1>1. IInv => SendsConnected
    BY DEF IInv, Workers, WorkerOK, SendsConnected, At, Mine, Connected
<1> QED BY <1>1, Invariance, PTL

\* No request stays registered after Send returned.
THEOREM NothingStaysPending == Spec => []NothingPending
<1>1. IInv => NothingPending
    BY DEF IInv, Pending, NothingPending
<1> QED BY <1>1, Invariance, PTL

(***************************************************************************)
(* Gate implements Forwarding.                                             *)
(***************************************************************************)
\* The request a client waits for stays the same while its worker is busy.
LEMMA AskedStays ==
    ASSUME IInv, NEW c \in Client, NEW w, worker' = [worker EXCEPT ![c] = w],
           w.at # "idle", worker[c].at # "idle", w.id = worker[c].id
    PROVE  Asked' = Asked
<1>1. worker'[c] = w /\ \A e \in Client \ {c} : worker'[e] = worker[e]
    BY DEF IInv, TypeOK
<1> QED BY <1>1 DEF Asked, At

\* Steps to another place of deal or Send are not visible.
LEMMA PlaceHidden ==
    ASSUME IInv, NEW c \in Client, NEW place, Goes(c, place), place # "idle", worker[c].at # "idle"
    PROVE  Asked' = Asked
<1>1. /\ [worker[c] EXCEPT !.at = place].at = place
      /\ [worker[c] EXCEPT !.at = place].id = worker[c].id
    BY Types DEF WorkerRec
<1> QED BY <1>1, AskedStays DEF Goes

\* deal ends with a reply to the request of the client, or goes on unseen.
LEMMA DealEndsReplies ==
    ASSUME IInv, NEW c \in Client, NEW reply, reply \in Abstract!Replies(worker[c].id),
           worker[c].at # "idle", DealEnds(c, reply), made' = made
    PROVE  Abstract!Reply(c) \/ UNCHANGED <<made, Asked, replied>>
<1>1. /\ worker[c].id # None /\ worker[c].first \in Abstract!Replies(worker[c].id)
      /\ Asked[c] = worker[c].id
    BY DEF IInv, Workers, WorkerOK, Asked, At
<1>2. CASE /\ worker' = [worker EXCEPT ![c] = Resting]
           /\ replied' = [replied EXCEPT ![c] = IF worker[c].login THEN worker[c].first ELSE reply]
  <2>1. worker'[c] = Resting /\ \A e \in Client \ {c} : worker'[e] = worker[e]
      BY <1>2 DEF IInv, TypeOK
  <2>2. Asked' = [Asked EXCEPT ![c] = None]
      BY <2>1, RestingType DEF Asked, At
  <2>3. \E r \in Abstract!Replies(Asked[c]) : replied' = [replied EXCEPT ![c] = r]
      BY <1>1, <1>2
  <2> QED BY <1>1, <2>2, <2>3 DEF Abstract!Reply, None, Abstract!None
<1>3. CASE /\ worker' = [worker EXCEPT ![c] = [Resting EXCEPT
                  !.at = "lookup", !.id = worker[c].id, !.login = TRUE, !.first = reply]]
           /\ replied' = replied
  <2> DEFINE w == [Resting EXCEPT !.at = "lookup", !.id = worker[c].id, !.login = TRUE,
                                  !.first = reply]
  <2>1. w.at # "idle" /\ w.id = worker[c].id
      BY DEF Resting
  <2>2. worker' = [worker EXCEPT ![c] = w]
      BY <1>3
  <2> HIDE DEF w
  <2>3. Asked' = Asked
      BY <2>1, <2>2, AskedStays
  <2> QED BY <1>3, <2>3
<1> QED BY <1>2, <1>3 DEF DealEnds

LEMMA WorkMaps ==
    ASSUME IInv, NEW c \in Client, Work(c)
    PROVE  Abstract!Reply(c) \/ UNCHANGED <<made, Asked, replied>>
<1>1. CASE Lookup(c)
  <2> DEFINE p == proxys[worker[c].server][c]
             w == IF p = NoProxy THEN [worker[c] EXCEPT !.at = "insert"]
                  ELSE [worker[c] EXCEPT !.at = "send", !.proxy = p]
  <2>1. w.at # "idle" /\ w.id = worker[c].id
      BY Types DEF WorkerRec
  <2>2. worker' = [worker EXCEPT ![c] = w] /\ worker[c].at = "lookup"
      BY <1>1 DEF Lookup, At
  <2> HIDE DEF w
  <2>3. Asked' = Asked
      BY <2>1, <2>2, AskedStays
  <2> QED BY <1>1, <2>3 DEF Lookup, counters
<1>2. CASE LookupPanics(c)
  <2>1. /\ worker[c].at = "lookup" /\ worker'[c] = Resting
        /\ \A e \in Client \ {c} : worker'[e] = worker[e]
      BY <1>2 DEF LookupPanics, At, IInv, TypeOK
  <2>2. Asked[c] # None /\ Asked' = [Asked EXCEPT ![c] = None]
      BY <2>1, RestingType DEF Asked, At, IInv, Workers, WorkerOK
  <2>3. NoReply \in Abstract!Replies(Asked[c])
      BY DEF NoReply, Abstract!Replies, None, Abstract!None
  <2> QED BY <1>2, <2>2, <2>3 DEF LookupPanics, counters, Abstract!Reply, None, Abstract!None
<1>3. CASE Insert(c)
  <2> DEFINE w == [worker[c] EXCEPT !.at = "connect", !.proxy = Fresh(c)]
  <2>1. w.at # "idle" /\ w.id = worker[c].id
      BY Types DEF WorkerRec
  <2>2. worker' = [worker EXCEPT ![c] = w] /\ worker[c].at = "insert"
      BY <1>3 DEF Insert, At
  <2> HIDE DEF w
  <2>3. Asked' = Asked
      BY <2>1, <2>2, AskedStays
  <2> QED BY <1>3, <2>3 DEF Insert, counters
<1>4. CASE Connect(c)
    BY <1>4, PlaceHidden DEF Connect, At, counters
<1>5. CASE WaitHandshake(c)
    BY <1>5, PlaceHidden DEF WaitHandshake, At, counters
<1>6. CASE ConnectFails(c)
    BY <1>6, PlaceHidden DEF ConnectFails, At, counters
<1>7. CASE SetHooks(c)
    BY <1>7, PlaceHidden DEF SetHooks, At, counters
<1>8. CASE Discard(c)
  <2>1. Failed \in Abstract!Replies(worker[c].id)
      BY DEF Failed, Abstract!Replies, None, Abstract!None
  <2> QED BY <1>8, <2>1, DealEndsReplies DEF Discard, At, counters
<1>9. CASE SendWrites(c)
  <2> DEFINE w == [worker[c] EXCEPT !.at = "wait", !.seq = conn[Mine(c)].Seq + 1]
  <2>1. w.at # "idle" /\ w.id = worker[c].id
      BY Types DEF WorkerRec
  <2>2. worker' = [worker EXCEPT ![c] = w] /\ worker[c].at = "send"
      BY <1>9 DEF SendWrites, At, Waits
  <2> HIDE DEF w
  <2>3. Asked' = Asked
      BY <2>1, <2>2, AskedStays
  <2> QED BY <1>9, <2>3 DEF SendWrites, counters
<1>10. CASE SendFails(c)
  <2> DEFINE place == IF conn[Mine(c)].isClosed THEN "forget" ELSE "closing"
             w == [worker[c] EXCEPT !.at = place, !.seq = conn[Mine(c)].Seq + 1, !.reply = Empty]
  <2>1. w.at # "idle" /\ w.id = worker[c].id
      BY Types DEF WorkerRec
  <2>2. worker' = [worker EXCEPT ![c] = w] /\ worker[c].at = "send"
      BY <1>10, Types DEF SendFails, At, Waits, WorkerRec, IInv, TypeOK
  <2> HIDE DEF w
  <2>3. Asked' = Asked
      BY <2>1, <2>2, AskedStays
  <2> QED BY <1>10, <2>3 DEF SendFails, counters
<1>11. CASE SendCloses(c)
    BY <1>11, PlaceHidden DEF SendCloses, At, counters
<1>12. CASE SendTimeout(c)
  <2> DEFINE w == [worker[c] EXCEPT !.at = "forget", !.reply = Failed]
  <2>1. w.at # "idle" /\ w.id = worker[c].id
      BY Types DEF WorkerRec
  <2>2. worker' = [worker EXCEPT ![c] = w] /\ worker[c].at = "wait"
      BY <1>12 DEF SendTimeout, At
  <2> HIDE DEF w
  <2>3. Asked' = Asked
      BY <2>1, <2>2, AskedStays
  <2> QED BY <1>12, <2>3 DEF SendTimeout, counters
<1>13. CASE SendReturns(c)
  <2>1. worker[c].reply \in Abstract!Replies(worker[c].id)
      BY DEF IInv, Workers, WorkerOK
  <2> QED BY <1>13, <2>1, DealEndsReplies DEF SendReturns, At, counters
<1> QED BY <1>1, <1>2, <1>3, <1>4, <1>5, <1>6, <1>7, <1>8, <1>9, <1>10, <1>11, <1>12, <1>13
        DEF Work

LEMMA ReadLoopMaps ==
    ASSUME IInv, NEW p \in Proxy, ReadLoop(p)
    PROVE  UNCHANGED <<made, Asked, replied>>
<1>1. CASE ReadHandshake(p) \/ ReadPush(p) \/ ReadAnswer(p)
    BY <1>1 DEF ReadHandshake, ReadPush, ReadAnswer, Reads, counters, Asked, At
<1>2. CASE Shake(p)
  <2>1. conn[p].client \in Client
      BY Types
  <2> QED BY <1>2, <2>1, PlaceHidden DEF Shake, At, counters
<1>3. CASE HandOver(p)
  <2> DEFINE c == conn[p].client
             w == [worker[c] EXCEPT !.at = "forget", !.reply = Answer(conn[p].held.id)]
  <2>1. c \in Client /\ w.at # "idle" /\ w.id = worker[c].id
      BY Types DEF WorkerRec
  <2>2. worker' = [worker EXCEPT ![c] = w] /\ worker[c].at = "wait"
      BY <1>3 DEF HandOver, At
  <2> HIDE DEF c, w
  <2>3. Asked' = Asked
      BY <2>1, <2>2, AskedStays
  <2> QED BY <1>3, <2>3 DEF HandOver, counters
<1>4. CASE ReadFails(p) \/ LoopCloses(p)
    BY <1>4 DEF ReadFails, LoopCloses, counters, Asked, At
<1> QED BY <1>1, <1>2, <1>3, <1>4 DEF ReadLoop

LEMMA OutsideMaps ==
    ASSUME IInv, Outside
    PROVE  (\E c \in Client : Abstract!Ask(c)) \/ UNCHANGED <<made, Asked, replied>>
<1>1. ASSUME NEW c \in Client, NEW s \in Server, NEW enter \in BOOLEAN, Ask(c, s, enter)
      PROVE  Abstract!Ask(c)
  <2>1. /\ worker[c].at = "idle" /\ worker'[c].at = "lookup" /\ worker'[c].id = made + 1
        /\ \A e \in Client \ {c} : worker'[e] = worker[e]
      BY <1>1 DEF Ask, At, IInv, TypeOK, Resting
  <2>2. Asked[c] = None /\ Asked' = [Asked EXCEPT ![c] = made + 1]
      BY <2>1 DEF Asked, At
  <2> QED BY <1>1, <2>2 DEF Ask, Abstract!Ask, None, Abstract!None
<1>2. ASSUME NEW c \in Client,
             ClientLeaves(c) \/ CidRemoved(c) \/ \E p \in Proxy : CloseProxy(c, p)
      PROVE  UNCHANGED <<made, Asked, replied>>
    BY <1>2 DEF ClientLeaves, CidRemoved, CloseProxy, counters, Asked, At
<1>3. ASSUME NEW p \in Proxy, ServerAnswers(p) \/ ServerPushes(p) \/ ServerGoes(p)
      PROVE  UNCHANGED <<made, Asked, replied>>
    BY <1>3 DEF ServerAnswers, ServerPushes, ServerGoes, counters, Asked, At
<1> QED BY <1>1, <1>2, <1>3 DEF Outside

\* No client ever gets the answer to another request than the one it asked,
\* although requests share a connection, answers come after time-outs and
\* connections are replaced: the safety part of Forwards.
THEOREM Implements == Spec => Abstract!Safe
<1>1. Init => Abstract!Init
    BY RestingType DEF Init, Abstract!Init, Asked, At, NoReply, None, Abstract!None
<1>2. IInv /\ [Next]_vars => [Abstract!Next]_<<made, Asked, replied>>
  <2> SUFFICES ASSUME IInv, [Next]_vars
               PROVE  Abstract!Next \/ UNCHANGED <<made, Asked, replied>>
      OBVIOUS
  <2>1. CASE UNCHANGED vars
      BY <2>1 DEF vars, counters, Asked, At
  <2>2. CASE Outside
      BY <2>2, OutsideMaps DEF Abstract!Next
  <2>3. ASSUME NEW c \in Client, Work(c)
        PROVE  Abstract!Next \/ UNCHANGED <<made, Asked, replied>>
      BY <2>3, WorkMaps DEF Abstract!Next
  <2>4. ASSUME NEW p \in Proxy, ReadLoop(p)
        PROVE  UNCHANGED <<made, Asked, replied>>
      BY <2>4, ReadLoopMaps
  <2> QED BY <2>1, <2>2, <2>3, <2>4 DEF Next
<1> QED BY <1>1, <1>2, Invariance, PTL DEF Spec, Abstract!Safe

=============================================================================
