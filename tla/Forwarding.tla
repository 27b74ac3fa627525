----------------------------- MODULE Forwarding -----------------------------
(***************************************************************************)
(* What the gate promises a client ("forwarding of requests", deal in      *)
(* gateserver/controller/handle.go): a request ends, with the server's     *)
(* answer to that very request or without one, and never with the answer   *)
(* to another request.  Connections, time-outs and lost servers are not    *)
(* visible here.  Gate implements this.                                    *)
(***************************************************************************)
EXTENDS Integers

CONSTANT Client

VARIABLES
    made,    \* requests made so far; the last one has this number
    asked,   \* [Client -> the request that is being dealt with, 0 if none]
    replied  \* [Client -> how its last request ended]

None == 0
\* "Answer": from the server, to request number of.  "Failed": the code says
\* ProxyConnectError.  "Empty": the code is OK, but no server has answered.
\* "Lost": the client is gone.
Replies(n) == [got : {"Answer"}, of : {n}] \cup [got : {"Failed", "Empty", "Lost"}, of : {None}]

Init ==
    /\ made = 0
    /\ asked = [c \in Client |-> None]
    /\ replied = [c \in Client |-> [got |-> "Lost", of |-> None]]

Ask(c) ==
    /\ asked[c] = None
    /\ made' = made + 1
    /\ asked' = [asked EXCEPT ![c] = made']
    /\ UNCHANGED replied

Reply(c) ==
    /\ asked[c] # None
    /\ \E r \in Replies(asked[c]) : replied' = [replied EXCEPT ![c] = r]
    /\ asked' = [asked EXCEPT ![c] = None]
    /\ UNCHANGED made

Next == \E c \in Client : Ask(c) \/ Reply(c)

Safe == Init /\ [][Next]_<<made, asked, replied>>
Spec == Safe /\ \A c \in Client : WF_<<made, asked, replied>>(Reply(c))

=============================================================================
