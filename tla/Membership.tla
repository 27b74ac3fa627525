----------------------------- MODULE Membership -----------------------------
(***************************************************************************)
(* What unions promise their members and their captives, of               *)
(* controller/coalition.go and logic/union/union_logic.go.  A role is in   *)
(* one union or in none: it founds one or enters one only while it is in   *)
(* none, and it is in none after it has left, or after its union has been  *)
(* dissolved.  A role is a captive of one union at most, never of its own, *)
(* and is so no longer once it enters that union or that union is          *)
(* dissolved.  Applications, checks, lists, rows, the writer of the        *)
(* database and restarts are not visible here.  Union implements this      *)
(* while no two handlers overlap.                                          *)
(***************************************************************************)
EXTENDS Integers, FiniteSets

CONSTANTS Role, Unions, NoUnion, Limit

VARIABLES
    running,   \* the unions there are
    dissolved, \* the unions there were
    belongs,   \* [Role -> the union it is in, or NoUnion]
    captor     \* [Role -> the union it is a captive of, or NoUnion]

membership == <<running, dissolved, belongs, captor>>
MembersOf(u) == {r \in Role : belongs[r] = u}

Init ==
    /\ running = {} /\ dissolved = {}
    /\ belongs = [r \in Role |-> NoUnion] /\ captor = [r \in Role |-> NoUnion]

\* No union comes back.
Found(r, u) ==
    /\ belongs[r] = NoUnion /\ u \notin running \cup dissolved
    /\ running' = running \cup {u}
    /\ belongs' = [belongs EXCEPT ![r] = u]
    /\ UNCHANGED <<dissolved, captor>>

Enter(r, u) ==
    /\ belongs[r] = NoUnion /\ u \in running
    /\ Cardinality(MembersOf(u)) < Limit
    /\ belongs' = [belongs EXCEPT ![r] = u]
    /\ captor' = [captor EXCEPT ![r] = IF @ = u THEN NoUnion ELSE @]
    /\ UNCHANGED <<running, dissolved>>

\* On one's own or not.
Leave(r) ==
    /\ belongs[r] # NoUnion
    /\ belongs' = [belongs EXCEPT ![r] = NoUnion]
    /\ UNCHANGED <<running, dissolved, captor>>

\* Everybody in u is without union, and every captive of u is free.  So may be
\* captives of another union that u had captured before.
Dissolve(u) ==
    /\ u \in running
    /\ running' = running \ {u} /\ dissolved' = dissolved \cup {u}
    /\ belongs' = [r \in Role |-> IF belongs[r] = u THEN NoUnion ELSE belongs[r]]
    /\ \E others \in SUBSET Role :
           captor' = [r \in Role |-> IF captor[r] = u \/ r \in others THEN NoUnion
                                     ELSE captor[r]]

Capture(r, u) ==
    /\ u \in running /\ belongs[r] # u
    /\ captor' = [captor EXCEPT ![r] = u]
    /\ UNCHANGED <<running, dissolved, belongs>>

Next ==
    \/ \E r \in Role : Leave(r)
    \/ \E u \in Unions : Dissolve(u) \/ \E r \in Role : Found(r, u) \/ Enter(r, u) \/ Capture(r, u)

Spec == Init /\ [][Next]_membership

=============================================================================
