----------------------------- MODULE JobContract -----------------------------
(***************************************************************************)
(* What the job board promises about one job after another, without the    *)
(* request threads, the tiers and the bookkeeping: a posted job is taken   *)
(* by at most one user, for good, is closed at most once, and counts as    *)
(* one success of its holder when it closes well.                          *)
(***************************************************************************)
EXTENDS Integers

CONSTANTS Users, Jobs, NoUser

VARIABLES
    phase,     \* how far each job has come
    holder,    \* who took it
    successes  \* jobs each user has closed well

vars == <<phase, holder, successes>>

Init ==
    /\ phase = [j \in Jobs |-> "absent"]
    /\ holder = [j \in Jobs |-> NoUser]
    /\ successes = [u \in Users |-> 0]

Post(j) ==
    /\ phase[j] = "absent"
    /\ phase' = [phase EXCEPT ![j] = "open"]
    /\ UNCHANGED <<holder, successes>>

Take(j, u) ==
    /\ phase[j] = "open"
    /\ phase' = [phase EXCEPT ![j] = "held"]
    /\ holder' = [holder EXCEPT ![j] = u]
    /\ UNCHANGED successes

Close(j) ==
    /\ phase[j] = "held"
    /\ phase' = [phase EXCEPT ![j] = "closed"]
    /\ \/ successes' = [successes EXCEPT ![holder[j]] = @ + 1]
       \/ UNCHANGED successes
    /\ UNCHANGED holder

Next == \E j \in Jobs : Post(j) \/ (\E u \in Users : Take(j, u)) \/ Close(j)

Spec == Init /\ [][Next]_vars
=============================================================================
