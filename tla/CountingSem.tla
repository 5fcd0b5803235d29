---------------------------- MODULE CountingSem -----------------------------
(***************************************************************************)
(* What the comments of rt-thread/src/ipc.c promise of a semaphore: a      *)
(* counter that a take decreases until it is zero and then waits, a        *)
(* release that serves one waiter or else increases the counter, waits     *)
(* that may expire, and a reset that ends them all.  Which waiter is       *)
(* served is left open.                                                    *)
(***************************************************************************)
EXTENDS Integers

CONSTANTS
    Threads,
    SemMax      \* RT_SEM_VALUE_MAX

VARIABLES
    avail,      \* the counter
    outcome     \* of each thread's last take; "waiting" until there is one

vars == <<avail, outcome>>

Waiting(t) == outcome[t] = "waiting"

Ends(t, o) == outcome' = [outcome EXCEPT ![t] = o]

Init == avail \in 0..SemMax /\ outcome = [t \in Threads |-> "none"]

Take(t) == ~Waiting(t) /\ avail > 0 /\ avail' = avail - 1 /\ Ends(t, "EOK")

Refuse(t) == ~Waiting(t) /\ avail = 0 /\ Ends(t, "ETIMEOUT") /\ UNCHANGED avail

Wait(t) == ~Waiting(t) /\ avail = 0 /\ Ends(t, "waiting") /\ UNCHANGED avail

(* A release while threads wait, and one while none does.                  *)
Serve(t) == Waiting(t) /\ Ends(t, "EOK") /\ UNCHANGED avail

Increase ==
    /\ \A t \in Threads : ~Waiting(t)
    /\ avail < SemMax /\ avail' = avail + 1
    /\ UNCHANGED outcome

Expire(t) == Waiting(t) /\ Ends(t, "ETIMEOUT") /\ UNCHANGED avail

Cancel(t) == Waiting(t) /\ Ends(t, "ERROR") /\ UNCHANGED avail

(* A new value, given by a reset or by a new initialisation.               *)
Reset ==
    /\ avail' \in 0..SemMax
    /\ outcome' = [t \in Threads |-> IF Waiting(t) THEN "ERROR" ELSE outcome[t]]

Next ==
    \/ \E t \in Threads : Take(t) \/ Refuse(t) \/ Wait(t) \/ Serve(t)
                            \/ Expire(t) \/ Cancel(t)
    \/ Increase \/ Reset

Spec == Init /\ [][Next]_vars
=============================================================================
