----------------------------- MODULE KernelSem ------------------------------
(***************************************************************************)
(* The semaphore of rt-thread/src/ipc.c on the threads of thread.c: the    *)
(* suspend list, the thread timer that ends a wait, thread->error, which   *)
(* tells a woken thread why it woke, and the steps between which another   *)
(* thread or an interrupt may come.  Every section with interrupts off is  *)
(* one action; a thread that rt_sem_take suspended reads its error in a    *)
(* step of its own, when it is scheduled again.                            *)
(***************************************************************************)
EXTENDS Integers, SequencesExt

CONSTANTS
    Threads,
    Prios,       \* thread priorities; the smaller number is the more urgent
    SemMax       \* RT_SEM_VALUE_MAX

ASSUME SemAssumption ==
    SemMax \in Nat \ {0} /\ Prios \subseteq Int

VARIABLES
    phase,    \* of the semaphore: "live", "detach" and "pop" (the loop that wakes
              \* everybody), "unlink", "gone"; "halt" when an assertion failed
    flag,     \* RT_IPC_FLAG_FIFO or RT_IPC_FLAG_PRIO
    value,    \* sem->value
    list,     \* sem->parent.suspend_thread
    pc,       \* what a thread is inside of: nothing ("run"), a take, a sleep
    stat,     \* thread->stat: "ready" (or running) or "suspend"
    error,    \* thread->error
    timer,    \* threads whose thread_timer is active
    prio,     \* thread->current_priority
    result,   \* what the last rt_sem_take of each thread returned
    handed    \* history: threads woken by a release, before they return

object == <<phase, flag, value>>
vars   == <<object, list, pc, stat, error, timer, prio, result, handed>>

Init ==
    /\ phase = "live" /\ flag \in {"FIFO", "PRIO"} /\ value \in 0..SemMax
    /\ list = << >>
    /\ pc = [t \in Threads |-> "run"]
    /\ stat = [t \in Threads |-> "ready"]
    /\ error = [t \in Threads |-> "EOK"]
    /\ timer = {} /\ handed = {}
    /\ prio \in [Threads -> Prios]
    /\ result = [t \in Threads |-> "none"]

Running(t) == pc[t] = "run"

(* Assumed of the callers: nobody takes a semaphore once its detach has    *)
(* found the list empty.                                                   *)
Usable == phase \in {"live", "detach", "pop"}

-----------------------------------------------------------------------------
(* thread.c                                                                *)

SuspendStopsTimer(t, timed) ==
    /\ stat' = [stat EXCEPT ![t] = "suspend"]
    /\ timer' = timer \ {t}

(* rt_thread_suspend also stops the thread timer; then it may be started.  *)
Suspend(t, timed) ==
    /\ stat' = [stat EXCEPT ![t] = "suspend"]
    /\ timer' = IF timed THEN timer \cup {t} ELSE timer \ {t}

(* rt_thread_resume, once the thread is off its list.                      *)
Resume(t) ==
    /\ stat' = [stat EXCEPT ![t] = "ready"]
    /\ timer' = timer \ {t}

(* rt_thread_sleep: suspended on no list.                                  *)
Sleep(t) ==
    /\ Running(t)
    /\ pc' = [pc EXCEPT ![t] = "sleep"]
    /\ Suspend(t, TRUE)
    /\ UNCHANGED <<object, list, error, prio, result, handed>>

SleepReturns(t) ==
    /\ pc[t] = "sleep" /\ stat[t] = "ready"
    /\ pc' = [pc EXCEPT ![t] = "run"]
    /\ error' = [error EXCEPT ![t] = IF @ = "ETIMEOUT" THEN "EOK" ELSE @]
    /\ UNCHANGED <<object, list, stat, timer, prio, result, handed>>

TimeoutStaysQueued(t) ==
    /\ t \in timer
    /\ error' = [error EXCEPT ![t] = "ETIMEOUT"]
    /\ UNCHANGED list
    /\ Resume(t)
    /\ UNCHANGED <<object, pc, prio, result, handed>>

(* rt_thread_timeout, called by rt_timer_check: off the list, if on one.   *)
Timeout(t) ==
    /\ t \in timer /\ phase # "halt"
    /\ error' = [error EXCEPT ![t] = "ETIMEOUT"]
    /\ \/ \E i \in DOMAIN list : list[i] = t /\ list' = RemoveAt(list, i)
       \/ t \notin ToSet(list) /\ UNCHANGED list
    /\ Resume(t)
    /\ UNCHANGED <<object, pc, prio, result, handed>>

(* rt_thread_control(CHANGE_PRIORITY), as the mutex calls it: a suspended  *)
(* thread keeps its place in the list it waits on.                         *)
ChangePriority(t) ==
    /\ \E p \in Prios : prio' = [prio EXCEPT ![t] = p]
    /\ UNCHANGED <<object, list, pc, stat, error, timer, result, handed>>

-----------------------------------------------------------------------------
(* rt_sem_take                                                             *)

TakeNow(t) ==
    /\ Running(t) /\ Usable /\ value > 0
    /\ value' = value - 1
    /\ result' = [result EXCEPT ![t] = "EOK"]
    /\ UNCHANGED <<phase, flag, list, pc, stat, error, timer, prio, handed>>

(* With time = 0, rt_sem_trytake.                                          *)
TryTakeFails(t) ==
    /\ Running(t) /\ Usable /\ value = 0
    /\ result' = [result EXCEPT ![t] = "ETIMEOUT"]
    /\ UNCHANGED <<object, list, pc, stat, error, timer, prio, handed>>

(* Where _ipc_list_suspend puts a thread: at the end, or before the first  *)
(* thread that is less urgent.                                             *)
Place(t, i) ==
    \/ flag = "FIFO" /\ i = Len(list) + 1
    \/ /\ flag = "PRIO"
       /\ \A j \in 1..i-1 : prio[t] >= prio[list[j]]
       /\ i <= Len(list) => prio[t] < prio[list[i]]

TakeWaitsStaleError(t, timed) ==
    /\ Running(t) /\ Usable /\ value = 0
    /\ \E i \in 1..Len(list)+1 : Place(t, i) /\ list' = InsertAt(list, i, t)
    /\ Suspend(t, timed)
    /\ pc' = [pc EXCEPT ![t] = "take"]
    /\ UNCHANGED <<object, error, prio, result, handed>>

TakeWaitsInFront(t, timed) ==
    /\ Running(t) /\ Usable /\ value = 0
    /\ error' = [error EXCEPT ![t] = "EOK"]
    /\ list' = InsertAt(list, 1, t)
    /\ Suspend(t, timed)
    /\ pc' = [pc EXCEPT ![t] = "take"]
    /\ UNCHANGED <<object, prio, result, handed>>

TakeWaits(t, timed) ==
    /\ Running(t) /\ Usable /\ value = 0
    /\ error' = [error EXCEPT ![t] = "EOK"]
    /\ \E i \in 1..Len(list)+1 : Place(t, i) /\ list' = InsertAt(list, i, t)
    /\ Suspend(t, timed)
    /\ pc' = [pc EXCEPT ![t] = "take"]
    /\ UNCHANGED <<object, prio, result, handed>>

(* Back from rt_schedule, the thread returns its error.                    *)
TakeReturns(t) ==
    /\ pc[t] = "take" /\ stat[t] = "ready"
    /\ pc' = [pc EXCEPT ![t] = "run"]
    /\ result' = [result EXCEPT ![t] = error[t]]
    /\ handed' = handed \ {t}
    /\ UNCHANGED <<object, list, stat, error, timer, prio>>

-----------------------------------------------------------------------------
ReleaseUnbounded ==
    /\ phase # "gone"
    /\ \/ /\ list # << >>
          /\ list' = Tail(list) /\ Resume(Head(list))
          /\ handed' = handed \cup {Head(list)}
          /\ UNCHANGED value
       \/ /\ list = << >> /\ value <= SemMax
          /\ value' = value + 1
          /\ UNCHANGED <<list, stat, timer, handed>>
    /\ UNCHANGED <<phase, flag, pc, error, prio, result>>

(* rt_sem_release, by a thread or an interrupt.  At RT_SEM_VALUE_MAX it    *)
(* fails and changes nothing.                                              *)
Release ==
    /\ phase # "gone"
    /\ \/ /\ list # << >>
          /\ list' = Tail(list) /\ Resume(Head(list))
          /\ handed' = handed \cup {Head(list)}
          /\ UNCHANGED value
       \/ /\ list = << >> /\ value < SemMax
          /\ value' = value + 1
          /\ UNCHANGED <<list, stat, timer, handed>>
    /\ UNCHANGED <<phase, flag, pc, error, prio, result>>

ResetSilent ==
    /\ phase = "live"
    /\ \E v \in 0..SemMax : value' = v
    /\ list' = << >>
    /\ stat' = [t \in Threads |-> IF t \in ToSet(list) THEN "ready" ELSE stat[t]]
    /\ timer' = timer \ ToSet(list)
    /\ UNCHANGED <<phase, flag, pc, error, prio, result, handed>>

(* rt_sem_control(RESET): everybody is woken with an error.                *)
Reset ==
    /\ phase = "live"
    /\ \E v \in 0..SemMax : value' = v
    /\ list' = << >>
    /\ error' = [t \in Threads |-> IF t \in ToSet(list) THEN "ERROR" ELSE error[t]]
    /\ stat' = [t \in Threads |-> IF t \in ToSet(list) THEN "ready" ELSE stat[t]]
    /\ timer' = timer \ ToSet(list)
    /\ UNCHANGED <<phase, flag, pc, prio, result, handed>>

(* rt_sem_detach, rt_sem_delete: _ipc_list_resume_all looks at the list    *)
(* with interrupts on, takes a thread off it with interrupts off, and lets *)
(* interrupts in again before the object goes.                             *)
DetachStarts ==
    /\ phase = "live" /\ phase' = "detach"
    /\ UNCHANGED <<flag, value, list, pc, stat, error, timer, prio, result, handed>>

DetachLooks ==
    /\ phase = "detach"
    /\ phase' = IF list = << >> THEN "unlink" ELSE "pop"
    /\ UNCHANGED <<flag, value, list, pc, stat, error, timer, prio, result, handed>>

(* If the last waiter has left since the look, the list head passes for a  *)
(* thread: the "thread" is the semaphore itself, rt_thread_resume asserts  *)
(* that it is one, and rt_assert_handler loops with interrupts off.        *)
DetachWakes ==
    /\ phase = "pop"
    /\ \/ /\ list # << >> /\ phase' = "detach"
          /\ error' = [error EXCEPT ![Head(list)] = "ERROR"]
          /\ list' = Tail(list) /\ Resume(Head(list))
       \/ /\ list = << >> /\ phase' = "halt"
          /\ UNCHANGED <<list, stat, timer, error>>
    /\ UNCHANGED <<flag, value, pc, prio, result, handed>>

DetachEnds ==
    /\ phase = "unlink" /\ phase' = "gone"
    /\ UNCHANGED <<flag, value, list, pc, stat, error, timer, prio, result, handed>>

(* rt_sem_init or rt_sem_create, with any value and flag.                  *)
Create ==
    /\ phase = "gone" /\ phase' = "live"
    /\ list' = << >>
    /\ value' \in 0..SemMax /\ flag' \in {"FIFO", "PRIO"}
    /\ UNCHANGED <<pc, stat, error, timer, prio, result, handed>>

-----------------------------------------------------------------------------
ThreadNext(t) ==
    \/ Sleep(t) \/ SleepReturns(t) \/ Timeout(t) \/ ChangePriority(t)
    \/ TakeNow(t) \/ TryTakeFails(t) \/ TakeReturns(t)
    \/ \E timed \in BOOLEAN : TakeWaits(t, timed)

Next ==
    /\ phase # "halt"
    /\ \/ \E t \in Threads : ThreadNext(t)
       \/ Release \/ Reset
       \/ DetachStarts \/ DetachLooks \/ DetachWakes \/ DetachEnds \/ Create

Spec == Init /\ [][Next]_vars

(* The tick interrupt fires every timer that stays active, until a failed  *)
(* assertion leaves the interrupts off.                                    *)
FairSpec == Spec /\ \A t \in Threads : WF_vars(Timeout(t))

-----------------------------------------------------------------------------
Errors == {"EOK", "ETIMEOUT", "ERROR"}

TypeOK ==
    /\ phase \in {"live", "detach", "pop", "unlink", "gone", "halt"}
    /\ flag \in {"FIFO", "PRIO"}
    /\ value \in 0..SemMax
    /\ list \in Seq(Threads)
    /\ pc \in [Threads -> {"run", "take", "sleep"}]
    /\ stat \in [Threads -> {"ready", "suspend"}]
    /\ error \in [Threads -> Errors]
    /\ timer \subseteq Threads /\ handed \subseteq Threads
    /\ prio \in [Threads -> Prios]
    /\ result \in [Threads -> Errors \cup {"none"}]

(* The suspend list holds each suspended taker once and nobody else, and a *)
(* timer runs only for a suspended thread, as rt_thread_timeout asserts.   *)
QueueMatchesThreads ==
    /\ IsInjective(list)
    /\ \A t \in Threads :
          t \in ToSet(list) <=> pc[t] = "take" /\ stat[t] = "suspend"
    /\ \A t \in timer : stat[t] = "suspend"

(* No wake-up is lost: nobody waits while the semaphore has a count.       *)
NoLostWakeup == value > 0 => list = << >>

(* A take that waited returns RT_EOK exactly when a release woke it: no    *)
(* release is spent on a thread that then reports a timeout, and no thread *)
(* goes on without one.                                                    *)
TokenDelivered ==
    \A t \in Threads :
        pc[t] = "take" /\ stat[t] = "ready" => (error[t] = "EOK" <=> t \in handed)

(* Threads on a RT_IPC_FLAG_FIFO semaphore are served as they came: as     *)
(* long as a thread waits, nobody who is not ahead of it gets ahead of it  *)
(* or is served, whoever else times out or comes in the meantime.          *)
Ahead(u, t) == \E i, j \in DOMAIN list : i < j /\ list[i] = u /\ list[j] = t

NoOvertaking ==
    [][flag = "FIFO" =>
          \A t \in ToSet(list) \cap ToSet(list'), u \in Threads :
              ~Ahead(u, t) => ~Ahead(u, t)' /\ u \notin handed' \ handed]_vars

(* A sleep and a take with a timeout end, whatever releases, resets and    *)
(* priorities do meanwhile, unless a detach met an empty list between its  *)
(* look (ipc.c:213) and its pop and the kernel stopped in an assertion.    *)
TimedWaitsEnd ==
    \A t \in Threads :
        (pc[t] = "sleep" \/ t \in timer) ~> (stat[t] = "ready" \/ phase = "halt")

(* What each thread's last take came to, as the caller will see it.        *)
Outcome ==
    [t \in Threads |-> IF pc[t] = "take"
                       THEN IF stat[t] = "suspend" THEN "waiting" ELSE error[t]
                       ELSE result[t]]

Abstract == INSTANCE CountingSem WITH avail <- value, outcome <- Outcome

(* The semaphore is a counting semaphore.                                  *)
IsCountingSem == Abstract!Spec
=============================================================================
