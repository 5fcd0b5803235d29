---------------------------- MODULE KernelMutex -----------------------------
(***************************************************************************)
(* The mutexes of rt-thread/src/ipc.c: ownership, recursion, hand-over,    *)
(* timeouts and priority inheritance.  A thread may hold several of them.  *)
(* Every section with interrupts off is one action; a thread that was      *)
(* suspended reads its error in a step of its own.                         *)
(***************************************************************************)
EXTENDS Integers, SequencesExt

CONSTANTS
    Threads,
    Mutexes,
    NoThread,    \* RT_NULL as an owner
    Prios,       \* thread priorities; the smaller number is the more urgent
    Base,        \* the priority each thread was created with
    NoPrio,      \* 0xff, the original_priority of a free mutex
    HoldMax      \* RT_MUTEX_HOLD_MAX

ASSUME MutexAssumption ==
    /\ NoThread \notin Threads
    /\ Prios \subseteq Int /\ NoPrio \in Int \ Prios
    /\ Base \in [Threads -> Prios]
    /\ HoldMax \in Nat \ {0}

VARIABLES
    owner,    \* mutex->owner
    hold,     \* mutex->hold
    value,    \* mutex->value
    orig,     \* mutex->original_priority
    list,     \* mutex->parent.suspend_thread
    inside,   \* the mutex whose take suspended the thread, if there is one
    stat,     \* thread->stat: "ready" (or running) or "suspend"
    error,    \* thread->error
    timer,    \* threads whose thread_timer is active
    prio,     \* thread->current_priority
    mine,     \* history: takes less releases, as each thread saw them return
    multi     \* history: threads that have owned two mutexes at a time

mutex  == <<owner, hold, value, orig>>
thread == <<inside, stat, error, timer>>
vars   == <<mutex, list, thread, prio, mine, multi>>

Init ==
    /\ owner = [m \in Mutexes |-> NoThread]
    /\ hold = [m \in Mutexes |-> 0]
    /\ value = [m \in Mutexes |-> 1]
    /\ orig = [m \in Mutexes |-> NoPrio]
    /\ list = [m \in Mutexes |-> << >>]
    /\ inside = [t \in Threads |-> {}]
    /\ stat = [t \in Threads |-> "ready"]
    /\ error = [t \in Threads |-> "EOK"]
    /\ timer = {}
    /\ prio = Base
    /\ mine = [t \in Threads |-> [m \in Mutexes |-> 0]]
    /\ multi = {}

Running(t) == inside[t] = {}

SetError(t, e) == error' = [error EXCEPT ![t] = e]

(* rt_thread_control(RT_THREAD_CTRL_CHANGE_PRIORITY)                       *)
ChangePriority(t, p) == prio' = [prio EXCEPT ![t] = p]

Resume(t) ==
    /\ stat' = [stat EXCEPT ![t] = "ready"]
    /\ timer' = timer \ {t}

(* Mutex m gets a new owner.                                               *)
Give(m, t) ==
    /\ owner' = [owner EXCEPT ![m] = t]
    /\ orig' = [orig EXCEPT ![m] = prio[t]]
    /\ multi' = multi \cup {u \in {t} : \E n \in Mutexes \ {m} : owner[n] = u}

-----------------------------------------------------------------------------
(* rt_mutex_take                                                           *)

TakeAgainUnbounded(t, m) ==
    /\ Running(t) /\ owner[m] = t /\ hold[m] <= HoldMax
    /\ SetError(t, "EOK")
    /\ hold' = [hold EXCEPT ![m] = @ + 1]
    /\ mine' = [mine EXCEPT ![t][m] = @ + 1]
    /\ UNCHANGED <<owner, value, orig, list, inside, stat, timer, prio, multi>>

(* By the owner: one more hold, or -RT_EFULL.                              *)
TakeAgain(t, m) ==
    /\ Running(t) /\ owner[m] = t
    /\ SetError(t, "EOK")
    /\ \/ /\ hold[m] < HoldMax
          /\ hold' = [hold EXCEPT ![m] = @ + 1]
          /\ mine' = [mine EXCEPT ![t][m] = @ + 1]
       \/ hold[m] = HoldMax /\ UNCHANGED <<hold, mine>>
    /\ UNCHANGED <<owner, value, orig, list, inside, stat, timer, prio, multi>>

TakeFree(t, m) ==
    /\ Running(t) /\ owner[m] # t /\ value[m] > 0
    /\ SetError(t, "EOK")
    /\ value' = [value EXCEPT ![m] = @ - 1]
    /\ Give(m, t)
    /\ hold' = [hold EXCEPT ![m] = @ + 1]
    /\ mine' = [mine EXCEPT ![t][m] = @ + 1]
    /\ UNCHANGED <<list, inside, stat, timer, prio>>

(* With time = 0, rt_mutex_trytake.                                        *)
TryTakeFails(t, m) ==
    /\ Running(t) /\ owner[m] # t /\ value[m] = 0
    /\ SetError(t, "ETIMEOUT")
    /\ UNCHANGED <<mutex, list, inside, stat, timer, prio, mine, multi>>

(* The place _ipc_list_suspend finds: before the first less urgent thread. *)
Place(t, m, i) ==
    /\ \A j \in 1..i-1 : prio[t] >= prio[list[m][j]]
    /\ i <= Len(list[m]) => prio[t] < prio[list[m][i]]

InheritNot(t, m) == UNCHANGED prio

(* A more urgent thread lends the owner its priority.                      *)
Inherit(t, m) ==
    IF prio[t] < prio[owner[m]] THEN ChangePriority(owner[m], prio[t])
                                ELSE UNCHANGED prio

TakeWaits(t, m, timed) ==
    /\ Running(t) /\ owner[m] # t /\ value[m] = 0
    /\ SetError(t, "EOK")
    /\ Inherit(t, m)
    /\ \E i \in 1..Len(list[m])+1 :
          Place(t, m, i) /\ list' = [list EXCEPT ![m] = InsertAt(@, i, t)]
    /\ stat' = [stat EXCEPT ![t] = "suspend"]
    /\ timer' = IF timed THEN timer \cup {t} ELSE timer
    /\ inside' = [inside EXCEPT ![t] = {m}]
    /\ UNCHANGED <<mutex, mine, multi>>

TakeReturnsUnchecked(t) ==
    /\ inside[t] # {} /\ stat[t] = "ready"
    /\ inside' = [inside EXCEPT ![t] = {}]
    /\ mine' = [mine EXCEPT ![t] =
                   [m \in Mutexes |-> IF m \in inside[t] THEN @[m] + 1 ELSE @[m]]]
    /\ UNCHANGED <<mutex, list, stat, error, timer, prio, multi>>

(* Back from rt_schedule: the mutex is taken, or the error is returned.    *)
TakeReturns(t) ==
    /\ inside[t] # {} /\ stat[t] = "ready"
    /\ inside' = [inside EXCEPT ![t] = {}]
    /\ mine' = [mine EXCEPT ![t] =
                   [m \in Mutexes |-> IF m \in inside[t] /\ error[t] = "EOK"
                                      THEN @[m] + 1 ELSE @[m]]]
    /\ UNCHANGED <<mutex, list, stat, error, timer, prio, multi>>

TimeoutStaysQueued(t) ==
    /\ t \in timer
    /\ SetError(t, "ETIMEOUT")
    /\ Resume(t)
    /\ UNCHANGED <<mutex, list, inside, prio, mine, multi>>

(* rt_thread_timeout: off the list; the owner keeps what it inherited.     *)
Timeout(t) ==
    /\ t \in timer
    /\ SetError(t, "ETIMEOUT")
    /\ \E m \in inside[t] : \E i \in DOMAIN list[m] :
          list[m][i] = t /\ list' = [list EXCEPT ![m] = RemoveAt(@, i)]
    /\ Resume(t)
    /\ UNCHANGED <<mutex, inside, prio, mine, multi>>

-----------------------------------------------------------------------------
(* rt_mutex_release                                                        *)

(* By a thread that is not the owner: refused.                             *)
ReleaseRefused(t, m) ==
    /\ Running(t) /\ owner[m] # t
    /\ SetError(t, "ERROR")
    /\ UNCHANGED <<mutex, list, inside, stat, timer, prio, mine, multi>>

(* An inner release of a recursive hold.                                   *)
ReleaseInner(t, m) ==
    /\ Running(t) /\ owner[m] = t /\ hold[m] > 1
    /\ hold' = [hold EXCEPT ![m] = @ - 1]
    /\ mine' = [mine EXCEPT ![t][m] = @ - 1]
    /\ UNCHANGED <<owner, value, orig, list, thread, prio, multi>>

RestoreNot(t, m) == UNCHANGED prio

(* The priority the owner had when it took this mutex.                     *)
Restore(t, m) == ChangePriority(t, orig[m])

ReleaseToTwo(t, m) ==
    /\ Running(t) /\ owner[m] = t /\ hold[m] = 1 /\ list[m] # << >>
    /\ Restore(t, m)
    /\ Give(m, Head(list[m]))
    /\ Resume(Head(list[m]))
    /\ list' = [list EXCEPT ![m] = Tail(@)]
    /\ mine' = [mine EXCEPT ![t][m] = @ - 1]
    /\ value' = [value EXCEPT ![m] = @ + 1]
    /\ UNCHANGED <<hold, inside, error>>

(* The last release, with a thread waiting: it becomes the owner.          *)
ReleaseTo(t, m) ==
    /\ Running(t) /\ owner[m] = t /\ hold[m] = 1 /\ list[m] # << >>
    /\ Restore(t, m)
    /\ Give(m, Head(list[m]))
    /\ Resume(Head(list[m]))
    /\ list' = [list EXCEPT ![m] = Tail(@)]
    /\ mine' = [mine EXCEPT ![t][m] = @ - 1]
    /\ UNCHANGED <<hold, value, inside, error>>

(* The last release, with nobody waiting.                                  *)
ReleaseFree(t, m) ==
    /\ Running(t) /\ owner[m] = t /\ hold[m] = 1 /\ list[m] = << >>
    /\ Restore(t, m)
    /\ owner' = [owner EXCEPT ![m] = NoThread]
    /\ orig' = [orig EXCEPT ![m] = NoPrio]
    /\ hold' = [hold EXCEPT ![m] = 0]
    /\ value' = [value EXCEPT ![m] = @ + 1]
    /\ mine' = [mine EXCEPT ![t][m] = @ - 1]
    /\ UNCHANGED <<list, thread, multi>>

-----------------------------------------------------------------------------
TakeNext(t, m) ==
    \/ TakeAgain(t, m) \/ TakeFree(t, m) \/ TryTakeFails(t, m)
    \/ \E timed \in BOOLEAN : TakeWaits(t, m, timed)

ReleaseNext(t, m) ==
    ReleaseRefused(t, m) \/ ReleaseInner(t, m) \/ ReleaseTo(t, m) \/ ReleaseFree(t, m)

Next ==
    \E t \in Threads :
        \/ \E m \in Mutexes : TakeNext(t, m) \/ ReleaseNext(t, m)
        \/ TakeReturns(t) \/ Timeout(t)

Spec == Init /\ [][Next]_vars

-----------------------------------------------------------------------------
TypeOK ==
    /\ owner \in [Mutexes -> Threads \cup {NoThread}]
    /\ hold \in [Mutexes -> 0..HoldMax]
    /\ value \in [Mutexes -> 0..1]
    /\ orig \in [Mutexes -> Prios \cup {NoPrio}]
    /\ list \in [Mutexes -> Seq(Threads)]
    /\ inside \in [Threads -> SUBSET Mutexes]
    /\ stat \in [Threads -> {"ready", "suspend"}]
    /\ error \in [Threads -> {"EOK", "ETIMEOUT", "ERROR"}]
    /\ timer \subseteq Threads /\ multi \subseteq Threads
    /\ prio \in [Threads -> Prios]
    /\ mine \in [Threads -> [Mutexes -> 0..HoldMax]]

(* A mutex is what its callers believe: a thread is between a take that    *)
(* returned RT_EOK and its release exactly when the kernel has it as the   *)
(* owner, with that many holds; so no two threads are ever inside one.     *)
(* (A thread that was handed the mutex and has not run yet has none.)      *)
Exclusive ==
    \A t \in Threads, m \in Mutexes :
        mine[t][m] = IF owner[m] = t /\ m \notin inside[t] THEN hold[m] ELSE 0

(* A mutex is either free, with nobody waiting, or owned by somebody who   *)
(* is not waiting for it.                                                  *)
FreeOrOwned ==
    \A m \in Mutexes :
        \/ owner[m] = NoThread /\ value[m] = 1 /\ hold[m] = 0 /\ list[m] = << >>
        \/ owner[m] # NoThread /\ value[m] = 0 /\ hold[m] > 0
             /\ owner[m] \notin ToSet(list[m])

(* A thread back from its wait finds RT_EOK exactly when the mutex is its  *)
(* own: no hand-over goes to a thread that has timed out.                  *)
HandedOver ==
    \A t \in Threads : \A m \in inside[t] :
        /\ stat[t] = "suspend" <=> t \in ToSet(list[m])
        /\ stat[t] = "ready" => (error[t] = "EOK" <=> owner[m] = t)

(* Callers, kernel and suspend lists agree on who is inside, through every *)
(* hand-over, timeout and recursive hold.                                  *)
Ownership == Exclusive /\ FreeOrOwned /\ HandedOver

Owned(t) == {m \in Mutexes : owner[m] = t}

(* Priority inheritance bounds the inversion: an owner is as urgent as any *)
(* thread it keeps waiting, as long as neither has other mutexes.          *)
LendingWorks ==
    \A m \in Mutexes : \A t \in ToSet(list[m]) :
        owner[m] \notin multi /\ Owned(t) = {} => prio[owner[m]] <= prio[t]

(* What was lent is given back: a thread that holds no mutex runs at its   *)
(* own priority, if it never held two at a time.                           *)
LoanReturned ==
    \A t \in Threads \ multi : Owned(t) = {} => prio[t] = Base[t]

(* With one mutex at a time priorities are lent and given back.            *)
Inheritance == LendingWorks /\ LoanReturned

(* Without these conditions: an owner is never less urgent than a thread   *)
(* that owns nothing and waits for it.                                     *)
NoInversion ==
    \A m \in Mutexes : \A t \in ToSet(list[m]) :
        Owned(t) = {} => prio[owner[m]] <= prio[t]
=============================================================================
