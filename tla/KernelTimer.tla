---------------------------- MODULE KernelTimer -----------------------------
(***************************************************************************)
(* The timers of rt-thread/src/timer.c: the list of hard timers, whose     *)
(* callbacks run in the tick interrupt, and the list of soft timers, whose *)
(* callbacks run in the timer thread.  A tick is a machine word that wraps,*)
(* and the code compares two ticks by the half of the range in which their *)
(* difference lies.                                                        *)
(*                                                                         *)
(* A section with interrupts off is one action, but a callback of          *)
(* rt_timer_check, which runs inside of one, is opened up: it may start and*)
(* stop timers, its own too.  Starts and stops come from interrupts and    *)
(* from threads above the timer thread's priority (at any time), and from  *)
(* threads below it or soft callbacks (which need fewer of those times).   *)
(***************************************************************************)
EXTENDS Integers, SequencesExt

CONSTANTS
    HardTimers, SoftTimers,
    ThreadTimer,    \* thread_timer of the timer thread, a hard timer
    NoTimer,
    TickMax,        \* RT_TICK_MAX
    MaxInit,        \* bound on the init_tick of a timer
    Period,         \* the init_tick of a periodic timer, 0 for a one-shot one
    MaxLate         \* bound on the ticks the timer thread is behind

Half == TickMax \div 2

(* A timer is in one list, by its flag; the thread's own is a timer apart. *)
ASSUME KindAssumption ==
    /\ HardTimers \cap SoftTimers = {}
    /\ ThreadTimer \notin HardTimers \cup SoftTimers
    /\ NoTimer \notin HardTimers \cup SoftTimers \cup {ThreadTimer}

(* What rt_timer_start asserts, and that the timer thread is never kept    *)
(* from running for so long that its timers seem to lie in the future.     *)
ASSUME TimerAssumption ==
    /\ TickMax \in Nat /\ MaxInit \in 0..Half-1 /\ MaxLate \in 1..Half-1
    /\ MaxInit + MaxLate <= TickMax + 1 - Half
    /\ Period \in [HardTimers \cup SoftTimers -> 0..MaxInit]

Timers == HardTimers \cup SoftTimers \cup {ThreadTimer}
Kinds  == {"hard", "soft"}
Kind(t) == IF t \in SoftTimers THEN "soft" ELSE "hard"

VARIABLES
    tick,           \* rt_tick
    list,           \* _timer_list and _soft_timer_list
    timeout_tick, active,   \* fields of rt_timer
    run,            \* the local list of rt_timer_check, rt_soft_timer_check
    isr,            \* the tick interrupt: "out", "check" or "callback"
    pc,             \* the timer thread; suspended at "asleep"
    next_timeout,   \* of _timer_thread_entry
    left,           \* history: ticks until a listed timer is due, unwrapped
    slipped         \* history: the thread sleeps on what is not, or no longer, true

timer == <<timeout_tick, active>>
vars  == <<tick, list, timer, run, isr, pc, next_timeout, left, slipped>>

Init ==
    /\ tick = 0
    /\ list = [k \in Kinds |-> <<>>]
    /\ timeout_tick = [t \in Timers |-> 0] /\ active = [t \in Timers |-> FALSE]
    /\ run = [k \in Kinds |-> NoTimer]
    /\ isr = "out" /\ pc = "look" /\ next_timeout = 0
    /\ left = [t \in Timers |-> 0] /\ slipped = FALSE

-----------------------------------------------------------------------------
(* Lists and ticks                                                         *)

MinusSigned(a, b) == a - b

Minus(a, b) == (a - b) % (TickMax + 1)

Listed(t)    == Contains(list[Kind(t)], t)
Without(l, t) == [k \in Kinds |-> RemoveFirst(l[k], t)]

(* t goes in front of the first timer of later, or to the end.             *)
InsertBefore(s, t, later) ==
    LET i == SelectInSeq(s, LAMBDA u : u \in later)
    IN  InsertAt(s, IF i = 0 THEN Len(s) + 1 ELSE i, t)

InsertFirst(s, t, due) ==
    InsertBefore(s, t, {u \in ToSet(s) : Minus(timeout_tick[u], due) < Half})

InsertUnwrapped(s, t, due) ==
    InsertBefore(s, t, {u \in ToSet(s) : timeout_tick[u] > due})

(* Behind the timers that are due at the same tick, before the first that  *)
(* is due later.                                                           *)
Insert(s, t, due) ==
    InsertBefore(s, t, {u \in ToSet(s) : Minus(timeout_tick[u], due) \in 1..Half-1})

(* The insertion of rt_timer_start, l being the lists without t.           *)
Arm(t, n, l) ==
    LET due == (tick + n) % (TickMax + 1)
    IN  /\ list' = [l EXCEPT ![Kind(t)] = Insert(@, t, due)]
        /\ timeout_tick' = [timeout_tick EXCEPT ![t] = due]
        /\ left' = [left EXCEPT ![t] = n]

(* The timeout_tick of a timer on no list is not read before it is set.    *)
Cleared(f, t) == [f EXCEPT ![t] = 0]

TimedOutSwapped(t) == Minus(timeout_tick[t], tick) < Half

TimedOut(t) == Minus(tick, timeout_tick[t]) < Half

HeadDue(k) == list[k] # <<>> /\ TimedOut(Head(list[k]))

-----------------------------------------------------------------------------
(* Calls by threads, interrupts and callbacks                              *)

CanCall == isr \in {"out", "callback"}

(* A soft timer is touched between the thread's look and its sleep.        *)
Slips(t) == slipped \/ (t \in SoftTimers /\ pc \in {"looked", "measured"})

(* _timer_remove takes a timer also off the local list of its check.       *)
OffRun(t) == run' = [k \in Kinds |-> IF run[k] = t THEN NoTimer ELSE run[k]]

(* A periodic timer is started with its period.  No hard timer is given no *)
(* ticks: one that its own callback starts so would never let the check    *)
(* end, any more than a period of zero would.                              *)
Legal(t, n) ==
    /\ Period[t] > 0 => n = Period[t]
    /\ t \in HardTimers => n > 0

StartDeaf(t, n) ==
    /\ CanCall /\ Legal(t, n)
    /\ Arm(t, n, Without(list, t))
    /\ active' = [active EXCEPT ![t] = TRUE]
    /\ OffRun(t)
    /\ slipped' = Slips(t)
    /\ UNCHANGED <<pc, tick, isr, next_timeout>>

StartStaying(t, n) ==
    /\ CanCall /\ Legal(t, n)
    /\ Arm(t, n, list)
    /\ active' = [active EXCEPT ![t] = TRUE]
    /\ UNCHANGED <<pc, tick, isr, run, slipped, next_timeout>>

(* rt_timer_start, the time set by rt_timer_control before.  For a soft    *)
(* timer it resumes a suspended timer thread, which stops that thread's    *)
(* own timer.                                                              *)
Start(t, n) ==
    LET wakes == t \in SoftTimers /\ pc = "asleep"
    IN  /\ CanCall /\ Legal(t, n)
        /\ Arm(t, n, IF wakes THEN Without(Without(list, t), ThreadTimer)
                              ELSE Without(list, t))
        /\ active' = [active EXCEPT ![t] = TRUE,
                                    ![ThreadTimer] = IF wakes THEN FALSE ELSE @]
        /\ OffRun(t)
        /\ pc' = IF wakes THEN "check" ELSE pc
        /\ slipped' = (~wakes /\ Slips(t))
        /\ UNCHANGED <<tick, isr, next_timeout>>

(* rt_timer_stop refuses a timer that is not active.                       *)
Stop(t) ==
    /\ CanCall /\ active[t]
    /\ list' = Without(list, t)
    /\ OffRun(t)
    /\ active' = [active EXCEPT ![t] = FALSE]
    /\ timeout_tick' = Cleared(timeout_tick, t) /\ left' = Cleared(left, t)
    /\ slipped' = Slips(t)
    /\ UNCHANGED <<tick, isr, pc, next_timeout>>

-----------------------------------------------------------------------------
(* Both checks                                                             *)

(* The head, which is due, moves to the local list before its callback.    *)
Expire(k) ==
    LET t == Head(list[k])
    IN  /\ HeadDue(k)
        /\ list' = [list EXCEPT ![k] = Tail(@)]
        /\ run' = [run EXCEPT ![k] = t]
        /\ active' = [active EXCEPT ![t] = t # ThreadTimer /\ Period[t] > 0]
        /\ timeout_tick' = Cleared(timeout_tick, t) /\ left' = Cleared(left, t)
        /\ UNCHANGED <<tick, next_timeout, slipped>>

(* After the callback: a timer that was stopped or started anew is no      *)
(* longer on the local list; a periodic one that still is starts again.    *)
Return(k) ==
    LET t == run[k]
    IN  /\ run' = [run EXCEPT ![k] = NoTimer]
        /\ IF t # NoTimer /\ active[t]
           THEN Arm(t, Period[t], list)
           ELSE UNCHANGED <<list, timeout_tick, left>>
        /\ UNCHANGED <<tick, active, next_timeout, slipped>>

-----------------------------------------------------------------------------
(* The tick interrupt                                                      *)

(* The loop of rt_timer_check goes on while the head is due.               *)
CheckOn == isr' = IF HeadDue("hard")' THEN "check" ELSE "out"

(* The timer thread is not kept from running for long: a timer waits for   *)
(* it at most MaxLate ticks, and once it has slipped it gets to its sleep. *)
InReach ==
    /\ \A t \in SoftTimers : left[t] > -MaxLate
    /\ slipped => pc = "asleep"

(* rt_tick_increase, as far as the timers go.                              *)
Tick ==
    /\ isr = "out"
    /\ InReach
    /\ tick' = (tick + 1) % (TickMax + 1)
    /\ left' = [t \in Timers |-> IF Listed(t) THEN left[t] - 1 ELSE left[t]]
    /\ slipped' = (slipped \/ pc = "measured")
    /\ UNCHANGED <<list, timer, run, pc, next_timeout>>
    /\ CheckOn

HardExpire ==
    /\ isr = "check"
    /\ Expire("hard") /\ run'["hard"] # ThreadTimer
    /\ isr' = "callback"
    /\ UNCHANGED pc

HardReturn ==
    /\ isr = "callback"
    /\ Return("hard")
    /\ UNCHANGED pc
    /\ CheckOn

(* The callback of the thread's own timer is rt_thread_timeout.            *)
ThreadTimeout ==
    /\ isr = "check"
    /\ HeadDue("hard") /\ Head(list["hard"]) = ThreadTimer
    /\ list' = [list EXCEPT !["hard"] = Tail(@)]
    /\ active' = [active EXCEPT ![ThreadTimer] = FALSE]
    /\ timeout_tick' = Cleared(timeout_tick, ThreadTimer)
    /\ left' = Cleared(left, ThreadTimer)
    /\ pc' = "check" /\ slipped' = FALSE
    /\ UNCHANGED <<tick, run, next_timeout>>
    /\ CheckOn

-----------------------------------------------------------------------------
(* The timer thread                                                        *)

(* _timer_list_next_timeout; RT_TICK_MAX stands for an empty list.         *)
Look ==
    /\ isr = "out" /\ pc = "look"
    /\ next_timeout' = IF list["soft"] = <<>> THEN TickMax
                       ELSE timeout_tick[Head(list["soft"])]
    /\ pc' = "looked"
    /\ UNCHANGED <<tick, list, timer, run, isr, left, slipped>>

(* rt_tick_get, and the time from then to next_timeout.                    *)
Measure ==
    /\ isr = "out" /\ pc = "looked" /\ next_timeout # TickMax
    /\ IF Minus(next_timeout, tick) < Half
       THEN next_timeout' = Minus(next_timeout, tick) /\ pc' = "measured" /\ UNCHANGED slipped
       ELSE next_timeout' = 0 /\ pc' = "check" /\ slipped' = FALSE
    /\ UNCHANGED <<tick, list, timer, run, isr, left>>

(* rt_thread_suspend of itself.  A timer that is due at RT_TICK_MAX has    *)
(* been taken for none.                                                    *)
SleepForever ==
    /\ isr = "out" /\ pc = "looked" /\ next_timeout = TickMax
    /\ next_timeout' = 0 /\ pc' = "asleep"
    /\ slipped' = (slipped \/ list["soft"] # <<>>)
    /\ UNCHANGED <<tick, list, timer, run, isr, left>>

SleepForStopped ==
    /\ isr = "out" /\ pc = "measured"
    /\ next_timeout' = 0 /\ pc' = "asleep"
    /\ UNCHANGED <<tick, list, timer, run, isr, left, slipped>>

(* rt_thread_delay.                                                        *)
SleepFor ==
    /\ isr = "out" /\ pc = "measured"
    /\ Arm(ThreadTimer, next_timeout, list)
    /\ active' = [active EXCEPT ![ThreadTimer] = TRUE]
    /\ next_timeout' = 0 /\ pc' = "asleep"
    /\ UNCHANGED <<tick, run, isr, slipped>>

(* rt_soft_timer_check, with interrupts on during the callbacks.           *)
SoftExpire ==
    /\ isr = "out" /\ pc = "check"
    /\ Expire("soft")
    /\ pc' = "callback"
    /\ UNCHANGED isr

SoftReturn ==
    /\ isr = "out" /\ pc = "callback"
    /\ Return("soft")
    /\ pc' = "check"
    /\ UNCHANGED isr

SoftDone ==
    /\ isr = "out" /\ pc = "check" /\ ~HeadDue("soft")
    /\ pc' = "look"
    /\ UNCHANGED <<tick, list, timer, run, isr, next_timeout, left, slipped>>

-----------------------------------------------------------------------------
Calls ==
    \E t \in HardTimers \cup SoftTimers :
        (\E n \in 0..MaxInit : Start(t, n)) \/ Stop(t)

Isr == HardExpire \/ HardReturn \/ ThreadTimeout

Thread == Look \/ Measure \/ SleepForever \/ SleepFor
            \/ SoftExpire \/ SoftReturn \/ SoftDone

Next == Calls \/ Tick \/ Isr \/ Thread

Spec == Init /\ [][Next]_vars

(* Callbacks return, the tick never stops, and the timer thread, which has *)
(* a higher priority than any other thread here, gets the processor.       *)
FairSpec == Spec /\ WF_vars(Tick) /\ WF_vars(Isr) /\ SF_vars(Thread)

-----------------------------------------------------------------------------
TypeOK ==
    /\ tick \in 0..TickMax
    /\ list \in [Kinds -> Seq(Timers)]
    /\ \A k \in Kinds : \A t \in ToSet(list[k]) : Kind(t) = k
    /\ timeout_tick \in [Timers -> 0..TickMax]
    /\ active \in [Timers -> BOOLEAN]
    /\ run \in [Kinds -> Timers \cup {NoTimer}]
    /\ isr \in {"out", "check", "callback"}
    /\ pc \in {"look", "looked", "measured", "asleep", "check", "callback"}
    /\ next_timeout \in 0..TickMax
    /\ left \in [Timers -> -MaxLate..MaxInit]
    /\ slipped \in BOOLEAN

(* Outside of the tick interrupt no hard timer is late: whatever callbacks *)
(* and others start and stop, and wherever the tick wraps, the check finds *)
(* all that are due.  Only the delay of the timer thread may be of no      *)
(* ticks, which lasts until the next one.                                  *)
HardPunctual ==
    isr = "out" =>
        /\ \A t \in HardTimers : Listed(t) => left[t] > 0
        /\ left[ThreadTimer] >= 0

(* A timer is active just while it is listed or, being periodic, in its    *)
(* callback and not stopped there: rt_timer_stop, which refuses others,    *)
(* stops whatever can still fire.                                          *)
CanBeStopped ==
    \A t \in Timers :
        active[t] <=> Listed(t) \/ (t \in {run[k] : k \in Kinds} /\ Period[t] > 0)

(* The timer thread does not oversleep: its own timer fires no later than  *)
(* the first soft timer, unless a timer was due at RT_TICK_MAX when it     *)
(* looked, or the list or the tick changed between its look and its sleep. *)
SoftWatched ==
    pc = "asleep" /\ list["soft"] # <<>> =>
        \/ slipped
        \/ Listed(ThreadTimer) /\ left[ThreadTimer] <= left[Head(list["soft"])]

(* A listed timer leaves its list to be called, and then it is due, or     *)
(* because it is stopped; starting it moves it.                            *)
OnlyWhenDue ==
    \A t \in Timers : Listed(t) /\ ~Listed(t)' =>
          \/ /\ left[t] <= 0
             /\ run'[Kind(t)] = t \/ (t = ThreadTimer /\ pc' = "check")
          \/ Stop(t)
          \/ /\ t = ThreadTimer
             /\ pc = "asleep" /\ pc' = "check"

Precedes(s, t, u) == \E i, j \in DOMAIN s : i < j /\ s[i] = t /\ s[j] = u

(* Timers that are due at the same tick are called in the order in which   *)
(* they were started: one that starts for a new tick lines up behind all   *)
(* that are due no later and in front of the others, across the wrap of    *)
(* the tick.                                                               *)
TakesItsPlace ==
    \A k \in Kinds : \A t, u \in ToSet(list'[k]) :
          t # u /\ (~Listed(t) \/ timeout_tick'[t] # timeout_tick[t]) =>
              (Precedes(list'[k], u, t) <=> left'[u] <= left'[t])

(* No timer is called early, forgotten, or out of its turn.                *)
CalledInTurn == [][OnlyWhenDue /\ TakesItsPlace]_vars

(* A soft timer that is late is called or withdrawn, unless the thread has *)
(* overslept.                                                              *)
SoftServed ==
    \A t \in SoftTimers :
        left[t] < 0 ~>
            \/ left[t] >= 0
            \/ (pc = "asleep" /\ slipped)
=============================================================================
