-------------------------- MODULE KernelSemProofs ---------------------------
(***************************************************************************)
(* Proofs about KernelSem for any set of threads, any priorities and any   *)
(* limit of the counter: the list and the threads agree, no wake-up and no *)
(* token is lost, a FIFO semaphore serves in order, and the whole is a     *)
(* counting semaphore.                                                     *)
(***************************************************************************)
EXTENDS KernelSem, SuspendListLemmas

(* A waiting thread has no error yet, and a release wakes only takers.     *)
WaitInv ==
    /\ \A t \in Threads : pc[t] = "take" /\ stat[t] = "suspend" => error[t] = "EOK"
    /\ \A t \in handed : pc[t] = "take" /\ stat[t] = "ready"

(* When the loop of _ipc_list_resume_all is over, the list stays empty.    *)
DetachInv == phase \in {"unlink", "gone"} => list = << >>

IInv == TypeOK /\ QueueMatchesThreads /\ NoLostWakeup /\ TokenDelivered
          /\ WaitInv /\ DetachInv

-----------------------------------------------------------------------------
(* A new semaphore has no threads on its list.                             *)
LEMMA InitIInv == Init => IInv
<1> SUFFICES ASSUME Init PROVE IInv OBVIOUS
<1>1. list = << >> /\ list \in Seq(Threads) /\ ToSet(list) = {} /\ IsInjective(list)
  BY EmptyList DEF Init
<1>2. TypeOK
  BY <1>1 DEF Init, TypeOK, Errors
<1>3. QueueMatchesThreads /\ NoLostWakeup /\ TokenDelivered /\ WaitInv /\ DetachInv
  BY <1>1 DEF Init, QueueMatchesThreads, NoLostWakeup, TokenDelivered, WaitInv, DetachInv
<1> QED BY <1>2, <1>3 DEF IInv

(* Every section with interrupts off keeps the invariant.                  *)
LEMMA StepIInv == ASSUME IInv, [Next]_vars PROVE IInv'
<1> USE SemAssumption
<1>0. TypeOK /\ QueueMatchesThreads /\ NoLostWakeup /\ TokenDelivered /\ WaitInv /\ DetachInv
  BY DEF IInv
<1>l. list \in Seq(Threads) /\ IsInjective(list)
  BY <1>0 DEF TypeOK, QueueMatchesThreads
<1>h. list # << >> =>
        /\ Tail(list) \in Seq(Threads) /\ IsInjective(Tail(list))
        /\ Head(list) \in Threads /\ Head(list) \in ToSet(list)
        /\ ToSet(Tail(list)) = ToSet(list) \ {Head(list)}
  BY <1>l, TailOfList, ListElements
<1>e. << >> \in Seq(Threads) /\ IsInjective(<< >>) /\ ToSet(<< >>) = {}
  BY EmptyList
<1>1. ASSUME NEW t \in Threads, Sleep(t) PROVE IInv'
  <2>1. TypeOK' BY <1>0, <1>1 DEF Sleep, Suspend, Running, TypeOK, object
  <2>2. QueueMatchesThreads'
    BY <1>0, <1>1 DEF Sleep, Suspend, Running, TypeOK, QueueMatchesThreads
  <2>3. (NoLostWakeup /\ TokenDelivered /\ WaitInv /\ DetachInv)'
    BY <1>0, <1>1 DEF Sleep, Suspend, Running, TypeOK, NoLostWakeup, TokenDelivered,
                      WaitInv, DetachInv, object
  <2> QED BY <2>1, <2>2, <2>3 DEF IInv
<1>2. ASSUME NEW t \in Threads, SleepReturns(t) PROVE IInv'
  <2>1. TypeOK' BY <1>0, <1>2 DEF SleepReturns, TypeOK, Errors, object
  <2>2. QueueMatchesThreads' BY <1>0, <1>2 DEF SleepReturns, TypeOK, QueueMatchesThreads
  <2>3. (NoLostWakeup /\ TokenDelivered /\ WaitInv /\ DetachInv)'
    BY <1>0, <1>2 DEF SleepReturns, TypeOK, NoLostWakeup, TokenDelivered, WaitInv,
                      DetachInv, object
  <2> QED BY <2>1, <2>2, <2>3 DEF IInv
<1>3. ASSUME NEW t \in Threads, Timeout(t) PROVE IInv'
  <2>1. /\ list' \in Seq(Threads) /\ IsInjective(list')
        /\ ToSet(list') = ToSet(list) \ {t}
        /\ list = << >> => list' = << >>
    <3>1. CASE \E i \in DOMAIN list : list[i] = t /\ list' = RemoveAt(list, i)
      <4>1. PICK i \in DOMAIN list : list[i] = t /\ list' = RemoveAt(list, i)
        BY <3>1
      <4>2. list # << >>
        BY <4>1, <1>l, ListElements
      <4> QED BY <4>1, <4>2, <1>l, RemoveFromList
    <3>2. CASE t \notin ToSet(list) /\ UNCHANGED list
      BY <3>2, <1>l
    <3> QED BY <3>1, <3>2, <1>3 DEF Timeout
  <2>2. TypeOK' BY <1>0, <1>3, <2>1 DEF Timeout, Resume, TypeOK, Errors, object
  <2>3. QueueMatchesThreads'
    BY <1>0, <1>3, <2>1 DEF Timeout, Resume, TypeOK, QueueMatchesThreads
  <2>4. stat[t] = "suspend" /\ t \notin handed
    BY <1>0, <1>3 DEF Timeout, QueueMatchesThreads, WaitInv
  <2>5. (NoLostWakeup /\ TokenDelivered /\ WaitInv /\ DetachInv)'
    BY <1>0, <1>3, <2>1, <2>4 DEF Timeout, Resume, TypeOK, NoLostWakeup, TokenDelivered,
                                  WaitInv, DetachInv, object
  <2> QED BY <2>2, <2>3, <2>5 DEF IInv
<1>4. ASSUME NEW t \in Threads, ChangePriority(t) PROVE IInv'
  <2>1. TypeOK' BY <1>0, <1>4 DEF ChangePriority, TypeOK, object
  <2>2. (QueueMatchesThreads /\ NoLostWakeup /\ TokenDelivered /\ WaitInv /\ DetachInv)'
    BY <1>0, <1>4 DEF ChangePriority, QueueMatchesThreads, NoLostWakeup, TokenDelivered,
                      WaitInv, DetachInv, object
  <2> QED BY <2>1, <2>2 DEF IInv
<1>5. ASSUME NEW t \in Threads, TakeNow(t) PROVE IInv'
  <2>1. TypeOK' BY <1>0, <1>5 DEF TakeNow, TypeOK, Errors
  <2>2. (QueueMatchesThreads /\ NoLostWakeup /\ TokenDelivered /\ WaitInv /\ DetachInv)'
    BY <1>0, <1>5 DEF TakeNow, TypeOK, QueueMatchesThreads, NoLostWakeup, TokenDelivered,
                      WaitInv, DetachInv
  <2> QED BY <2>1, <2>2 DEF IInv
<1>6. ASSUME NEW t \in Threads, TryTakeFails(t) PROVE IInv'
  <2>1. TypeOK' BY <1>0, <1>6 DEF TryTakeFails, TypeOK, Errors, object
  <2>2. (QueueMatchesThreads /\ NoLostWakeup /\ TokenDelivered /\ WaitInv /\ DetachInv)'
    BY <1>0, <1>6 DEF TryTakeFails, QueueMatchesThreads, NoLostWakeup, TokenDelivered,
                      WaitInv, DetachInv, object
  <2> QED BY <2>1, <2>2 DEF IInv
<1>7. ASSUME NEW t \in Threads, TakeReturns(t) PROVE IInv'
  <2>1. TypeOK' BY <1>0, <1>7 DEF TakeReturns, TypeOK, object
  <2>2. QueueMatchesThreads' BY <1>0, <1>7 DEF TakeReturns, TypeOK, QueueMatchesThreads
  <2>3. (NoLostWakeup /\ TokenDelivered /\ WaitInv /\ DetachInv)'
    BY <1>0, <1>7 DEF TakeReturns, TypeOK, NoLostWakeup, TokenDelivered, WaitInv,
                      DetachInv, object
  <2> QED BY <2>1, <2>2, <2>3 DEF IInv
<1>8. ASSUME NEW t \in Threads, NEW timed \in BOOLEAN, TakeWaits(t, timed) PROVE IInv'
  <2>0. t \notin ToSet(list) /\ t \notin handed
    BY <1>0, <1>8 DEF TakeWaits, Running, QueueMatchesThreads, WaitInv
  <2>1. /\ list' \in Seq(Threads) /\ IsInjective(list')
        /\ ToSet(list') = ToSet(list) \cup {t}
    <3>1. PICK i \in 1..Len(list)+1 : list' = InsertAt(list, i, t)
      BY <1>8 DEF TakeWaits
    <3> QED BY <3>1, <2>0, <1>l, InsertIntoList
  <2>2. TypeOK' BY <1>0, <1>8, <2>1 DEF TakeWaits, Suspend, TypeOK, Errors, object
  <2>3. QueueMatchesThreads'
    BY <1>0, <1>8, <2>1 DEF TakeWaits, Suspend, TypeOK, QueueMatchesThreads
  <2>4. (NoLostWakeup /\ TokenDelivered /\ WaitInv)'
    BY <1>0, <1>8, <2>0 DEF TakeWaits, Suspend, Running, TypeOK, NoLostWakeup,
                            TokenDelivered, WaitInv, object
  <2>5. DetachInv'
    BY <1>8 DEF TakeWaits, Usable, DetachInv, object
  <2> QED BY <2>2, <2>3, <2>4, <2>5 DEF IInv
<1>9. CASE Release
  <2>1. CASE list # << >> /\ list' = Tail(list)
    <3> DEFINE u == Head(list)
    <3>1. /\ u \in Threads /\ u \in ToSet(list)
          /\ list' \in Seq(Threads) /\ IsInjective(list')
          /\ ToSet(list') = ToSet(list) \ {u}
      BY <1>h, <2>1
    <3>2. /\ stat' = [stat EXCEPT ![u] = "ready"] /\ timer' = timer \ {u}
          /\ handed' = handed \cup {u}
          /\ UNCHANGED <<phase, flag, value, pc, error, prio, result>>
      BY <1>9, <2>1 DEF Release, Resume
    <3>3. pc[u] = "take" /\ stat[u] = "suspend" /\ error[u] = "EOK"
      BY <1>0, <3>1 DEF QueueMatchesThreads, WaitInv
    <3> HIDE DEF u
    <3>4. TypeOK' BY <1>0, <3>1, <3>2 DEF TypeOK
    <3>5. QueueMatchesThreads'
      BY <1>0, <3>1, <3>2, <3>3 DEF TypeOK, QueueMatchesThreads
    <3>6. (TokenDelivered /\ WaitInv)'
      BY <1>0, <3>1, <3>2, <3>3 DEF TypeOK, TokenDelivered, WaitInv
    <3>7. (NoLostWakeup /\ DetachInv)'
      BY <1>0, <2>1, <3>2 DEF NoLostWakeup, DetachInv
    <3> QED BY <3>4, <3>5, <3>6, <3>7 DEF IInv
  <2>2. CASE list = << >> /\ UNCHANGED <<list, stat, timer, handed>>
    <3>1. value' \in 0..SemMax
      BY <1>0, <1>9, <2>2 DEF Release, TypeOK
    <3>2. UNCHANGED <<phase, flag, pc, error, prio, result>>
      BY <1>9 DEF Release
    <3>3. TypeOK' BY <1>0, <2>2, <3>1, <3>2 DEF TypeOK
    <3>4. (QueueMatchesThreads /\ NoLostWakeup /\ TokenDelivered /\ WaitInv /\ DetachInv)'
      BY <1>0, <2>2, <3>2 DEF QueueMatchesThreads, NoLostWakeup, TokenDelivered, WaitInv,
                              DetachInv
    <3> QED BY <3>3, <3>4 DEF IInv
  <2> QED BY <1>9, <2>1, <2>2 DEF Release
<1>10. CASE Reset
  <2>1. TypeOK' BY <1>0, <1>10, <1>e DEF Reset, TypeOK, Errors
  <2>2. QueueMatchesThreads'
    BY <1>0, <1>10, <1>e DEF Reset, TypeOK, QueueMatchesThreads
  <2>3. \A t \in ToSet(list) : t \notin handed
    BY <1>0, <1>l, ListElements DEF QueueMatchesThreads, WaitInv
  <2>4. TokenDelivered'
    BY <1>0, <1>10, <2>3 DEF Reset, TypeOK, TokenDelivered, QueueMatchesThreads
  <2>5. (NoLostWakeup /\ WaitInv /\ DetachInv)'
    BY <1>0, <1>10, <2>3 DEF Reset, TypeOK, NoLostWakeup, WaitInv, DetachInv
  <2> QED BY <2>1, <2>2, <2>4, <2>5 DEF IInv
<1>11. CASE DetachStarts
  <2>1. TypeOK' BY <1>0, <1>11 DEF DetachStarts, TypeOK
  <2>2. (QueueMatchesThreads /\ NoLostWakeup /\ TokenDelivered /\ WaitInv /\ DetachInv)'
    BY <1>0, <1>11 DEF DetachStarts, QueueMatchesThreads, NoLostWakeup, TokenDelivered,
                       WaitInv, DetachInv
  <2> QED BY <2>1, <2>2 DEF IInv
<1>12. CASE DetachWakes
  <2>1. CASE list # << >> /\ list' = Tail(list) /\ phase' = "detach"
    <3> DEFINE u == Head(list)
    <3>1. /\ u \in Threads /\ u \in ToSet(list)
          /\ list' \in Seq(Threads) /\ IsInjective(list')
          /\ ToSet(list') = ToSet(list) \ {u}
      BY <1>h, <2>1
    <3>2. /\ stat' = [stat EXCEPT ![u] = "ready"] /\ timer' = timer \ {u}
          /\ error' = [error EXCEPT ![u] = "ERROR"]
          /\ UNCHANGED <<flag, value, pc, prio, result, handed>>
      BY <1>12, <2>1 DEF DetachWakes, Resume
    <3>3. pc[u] = "take" /\ stat[u] = "suspend" /\ u \notin handed
      BY <1>0, <3>1 DEF QueueMatchesThreads, WaitInv
    <3>p. phase' = "detach"
      BY <2>1
    <3> HIDE DEF u
    <3>4. TypeOK' BY <1>0, <3>1, <3>2, <3>p DEF TypeOK, Errors
    <3>5. QueueMatchesThreads'
      BY <1>0, <3>1, <3>2, <3>3 DEF TypeOK, QueueMatchesThreads
    <3>6. (TokenDelivered /\ WaitInv)'
      BY <1>0, <3>1, <3>2, <3>3 DEF TypeOK, TokenDelivered, WaitInv
    <3>7. (NoLostWakeup /\ DetachInv)'
      BY <1>0, <2>1, <3>2, <3>p DEF NoLostWakeup, DetachInv
    <3> QED BY <3>4, <3>5, <3>6, <3>7 DEF IInv
  <2>2. CASE list = << >> /\ phase' = "halt" /\ UNCHANGED <<list, stat, timer, error>>
    <3>1. UNCHANGED <<flag, value, pc, prio, result, handed>>
      BY <1>12 DEF DetachWakes
    <3>2. TypeOK' BY <1>0, <2>2, <3>1 DEF TypeOK
    <3>3. (QueueMatchesThreads /\ NoLostWakeup /\ TokenDelivered /\ WaitInv /\ DetachInv)'
      BY <1>0, <2>2, <3>1 DEF QueueMatchesThreads, NoLostWakeup, TokenDelivered, WaitInv,
                              DetachInv
    <3> QED BY <3>2, <3>3 DEF IInv
  <2> QED BY <1>12, <2>1, <2>2 DEF DetachWakes
<1>13. CASE DetachEnds
  <2>1. TypeOK' BY <1>0, <1>13 DEF DetachEnds, TypeOK
  <2>2. (QueueMatchesThreads /\ NoLostWakeup /\ TokenDelivered /\ WaitInv /\ DetachInv)'
    BY <1>0, <1>13 DEF DetachEnds, QueueMatchesThreads, NoLostWakeup, TokenDelivered,
                       WaitInv, DetachInv
  <2> QED BY <2>1, <2>2 DEF IInv
<1>14. CASE Create
  <2>1. list = << >>
    BY <1>0, <1>14 DEF Create, DetachInv
  <2>2. TypeOK' BY <1>0, <1>14, <1>e DEF Create, TypeOK
  <2>3. (QueueMatchesThreads /\ NoLostWakeup /\ TokenDelivered /\ WaitInv /\ DetachInv)'
    BY <1>0, <1>14, <2>1 DEF Create, QueueMatchesThreads, NoLostWakeup, TokenDelivered,
                             WaitInv, DetachInv
  <2> QED BY <2>2, <2>3 DEF IInv
<1>15. CASE DetachLooks
  <2>1. TypeOK' BY <1>0, <1>15 DEF DetachLooks, TypeOK
  <2>2. (QueueMatchesThreads /\ NoLostWakeup /\ TokenDelivered /\ WaitInv /\ DetachInv)'
    BY <1>0, <1>15 DEF DetachLooks, QueueMatchesThreads, NoLostWakeup, TokenDelivered,
                       WaitInv, DetachInv
  <2> QED BY <2>1, <2>2 DEF IInv
<1>16. CASE UNCHANGED vars
  <2>1. TypeOK' BY <1>0, <1>16 DEF vars, object, TypeOK
  <2>2. (QueueMatchesThreads /\ NoLostWakeup /\ TokenDelivered /\ WaitInv /\ DetachInv)'
    BY <1>0, <1>16 DEF vars, object, QueueMatchesThreads, NoLostWakeup, TokenDelivered,
                       WaitInv, DetachInv
  <2> QED BY <2>1, <2>2 DEF IInv
<1> QED BY <1>1, <1>2, <1>3, <1>4, <1>5, <1>6, <1>7, <1>8, <1>9, <1>10, <1>11, <1>12,
           <1>13, <1>14, <1>15, <1>16 DEF Next, ThreadNext

-----------------------------------------------------------------------------
(* The invariant holds in every reachable state.                           *)
LEMMA Invariance == Spec => []IInv
<1>1. Init => IInv
  BY InitIInv
<1>2. IInv /\ [Next]_vars => IInv'
  BY StepIInv
<1> QED BY <1>1, <1>2, PTL DEF Spec

(* The state of the semaphore and of its threads keeps its types.          *)
THEOREM TypeCorrect == Spec => []TypeOK
<1>1. IInv => TypeOK
  BY DEF IInv
<1> QED BY <1>1, Invariance, PTL

(* The suspend list is exactly the suspended takers, each once, and no     *)
(* timer runs for a thread that is not suspended.                          *)
THEOREM QueueIsExact == Spec => []QueueMatchesThreads
<1>1. IInv => QueueMatchesThreads
  BY DEF IInv
<1> QED BY <1>1, Invariance, PTL

(* Nobody waits on a semaphore that has a count.                           *)
THEOREM WakeupsKept == Spec => []NoLostWakeup
<1>1. IInv => NoLostWakeup
  BY DEF IInv
<1> QED BY <1>1, Invariance, PTL

(* A take that waited returns RT_EOK exactly when a release woke it.       *)
THEOREM TokensDelivered == Spec => []TokenDelivered
<1>1. IInv => TokenDelivered
  BY DEF IInv
<1> QED BY <1>1, Invariance, PTL

-----------------------------------------------------------------------------
(* A release, and only a release, hands a token over, and to the head of   *)
(* the list.                                                               *)
LEMMA OnlyHeadServed ==
    ASSUME IInv, [Next]_vars, NEW t \in handed' \ handed
    PROVE  list # << >> /\ t = Head(list) /\ list' = Tail(list)
<1>1. CASE Release
  BY <1>1 DEF Release
<1>2. CASE UNCHANGED vars
  BY <1>2 DEF vars
<1>3. CASE Reset \/ DetachStarts \/ DetachLooks \/ DetachWakes \/ DetachEnds \/ Create
  BY <1>3 DEF Reset, DetachStarts, DetachLooks, DetachWakes, DetachEnds, Create
<1>4. ASSUME NEW u \in Threads, ThreadNext(u) PROVE FALSE
  BY <1>4 DEF ThreadNext, Sleep, SleepReturns, Timeout, ChangePriority, TakeNow,
              TryTakeFails, TakeReturns, TakeWaits
<1> QED BY <1>1, <1>2, <1>3, <1>4 DEF Next

(* A thread that comes to a FIFO semaphore goes to the end of its list.    *)
LEMMA FifoAppends ==
    ASSUME IInv, NEW e \in Threads, NEW timed \in BOOLEAN, TakeWaits(e, timed),
           flag = "FIFO"
    PROVE  list' = InsertAt(list, Len(list) + 1, e) /\ e \notin ToSet(list)
<1>1. list' = InsertAt(list, Len(list) + 1, e)
  BY DEF TakeWaits, Place
<1>2. e \notin ToSet(list)
  BY DEF IInv, QueueMatchesThreads, TakeWaits, Running
<1> QED BY <1>1, <1>2

(* No step lets a thread pass one that goes on waiting on a FIFO list.     *)
LEMMA OrderKept ==
    ASSUME IInv, [Next]_vars, flag = "FIFO",
           NEW t \in ToSet(list) \cap ToSet(list'), NEW u \in Threads, Ahead(u, t)'
    PROVE  Ahead(u, t)
<1>0. list \in Seq(Threads) /\ IsInjective(list)
  BY DEF IInv, TypeOK, QueueMatchesThreads
<1>1. Before(list', u, t)
  BY DEF Ahead, Before
<1>2. SUFFICES Before(list, u, t)
  BY DEF Ahead, Before
<1>3. CASE UNCHANGED list
  BY <1>1, <1>3
<1>4. CASE list # << >> /\ list' = Tail(list)
  BY <1>0, <1>1, <1>4, TailKeepsOrder
<1>5. CASE list' = << >>
  BY <1>5, EmptyList
<1>6. CASE \E k \in DOMAIN list : list' = RemoveAt(list, k)
  BY <1>0, <1>1, <1>6, RemovalKeepsOrder
<1>7. ASSUME NEW e \in Threads, NEW timed \in BOOLEAN, TakeWaits(e, timed)
      PROVE  Before(list, u, t)
  <2>1. list' = InsertAt(list, Len(list) + 1, e) /\ e \notin ToSet(list)
    BY <1>7, FifoAppends
  <2> QED BY <1>0, <1>1, <2>1, AppendKeepsOrder
<1>8. CASE UNCHANGED vars
  BY <1>3, <1>8 DEF vars
<1>9. CASE \/ Release \/ Reset \/ Create
         \/ DetachStarts \/ DetachLooks \/ DetachWakes \/ DetachEnds
  BY <1>3, <1>4, <1>5, <1>9 DEF Release, Reset, Create,
                                DetachStarts, DetachLooks, DetachWakes, DetachEnds
<1>10. ASSUME NEW e \in Threads, ThreadNext(e) PROVE Before(list, u, t)
  <2>1. CASE Timeout(e)
    BY <1>3, <1>6, <2>1 DEF Timeout
  <2>2. CASE \E timed \in BOOLEAN : TakeWaits(e, timed)
    BY <1>7, <2>2
  <2>3. CASE \/ Sleep(e) \/ SleepReturns(e) \/ ChangePriority(e) \/ TakeNow(e)
            \/ TryTakeFails(e) \/ TakeReturns(e)
    BY <1>3, <2>3 DEF Sleep, SleepReturns, ChangePriority, TakeNow, TryTakeFails,
                      TakeReturns
  <2> QED BY <1>10, <2>1, <2>2, <2>3 DEF ThreadNext
<1> QED BY <1>8, <1>9, <1>10 DEF Next

(* Threads on a FIFO semaphore are served in the order of their takes.     *)
THEOREM ServedInOrder == Spec => NoOvertaking
<1> DEFINE Fair == flag = "FIFO" =>
                      \A t \in ToSet(list) \cap ToSet(list'), u \in Threads :
                          ~Ahead(u, t) => ~Ahead(u, t)' /\ u \notin handed' \ handed
<1>1. ASSUME IInv, [Next]_vars PROVE Fair
  <2> SUFFICES ASSUME flag = "FIFO", NEW t \in ToSet(list) \cap ToSet(list'),
                      NEW u \in Threads, ~Ahead(u, t)
               PROVE  ~Ahead(u, t)' /\ u \notin handed' \ handed
    OBVIOUS
  <2>1. ~Ahead(u, t)'
    BY <1>1, OrderKept
  <2>2. ASSUME u \in handed' \ handed PROVE FALSE
    <3>1. list # << >> /\ u = Head(list) /\ list' = Tail(list)
      BY <1>1, <2>2, OnlyHeadServed
    <3>2. list \in Seq(Threads) /\ IsInjective(list)
      BY <1>1 DEF IInv, TypeOK, QueueMatchesThreads
    <3>3. /\ Head(list) = list[1] /\ t # Head(list)
          /\ Len(list) \in Nat /\ DOMAIN list = 1..Len(list)
          /\ ToSet(list) = {list[i] : i \in 1..Len(list)}
      BY <3>1, <3>2, TailOfList, ListElements
    <3>4. PICK j \in 1..Len(list) : list[j] = t
      BY <3>3
    <3>5. 1 \in DOMAIN list /\ j \in DOMAIN list /\ 1 < j
      BY <3>3, <3>4
    <3> QED BY <3>1, <3>3, <3>4, <3>5 DEF Ahead
  <2> QED BY <2>1, <2>2
<1>2. IInv /\ [Next]_vars => [Fair]_vars
  BY <1>1
<1>3. Spec => []IInv
  BY Invariance
<1> QED BY <1>2, <1>3, PTL DEF Spec, NoOvertaking

-----------------------------------------------------------------------------
(* A new semaphore is a new counter.                                       *)
LEMMA RefineInit == Init => Abstract!Init
BY DEF Init, Abstract!Init, Outcome

(* Every step of the code is a step of the counting semaphore, or none.    *)
LEMMA RefineNext ==
    ASSUME IInv, IInv', [Next]_vars
    PROVE  [Abstract!Next]_(Abstract!vars)
<1> USE SemAssumption DEF Abstract!vars
<1>0. /\ pc \in [Threads -> {"run", "take", "sleep"}]
      /\ stat \in [Threads -> {"ready", "suspend"}]
      /\ error \in [Threads -> Errors] /\ result \in [Threads -> Errors \cup {"none"}]
      /\ value \in 0..SemMax /\ list \in Seq(Threads)
      /\ \A t \in Threads : t \in ToSet(list) <=> pc[t] = "take" /\ stat[t] = "suspend"
      /\ \A t \in Threads : pc[t] = "take" /\ stat[t] = "suspend" => error[t] = "EOK"
  BY DEF IInv, TypeOK, QueueMatchesThreads, WaitInv
<1>t. \A t \in timer : t \in Threads /\ stat[t] = "suspend"
  BY DEF IInv, TypeOK, QueueMatchesThreads
<1>w. \A t \in Threads : Outcome[t] = "waiting" <=> t \in ToSet(list)
  BY <1>0 DEF Outcome, Errors
<1>h. list # << >> => Head(list) \in Threads /\ Head(list) \in ToSet(list)
  BY TailOfList, ListElements DEF IInv, TypeOK, QueueMatchesThreads
<1>e. list = << >> => \A t \in Threads : Outcome[t] # "waiting"
  BY <1>w, EmptyList
<1>1. ASSUME NEW t \in Threads, Sleep(t) \/ SleepReturns(t) \/ ChangePriority(t)
                                \/ TakeReturns(t)
      PROVE  UNCHANGED <<value, Outcome>>
  BY <1>0, <1>1 DEF Sleep, SleepReturns, ChangePriority, TakeReturns, Suspend, Running,
                    Outcome, object
<1>2. ASSUME NEW t \in Threads, TakeNow(t) PROVE Abstract!Take(t)
  BY <1>0, <1>2, <1>w DEF TakeNow, Running, Outcome, Abstract!Take, Abstract!Waiting,
                          Abstract!Ends
<1>3. ASSUME NEW t \in Threads, TryTakeFails(t) PROVE Abstract!Refuse(t)
  BY <1>0, <1>3, <1>w DEF TryTakeFails, Running, Outcome, object, Abstract!Refuse,
                          Abstract!Waiting, Abstract!Ends
<1>4. ASSUME NEW t \in Threads, NEW timed \in BOOLEAN, TakeWaits(t, timed)
      PROVE  Abstract!Wait(t)
  BY <1>0, <1>4, <1>w DEF TakeWaits, Suspend, Running, Outcome, object, Abstract!Wait,
                          Abstract!Waiting, Abstract!Ends
<1>5. ASSUME NEW t \in Threads, Timeout(t)
      PROVE  Abstract!Expire(t) \/ UNCHANGED <<value, Outcome>>
  <2>1. CASE pc[t] = "take"
    BY <1>0, <1>5, <1>t, <2>1 DEF Timeout, Resume, Outcome, object, Abstract!Expire,
                                  Abstract!Waiting, Abstract!Ends
  <2>2. CASE pc[t] # "take"
    BY <1>0, <1>5, <2>2 DEF Timeout, Resume, Outcome, object
  <2> QED BY <2>1, <2>2
<1>6. CASE Release
  <2>1. CASE list # << >>
    <3> DEFINE u == Head(list)
    <3>1. u \in Threads /\ u \in ToSet(list)
      BY <1>h, <2>1
    <3>2. stat' = [stat EXCEPT ![u] = "ready"] /\ UNCHANGED <<value, pc, error, result>>
      BY <1>6, <2>1 DEF Release, Resume
    <3> HIDE DEF u
    <3>3. Abstract!Serve(u)
      BY <1>0, <3>1, <3>2 DEF Outcome, Abstract!Serve, Abstract!Waiting, Abstract!Ends
    <3> QED BY <3>1, <3>3 DEF Abstract!Next
  <2>2. CASE list = << >>
    <3>1. /\ value < SemMax /\ value' = value + 1
          /\ UNCHANGED <<pc, stat, error, result>>
      BY <1>6, <2>2 DEF Release
    <3>2. Abstract!Increase
      BY <1>e, <2>2, <3>1 DEF Outcome, Abstract!Increase, Abstract!Waiting
    <3> QED BY <3>2 DEF Abstract!Next
  <2> QED BY <2>1, <2>2
<1>7. CASE Reset
  <2>1. value' \in 0..SemMax
    BY <1>7 DEF Reset
  <2>2. Outcome' = [t \in Threads |-> IF Outcome[t] = "waiting" THEN "ERROR" ELSE Outcome[t]]
    BY <1>0, <1>7, <1>w DEF Reset, Outcome
  <2> QED BY <2>1, <2>2 DEF Abstract!Next, Abstract!Reset, Abstract!Waiting
<1>8. CASE DetachWakes
  <2>1. CASE list # << >>
    <3> DEFINE u == Head(list)
    <3>1. u \in Threads /\ u \in ToSet(list)
      BY <1>h, <2>1
    <3>2. /\ stat' = [stat EXCEPT ![u] = "ready"] /\ error' = [error EXCEPT ![u] = "ERROR"]
          /\ UNCHANGED <<value, pc, result>>
      BY <1>8, <2>1 DEF DetachWakes, Resume
    <3> HIDE DEF u
    <3>3. Abstract!Cancel(u)
      BY <1>0, <3>1, <3>2 DEF Outcome, Abstract!Cancel, Abstract!Waiting, Abstract!Ends
    <3> QED BY <3>1, <3>3 DEF Abstract!Next
  <2>2. CASE list = << >>
    <3>1. UNCHANGED <<value, Outcome>>
      BY <1>8, <2>2 DEF DetachWakes, Outcome
    <3> QED BY <3>1
  <2> QED BY <2>1, <2>2
<1>9. CASE Create
  <2>1. list = << >> /\ value' \in 0..SemMax /\ UNCHANGED Outcome
    BY <1>9 DEF Create, IInv, DetachInv, Outcome
  <2>2. Outcome = [t \in Threads |-> IF Outcome[t] = "waiting" THEN "ERROR" ELSE Outcome[t]]
    BY <1>e, <2>1 DEF Outcome
  <2> QED BY <2>1, <2>2 DEF Abstract!Next, Abstract!Reset, Abstract!Waiting
<1>10. CASE DetachStarts \/ DetachLooks \/ DetachEnds \/ UNCHANGED vars
  BY <1>10 DEF DetachStarts, DetachLooks, DetachEnds, vars, object, Outcome
<1>11. ASSUME NEW t \in Threads, ThreadNext(t) PROVE [Abstract!Next]_(Abstract!vars)
  BY <1>1, <1>2, <1>3, <1>4, <1>5, <1>11 DEF ThreadNext, Abstract!Next
<1> QED BY <1>6, <1>7, <1>8, <1>9, <1>10, <1>11 DEF Next

(* The semaphore of ipc.c implements the counting semaphore its comments   *)
(* describe.                                                               *)
THEOREM Refinement == Spec => IsCountingSem
<1>1. Init => Abstract!Init
  BY RefineInit
<1>2. IInv /\ IInv' /\ [Next]_vars => [Abstract!Next]_(Abstract!vars)
  BY RefineNext
<1>3. Spec => []IInv
  BY Invariance
<1> QED BY <1>1, <1>2, <1>3, PTL DEF Spec, IsCountingSem, Abstract!Spec
=============================================================================
