------------------------- MODULE KernelMutexProofs --------------------------
(***************************************************************************)
(* Proofs about KernelMutex for any number of threads and mutexes and any  *)
(* limit of the hold: callers, kernel and suspend lists agree on who is    *)
(* inside of which mutex.                                                  *)
(***************************************************************************)
EXTENDS KernelMutex, SuspendListLemmas

(* A mutex is free, with nobody on its list, or its owner has a priority   *)
(* to go back to; its list holds a thread once.                            *)
MutexOK(m) ==
    /\ IsInjective(list[m])
    /\ \/ owner[m] = NoThread /\ value[m] = 1 /\ hold[m] = 0 /\ list[m] = << >>
       \/ owner[m] # NoThread /\ value[m] = 0 /\ hold[m] > 0 /\ orig[m] \in Prios

(* A thread waits for one mutex at a time, has no error before its wait    *)
(* ends, and no timer after it.                                            *)
ThreadOK(t) ==
    /\ inside[t] = {} \/ \E m \in Mutexes : inside[t] = {m}
    /\ inside[t] = {} => stat[t] = "ready"
    /\ stat[t] = "suspend" => error[t] = "EOK"
    /\ t \in timer => stat[t] = "suspend"

(* What t and m know of each other.  A thread is on the list of the mutex  *)
(* it waits for; back from the wait without an error, it is the owner with *)
(* one hold.                                                               *)
PairOK(t, m) ==
    /\ mine[t][m] = IF owner[m] = t /\ m \notin inside[t] THEN hold[m] ELSE 0
    /\ m \in inside[t] =>
          /\ stat[t] = "suspend" <=> t \in ToSet(list[m])
          /\ stat[t] = "suspend" => owner[m] # t
          /\ stat[t] = "ready" => (error[t] = "EOK" <=> owner[m] = t)
          /\ owner[m] = t => hold[m] = 1
    /\ t \in ToSet(list[m]) => m \in inside[t]

IInv ==
    /\ TypeOK
    /\ \A m \in Mutexes : MutexOK(m)
    /\ \A t \in Threads : ThreadOK(t)
    /\ \A t \in Threads, m \in Mutexes : PairOK(t, m)

-----------------------------------------------------------------------------
(* The invariant says who is inside.                                       *)
LEMMA InvOwnership == IInv => Ownership
<1> SUFFICES ASSUME IInv PROVE Ownership OBVIOUS
<1>1. Exclusive
  BY DEF IInv, PairOK, Exclusive
<1>2. HandedOver
  <2> SUFFICES ASSUME NEW t \in Threads, NEW m \in inside[t]
      PROVE  /\ stat[t] = "suspend" <=> t \in ToSet(list[m])
             /\ stat[t] = "ready" => (error[t] = "EOK" <=> owner[m] = t)
    BY DEF HandedOver
  <2>1. m \in Mutexes
    BY DEF IInv, TypeOK
  <2> QED BY <2>1 DEF IInv, PairOK
<1>3. FreeOrOwned
  <2> SUFFICES ASSUME NEW m \in Mutexes
      PROVE  \/ owner[m] = NoThread /\ value[m] = 1 /\ hold[m] = 0 /\ list[m] = << >>
             \/ owner[m] # NoThread /\ value[m] = 0 /\ hold[m] > 0
                  /\ owner[m] \notin ToSet(list[m])
    BY DEF FreeOrOwned
  <2>1. MutexOK(m) /\ owner[m] \in Threads \cup {NoThread}
    BY DEF IInv, TypeOK
  <2>2. ASSUME NEW t \in Threads, t \in ToSet(list[m]) PROVE owner[m] # t
    <3>1. PairOK(t, m) /\ ThreadOK(t) /\ stat[t] \in {"ready", "suspend"}
      BY DEF IInv, TypeOK
    <3> QED BY <2>2, <3>1 DEF PairOK
  <2> QED BY <2>1, <2>2 DEF MutexOK
<1> QED BY <1>1, <1>2, <1>3 DEF Ownership

(* Every mutex starts free, with nobody on its list.                       *)
LEMMA InitIInv == Init => IInv
<1> SUFFICES ASSUME Init PROVE IInv OBVIOUS
<1> USE MutexAssumption
<1>1. << >> \in Seq(Threads) /\ ToSet(<< >>) = {} /\ IsInjective(<< >>)
  BY EmptyList
<1>2. TypeOK
  BY <1>1 DEF Init, TypeOK
<1>3. ASSUME NEW m \in Mutexes PROVE MutexOK(m)
  BY <1>1 DEF Init, MutexOK
<1>4. ASSUME NEW t \in Threads PROVE ThreadOK(t)
  BY DEF Init, ThreadOK
<1>5. ASSUME NEW t \in Threads, NEW m \in Mutexes PROVE PairOK(t, m)
  <2>1. /\ mine[t][m] = 0 /\ owner[m] = NoThread /\ t # NoThread
        /\ inside[t] = {} /\ ToSet(list[m]) = {}
    BY <1>1 DEF Init
  <2> QED BY <2>1 DEF PairOK
<1> QED BY <1>2, <1>3, <1>4, <1>5 DEF IInv

-----------------------------------------------------------------------------
(* The types, one field at a time.                                         *)
LEMMA Types ==
    ASSUME TypeOK, NEW t \in Threads, NEW m \in Mutexes
    PROVE  /\ owner[m] \in Threads \cup {NoThread} /\ hold[m] \in 0..HoldMax
           /\ value[m] \in 0..1 /\ orig[m] \in Prios \cup {NoPrio}
           /\ list[m] \in Seq(Threads) /\ inside[t] \subseteq Mutexes
           /\ stat[t] \in {"ready", "suspend"}
           /\ error[t] \in {"EOK", "ETIMEOUT", "ERROR"} /\ prio[t] \in Prios
           /\ mine[t][m] \in 0..HoldMax
BY DEF TypeOK

(* A step of t on m that leaves the list and the waits alone, and t not    *)
(* waiting, only has to keep m itself and what t counts in step.           *)
LEMMA LocalStep ==
    ASSUME IInv, TypeOK', NEW t \in Threads, NEW m \in Mutexes, Running(t),
           UNCHANGED <<list, inside, stat, timer>>,
           \A u \in Threads \ {t} : error'[u] = error[u],
           \A n \in Mutexes \ {m} :
               /\ owner'[n] = owner[n] /\ value'[n] = value[n] /\ hold'[n] = hold[n]
               /\ orig'[n] = orig[n],
           \A u \in Threads, n \in Mutexes : u # t \/ n # m => mine'[u][n] = mine[u][n],
           MutexOK(m)',
           mine'[t][m] = IF owner'[m] = t THEN hold'[m] ELSE 0,
           \A u \in Threads \ {t} :
               /\ owner'[m] = u <=> owner[m] = u
               /\ owner[m] = u => hold'[m] = hold[m]
    PROVE  IInv'
<1> USE DEF Running
<1>1. ASSUME NEW n \in Mutexes PROVE MutexOK(n)'
  <2>1. CASE n = m
    BY <2>1
  <2>2. CASE n # m
    <3>1. MutexOK(n)
      BY DEF IInv
    <3> QED BY <2>2, <3>1 DEF MutexOK
  <2> QED BY <2>1, <2>2
<1>2. ASSUME NEW u \in Threads PROVE ThreadOK(u)'
  <2>1. ThreadOK(u)
    BY DEF IInv
  <2> QED BY <2>1 DEF ThreadOK
<1>3. ASSUME NEW u \in Threads, NEW n \in Mutexes PROVE PairOK(u, n)'
  <2>1. PairOK(u, n)
    BY DEF IInv
  <2>2. CASE u = t /\ n = m
    BY <2>1, <2>2 DEF PairOK
  <2>3. CASE u = t /\ n # m
    BY <2>1, <2>3 DEF PairOK
  <2>4. CASE u # t /\ n = m
    BY <2>1, <2>4 DEF PairOK
  <2>5. CASE u # t /\ n # m
    BY <2>1, <2>5 DEF PairOK
  <2> QED BY <2>2, <2>3, <2>4, <2>5
<1> QED BY <1>1, <1>2, <1>3 DEF IInv

(* A hold more, or -RT_EFULL.                                              *)
LEMMA TakeAgainKeeps ==
    ASSUME IInv, NEW t \in Threads, NEW m \in Mutexes, TakeAgain(t, m) PROVE IInv'
<1> USE MutexAssumption
<1>0. TypeOK /\ MutexOK(m) /\ PairOK(t, m)
  BY DEF IInv
<1>1. mine[t][m] = hold[m] /\ hold[m] > 0 /\ t # NoThread
  BY <1>0 DEF PairOK, MutexOK, TakeAgain, Running
<1>2. TypeOK'
  <2>1. /\ hold' \in [Mutexes -> 0..HoldMax]
        /\ mine' \in [Threads -> [Mutexes -> 0..HoldMax]]
    <3>1. CASE hold[m] < HoldMax
      <4>1. hold[m] + 1 \in 0..HoldMax
        BY <1>0, <3>1, Types
      <4>2. /\ hold' = [hold EXCEPT ![m] = @ + 1]
            /\ mine' = [mine EXCEPT ![t][m] = @ + 1]
        BY <3>1 DEF TakeAgain
      <4>3. hold' \in [Mutexes -> 0..HoldMax]
        BY <1>0, <4>1, <4>2 DEF TypeOK
      <4>4. mine' \in [Threads -> [Mutexes -> 0..HoldMax]]
        BY <1>0, <1>1, <4>1, <4>2 DEF TypeOK
      <4> QED BY <4>3, <4>4
    <3>2. CASE hold[m] = HoldMax
      BY <1>0, <3>2 DEF TakeAgain, TypeOK
    <3> QED BY <1>0, <3>1, <3>2, Types
  <2> QED BY <1>0, <2>1 DEF TakeAgain, SetError, TypeOK
<1>3. /\ hold'[m] > 0 /\ mine'[t][m] = hold'[m]
      /\ \A n \in Mutexes \ {m} : hold'[n] = hold[n]
      /\ \A u \in Threads, n \in Mutexes : u # t \/ n # m => mine'[u][n] = mine[u][n]
      /\ \A u \in Threads \ {t} : error'[u] = error[u]
  BY <1>0, <1>1 DEF TakeAgain, SetError, TypeOK
<1>4. MutexOK(m)'
  BY <1>0, <1>1, <1>3 DEF MutexOK, TakeAgain
<1> QED BY <1>1, <1>2, <1>3, <1>4, LocalStep DEF TakeAgain

(* A free mutex gets an owner.                                             *)
LEMMA TakeFreeKeeps ==
    ASSUME IInv, NEW t \in Threads, NEW m \in Mutexes, TakeFree(t, m) PROVE IInv'
<1> USE MutexAssumption
<1>0. TypeOK /\ MutexOK(m) /\ PairOK(t, m)
  BY DEF IInv
<1>1. /\ owner[m] = NoThread /\ value[m] = 1 /\ hold[m] = 0 /\ list[m] = << >>
      /\ mine[t][m] = 0 /\ prio[t] \in Prios /\ t # NoThread
  BY <1>0, Types DEF PairOK, MutexOK, TakeFree
<1>2. TypeOK'
  BY <1>0, <1>1 DEF TakeFree, Give, SetError, TypeOK
<1>3. /\ hold'[m] = 1 /\ owner'[m] = t /\ value'[m] = 0 /\ orig'[m] \in Prios
      /\ mine'[t][m] = 1
      /\ \A n \in Mutexes \ {m} :
            /\ owner'[n] = owner[n] /\ value'[n] = value[n] /\ hold'[n] = hold[n]
            /\ orig'[n] = orig[n]
      /\ \A u \in Threads, n \in Mutexes : u # t \/ n # m => mine'[u][n] = mine[u][n]
      /\ \A u \in Threads \ {t} : error'[u] = error[u]
  BY <1>0, <1>1 DEF TakeFree, Give, SetError, TypeOK
<1>4. MutexOK(m)'
  BY <1>0, <1>1, <1>3 DEF MutexOK, TakeFree
<1> QED BY <1>1, <1>2, <1>3, <1>4, LocalStep DEF TakeFree

(* A try that fails, or a release by another thread: only an error.        *)
LEMMA RefusalKeeps ==
    ASSUME IInv, NEW t \in Threads, NEW m \in Mutexes,
           TryTakeFails(t, m) \/ ReleaseRefused(t, m)
    PROVE  IInv'
<1>0. TypeOK /\ MutexOK(m) /\ PairOK(t, m)
  BY DEF IInv
<1>1. /\ Running(t) /\ owner[m] # t
      /\ \E e \in {"ETIMEOUT", "ERROR"} : SetError(t, e)
      /\ UNCHANGED <<mutex, list, inside, stat, timer, prio, mine, multi>>
  BY DEF TryTakeFails, ReleaseRefused
<1>2. TypeOK' /\ \A u \in Threads \ {t} : error'[u] = error[u]
  BY <1>0, <1>1 DEF SetError, TypeOK, mutex
<1>3. MutexOK(m)' /\ mine[t][m] = 0
  BY <1>0, <1>1 DEF MutexOK, PairOK, mutex
<1> QED BY <1>1, <1>2, <1>3, LocalStep DEF mutex

(* A hold less.                                                            *)
LEMMA ReleaseInnerKeeps ==
    ASSUME IInv, NEW t \in Threads, NEW m \in Mutexes, ReleaseInner(t, m) PROVE IInv'
<1> USE MutexAssumption
<1>0. TypeOK /\ MutexOK(m) /\ PairOK(t, m)
  BY DEF IInv
<1>1. mine[t][m] = hold[m] /\ hold[m] > 1 /\ hold[m] \in 0..HoldMax /\ owner[m] # NoThread
  BY <1>0, Types DEF PairOK, ReleaseInner, Running
<1>2. hold[m] - 1 \in 0..HoldMax
  BY <1>1
<1>3. hold' \in [Mutexes -> 0..HoldMax] /\ mine' \in [Threads -> [Mutexes -> 0..HoldMax]]
  BY <1>0, <1>1, <1>2 DEF ReleaseInner, TypeOK
<1>4. TypeOK'
  BY <1>0, <1>3 DEF ReleaseInner, TypeOK, thread
<1>5. /\ hold'[m] > 0 /\ mine'[t][m] = hold'[m]
      /\ \A n \in Mutexes \ {m} : hold'[n] = hold[n]
      /\ \A u \in Threads, n \in Mutexes : u # t \/ n # m => mine'[u][n] = mine[u][n]
  BY <1>0, <1>1 DEF ReleaseInner, TypeOK
<1>6. MutexOK(m)'
  BY <1>0, <1>1, <1>5 DEF MutexOK, ReleaseInner
<1> QED BY <1>1, <1>4, <1>5, <1>6, LocalStep DEF ReleaseInner, thread

(* The last hold, and nobody waits.                                        *)
LEMMA ReleaseFreeKeeps ==
    ASSUME IInv, NEW t \in Threads, NEW m \in Mutexes, ReleaseFree(t, m) PROVE IInv'
<1> USE MutexAssumption
<1>0. TypeOK /\ MutexOK(m) /\ PairOK(t, m)
  BY DEF IInv
<1>1. /\ owner[m] = t /\ t # NoThread /\ value[m] = 0 /\ hold[m] = 1 /\ orig[m] \in Prios
      /\ mine[t][m] = 1
  BY <1>0 DEF PairOK, MutexOK, ReleaseFree, Running
<1>2. TypeOK'
  <2>1. mine' \in [Threads -> [Mutexes -> 0..HoldMax]]
    BY <1>0, <1>1 DEF ReleaseFree, TypeOK
  <2>2. prio' \in [Threads -> Prios]
    BY <1>0, <1>1 DEF ReleaseFree, Restore, ChangePriority, TypeOK
  <2> QED BY <1>0, <1>1, <2>1, <2>2 DEF ReleaseFree, TypeOK, thread
<1>3. /\ hold'[m] = 0 /\ owner'[m] = NoThread /\ value'[m] = 1
      /\ mine'[t][m] = 0
      /\ \A n \in Mutexes \ {m} :
            /\ owner'[n] = owner[n] /\ value'[n] = value[n] /\ hold'[n] = hold[n]
            /\ orig'[n] = orig[n]
      /\ \A u \in Threads, n \in Mutexes : u # t \/ n # m => mine'[u][n] = mine[u][n]
  BY <1>0, <1>1 DEF ReleaseFree, TypeOK
<1>4. MutexOK(m)'
  BY <1>0, <1>3 DEF MutexOK, ReleaseFree
<1> QED BY <1>1, <1>2, <1>3, <1>4, LocalStep DEF ReleaseFree, thread

(* Back from the wait: the hold counts once the caller sees RT_EOK.        *)
LEMMA TakeReturnsKeeps ==
    ASSUME IInv, NEW t \in Threads, TakeReturns(t) PROVE IInv'
<1> USE MutexAssumption
<1>0. TypeOK /\ ThreadOK(t)
  BY DEF IInv
<1>1. PICK k \in Mutexes : inside[t] = {k}
  BY <1>0 DEF ThreadOK, TakeReturns
<1>2. /\ stat[t] = "ready" /\ UNCHANGED <<mutex, list, stat, error, timer, prio, multi>>
      /\ inside'[t] = {} /\ \A u \in Threads \ {t} : inside'[u] = inside[u]
      /\ mine'[t] = [m \in Mutexes |-> IF m \in inside[t] /\ error[t] = "EOK"
                                      THEN mine[t][m] + 1 ELSE mine[t][m]]
      /\ \A u \in Threads \ {t} : mine'[u] = mine[u]
  BY <1>0 DEF TakeReturns, TypeOK
<1>3. PairOK(t, k) /\ mine[t][k] = 0
  BY <1>1 DEF IInv, PairOK
<1>4. TypeOK'
  <2>1. [m \in Mutexes |-> IF m \in inside[t] /\ error[t] = "EOK"
                           THEN mine[t][m] + 1 ELSE mine[t][m]] \in [Mutexes -> 0..HoldMax]
    BY <1>0, <1>1, <1>3 DEF TypeOK
  <2>2. mine' \in [Threads -> [Mutexes -> 0..HoldMax]]
    BY <1>0, <2>1 DEF TakeReturns, TypeOK
  <2> QED BY <1>0, <2>2 DEF TakeReturns, TypeOK, mutex
<1>5. ASSUME NEW n \in Mutexes PROVE MutexOK(n)'
  BY <1>2 DEF IInv, MutexOK, mutex
<1>6. ASSUME NEW u \in Threads PROVE ThreadOK(u)'
  <2>1. ThreadOK(u)
    BY DEF IInv
  <2> QED BY <1>2, <2>1 DEF ThreadOK
<1>7. ASSUME NEW u \in Threads, NEW n \in Mutexes PROVE PairOK(u, n)'
  <2>1. PairOK(u, n)
    BY DEF IInv
  <2>2. CASE u # t
    BY <1>2, <2>1, <2>2 DEF PairOK, mutex
  <2>3. CASE u = t /\ n = k
    BY <1>1, <1>2, <1>3, <2>3 DEF PairOK, mutex
  <2>4. CASE u = t /\ n # k
    BY <1>1, <1>2, <2>1, <2>4 DEF PairOK, mutex
  <2> QED BY <2>2, <2>3, <2>4
<1> QED BY <1>4, <1>5, <1>6, <1>7 DEF IInv

(* A thread waits: it is on the list of this mutex and of no other.        *)
LEMMA TakeWaitsKeeps ==
    ASSUME IInv, NEW t \in Threads, NEW m \in Mutexes, NEW timed \in BOOLEAN,
           TakeWaits(t, m, timed)
    PROVE  IInv'
<1> USE MutexAssumption DEF mutex
<1>0. TypeOK /\ MutexOK(m)
  BY DEF IInv
<1>1. \A n \in Mutexes : PairOK(t, n) /\ t \notin ToSet(list[n])
  BY DEF IInv, PairOK, TakeWaits, Running
<1>2. owner[m] \in Threads \ {t} /\ value[m] = 0
  BY <1>0, Types DEF MutexOK, TakeWaits
<1>3. PICK i \in 1..Len(list[m])+1 : list' = [list EXCEPT ![m] = InsertAt(@, i, t)]
  BY DEF TakeWaits
<1>4. /\ InsertAt(list[m], i, t) \in Seq(Threads) /\ IsInjective(InsertAt(list[m], i, t))
      /\ ToSet(InsertAt(list[m], i, t)) = ToSet(list[m]) \cup {t}
  BY <1>0, <1>1, InsertIntoList, Types DEF MutexOK
<1>5. /\ list'[m] = InsertAt(list[m], i, t)
      /\ \A n \in Mutexes \ {m} : list'[n] = list[n]
  BY <1>0, <1>3 DEF TypeOK
<1>6. /\ inside[t] = {} /\ inside'[t] = {m} /\ stat'[t] = "suspend" /\ error'[t] = "EOK"
      /\ \A u \in Threads \ {t} :
            /\ inside'[u] = inside[u] /\ stat'[u] = stat[u] /\ error'[u] = error[u]
            /\ u \in timer' <=> u \in timer
      /\ UNCHANGED <<mutex, mine, multi>>
  BY <1>0 DEF TakeWaits, Running, SetError, TypeOK
<1>7. TypeOK'
  <2>1. list' \in [Mutexes -> Seq(Threads)]
    BY <1>0, <1>3, <1>4 DEF TypeOK
  <2>2. prio' \in [Threads -> Prios]
    <3>1. prio \in [Threads -> Prios] /\ Inherit(t, m)
      BY <1>0 DEF TypeOK, TakeWaits
    <3>2. CASE prio[t] < prio[owner[m]]
      BY <1>2, <3>1, <3>2 DEF Inherit, ChangePriority
    <3>3. CASE ~(prio[t] < prio[owner[m]])
      BY <3>1, <3>3 DEF Inherit
    <3> QED BY <3>2, <3>3
  <2>3. inside' \in [Threads -> SUBSET Mutexes]
    BY <1>0 DEF TakeWaits, TypeOK
  <2>4. /\ stat' \in [Threads -> {"ready", "suspend"}]
        /\ error' \in [Threads -> {"EOK", "ETIMEOUT", "ERROR"}]
        /\ timer' \subseteq Threads
    BY <1>0 DEF TakeWaits, SetError, TypeOK
  <2> QED BY <1>0, <1>6, <2>1, <2>2, <2>3, <2>4 DEF TypeOK
<1>8. ASSUME NEW n \in Mutexes PROVE MutexOK(n)'
  <2>1. MutexOK(n)
    BY DEF IInv
  <2>2. CASE n = m
    BY <1>2, <1>4, <1>5, <1>6, <2>1, <2>2 DEF MutexOK
  <2>3. CASE n # m
    BY <1>5, <1>6, <2>1, <2>3 DEF MutexOK
  <2> QED BY <2>2, <2>3
<1>9. ASSUME NEW u \in Threads PROVE ThreadOK(u)'
  <2>1. ThreadOK(u)
    BY DEF IInv
  <2> QED BY <1>6, <2>1 DEF ThreadOK
<1>10. ASSUME NEW u \in Threads, NEW n \in Mutexes PROVE PairOK(u, n)'
  <2>1. PairOK(u, n)
    BY DEF IInv
  <2>2. CASE u = t /\ n = m
    BY <1>1, <1>2, <1>4, <1>5, <1>6, <2>2 DEF PairOK
  <2>3. CASE u = t /\ n # m
    BY <1>1, <1>5, <1>6, <2>3 DEF PairOK
  <2>4. CASE u # t /\ n = m
    BY <1>4, <1>5, <1>6, <2>1, <2>4 DEF PairOK
  <2>5. CASE u # t /\ n # m
    BY <1>5, <1>6, <2>1, <2>5 DEF PairOK
  <2> QED BY <2>2, <2>3, <2>4, <2>5
<1> QED BY <1>7, <1>8, <1>9, <1>10 DEF IInv

(* A timeout: off the list before the mutex can be handed over.            *)
LEMMA TimeoutKeeps ==
    ASSUME IInv, NEW t \in Threads, Timeout(t) PROVE IInv'
<1> USE MutexAssumption DEF mutex
<1>0. TypeOK /\ ThreadOK(t)
  BY DEF IInv
<1>1. PICK m \in inside[t] : \E i \in DOMAIN list[m] :
                list[m][i] = t /\ list' = [list EXCEPT ![m] = RemoveAt(@, i)]
  BY DEF Timeout
<1>2. PICK i \in DOMAIN list[m] :
                list[m][i] = t /\ list' = [list EXCEPT ![m] = RemoveAt(@, i)]
  BY <1>1
<1>3. m \in Mutexes /\ inside[t] = {m} /\ stat[t] = "suspend"
  BY <1>0 DEF TypeOK, ThreadOK, Timeout
<1>4. MutexOK(m) /\ PairOK(t, m)
  BY <1>3 DEF IInv
<1>5. /\ RemoveAt(list[m], i) \in Seq(Threads) /\ IsInjective(RemoveAt(list[m], i))
      /\ ToSet(RemoveAt(list[m], i)) = ToSet(list[m]) \ {t}
  BY <1>0, <1>2, <1>3, <1>4, RemoveFromList, Types DEF MutexOK
<1>6. /\ list'[m] = RemoveAt(list[m], i)
      /\ \A n \in Mutexes \ {m} : list'[n] = list[n]
  BY <1>0, <1>2, <1>3 DEF TypeOK
<1>7. owner[m] # NoThread
  BY <1>2, <1>4, EmptyList DEF MutexOK
<1>8. /\ stat'[t] = "ready" /\ error'[t] = "ETIMEOUT" /\ timer' = timer \ {t}
      /\ \A u \in Threads \ {t} : stat'[u] = stat[u] /\ error'[u] = error[u]
      /\ UNCHANGED <<mutex, inside, prio, mine, multi>>
  BY <1>0 DEF Timeout, Resume, SetError, TypeOK
<1>9. TypeOK'
  <2>1. list' \in [Mutexes -> Seq(Threads)]
    BY <1>0, <1>2, <1>3, <1>5 DEF TypeOK
  <2>2. /\ stat' \in [Threads -> {"ready", "suspend"}]
        /\ error' \in [Threads -> {"EOK", "ETIMEOUT", "ERROR"}]
    BY <1>0 DEF Timeout, Resume, SetError, TypeOK
  <2> QED BY <1>0, <1>8, <2>1, <2>2 DEF TypeOK
<1>10. ASSUME NEW n \in Mutexes PROVE MutexOK(n)'
  <2>1. MutexOK(n)
    BY DEF IInv
  <2>2. CASE n = m
    BY <1>4, <1>5, <1>6, <1>7, <1>8, <2>2 DEF MutexOK
  <2>3. CASE n # m
    BY <1>6, <1>8, <2>1, <2>3 DEF MutexOK
  <2> QED BY <2>2, <2>3
<1>11. ASSUME NEW u \in Threads PROVE ThreadOK(u)'
  <2>1. ThreadOK(u)
    BY DEF IInv
  <2> QED BY <1>3, <1>8, <2>1 DEF ThreadOK
<1>12. ASSUME NEW u \in Threads, NEW n \in Mutexes PROVE PairOK(u, n)'
  <2>1. PairOK(u, n)
    BY DEF IInv
  <2>2. CASE u = t /\ n = m
    BY <1>3, <1>4, <1>5, <1>6, <1>8, <2>2 DEF PairOK
  <2>3. CASE u = t /\ n # m
    BY <1>3, <1>6, <1>8, <2>1, <2>3 DEF PairOK
  <2>4. CASE u # t /\ n = m
    BY <1>5, <1>6, <1>8, <2>1, <2>4 DEF PairOK
  <2>5. CASE u # t /\ n # m
    BY <1>6, <1>8, <2>1, <2>5 DEF PairOK
  <2> QED BY <2>2, <2>3, <2>4, <2>5
<1> QED BY <1>9, <1>10, <1>11, <1>12 DEF IInv

(* A hand-over: the head of the list is the owner, with one hold, before   *)
(* it runs.                                                                *)
LEMMA ReleaseToKeeps ==
    ASSUME IInv, NEW t \in Threads, NEW m \in Mutexes, ReleaseTo(t, m) PROVE IInv'
<1> USE MutexAssumption
<1> DEFINE h == Head(list[m])
<1>0. TypeOK /\ MutexOK(m) /\ PairOK(t, m)
  BY DEF IInv
<1>1. /\ Tail(list[m]) \in Seq(Threads) /\ IsInjective(Tail(list[m]))
      /\ ToSet(Tail(list[m])) = ToSet(list[m]) \ {h}
      /\ h \in ToSet(list[m]) /\ h \in Threads
  <2>1. list[m] \in Seq(Threads) /\ IsInjective(list[m]) /\ list[m] # << >>
    BY <1>0, Types DEF MutexOK, ReleaseTo
  <2> QED BY <2>1, TailOfList, ListElements
<1> HIDE DEF h
<1>2. PairOK(h, m) /\ ThreadOK(h) /\ stat[h] \in {"ready", "suspend"} /\ prio[h] \in Prios
  BY <1>0, <1>1, Types DEF IInv
<1>3. /\ h # t /\ h # NoThread /\ inside[h] = {m} /\ stat[h] = "suspend" /\ error[h] = "EOK"
      /\ mine[h][m] = 0
  BY <1>1, <1>2 DEF PairOK, ThreadOK, ReleaseTo, Running
<1>4. /\ owner[m] = t /\ t # NoThread /\ value[m] = 0 /\ hold[m] = 1 /\ orig[m] \in Prios
      /\ inside[t] = {} /\ mine[t][m] = 1
  BY <1>0 DEF PairOK, MutexOK, ReleaseTo, Running
<1>5. /\ owner' = [owner EXCEPT ![m] = h] /\ orig' = [orig EXCEPT ![m] = prio[h]]
      /\ list' = [list EXCEPT ![m] = Tail(@)] /\ stat' = [stat EXCEPT ![h] = "ready"]
      /\ mine' = [mine EXCEPT ![t][m] = @ - 1] /\ timer' = timer \ {h}
      /\ multi' \subseteq multi \cup {h} /\ prio' = [prio EXCEPT ![t] = orig[m]]
      /\ UNCHANGED <<hold, value, inside, error>>
  BY DEF ReleaseTo, Give, Resume, Restore, ChangePriority, h
<1>6. TypeOK'
  <2>1. list' \in [Mutexes -> Seq(Threads)] /\ mine' \in [Threads -> [Mutexes -> 0..HoldMax]]
    BY <1>0, <1>1, <1>4, <1>5 DEF TypeOK
  <2>2. /\ owner' \in [Mutexes -> Threads \cup {NoThread}]
        /\ orig' \in [Mutexes -> Prios \cup {NoPrio}]
        /\ stat' \in [Threads -> {"ready", "suspend"}] /\ prio' \in [Threads -> Prios]
    BY <1>0, <1>1, <1>2, <1>4, <1>5 DEF TypeOK
  <2> QED BY <1>0, <1>1, <1>5, <2>1, <2>2 DEF TypeOK
<1>7. /\ owner'[m] = h /\ orig'[m] \in Prios /\ list'[m] = Tail(list[m])
      /\ \A n \in Mutexes \ {m} :
            owner'[n] = owner[n] /\ orig'[n] = orig[n] /\ list'[n] = list[n]
      /\ stat'[h] = "ready" /\ \A u \in Threads \ {h} : stat'[u] = stat[u]
      /\ mine'[t][m] = 0
      /\ \A u \in Threads, n \in Mutexes : u # t \/ n # m => mine'[u][n] = mine[u][n]
  BY <1>0, <1>1, <1>2, <1>4, <1>5 DEF TypeOK
<1>8. ASSUME NEW n \in Mutexes PROVE MutexOK(n)'
  <2>1. MutexOK(n)
    BY DEF IInv
  <2>2. CASE n = m
    BY <1>1, <1>3, <1>4, <1>5, <1>7, <2>2 DEF MutexOK
  <2>3. CASE n # m
    BY <1>5, <1>7, <2>1, <2>3 DEF MutexOK
  <2> QED BY <2>2, <2>3
<1>9. ASSUME NEW u \in Threads PROVE ThreadOK(u)'
  <2>1. ThreadOK(u)
    BY DEF IInv
  <2> QED BY <1>3, <1>5, <1>7, <2>1 DEF ThreadOK
<1>10. ASSUME NEW u \in Threads, NEW n \in Mutexes PROVE PairOK(u, n)'
  <2>1. PairOK(u, n)
    BY DEF IInv
  <2>2. CASE u = h /\ n = m
    BY <1>1, <1>3, <1>4, <1>5, <1>7, <2>2 DEF PairOK
  <2>3. CASE u = h /\ n # m
    BY <1>3, <1>5, <1>7, <2>1, <2>3 DEF PairOK
  <2>4. CASE u = t /\ n = m
    BY <1>1, <1>3, <1>4, <1>5, <1>7, <2>1, <2>4 DEF PairOK
  <2>5. CASE u \notin {h, t} /\ n = m
    BY <1>1, <1>4, <1>5, <1>7, <2>1, <2>5 DEF PairOK
  <2>6. CASE u # h /\ n # m
    BY <1>5, <1>7, <2>1, <2>6 DEF PairOK
  <2> QED BY <2>2, <2>3, <2>4, <2>5, <2>6
<1> QED BY <1>6, <1>8, <1>9, <1>10 DEF IInv

-----------------------------------------------------------------------------
(* Every section with interrupts off keeps the invariant.                  *)
LEMMA StepIInv == ASSUME IInv, [Next]_vars PROVE IInv'
<1>1. ASSUME NEW t \in Threads, NEW m \in Mutexes, TakeNext(t, m) PROVE IInv'
  BY <1>1, TakeAgainKeeps, TakeFreeKeeps, RefusalKeeps, TakeWaitsKeeps DEF TakeNext
<1>2. ASSUME NEW t \in Threads, NEW m \in Mutexes, ReleaseNext(t, m) PROVE IInv'
  BY <1>2, RefusalKeeps, ReleaseInnerKeeps, ReleaseToKeeps, ReleaseFreeKeeps DEF ReleaseNext
<1>3. CASE UNCHANGED vars
  <2>1. TypeOK'
    BY <1>3 DEF IInv, TypeOK, vars, mutex, thread
  <2>2. ASSUME NEW m \in Mutexes PROVE MutexOK(m)'
    BY <1>3 DEF IInv, MutexOK, vars, mutex, thread
  <2>3. ASSUME NEW t \in Threads PROVE ThreadOK(t)'
    BY <1>3 DEF IInv, ThreadOK, vars, mutex, thread
  <2>4. ASSUME NEW t \in Threads, NEW m \in Mutexes PROVE PairOK(t, m)'
    BY <1>3 DEF IInv, PairOK, vars, mutex, thread
  <2> QED BY <2>1, <2>2, <2>3, <2>4 DEF IInv
<1> QED BY <1>1, <1>2, <1>3, TakeReturnsKeeps, TimeoutKeeps DEF Next

LEMMA Invariance == Spec => []IInv
<1>1. Init => IInv
  BY InitIInv
<1>2. IInv /\ [Next]_vars => IInv'
  BY StepIInv
<1> QED BY <1>1, <1>2, PTL DEF Spec

(* Every field keeps its type: value counts to one, hold to                *)
(* RT_MUTEX_HOLD_MAX, and no thread counts more holds than the limit.      *)
THEOREM TypeCorrect == Spec => []TypeOK
<1>1. IInv => TypeOK
  BY DEF IInv
<1> QED BY <1>1, Invariance, PTL

(* Through recursive takes, hand-overs and timeouts, the callers of        *)
(* rt_mutex_take and rt_mutex_release agree with the kernel on who is      *)
(* inside; no hand-over is lost, and none goes to a thread that timed out. *)
THEOREM OwnershipHolds == Spec => []Ownership
BY Invariance, InvOwnership, PTL

-----------------------------------------------------------------------------
(* Priority inheritance.  A list is not sorted: a thread on it that owns   *)
(* another mutex may have been lent a priority.  But it was raised, so it  *)
(* is never less urgent than those behind it that own nothing.             *)
SortedAt(m) ==
    \A u, t \in Threads : Before(list[m], u, t) /\ Owned(t) = {} => prio[u] <= prio[t]

Sorted == \A m \in Mutexes : SortedAt(m)

(* A thread that never owned two mutexes at a time goes back to its own    *)
(* priority.                                                               *)
OwnLoan ==
    /\ \A t \in Threads \ multi : \A m \in Owned(t) : orig[m] = Base[t]
    /\ \A t \in Threads \ multi : \A m, n \in Owned(t) : m = n

PInv == Sorted /\ LendingWorks /\ OwnLoan /\ LoanReturned

LEMMA InitPInv == Init => PInv
<1> SUFFICES ASSUME Init PROVE PInv OBVIOUS
<1> USE MutexAssumption
<1>1. \A m \in Mutexes : DOMAIN list[m] = {} /\ ToSet(list[m]) = {}
  BY EmptyList DEF Init
<1>2. \A t \in Threads : Owned(t) = {}
  BY DEF Init, Owned
<1> QED BY <1>1, <1>2 DEF Init, PInv, Sorted, SortedAt, Before, LendingWorks, OwnLoan, LoanReturned

(* An element of a list is a thread that waits, and does not run.          *)
LEMMA Waiters ==
    ASSUME IInv, NEW m \in Mutexes
    PROVE  /\ list[m] \in Seq(Threads) /\ IsInjective(list[m])
           /\ Len(list[m]) \in Nat /\ DOMAIN list[m] = 1..Len(list[m])
           /\ ToSet(list[m]) = {list[m][i] : i \in DOMAIN list[m]}
           /\ \A t \in ToSet(list[m]) : t \in Threads /\ inside[t] # {}
           /\ \A u, t : Before(list[m], u, t) => u \in ToSet(list[m]) /\ t \in ToSet(list[m])
<1>1. TypeOK /\ MutexOK(m) /\ list[m] \in Seq(Threads)
  BY DEF IInv, TypeOK
<1> QED BY <1>1, ListElements DEF MutexOK, IInv, PairOK, Before

(* What a step that does not change a list has to show.                    *)
LEMMA SameList ==
    ASSUME IInv, Sorted, NEW m \in Mutexes, list'[m] = list[m],
           \A t \in ToSet(list[m]) :
               /\ prio'[t] <= prio[t] /\ prio[t] \in Int /\ prio'[t] \in Int
               /\ Owned(t)' = {} => Owned(t) = {} /\ prio'[t] = prio[t]
    PROVE  SortedAt(m)'
<1> SUFFICES ASSUME NEW u \in Threads, NEW t \in Threads,
                    Before(list[m], u, t), Owned(t)' = {}
             PROVE  prio'[u] <= prio'[t]
  BY DEF SortedAt
<1>1. u \in ToSet(list[m]) /\ t \in ToSet(list[m])
  BY Waiters
<1>2. Owned(t) = {} /\ prio'[t] = prio[t]
  BY <1>1
<1>3. prio[u] <= prio[t]
  BY <1>2 DEF Sorted, SortedAt
<1> QED BY <1>1, <1>2, <1>3

(* A step that leaves ownership, priorities and lists alone.               *)
LEMMA SamePriorities ==
    ASSUME PInv, UNCHANGED <<owner, orig, list, prio, multi>> PROVE PInv'
<1>1. \A t : Owned(t)' = Owned(t)
  BY DEF Owned
<1> QED BY <1>1 DEF PInv, Sorted, SortedAt, LendingWorks, OwnLoan, LoanReturned

(* A thread that gives up waiting.                                         *)
LEMMA TimeoutPriorities ==
    ASSUME IInv, PInv, NEW t \in Threads, Timeout(t) PROVE PInv'
<1>0. TypeOK /\ Sorted /\ LendingWorks /\ OwnLoan /\ LoanReturned
  BY DEF IInv, PInv
<1>1. PICK m \in inside[t] : \E i \in DOMAIN list[m] :
                list' = [list EXCEPT ![m] = RemoveAt(@, i)]
  BY DEF Timeout
<1>2. PICK k \in DOMAIN list[m] : list' = [list EXCEPT ![m] = RemoveAt(@, k)]
  BY <1>1
<1>3. m \in Mutexes /\ UNCHANGED <<owner, orig, prio, multi>>
  BY <1>0 DEF TypeOK, Timeout, mutex
<1>4. \A u : Owned(u)' = Owned(u)
  BY <1>3 DEF Owned
<1>5. list'[m] = RemoveAt(list[m], k) /\ \A n \in Mutexes \ {m} : list'[n] = list[n]
  BY <1>0, <1>2, <1>3 DEF TypeOK
<1>6. /\ list[m] \in Seq(Threads) /\ IsInjective(list[m])
      /\ ToSet(RemoveAt(list[m], k)) \subseteq ToSet(list[m])
  BY <1>3, RemoveFromList, Waiters
<1>7. Sorted'
  <2>1. ASSUME NEW n \in Mutexes, NEW u, NEW w, Before(list'[n], u, w)
        PROVE  Before(list[n], u, w)
    BY <1>5, <1>6, <2>1, RemovalKeepsOrder
  <2> QED BY <1>0, <1>3, <1>4, <2>1 DEF Sorted, SortedAt
<1>8. LendingWorks'
  <2>1. \A n \in Mutexes : ToSet(list'[n]) \subseteq ToSet(list[n])
    BY <1>5, <1>6
  <2> QED BY <1>0, <1>3, <1>4, <2>1 DEF LendingWorks
<1>9. OwnLoan' /\ LoanReturned'
  BY <1>0, <1>3, <1>4 DEF OwnLoan, LoanReturned
<1> QED BY <1>7, <1>8, <1>9 DEF PInv

(* A thread that takes its first mutex takes it at its own priority.       *)
LEMMA TakeFreePriorities ==
    ASSUME IInv, PInv, NEW t \in Threads, NEW m \in Mutexes, TakeFree(t, m) PROVE PInv'
<1> USE MutexAssumption
<1>0. TypeOK /\ MutexOK(m) /\ Sorted /\ LendingWorks /\ OwnLoan /\ LoanReturned
  BY DEF IInv, PInv
<1>1. /\ owner[m] = NoThread /\ ToSet(list[m]) = {} /\ UNCHANGED <<list, prio>>
      /\ owner' = [owner EXCEPT ![m] = t] /\ orig' = [orig EXCEPT ![m] = prio[t]]
      /\ multi \subseteq multi'
      /\ t \notin multi' => \A n \in Mutexes \ {m} : owner[n] # t
  BY <1>0, EmptyList DEF TakeFree, Give, MutexOK
<1>2. /\ m \notin Owned(t) /\ Owned(t)' = Owned(t) \cup {m}
      /\ \A u \in Threads \ {t} : Owned(u)' = Owned(u)
      /\ t \notin multi' => Owned(t) = {}
  BY <1>0, <1>1 DEF Owned, TypeOK
<1>3. /\ owner'[m] = t /\ orig'[m] = prio[t]
      /\ \A n \in Mutexes \ {m} : owner'[n] = owner[n] /\ orig'[n] = orig[n]
  BY <1>0, <1>1 DEF TypeOK
<1>4. ASSUME NEW n \in Mutexes, NEW w \in ToSet(list[n])
      PROVE  /\ w \in Threads \ {t} /\ n # m /\ prio[w] \in Int
             /\ Owned(w)' = Owned(w) /\ list'[n] = list[n]
  <2>1. w \in Threads \ {t}
    BY Waiters DEF TakeFree, Running
  <2> QED BY <1>0, <1>1, <1>2, <2>1 DEF TypeOK
<1>5. Sorted'
  <2>1. ASSUME NEW n \in Mutexes PROVE SortedAt(n)'
    BY <1>0, <1>1, <1>4, SameList
  <2> QED BY <2>1 DEF Sorted
<1>6. LendingWorks'
  BY <1>0, <1>1, <1>3, <1>4 DEF LendingWorks
<1>7. OwnLoan' /\ LoanReturned'
  <2>1. ASSUME NEW u \in Threads \ multi'
        PROVE  /\ \A n \in Owned(u)' : orig'[n] = Base[u]
               /\ \A n, k \in Owned(u)' : n = k
               /\ Owned(u)' = {} => prio'[u] = Base[u]
    <3>1. CASE u = t
      BY <1>0, <1>1, <1>2, <1>3, <2>1, <3>1 DEF LoanReturned
    <3>2. CASE u # t
      <4>1. Owned(u)' = Owned(u) /\ m \notin Owned(u) /\ Owned(u) \subseteq Mutexes
        BY <1>1, <1>2, <3>2 DEF Owned
      <4> QED BY <1>0, <1>1, <1>3, <2>1, <4>1 DEF OwnLoan, LoanReturned
    <3> QED BY <3>1, <3>2
  <2> QED BY <2>1 DEF OwnLoan, LoanReturned
<1> QED BY <1>5, <1>6, <1>7 DEF PInv

(* Who stands before whom once e is put at place k.                        *)
LEMMA InsertOrder ==
    ASSUME NEW T, NEW s \in Seq(T), NEW k \in 1..Len(s)+1, NEW e \in T,
           NEW u, NEW t, Before(InsertAt(s, k, e), u, t)
    PROVE  \/ Before(s, u, t)
           \/ t = e /\ \E i \in 1..k-1 : i \in DOMAIN s /\ s[i] = u
           \/ u = e /\ \E j \in k..Len(s) : j \in DOMAIN s /\ s[j] = t
<1> DEFINE r == InsertAt(s, k, e)
           At(i) == IF i < k THEN i ELSE i - 1
<1>1. /\ Len(s) \in Nat /\ DOMAIN s = 1..Len(s) /\ DOMAIN r = 1..Len(s)+1
      /\ \A i \in 1..Len(s)+1 :
            r[i] = IF i < k THEN s[i] ELSE IF i = k THEN e ELSE s[i-1]
  BY InsertElements, ListElements
<1> HIDE DEF r
<1>2. PICK i, j \in 1..Len(s)+1 : i < j /\ r[i] = u /\ r[j] = t
  BY <1>1 DEF Before, r
<1>3. CASE j = k
  <2>1. i \in 1..k-1 /\ i \in DOMAIN s /\ s[i] = u /\ t = e
    BY <1>1, <1>2, <1>3
  <2> QED BY <2>1
<1>4. CASE i = k
  <2>1. j - 1 \in k..Len(s) /\ j - 1 \in DOMAIN s /\ s[j-1] = t /\ u = e
    BY <1>1, <1>2, <1>4
  <2> QED BY <2>1
<1>5. CASE i # k /\ j # k
  <2>1. At(i) \in DOMAIN s /\ At(j) \in DOMAIN s /\ At(i) < At(j)
    BY <1>1, <1>2, <1>5
  <2>2. s[At(i)] = u /\ s[At(j)] = t
    BY <1>1, <1>2, <1>5
  <2> QED BY <2>1, <2>2 DEF Before
<1> QED BY <1>3, <1>4, <1>5

(* A thread that waits lends the owner its priority, and stands before     *)
(* those that are less urgent.                                             *)
LEMMA TakeWaitsPriorities ==
    ASSUME IInv, PInv, NEW t \in Threads, NEW m \in Mutexes, NEW timed \in BOOLEAN,
           TakeWaits(t, m, timed)
    PROVE  PInv'
<1> USE MutexAssumption
<1> DEFINE q == owner[m]
<1>0. TypeOK /\ MutexOK(m) /\ Sorted /\ LendingWorks /\ OwnLoan /\ LoanReturned
  BY DEF IInv, PInv
<1>1. /\ q \in Threads \ {t} /\ Owned(q) # {} /\ inside[t] = {} /\ t \notin ToSet(list[m])
      /\ UNCHANGED <<owner, orig, multi>> /\ \A u : Owned(u)' = Owned(u)
  <2>1. q \in Threads \ {t} /\ inside[t] = {} /\ UNCHANGED <<owner, orig, multi>>
    BY <1>0, Types DEF MutexOK, TakeWaits, Running, mutex
  <2> QED BY <2>1, Waiters DEF Owned
<1> HIDE DEF q
<1>2. /\ \A u \in Threads : prio[u] \in Int /\ prio'[u] \in Int /\ prio'[u] <= prio[u]
      /\ \A u \in Threads \ {q} : prio'[u] = prio[u]
      /\ prio'[q] <= prio[t]
  <2>1. prio \in [Threads -> Int] /\ Inherit(t, m)
    BY <1>0 DEF TypeOK, TakeWaits
  <2>2. CASE prio[t] < prio[q]
    BY <1>1, <2>1, <2>2 DEF Inherit, ChangePriority, q
  <2>3. CASE ~(prio[t] < prio[q])
    BY <1>1, <2>1, <2>3 DEF Inherit, q
  <2> QED BY <2>2, <2>3
<1>3. PICK k \in 1..Len(list[m])+1 :
          Place(t, m, k) /\ list' = [list EXCEPT ![m] = InsertAt(@, k, t)]
  BY DEF TakeWaits
<1>4. /\ list'[m] = InsertAt(list[m], k, t)
      /\ \A n \in Mutexes \ {m} : list'[n] = list[n]
  BY <1>0, <1>3 DEF TypeOK
<1>5. /\ list[m] \in Seq(Threads) /\ IsInjective(list[m])
      /\ Len(list[m]) \in Nat /\ DOMAIN list[m] = 1..Len(list[m])
      /\ ToSet(InsertAt(list[m], k, t)) = ToSet(list[m]) \cup {t}
      /\ \A i \in DOMAIN list[m] : list[m][i] \in Threads
  BY <1>1, <1>3, InsertIntoList, ListElements, Waiters
<1>6. SortedAt(m)'
  <2> SUFFICES ASSUME NEW u \in Threads, NEW w \in Threads,
                      Before(list'[m], u, w), Owned(w) = {}
               PROVE  prio'[u] <= prio'[w]
    BY <1>1 DEF SortedAt
  <2>1. prio'[w] = prio[w]
    BY <1>1, <1>2
  <2>2. CASE Before(list[m], u, w)
    BY <1>0, <1>2, <2>1, <2>2 DEF Sorted, SortedAt
  <2>3. CASE w = t /\ \E i \in 1..k-1 : i \in DOMAIN list[m] /\ list[m][i] = u
    BY <1>2, <1>3, <2>1, <2>3 DEF Place
  <2>4. CASE u = t /\ \E j \in k..Len(list[m]) : j \in DOMAIN list[m] /\ list[m][j] = w
    <3>1. PICK j \in k..Len(list[m]) : j \in DOMAIN list[m] /\ list[m][j] = w
      BY <2>4
    <3>2. k \in DOMAIN list[m] /\ list[m][k] \in Threads /\ prio[t] < prio[list[m][k]]
      BY <1>3, <1>5, <3>1 DEF Place
    <3>3. prio[list[m][k]] <= prio[w]
      <4>1. CASE j = k
        BY <1>2, <3>1, <4>1
      <4>2. CASE k < j
        <5>1. Before(list[m], list[m][k], w)
          BY <3>1, <3>2, <4>2 DEF Before
        <5> QED BY <1>0, <3>2, <5>1 DEF Sorted, SortedAt
      <4> QED BY <1>5, <3>1, <4>1, <4>2
    <3> QED BY <1>2, <2>1, <2>4, <3>2, <3>3
  <2> QED BY <1>3, <1>4, <1>5, <2>2, <2>3, <2>4, InsertOrder
<1>7. Sorted'
  <2>1. ASSUME NEW n \in Mutexes \ {m} PROVE SortedAt(n)'
    <3>1. \A w \in ToSet(list[n]) :
              /\ prio'[w] <= prio[w] /\ prio[w] \in Int /\ prio'[w] \in Int
              /\ Owned(w)' = {} => Owned(w) = {} /\ prio'[w] = prio[w]
      BY <1>1, <1>2, Waiters
    <3> QED BY <1>0, <1>4, <3>1, SameList
  <2> QED BY <1>6, <2>1 DEF Sorted
<1>8. LendingWorks'
  <2> SUFFICES ASSUME NEW n \in Mutexes, NEW w \in ToSet(list'[n]),
                      owner[n] \notin multi, Owned(w) = {}
               PROVE  prio'[owner[n]] <= prio'[w]
    BY <1>1 DEF LendingWorks
  <2>1. CASE n = m /\ w = t
    BY <1>1, <1>2, <2>1 DEF q
  <2>2. CASE w \in ToSet(list[n])
    <3>1. prio[owner[n]] <= prio[w] /\ w \in Threads
      BY <1>0, <2>2, Waiters DEF LendingWorks
    <3>2. owner[n] \in Threads
      <4>1. list[n] # << >> /\ MutexOK(n)
        BY <2>2, EmptyList DEF IInv
      <4> QED BY <1>0, <4>1, Types DEF MutexOK
    <3>3. prio'[w] = prio[w]
      BY <1>1, <1>2, <3>1
    <3> QED BY <1>2, <3>1, <3>2, <3>3
  <2> QED BY <1>4, <1>5, <2>1, <2>2
<1>9. OwnLoan' /\ LoanReturned'
  BY <1>0, <1>1, <1>2 DEF OwnLoan, LoanReturned
<1> QED BY <1>7, <1>8, <1>9 DEF PInv

(* The last release goes back to the priority of the take; whoever waits   *)
(* for another mutex of this thread waits for one that has owned two.      *)
LEMMA ReleaseFreePriorities ==
    ASSUME IInv, PInv, NEW t \in Threads, NEW m \in Mutexes, ReleaseFree(t, m) PROVE PInv'
<1> USE MutexAssumption
<1>0. TypeOK /\ MutexOK(m) /\ Sorted /\ LendingWorks /\ OwnLoan /\ LoanReturned
  BY DEF IInv, PInv
<1>1. /\ owner[m] = t /\ ToSet(list[m]) = {} /\ UNCHANGED <<list, multi>>
      /\ owner' = [owner EXCEPT ![m] = NoThread] /\ orig' = [orig EXCEPT ![m] = NoPrio]
      /\ prio' = [prio EXCEPT ![t] = orig[m]]
  BY EmptyList DEF ReleaseFree, Restore, ChangePriority
<1>2. /\ m \in Owned(t) /\ Owned(t)' = Owned(t) \ {m}
      /\ \A u \in Threads \ {t} : Owned(u)' = Owned(u)
      /\ \A n \in Mutexes \ {m} :
            /\ owner'[n] = owner[n] /\ orig'[n] = orig[n]
            /\ owner[n] = t => n \in Owned(t)
      /\ prio'[t] = orig[m] /\ \A u \in Threads \ {t} : prio'[u] = prio[u]
  BY <1>0, <1>1 DEF Owned, TypeOK
<1>3. ASSUME NEW n \in Mutexes, NEW w \in ToSet(list[n])
      PROVE  /\ w \in Threads \ {t} /\ n # m /\ prio[w] \in Int /\ prio'[w] = prio[w]
             /\ Owned(w)' = Owned(w) /\ list'[n] = list[n] /\ owner[n] \in Threads
  <2>1. w \in Threads \ {t}
    BY Waiters DEF ReleaseFree, Running
  <2>2. owner[n] \in Threads
    <3>1. list[n] # << >> /\ MutexOK(n)
      BY EmptyList DEF IInv
    <3> QED BY <1>0, <3>1, Types DEF MutexOK
  <2> QED BY <1>0, <1>1, <1>2, <2>1, <2>2 DEF TypeOK
<1>4. Sorted'
  <2>1. ASSUME NEW n \in Mutexes PROVE SortedAt(n)'
    BY <1>0, <1>1, <1>3, SameList
  <2> QED BY <2>1 DEF Sorted
<1>5. LendingWorks'
  <2> SUFFICES ASSUME NEW n \in Mutexes, NEW w \in ToSet(list[n]),
                      owner'[n] \notin multi, Owned(w) = {}
               PROVE  prio'[owner'[n]] <= prio'[w]
    BY <1>1, <1>3 DEF LendingWorks
  <2>1. n # m /\ owner'[n] = owner[n] /\ owner[n] \in Threads \ multi
    BY <1>2, <1>3
  <2>2. owner[n] # t
    BY <1>0, <1>2, <2>1 DEF OwnLoan
  <2> QED BY <1>0, <1>2, <1>3, <2>1, <2>2 DEF LendingWorks
<1>6. OwnLoan' /\ LoanReturned'
  <2>1. ASSUME NEW u \in Threads \ multi
        PROVE  /\ \A n \in Owned(u)' : orig'[n] = Base[u]
               /\ \A n, k \in Owned(u)' : n = k
               /\ Owned(u)' = {} => prio'[u] = Base[u]
    <3>1. m \notin Owned(u)' /\ Owned(u)' \subseteq Owned(u) /\ Owned(u) \subseteq Mutexes
      BY <1>1, <1>2 DEF Owned
    <3>2. CASE u = t
      BY <1>0, <1>2, <2>1, <3>1, <3>2 DEF OwnLoan
    <3>3. CASE u # t
      BY <1>0, <1>2, <2>1, <3>1, <3>3 DEF OwnLoan, LoanReturned
    <3> QED BY <3>2, <3>3
  <2> QED BY <1>1, <2>1 DEF OwnLoan, LoanReturned
<1> QED BY <1>4, <1>5, <1>6 DEF PInv

(* The new owner is as urgent as those left behind it that own nothing.    *)
LEMMA ReleaseToPriorities ==
    ASSUME IInv, PInv, NEW t \in Threads, NEW m \in Mutexes, ReleaseTo(t, m) PROVE PInv'
<1> USE MutexAssumption
<1>0. TypeOK /\ MutexOK(m) /\ Sorted /\ LendingWorks /\ OwnLoan /\ LoanReturned
  BY DEF IInv, PInv
<1>h. PICK h \in Threads : h = Head(list[m])
  BY TailOfList, Waiters DEF ReleaseTo
<1>1. /\ list[m] \in Seq(Threads) /\ IsInjective(list[m]) /\ list[m] # << >>
      /\ ToSet(Tail(list[m])) = ToSet(list[m]) \ {h}
      /\ h \in ToSet(list[m]) /\ h \in Threads \ {t}
      /\ \A w \in ToSet(list[m]) \ {h} : Before(list[m], h, w)
  <2>1. list[m] \in Seq(Threads) /\ IsInjective(list[m]) /\ list[m] # << >>
    BY Waiters DEF ReleaseTo
  <2>2. /\ ToSet(Tail(list[m])) = ToSet(list[m]) \ {h} /\ h = list[m][1]
        /\ h \in ToSet(list[m])
    BY <1>h, <2>1, TailOfList
  <2>3. h \in Threads \ {t}
    BY <2>2, Waiters DEF ReleaseTo, Running
  <2>4. ASSUME NEW w \in ToSet(list[m]) \ {h} PROVE Before(list[m], h, w)
    <3>1. /\ Len(list[m]) \in Nat /\ DOMAIN list[m] = 1..Len(list[m])
          /\ ToSet(list[m]) = {list[m][i] : i \in DOMAIN list[m]}
      BY Waiters
    <3>2. PICK j \in 1..Len(list[m]) : list[m][j] = w
      BY <3>1
    <3>3. 1 \in DOMAIN list[m] /\ j \in DOMAIN list[m] /\ 1 < j
      BY <2>2, <2>4, <3>1, <3>2
    <3> QED BY <2>2, <3>2, <3>3 DEF Before
  <2> QED BY <2>1, <2>2, <2>3, <2>4
<1>2. /\ owner[m] = t /\ owner' = [owner EXCEPT ![m] = h] /\ orig' = [orig EXCEPT ![m] = prio[h]]
      /\ list' = [list EXCEPT ![m] = Tail(@)] /\ prio' = [prio EXCEPT ![t] = orig[m]]
      /\ multi \subseteq multi' /\ \A u \in multi' \ multi : u = h
      /\ h \notin multi' => \A n \in Mutexes \ {m} : owner[n] # h
  BY <1>h DEF ReleaseTo, Give, Restore, ChangePriority
<1>3. /\ m \in Owned(t) /\ Owned(t)' = Owned(t) \ {m}
      /\ m \notin Owned(h) /\ Owned(h)' = Owned(h) \cup {m}
      /\ \A u \in Threads \ {t, h} : Owned(u)' = Owned(u)
      /\ h \notin multi' => Owned(h) = {}
      /\ owner'[m] = h /\ orig'[m] = prio[h] /\ list'[m] = Tail(list[m])
      /\ \A n \in Mutexes \ {m} :
            /\ owner'[n] = owner[n] /\ orig'[n] = orig[n] /\ list'[n] = list[n]
            /\ owner[n] = t => n \in Owned(t)
      /\ prio'[t] = orig[m] /\ \A u \in Threads \ {t} : prio'[u] = prio[u]
  <2>1. /\ owner'[m] = h /\ orig'[m] = prio[h] /\ list'[m] = Tail(list[m])
        /\ \A n \in Mutexes \ {m} :
              owner'[n] = owner[n] /\ orig'[n] = orig[n] /\ list'[n] = list[n]
        /\ prio'[t] = orig[m] /\ \A u \in Threads \ {t} : prio'[u] = prio[u]
    BY <1>0, <1>1, <1>2 DEF TypeOK
  <2> QED BY <1>1, <1>2, <2>1 DEF Owned
<1>4. ASSUME NEW n \in Mutexes, NEW w \in ToSet(list[n])
      PROVE  /\ w \in Threads \ {t} /\ prio[w] \in Int /\ prio'[w] = prio[w]
             /\ Owned(w)' = {} => Owned(w) = {}
             /\ owner[n] \in Threads
  <2>1. w \in Threads \ {t}
    BY Waiters DEF ReleaseTo, Running
  <2>2. owner[n] \in Threads
    <3>1. list[n] # << >> /\ MutexOK(n)
      BY EmptyList DEF IInv
    <3> QED BY <1>0, <3>1, Types DEF MutexOK
  <2>3. Owned(w)' = {} => Owned(w) = {}
    <3>1. CASE w = h
      BY <1>3, <3>1
    <3>2. CASE w # h
      BY <1>3, <2>1, <3>2
    <3> QED BY <3>1, <3>2
  <2> QED BY <1>0, <1>3, <2>1, <2>2, <2>3, Types DEF TypeOK
<1>5. SortedAt(m)'
  <2> SUFFICES ASSUME NEW u \in Threads, NEW w \in Threads,
                      Before(list'[m], u, w), Owned(w)' = {}
               PROVE  prio'[u] <= prio'[w]
    BY DEF SortedAt
  <2>1. Before(list[m], u, w)
    BY <1>1, <1>3, TailKeepsOrder
  <2>2. u \in ToSet(list[m]) /\ w \in ToSet(list[m])
    BY <2>1, Waiters
  <2> QED BY <1>0, <1>4, <2>1, <2>2 DEF Sorted, SortedAt
<1>6. Sorted'
  <2>1. ASSUME NEW n \in Mutexes \ {m} PROVE SortedAt(n)'
    BY <1>0, <1>3, <1>4, SameList
  <2> QED BY <1>5, <2>1 DEF Sorted
<1>7. LendingWorks'
  <2> SUFFICES ASSUME NEW n \in Mutexes, NEW w \in ToSet(list'[n]),
                      owner'[n] \notin multi', Owned(w)' = {}
               PROVE  prio'[owner'[n]] <= prio'[w]
    BY DEF LendingWorks
  <2>1. CASE n = m
    <3>1. w \in ToSet(list[m]) \ {h}
      BY <1>1, <1>3, <2>1
    <3>2. prio[h] <= prio[w]
      BY <1>0, <1>1, <1>4, <3>1 DEF Sorted, SortedAt
    <3> QED BY <1>1, <1>3, <1>4, <2>1, <3>1, <3>2
  <2>2. CASE n # m
    <3>1. w \in ToSet(list[n]) /\ owner'[n] = owner[n] /\ owner[n] \in Threads \ multi
      BY <1>2, <1>3, <1>4, <2>2
    <3>2. owner[n] # t
      BY <1>0, <1>3, <2>2, <3>1 DEF OwnLoan
    <3> QED BY <1>0, <1>3, <1>4, <3>1, <3>2 DEF LendingWorks
  <2> QED BY <2>1, <2>2
<1>8. OwnLoan' /\ LoanReturned'
  <2>1. ASSUME NEW u \in Threads \ multi'
        PROVE  /\ \A n \in Owned(u)' : orig'[n] = Base[u]
               /\ \A n, k \in Owned(u)' : n = k
               /\ Owned(u)' = {} => prio'[u] = Base[u]
    <3>1. u \in Threads \ multi /\ Owned(u) \subseteq Mutexes
      BY <1>2 DEF Owned
    <3>2. CASE u = h
      <4>1. Owned(u) = {} /\ Owned(u)' = {m} /\ orig'[m] = prio[u]
        BY <1>3, <2>1, <3>2
      <4>2. prio[u] = Base[u]
        BY <1>0, <3>1, <4>1 DEF LoanReturned
      <4> QED BY <4>1, <4>2
    <3>3. CASE u = t
      BY <1>0, <1>3, <3>1, <3>3 DEF OwnLoan
    <3>4. CASE u \notin {h, t}
      <4>1. m \notin Owned(u)
        BY <1>2, <3>4 DEF Owned
      <4> QED BY <1>0, <1>3, <3>1, <3>4, <4>1 DEF OwnLoan, LoanReturned
    <3> QED BY <3>2, <3>3, <3>4
  <2> QED BY <2>1 DEF OwnLoan, LoanReturned
<1> QED BY <1>6, <1>7, <1>8 DEF PInv

LEMMA StepPInv == ASSUME IInv, PInv, [Next]_vars PROVE PInv'
<1>1. ASSUME NEW t \in Threads, NEW m \in Mutexes, TakeNext(t, m) PROVE PInv'
  <2>1. CASE TakeAgain(t, m) \/ TryTakeFails(t, m)
    BY <2>1, SamePriorities DEF TakeAgain, TryTakeFails, mutex
  <2> QED BY <1>1, <2>1, TakeFreePriorities, TakeWaitsPriorities DEF TakeNext
<1>2. ASSUME NEW t \in Threads, NEW m \in Mutexes, ReleaseNext(t, m) PROVE PInv'
  <2>1. CASE ReleaseRefused(t, m) \/ ReleaseInner(t, m)
    BY <2>1, SamePriorities DEF ReleaseRefused, ReleaseInner, mutex, thread
  <2> QED BY <1>2, <2>1, ReleaseToPriorities, ReleaseFreePriorities DEF ReleaseNext
<1>3. ASSUME NEW t \in Threads, TakeReturns(t) PROVE PInv'
  BY <1>3, SamePriorities DEF TakeReturns, mutex
<1>4. CASE UNCHANGED vars
  BY <1>4, SamePriorities DEF vars, mutex, thread
<1> QED BY <1>1, <1>2, <1>3, <1>4, TimeoutPriorities DEF Next

(* With one mutex at a time an owner is as urgent as whoever it keeps      *)
(* waiting, and goes back to its own priority when it is out: the loan of  *)
(* rt_mutex_take is what rt_mutex_release takes back, also when the        *)
(* borrower or the lender timed out in between.                            *)
THEOREM InheritanceHolds == Spec => []Inheritance
<1>1. Init => IInv /\ PInv
  BY InitIInv, InitPInv
<1>2. IInv /\ PInv /\ [Next]_vars => (IInv /\ PInv)'
  BY StepIInv, StepPInv
<1>3. PInv => Inheritance
  BY DEF PInv, Inheritance
<1> QED BY <1>1, <1>2, <1>3, PTL DEF Spec
=============================================================================
