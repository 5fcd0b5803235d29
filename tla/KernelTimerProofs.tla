------------------------- MODULE KernelTimerProofs --------------------------
(***************************************************************************)
(* Proofs about KernelTimer for any timers, any width of the tick and any  *)
(* bounds on the times set and on the delay of the timer thread.           *)
(***************************************************************************)
EXTENDS KernelTimer, SuspendListLemmas, WellFoundedInduction

Range1 == TickMax + 1   \* how many values a tick has

(* A timer that f says is due earlier stands in front.                     *)
SortedBy(s, f) == \A i, j \in DOMAIN s : i < j => f[s[i]] <= f[s[j]]

(* Lists l in order of the ticks left, f, which the due ticks, c, show     *)
(* modulo the width of a tick.                                             *)
InOrder(l, f, c, now) ==
    /\ l \in [Kinds -> Seq(Timers)]
    /\ \A k \in Kinds :
          /\ IsInjective(l[k]) /\ SortedBy(l[k], f)
          /\ \A t \in ToSet(l[k]) : Kind(t) = k /\ c[t] = (now + f[t]) % Range1

ListInv == InOrder(list, left, timeout_tick, tick)

(* A timer in its callback is on no list.                                  *)
RunInv ==
    /\ \A k \in Kinds : \A t \in Timers : run[k] = t =>
          t \in HardTimers \cup SoftTimers /\ Kind(t) = k /\ ~Listed(t)
    /\ run["hard"] # NoTimer => isr = "callback"
    /\ run["soft"] # NoTimer => pc = "callback"

(* No hard timer is missed; only the thread's delay of no ticks may be one *)
(* tick late when the check begins.                                        *)
LateInv ==
    /\ \A t \in HardTimers : left[t] >= 0
    /\ left[ThreadTimer] >= -1
    /\ isr = "callback" \/ ~Listed(ThreadTimer) => left[ThreadTimer] >= 0
    /\ HardPunctual

(* What the timer thread knows of its list.                                *)
SleepInv ==
    /\ pc # "asleep" => ~Listed(ThreadTimer)
    /\ pc \in {"look", "check", "callback"} => ~slipped
    /\ pc = "looked" /\ next_timeout # TickMax =>
          \/ /\ slipped
             /\ \E d \in -MaxLate..MaxInit : next_timeout = (tick + d) % Range1
          \/ /\ list["soft"] # <<>>
             /\ next_timeout = timeout_tick[Head(list["soft"])]
    /\ pc = "measured" =>
          /\ next_timeout <= MaxInit
          /\ slipped \/ \A u \in ToSet(list["soft"]) : next_timeout <= left[u]
    /\ pc = "asleep" =>
          \/ slipped \/ list["soft"] = <<>>
          \/ /\ Listed(ThreadTimer)
             /\ \A u \in ToSet(list["soft"]) : left[ThreadTimer] <= left[u]

IInv == TypeOK /\ ListInv /\ RunInv /\ CanBeStopped /\ LateInv /\ SleepInv

-----------------------------------------------------------------------------
(* Ticks                                                                   *)

(* The bounds on ticks, with TimerAssumption's ranges spelled out.         *)
LEMMA Bounds ==
    /\ TickMax \in Nat /\ Range1 \in Nat \ {0} /\ Half \in Nat /\ Range1 = TickMax + 1
    /\ MaxInit \in Nat /\ MaxInit < Half
    /\ MaxLate \in Nat \ {0} /\ MaxLate < Half
    /\ MaxInit + MaxLate + Half <= Range1
<1>1. TickMax \in Nat /\ Half \in Int
  BY TimerAssumption DEF Half
<1>2. MaxInit \in 0..Half-1 /\ MaxLate \in 1..Half-1 /\ MaxInit + MaxLate <= TickMax + 1 - Half
  BY TimerAssumption
<1> QED BY <1>1, <1>2 DEF Range1

(* The remainder of what is at most one range off.                         *)
LEMMA ModNear ==
    ASSUME NEW m \in Nat \ {0}, NEW x \in Int, -m <= x, x < 2*m
    PROVE  x % m = IF x < 0 THEN x + m ELSE IF x < m THEN x ELSE x - m
<1>1. CASE x < 0 BY <1>1
<1>2. CASE 0 <= x /\ x < m BY <1>2
<1>3. CASE m <= x BY <1>3
<1> QED BY <1>1, <1>2, <1>3

(* The tick that is a ticks away.                                          *)
LEMMA TickAt ==
    ASSUME NEW now \in 0..TickMax, NEW a \in -MaxLate..MaxInit, NEW p,
           p = (now + a) % Range1
    PROVE  p = IF now + a < 0 THEN now + a + Range1
               ELSE IF now + a < Range1 THEN now + a ELSE now + a - Range1
<1> DEFINE x == now + a
<1>1. Range1 \in Nat \ {0} /\ x \in Int /\ -Range1 <= x /\ x < 2*Range1
  BY Bounds
<1>2. p = x % Range1
  OBVIOUS
<1> HIDE DEF x
<1>3. p = IF x < 0 THEN x + Range1 ELSE IF x < Range1 THEN x ELSE x - Range1
  BY <1>1, <1>2, ModNear
<1>4. x = now + a
  BY DEF x
<1>5. CASE x < 0 BY <1>1, <1>3, <1>4, <1>5
<1>6. CASE 0 <= x /\ x < Range1 BY <1>1, <1>3, <1>4, <1>6
<1>7. CASE Range1 <= x BY <1>1, <1>3, <1>4, <1>7
<1> QED BY <1>1, <1>5, <1>6, <1>7

(* The difference of two ticks is the difference of their distances from   *)
(* the present one, wherever the tick wraps.                               *)
LEMMA MinusTicks ==
    ASSUME NEW now \in 0..TickMax, NEW a \in -MaxLate..MaxInit, NEW b \in -MaxLate..MaxInit,
           NEW p, NEW q, p = (now + a) % Range1, q = (now + b) % Range1
    PROVE  Minus(p, q) = IF a >= b THEN a - b ELSE a - b + Range1
<1> DEFINE d == p - q
<1>1. /\ TickMax \in Nat /\ Range1 \in Nat \ {0} /\ Range1 = TickMax + 1
      /\ MaxInit \in Nat /\ MaxLate \in Nat /\ MaxInit + MaxLate < Range1
  BY Bounds
<1>2. p = IF now + a < 0 THEN now + a + Range1
          ELSE IF now + a < Range1 THEN now + a ELSE now + a - Range1
  BY TickAt
<1>3. q = IF now + b < 0 THEN now + b + Range1
          ELSE IF now + b < Range1 THEN now + b ELSE now + b - Range1
  BY TickAt
<1>4. d \in Int /\ -Range1 <= d /\ d < 2*Range1
  BY <1>1, <1>2, <1>3
<1>5. Minus(p, q) = d % Range1
  BY DEF Minus, Range1
<1>6. d % Range1 = IF d < 0 THEN d + Range1 ELSE IF d < Range1 THEN d ELSE d - Range1
  <2> HIDE DEF d
  <2> QED BY <1>1, <1>4, ModNear
<1> QED BY <1>1, <1>2, <1>3, <1>5, <1>6

(* The present tick is no tick away.                                       *)
LEMMA NoTickAway ==
    ASSUME NEW now \in 0..TickMax
    PROVE  0 \in -MaxLate..MaxInit /\ now = (now + 0) % Range1
<1>1. now + 0 = now /\ now \in Int /\ -Range1 <= now /\ now < Range1 /\ Range1 \in Nat \ {0}
  BY Bounds
<1>2. now % Range1 = now
  BY <1>1, ModNear
<1> QED BY <1>1, <1>2, Bounds

(* A tick is later than another one just if it is further away.            *)
LEMMA LaterTick ==
    ASSUME NEW now \in 0..TickMax, NEW a \in -MaxLate..MaxInit, NEW n \in 0..MaxInit,
           NEW p, NEW q, p = (now + a) % Range1, q = (now + n) % Range1
    PROVE  Minus(p, q) \in 1..Half-1 <=> a > n
<1>1. n \in -MaxLate..MaxInit
  BY Bounds
<1>2. Minus(p, q) = IF a >= n THEN a - n ELSE a - n + Range1
  BY <1>1, MinusTicks
<1> QED BY <1>1, <1>2, Bounds

(* A timer is due when no tick is left.                                    *)
LEMMA DueTick ==
    ASSUME NEW now \in 0..TickMax, NEW a \in -MaxLate..MaxInit,
           NEW p, p = (now + a) % Range1
    PROVE  Minus(now, p) < Half <=> a <= 0
<1>1. Minus(now, p) = IF 0 >= a THEN 0 - a ELSE 0 - a + Range1
  BY NoTickAway, MinusTicks
<1> QED BY <1>1, Bounds

(* What the timer thread measures.                                         *)
LEMMA AheadTick ==
    ASSUME NEW now \in 0..TickMax, NEW a \in -MaxLate..MaxInit,
           NEW p, p = (now + a) % Range1, Minus(p, now) < Half
    PROVE  a >= 0 /\ Minus(p, now) = a
<1>1. Minus(p, now) = IF a >= 0 THEN a - 0 ELSE a - 0 + Range1
  BY NoTickAway, MinusTicks
<1> QED BY <1>1, Bounds

(* One tick later one tick less is left.                                   *)
LEMMA NextTick ==
    ASSUME NEW now \in 0..TickMax, NEW a \in -MaxLate..MaxInit, a > -MaxLate,
           NEW next, next = (now + 1) % Range1
    PROVE  /\ next \in 0..TickMax
           /\ (now + a) % Range1 = (next + (a - 1)) % Range1
<1> DEFINE p == (now + a) % Range1
           q == (next + (a - 1)) % Range1
           x == now + 1
<1>1. /\ TickMax \in Nat /\ Range1 \in Nat \ {0} /\ Range1 = TickMax + 1
      /\ MaxInit \in Nat /\ MaxLate \in Nat /\ MaxInit + MaxLate < Range1
      /\ a - 1 \in -MaxLate..MaxInit
  BY Bounds
<1>2. next = IF now = TickMax THEN 0 ELSE now + 1
  <2>1. x \in Int /\ -Range1 <= x /\ x < 2*Range1 /\ next = x % Range1
    BY <1>1
  <2> HIDE DEF x
  <2>2. next = IF x < 0 THEN x + Range1 ELSE IF x < Range1 THEN x ELSE x - Range1
    BY <1>1, <2>1, ModNear
  <2> QED BY <1>1, <2>2 DEF x
<1>3. next \in 0..TickMax
  BY <1>1, <1>2
<1>4. p = IF now + a < 0 THEN now + a + Range1
          ELSE IF now + a < Range1 THEN now + a ELSE now + a - Range1
  BY TickAt
<1> DEFINE b == a - 1
<1> HIDE DEF p
<1>5. q = IF next + b < 0 THEN next + b + Range1
          ELSE IF next + b < Range1 THEN next + b ELSE next + b - Range1
  <2>1. b \in -MaxLate..MaxInit /\ q = (next + b) % Range1
    BY <1>1
  <2> HIDE DEF b, q
  <2> QED BY <1>3, <2>1, TickAt
<1> HIDE DEF q
<1>6. p = q
  BY <1>1, <1>2, <1>4, <1>5
<1> QED BY <1>3, <1>6 DEF p, q

-----------------------------------------------------------------------------
(* Lists                                                                   *)

(* A set of positions has a first one.                                     *)
LEMMA FirstPosition ==
    ASSUME NEW I, I \subseteq Nat, I # {}
    PROVE  Min(I) \in I /\ \A i \in I : Min(I) <= i
<1>1. PICK m \in I : \A i \in I : <<i, m>> \notin OpToRel(<, Nat)
  BY NatLessThanWellFounded, WFMin
<1>2. ASSUME NEW i \in I PROVE m <= i
  <2>1. CASE i < m
    <3>1. <<i, m>> \in OpToRel(<, Nat)
      BY <2>1 DEF OpToRel
    <3> QED BY <1>1, <3>1
  <2> QED BY <2>1
<1> QED BY <1>2 DEF Min

(* The first position whose element is in a set, 0 if there is none.       *)
LEMMA FirstOf ==
    ASSUME NEW T, NEW s \in Seq(T), NEW S
    PROVE  LET i == SelectInSeq(s, LAMBDA u : u \in S)
           IN  \/ i = 0 /\ \A j \in 1..Len(s) : s[j] \notin S
               \/ /\ i \in 1..Len(s) /\ s[i] \in S
                  /\ \A j \in 1..Len(s) : j < i => s[j] \notin S
<1> DEFINE I == {i \in 1..Len(s) : s[i] \in S}
<1>1. SelectInSeq(s, LAMBDA u : u \in S) = IF I # {} THEN Min(I) ELSE 0
  BY DEF SelectInSeq
<1>2. Len(s) \in Nat
  BY LenProperties
<1>3. CASE I = {}
  BY <1>1, <1>3
<1>4. CASE I # {}
  <2>1. Min(I) \in I /\ \A i \in I : Min(I) <= i
    <3> HIDE DEF I
    <3>1. I \subseteq Nat BY <1>2 DEF I
    <3> QED BY <1>4, <3>1, FirstPosition
  <2> DEFINE m == Min(I)
  <2>3. m \in I /\ \A i \in I : m <= i
    BY <2>1
  <2> HIDE DEF m
  <2>2. m \in 1..Len(s) /\ s[m] \in S /\ \A j \in 1..Len(s) : j < m => s[j] \notin S
    BY <1>2, <2>3
  <2> QED BY <1>1, <1>4, <2>2 DEF m
<1> QED BY <1>3, <1>4

(* The first of an ordered list is due first, and the rest is ordered.     *)
LEMMA TailInOrder ==
    ASSUME NEW T, NEW s \in Seq(T), s # << >>, IsInjective(s), NEW f \in [T -> Int],
           SortedBy(s, f)
    PROVE  SortedBy(Tail(s), f) /\ \A u \in ToSet(s) : f[Head(s)] <= f[u]
<1>1. /\ Len(s) \in Nat \ {0} /\ DOMAIN s = 1..Len(s) /\ ToSet(s) = {s[i] : i \in 1..Len(s)}
      /\ \A i \in 1..Len(s) : s[i] \in T
  BY ListElements
<1>2. /\ Tail(s) \in Seq(T) /\ Len(Tail(s)) = Len(s) - 1 /\ Head(s) = s[1]
      /\ \A i \in 1..Len(s)-1 : Tail(s)[i] = s[i+1]
  BY TailOfList
<1>3. DOMAIN Tail(s) = 1..Len(s)-1
  BY <1>2, ListElements
<1>4. SortedBy(Tail(s), f)
  <2> SUFFICES ASSUME NEW i \in 1..Len(s)-1, NEW j \in 1..Len(s)-1, i < j
               PROVE  f[Tail(s)[i]] <= f[Tail(s)[j]]
    BY <1>3 DEF SortedBy
  <2>1. /\ Tail(s)[i] = s[i+1] /\ Tail(s)[j] = s[j+1]
        /\ i + 1 \in 1..Len(s) /\ j + 1 \in 1..Len(s) /\ i + 1 < j + 1
    BY <1>1, <1>2
  <2> QED BY <1>1, <2>1 DEF SortedBy
<1>5. ASSUME NEW u \in ToSet(s) PROVE f[Head(s)] <= f[u]
  <2>1. PICK i \in 1..Len(s) : u = s[i]
    BY <1>1
  <2>2. CASE i = 1
    BY <1>1, <1>2, <2>1, <2>2
  <2>3. CASE i # 1
    BY <1>1, <1>2, <2>1, <2>3 DEF SortedBy
  <2> QED BY <2>2, <2>3
<1> QED BY <1>4, <1>5

(* RemoveFirst takes just t off a list and keeps its order.                *)
LEMMA RemoveInOrder ==
    ASSUME NEW T, NEW s \in Seq(T), IsInjective(s), NEW t, NEW f, SortedBy(s, f)
    PROVE  /\ RemoveFirst(s, t) \in Seq(T) /\ IsInjective(RemoveFirst(s, t))
           /\ ToSet(RemoveFirst(s, t)) = ToSet(s) \ {t}
           /\ SortedBy(RemoveFirst(s, t), f)
<1> DEFINE r == RemoveFirst(s, t)
           k == SelectInSeq(s, LAMBDA v : v = t)
<1>1. /\ Len(s) \in Nat /\ DOMAIN s = 1..Len(s)
      /\ ToSet(s) = {s[i] : i \in 1..Len(s)}
  BY ListElements
<1>2. CASE t \notin ToSet(s)
  <2>1. r = s
    BY <1>1, <1>2 DEF RemoveFirst
  <2> QED BY <1>2, <2>1
<1>3. CASE t \in ToSet(s)
  <2> DEFINE I == {i \in 1..Len(s) : s[i] = t}
             p == RemoveAt(s, k)
  <2>1. r = p
    BY <1>1, <1>3 DEF RemoveFirst
  <2>2. k \in DOMAIN s /\ s[k] = t
    <3>1. I # {}
      BY <1>1, <1>3
    <3>2. k = Min(I)
      BY <3>1 DEF SelectInSeq
    <3>3. Min(I) \in I
      <4>1. I \subseteq Nat BY <1>1
      <4> HIDE DEF I
      <4> QED BY <3>1, <4>1, FirstPosition
    <3> QED BY <1>1, <3>2, <3>3
  <2> HIDE DEF k
  <2>3. /\ p \in Seq(T) /\ IsInjective(p) /\ ToSet(p) = ToSet(s) \ {t}
        /\ Len(p) = Len(s) - 1
        /\ \A i \in 1..Len(s)-1 : p[i] = IF i < k THEN s[i] ELSE s[i+1]
    BY <2>2, RemoveFromList
  <2>4. SortedBy(p, f)
    <3>1. DOMAIN p = 1..Len(s)-1
      BY <2>3, ListElements
    <3> HIDE DEF p
    <3> SUFFICES ASSUME NEW i \in 1..Len(s)-1, NEW j \in 1..Len(s)-1, i < j
                 PROVE  f[p[i]] <= f[p[j]]
      BY <3>1 DEF SortedBy
    <3> DEFINE At(x) == IF x < k THEN x ELSE x + 1
    <3>2. p[i] = s[At(i)] /\ p[j] = s[At(j)]
      BY <2>3
    <3>3. At(i) \in 1..Len(s) /\ At(j) \in 1..Len(s) /\ At(i) < At(j)
      BY <1>1, <2>2
    <3> HIDE DEF At
    <3> QED BY <1>1, <3>2, <3>3 DEF SortedBy
  <2> HIDE DEF r, p
  <2>5. /\ r \in Seq(T) /\ IsInjective(r) /\ ToSet(r) = ToSet(s) \ {t} /\ SortedBy(r, f)
    BY <2>1, <2>3, <2>4
  <2> QED BY <2>5 DEF r
<1> QED BY <1>2, <1>3

(* InsertBefore, given the timers that are due later than t, puts t in its *)
(* place: g is f with the ticks that t has left.                           *)
LEMMA InsertInOrder ==
    ASSUME NEW T, NEW s \in Seq(T), IsInjective(s), NEW t \in T, t \notin ToSet(s),
           NEW f \in [T -> Int], SortedBy(s, f), NEW n \in Int, NEW later,
           \A u \in ToSet(s) : u \in later <=> f[u] > n
    PROVE  LET r == InsertBefore(s, t, later)
               g == [f EXCEPT ![t] = n]
           IN  /\ r \in Seq(T) /\ IsInjective(r) /\ ToSet(r) = ToSet(s) \cup {t}
               /\ SortedBy(r, g)
               /\ \A u \in ToSet(s) : Precedes(r, u, t) <=> g[u] <= g[t]
<1> DEFINE N == Len(s)
           i == SelectInSeq(s, LAMBDA u : u \in later)
           k == IF i = 0 THEN N + 1 ELSE i
           r == InsertAt(s, k, t)
           g == [f EXCEPT ![t] = n]
<1>1. /\ N \in Nat /\ DOMAIN s = 1..N /\ ToSet(s) = {s[j] : j \in 1..N}
      /\ \A j \in 1..N : s[j] \in T
  BY ListElements
<1>2. InsertBefore(s, t, later) = r
  BY DEF InsertBefore
<1>3. \/ i = 0 /\ \A j \in 1..N : s[j] \notin later
      \/ /\ i \in 1..N /\ s[i] \in later
         /\ \A j \in 1..N : j < i => s[j] \notin later
  BY FirstOf
<1> HIDE DEF i
<1>4. k \in 1..N+1 /\ \A j \in 1..N : j >= k <=> f[s[j]] > n
  <2>1. CASE i = 0
    BY <1>1, <1>3, <2>1
  <2>2. CASE i # 0
    <3>1. k = i /\ i \in 1..N /\ f[s[i]] > n /\ \A j \in 1..N : j < i => ~(f[s[j]] > n)
      BY <1>1, <1>3, <2>2
    <3>2. ASSUME NEW j \in 1..N, j > i PROVE f[s[j]] > n
      <4>1. f[s[i]] <= f[s[j]]
        BY <1>1, <3>1, <3>2 DEF SortedBy
      <4>2. f[s[i]] \in Int /\ f[s[j]] \in Int
        BY <1>1, <3>1
      <4> QED BY <3>1, <4>1, <4>2
    <3> QED BY <1>1, <3>1, <3>2
  <2> QED BY <2>1, <2>2
<1> HIDE DEF k, N
<1>5. /\ r \in Seq(T) /\ IsInjective(r) /\ ToSet(r) = ToSet(s) \cup {t}
  BY <1>4, InsertIntoList DEF N
<1>6. /\ DOMAIN r = 1..N+1
      /\ \A j \in 1..N+1 : r[j] = IF j < k THEN s[j] ELSE IF j = k THEN t ELSE s[j-1]
  BY <1>4, InsertElements, ListElements DEF N
<1> HIDE DEF r
<1>7. \A j \in 1..N : s[j] # t /\ g[s[j]] = f[s[j]] /\ f[s[j]] \in Int
  BY <1>1
<1>8. g[t] = n
  OBVIOUS
<1> HIDE DEF g
<1>9. SortedBy(r, g)
  <2> SUFFICES ASSUME NEW a \in 1..N+1, NEW b \in 1..N+1, a < b PROVE g[r[a]] <= g[r[b]]
    BY <1>6 DEF SortedBy
  <2>1. CASE b < k
    <3>1. a \in 1..N /\ b \in 1..N /\ r[a] = s[a] /\ r[b] = s[b]
      BY <1>1, <1>4, <1>6, <2>1
    <3> QED BY <1>1, <1>7, <3>1 DEF SortedBy
  <2>2. CASE b = k
    <3>1. a \in 1..N /\ ~(a >= k) /\ r[a] = s[a] /\ r[b] = t
      BY <1>1, <1>4, <1>6, <2>2
    <3> QED BY <1>4, <1>7, <1>8, <3>1
  <2>3. CASE b > k /\ a = k
    <3>1. b - 1 \in 1..N /\ b - 1 >= k /\ r[a] = t /\ r[b] = s[b-1]
      BY <1>1, <1>4, <1>6, <2>3
    <3> QED BY <1>4, <1>7, <1>8, <3>1
  <2>4. CASE b > k /\ a < k
    <3>1. a \in 1..N /\ b - 1 \in 1..N /\ ~(a >= k) /\ b - 1 >= k /\ a < b - 1
      BY <1>1, <1>4, <2>4
    <3>2. r[a] = s[a] /\ r[b] = s[b-1]
      BY <1>4, <1>6, <2>4
    <3> QED BY <1>1, <1>7, <3>1, <3>2 DEF SortedBy
  <2>5. CASE b > k /\ a > k
    <3>1. a - 1 \in 1..N /\ b - 1 \in 1..N /\ a - 1 < b - 1
      BY <1>1, <1>4, <2>5
    <3>2. r[a] = s[a-1] /\ r[b] = s[b-1]
      BY <1>4, <1>6, <2>5
    <3> QED BY <1>1, <1>7, <3>1, <3>2 DEF SortedBy
  <2> QED BY <1>4, <2>1, <2>2, <2>3, <2>4, <2>5
<1>10. ASSUME NEW u \in ToSet(s) PROVE Precedes(r, u, t) <=> g[u] <= g[t]
  <2>1. PICK j \in 1..N : u = s[j]
    BY <1>1
  <2>2. k \in DOMAIN r /\ r[k] = t /\ \A b \in DOMAIN r : r[b] = t => b = k
    BY <1>4, <1>5, <1>6 DEF IsInjective
  <2>3. g[u] \in Int /\ (g[u] <= g[t] <=> j < k)
    BY <1>4, <1>7, <1>8, <2>1
  <2>4. CASE j < k
    <3>1. j \in DOMAIN r /\ r[j] = u
      BY <1>1, <1>4, <1>6, <2>1, <2>4
    <3> QED BY <2>2, <2>3, <2>4, <3>1 DEF Precedes
  <2>5. CASE ~(j < k)
    <3>1. j + 1 \in DOMAIN r /\ r[j+1] = u
      BY <1>1, <1>4, <1>6, <2>1, <2>5
    <3>2. ASSUME NEW a \in DOMAIN r, NEW b \in DOMAIN r, a < b, r[a] = u, r[b] = t
          PROVE  FALSE
      <4>1. a = j + 1 /\ b = k
        BY <1>5, <2>2, <3>1, <3>2 DEF IsInjective
      <4> QED BY <1>4, <2>5, <3>2, <4>1
    <3>3. ~Precedes(r, u, t)
      BY <3>2 DEF Precedes
    <3> QED BY <2>3, <2>5, <3>3
  <2> QED BY <2>4, <2>5
<1> QED BY <1>2, <1>5, <1>9, <1>10 DEF g

-----------------------------------------------------------------------------
(* The two lists of timers                                                 *)

(* Which timer is of which kind.                                           *)
LEMMA KindOfTimer ==
    /\ Kinds = {"hard", "soft"} /\ "hard" \in Kinds /\ "soft" \in Kinds
    /\ \A t \in Timers : Kind(t) \in Kinds
    /\ \A t \in HardTimers : t \in Timers /\ Kind(t) = "hard" /\ t # ThreadTimer
    /\ \A t \in SoftTimers : t \in Timers /\ Kind(t) = "soft" /\ t # ThreadTimer
    /\ ThreadTimer \in Timers /\ Kind(ThreadTimer) = "hard"
    /\ NoTimer \notin Timers
BY KindAssumption DEF Kinds, Kind, Timers

(* What InOrder says of one list.                                          *)
LEMMA OrderedLists ==
    ASSUME NEW l, NEW f, NEW c, NEW now, InOrder(l, f, c, now), NEW k \in Kinds
    PROVE  /\ l[k] \in Seq(Timers) /\ IsInjective(l[k]) /\ SortedBy(l[k], f)
           /\ ToSet(l[k]) \subseteq Timers
           /\ \A t \in ToSet(l[k]) : Kind(t) = k /\ c[t] = (now + f[t]) % Range1
           /\ \A t \in Timers : Kind(t) # k => t \notin ToSet(l[k])
<1>1. l[k] \in Seq(Timers)
  BY DEF InOrder
<1>2. ToSet(l[k]) \subseteq Timers
  BY <1>1, ListElements
<1> QED BY <1>1, <1>2 DEF InOrder

(* A timer is looked for on the list of its kind; it is on no other.       *)
LEMMA OnItsList ==
    ASSUME NEW l, NEW f, NEW c, NEW now, InOrder(l, f, c, now), NEW k \in Kinds
    PROVE  \A t \in Timers : t \in ToSet(l[k]) <=> Kind(t) = k /\ Contains(l[Kind(t)], t)
<1> TAKE t \in Timers
<1>1. l[k] \in Seq(Timers) /\ (Kind(t) # k => t \notin ToSet(l[k]))
  BY OrderedLists
<1>2. ToSet(l[k]) = {l[k][i] : i \in 1..Len(l[k])}
  BY <1>1, ListElements
<1>3. t \in ToSet(l[k]) <=> Contains(l[k], t)
  BY <1>2 DEF Contains
<1> QED BY <1>1, <1>3

(* Without takes t off its list.                                           *)
LEMMA WithoutInOrder ==
    ASSUME NEW l, NEW f, NEW c, NEW now, InOrder(l, f, c, now), NEW t
    PROVE  /\ InOrder(Without(l, t), f, c, now)
           /\ \A k \in Kinds : ToSet(Without(l, t)[k]) = ToSet(l[k]) \ {t}
           /\ \A k \in Kinds : t \notin ToSet(l[k]) => Without(l, t)[k] = l[k]
<1> DEFINE w == Without(l, t)
<1>1. w = [k \in Kinds |-> RemoveFirst(l[k], t)]
  BY DEF Without
<1> HIDE DEF w
<1>2. ASSUME NEW k \in Kinds
      PROVE  /\ w[k] \in Seq(Timers) /\ IsInjective(w[k]) /\ SortedBy(w[k], f)
             /\ ToSet(w[k]) = ToSet(l[k]) \ {t}
             /\ \A u \in ToSet(w[k]) : Kind(u) = k /\ c[u] = (now + f[u]) % Range1
  <2>1. w[k] = RemoveFirst(l[k], t)
    BY <1>1
  <2>2. l[k] \in Seq(Timers) /\ IsInjective(l[k]) /\ SortedBy(l[k], f)
    BY OrderedLists
  <2>3. /\ w[k] \in Seq(Timers) /\ IsInjective(w[k]) /\ SortedBy(w[k], f)
        /\ ToSet(w[k]) = ToSet(l[k]) \ {t}
    BY <2>1, <2>2, RemoveInOrder
  <2> QED BY <2>3, OrderedLists
<1>3. w \in [Kinds -> Seq(Timers)]
  BY <1>1, <1>2
<1>4. InOrder(w, f, c, now)
  BY <1>2, <1>3 DEF InOrder
<1>5. ASSUME NEW k \in Kinds, t \notin ToSet(l[k]) PROVE w[k] = l[k]
  <2>1. l[k] \in Seq(Timers)
    BY OrderedLists
  <2>2. ToSet(l[k]) = {l[k][i] : i \in 1..Len(l[k])}
    BY <2>1, ListElements
  <2> QED BY <1>1, <1>5, <2>2 DEF RemoveFirst
<1> QED BY <1>2, <1>4, <1>5 DEF w

(* The fields of a timer on neither list do not matter.                    *)
LEMMA ClearedInOrder ==
    ASSUME NEW l, NEW f \in [Timers -> Int], NEW c \in [Timers -> Int], NEW now,
           InOrder(l, f, c, now), NEW t, \A k \in Kinds : t \notin ToSet(l[k])
    PROVE  InOrder(l, Cleared(f, t), Cleared(c, t), now)
<1> DEFINE g == Cleared(f, t)
           d == Cleared(c, t)
<1>1. ASSUME NEW k \in Kinds
      PROVE  /\ IsInjective(l[k]) /\ SortedBy(l[k], g)
             /\ \A u \in ToSet(l[k]) : Kind(u) = k /\ d[u] = (now + g[u]) % Range1
  <2>1. /\ l[k] \in Seq(Timers) /\ IsInjective(l[k]) /\ SortedBy(l[k], f)
        /\ \A u \in ToSet(l[k]) : Kind(u) = k /\ c[u] = (now + f[u]) % Range1
    BY OrderedLists
  <2>2. \A u \in ToSet(l[k]) : g[u] = f[u] /\ d[u] = c[u]
    BY OrderedLists DEF Cleared
  <2> HIDE DEF g, d
  <2>3. \A i \in DOMAIN l[k] : l[k][i] \in ToSet(l[k])
    BY DEF ToSet
  <2>4. SortedBy(l[k], g)
    BY <2>1, <2>2, <2>3 DEF SortedBy
  <2> QED BY <2>1, <2>2, <2>4
<1> HIDE DEF g, d
<1>2. InOrder(l, g, d, now)
  BY <1>1 DEF InOrder
<1> QED BY <1>2 DEF g, d

(* The head of a list is the timer that is due first.                      *)
LEMMA HeadInOrder ==
    ASSUME NEW f \in [Timers -> Int], NEW c, NEW now, NEW l, InOrder(l, f, c, now),
           NEW k \in Kinds, l[k] # <<>>, NEW t, t = Head(l[k])
    PROVE  /\ t \in Timers /\ Kind(t) = k /\ t \in ToSet(l[k])
           /\ \A u \in ToSet(l[k]) : f[t] <= f[u]
<1>1. /\ l[k] \in Seq(Timers) /\ IsInjective(l[k]) /\ SortedBy(l[k], f)
      /\ \A u \in ToSet(l[k]) : u \in Timers /\ Kind(u) = k
  BY OrderedLists
<1>2. t \in ToSet(l[k])
  BY <1>1, TailOfList
<1>3. \A u \in ToSet(l[k]) : f[t] <= f[u]
  BY <1>1, TailInOrder
<1> QED BY <1>1, <1>2, <1>3

(* The head of list k leaves it.                                           *)
LEMMA HeadLeaves ==
    ASSUME TypeOK, ListInv, NEW k \in Kinds, list[k] # <<>>,
           list' = [list EXCEPT ![k] = Tail(@)]
    PROVE  LET t == Head(list[k])
           IN  /\ t \in Timers /\ Kind(t) = k /\ t \in ToSet(list[k])
               /\ \A u \in ToSet(list[k]) : left[t] <= left[u]
               /\ \A j \in Kinds : ToSet(list'[j]) = ToSet(list[j]) \ {t}
               /\ InOrder(list', Cleared(left, t), Cleared(timeout_tick, t), tick)
<1> DEFINE t == Head(list[k])
<1>1. /\ list[k] \in Seq(Timers) /\ IsInjective(list[k]) /\ SortedBy(list[k], left)
      /\ \A u \in ToSet(list[k]) :
            u \in Timers /\ Kind(u) = k /\ timeout_tick[u] = (tick + left[u]) % Range1
  BY OrderedLists DEF ListInv
<1>2. left \in [Timers -> Int] /\ timeout_tick \in [Timers -> Int]
  BY Bounds DEF TypeOK
<1>3. /\ Tail(list[k]) \in Seq(Timers) /\ IsInjective(Tail(list[k]))
      /\ t \in ToSet(list[k]) /\ ToSet(Tail(list[k])) = ToSet(list[k]) \ {t}
  BY <1>1, TailOfList
<1>4. SortedBy(Tail(list[k]), left) /\ \A u \in ToSet(list[k]) : left[t] <= left[u]
  BY <1>1, <1>2, TailInOrder
<1>5. t \in Timers /\ Kind(t) = k
  BY <1>1, <1>3
<1> HIDE DEF t
<1>6. /\ list' \in [Kinds -> Seq(Timers)]
      /\ list'[k] = Tail(list[k]) /\ \A j \in Kinds \ {k} : list'[j] = list[j]
  BY <1>3 DEF TypeOK
<1>7. ASSUME NEW j \in Kinds
      PROVE  /\ IsInjective(list'[j]) /\ SortedBy(list'[j], left)
             /\ ToSet(list'[j]) = ToSet(list[j]) \ {t}
             /\ \A u \in ToSet(list'[j]) :
                   Kind(u) = j /\ timeout_tick[u] = (tick + left[u]) % Range1
  <2>1. CASE j = k
    BY <1>1, <1>3, <1>4, <1>6, <2>1
  <2>2. CASE j # k
    <3>1. list'[j] = list[j] /\ t \notin ToSet(list[j])
      BY <1>5, <1>6, <2>2, OrderedLists DEF ListInv
    <3> QED BY <3>1, OrderedLists DEF ListInv
  <2> QED BY <2>1, <2>2
<1>8. InOrder(list', left, timeout_tick, tick)
  BY <1>6, <1>7 DEF InOrder
<1>9. InOrder(list', Cleared(left, t), Cleared(timeout_tick, t), tick)
  <2>1. \A j \in Kinds : t \notin ToSet(list'[j])
    BY <1>7
  <2> QED BY <1>2, <1>8, <2>1, ClearedInOrder
<1> QED BY <1>3, <1>4, <1>5, <1>7, <1>9 DEF t

(* Arm puts t, which is on no list, in its place.                          *)
LEMMA ArmInOrder ==
    ASSUME TypeOK, NEW l, InOrder(l, left, timeout_tick, tick),
           NEW t \in Timers, NEW n \in 0..MaxInit, \A k \in Kinds : t \notin ToSet(l[k]),
           Arm(t, n, l)
    PROVE  /\ left' = [left EXCEPT ![t] = n]
           /\ timeout_tick' \in [Timers -> 0..TickMax]
           /\ left' \in [Timers -> -MaxLate..MaxInit]
           /\ InOrder(list', left', timeout_tick', tick)
           /\ \A k \in Kinds : ToSet(list'[k]) = IF k = Kind(t) THEN ToSet(l[k]) \cup {t}
                                                 ELSE ToSet(l[k])
           /\ \A k \in Kinds \ {Kind(t)} : list'[k] = l[k]
           /\ \A u \in Timers \ {t} : timeout_tick'[u] = timeout_tick[u] /\ left'[u] = left[u]
           /\ left'[t] = n
           /\ \A u \in ToSet(l[Kind(t)]) :
                 Precedes(list'[Kind(t)], u, t) <=> left'[u] <= left'[t]
<1> DEFINE due == (tick + n) % (TickMax + 1)
           K == Kind(t)
           s == l[K]
           later == {u \in ToSet(s) : Minus(timeout_tick[u], due) \in 1..Half-1}
           r == InsertBefore(s, t, later)
<1>1. /\ K \in Kinds /\ Kinds = {"hard", "soft"}
      /\ tick \in 0..TickMax /\ timeout_tick \in [Timers -> 0..TickMax]
      /\ left \in [Timers -> -MaxLate..MaxInit]
  BY KindOfTimer DEF TypeOK
<1>2. /\ TickMax \in Nat /\ Range1 \in Nat \ {0} /\ Range1 = TickMax + 1
      /\ MaxInit \in Nat /\ MaxLate \in Nat
  BY Bounds
<1>3. due = (tick + n) % Range1 /\ due \in 0..TickMax
  BY <1>1, <1>2
<1>4. /\ list' = [l EXCEPT ![K] = r]
      /\ timeout_tick' = [timeout_tick EXCEPT ![t] = due]
      /\ left' = [left EXCEPT ![t] = n]
  BY DEF Arm, Insert
<1>5. /\ s \in Seq(Timers) /\ IsInjective(s) /\ SortedBy(s, left) /\ t \notin ToSet(s)
      /\ ToSet(s) \subseteq Timers
      /\ \A u \in ToSet(s) : timeout_tick[u] = (tick + left[u]) % Range1
  BY <1>1, OrderedLists
<1> HIDE DEF due
<1>6. \A u \in ToSet(s) : u \in later <=> left[u] > n
  <2> TAKE u \in ToSet(s)
  <2>1. left[u] \in -MaxLate..MaxInit
    BY <1>1, <1>5
  <2>2. Minus(timeout_tick[u], due) \in 1..Half-1 <=> left[u] > n
    BY <1>1, <1>3, <1>5, <2>1, LaterTick
  <2> QED BY <2>2
<1>7. left \in [Timers -> Int] /\ n \in Int
  BY <1>1, <1>2
<1> HIDE DEF later
<1>8. /\ r \in Seq(Timers) /\ IsInjective(r) /\ ToSet(r) = ToSet(s) \cup {t}
      /\ SortedBy(r, left')
      /\ \A u \in ToSet(s) : Precedes(r, u, t) <=> left'[u] <= left'[t]
  <2> HIDE DEF s, K
  <2>1. /\ r \in Seq(Timers) /\ IsInjective(r) /\ ToSet(r) = ToSet(s) \cup {t}
        /\ SortedBy(r, [left EXCEPT ![t] = n])
        /\ \A u \in ToSet(s) :
              Precedes(r, u, t) <=> [left EXCEPT ![t] = n][u] <= [left EXCEPT ![t] = n][t]
    BY <1>5, <1>6, <1>7, InsertInOrder
  <2> HIDE DEF r
  <2> QED BY <1>4, <2>1
<1> HIDE DEF r
<1>9. l \in [Kinds -> Seq(Timers)]
  BY DEF InOrder
<1>10. list' \in [Kinds -> Seq(Timers)] /\ list'[K] = r /\ \A k \in Kinds \ {K} : list'[k] = l[k]
  BY <1>1, <1>4, <1>8, <1>9
<1>11. /\ \A u \in Timers \ {t} : timeout_tick'[u] = timeout_tick[u] /\ left'[u] = left[u]
       /\ timeout_tick'[t] = due /\ left'[t] = n
       /\ timeout_tick' \in [Timers -> 0..TickMax]
       /\ left' \in [Timers -> -MaxLate..MaxInit]
  BY <1>1, <1>2, <1>3, <1>4
<1>12. ASSUME NEW k \in Kinds
       PROVE  /\ IsInjective(list'[k]) /\ SortedBy(list'[k], left')
              /\ \A u \in ToSet(list'[k]) :
                    Kind(u) = k /\ timeout_tick'[u] = (tick + left'[u]) % Range1
              /\ ToSet(list'[k]) = IF k = K THEN ToSet(l[k]) \cup {t} ELSE ToSet(l[k])
  <2>0. /\ l[k] \in Seq(Timers) /\ IsInjective(l[k]) /\ SortedBy(l[k], left)
        /\ ToSet(l[k]) \subseteq Timers /\ t \notin ToSet(l[k])
        /\ \A u \in ToSet(l[k]) : Kind(u) = k /\ timeout_tick[u] = (tick + left[u]) % Range1
    BY OrderedLists
  <2>1. \A u \in ToSet(l[k]) : timeout_tick'[u] = timeout_tick[u] /\ left'[u] = left[u]
    BY <1>11, <2>0
  <2>2. CASE k = K
    BY <1>3, <1>8, <1>10, <1>11, <2>0, <2>1, <2>2
  <2>3. CASE k # K
    <3>1. list'[k] = l[k]
      BY <1>10, <2>3
    <3>2. \A i \in DOMAIN l[k] : l[k][i] \in ToSet(l[k])
      BY DEF ToSet
    <3>3. SortedBy(l[k], left')
      BY <2>0, <2>1, <3>2 DEF SortedBy
    <3> QED BY <2>0, <2>1, <2>3, <3>1, <3>3
  <2> QED BY <2>2, <2>3
<1>13. InOrder(list', left', timeout_tick', tick)
  BY <1>10, <1>12 DEF InOrder
<1>14. \A u \in ToSet(l[Kind(t)]) : Precedes(list'[Kind(t)], u, t) <=> left'[u] <= left'[t]
  BY <1>8, <1>10
<1>15. /\ \A k \in Kinds : ToSet(list'[k]) = IF k = Kind(t) THEN ToSet(l[k]) \cup {t}
                                             ELSE ToSet(l[k])
       /\ \A k \in Kinds \ {Kind(t)} : list'[k] = l[k]
  BY <1>10, <1>12
<1> QED BY <1>4, <1>11, <1>13, <1>14, <1>15

(* The head of a list is due just if any timer on it is.                   *)
LEMMA DueHead ==
    ASSUME NEW now \in 0..TickMax, NEW f \in [Timers -> -MaxLate..MaxInit],
           NEW c \in [Timers -> 0..TickMax], NEW l, InOrder(l, f, c, now), NEW k \in Kinds
    PROVE  LET due == l[k] # <<>> /\ Minus(now, c[Head(l[k])]) < Half
           IN  /\ due => f[Head(l[k])] <= 0
               /\ ~due => \A u \in ToSet(l[k]) : f[u] > 0
<1>1. TickMax \in Nat /\ MaxInit \in Nat /\ MaxLate \in Nat
  BY Bounds
<1>2. f \in [Timers -> Int] /\ c \in [Timers -> Int]
  BY <1>1
<1>3. /\ l[k] \in Seq(Timers) /\ ToSet(l[k]) \subseteq Timers
      /\ \A u \in ToSet(l[k]) : c[u] = (now + f[u]) % Range1
  BY OrderedLists
<1>4. CASE l[k] = <<>>
  BY <1>4, EmptyList
<1>5. CASE l[k] # <<>>
  <2> DEFINE h == Head(l[k])
  <2>1. h \in Timers /\ h \in ToSet(l[k]) /\ \A u \in ToSet(l[k]) : f[h] <= f[u]
    BY <1>2, <1>5, HeadInOrder
  <2> HIDE DEF h
  <2>2. f[h] \in -MaxLate..MaxInit /\ c[h] = (now + f[h]) % Range1
    BY <1>3, <2>1
  <2>3. Minus(now, c[h]) < Half <=> f[h] <= 0
    BY <2>2, DueTick
  <2>4. ASSUME ~(f[h] <= 0), NEW u \in ToSet(l[k]) PROVE f[u] > 0
    BY <1>1, <1>3, <2>1, <2>2, <2>4
  <2> QED BY <1>5, <2>3, <2>4 DEF h
<1> QED BY <1>4, <1>5

-----------------------------------------------------------------------------
(* The order of calls                                                      *)

(* Nobody takes a new place where nobody is added and no due tick is set.  *)
LEMMA NobodyMoves ==
    ASSUME ListInv,
           \A k \in Kinds : ToSet(list'[k]) \subseteq ToSet(list[k]),
           \A k \in Kinds : \A u \in ToSet(list'[k]) : timeout_tick'[u] = timeout_tick[u]
    PROVE  TakesItsPlace
<1>1. \A k \in Kinds : \A u \in ToSet(list'[k]) : Listed(u)
  BY OnItsList, OrderedLists DEF ListInv, Listed
<1> QED BY <1>1 DEF TakesItsPlace

(* Arm gives t its place, and nobody else.                                 *)
LEMMA ArmedTakesPlace ==
    ASSUME TypeOK, ListInv, NEW l, InOrder(l, left, timeout_tick, tick),
           NEW t \in Timers, NEW n \in 0..MaxInit, \A k \in Kinds : t \notin ToSet(l[k]),
           \A k \in Kinds : ToSet(l[k]) \subseteq ToSet(list[k]),
           Arm(t, n, l)
    PROVE  TakesItsPlace
<1>1. /\ \A k \in Kinds : ToSet(list'[k]) = IF k = Kind(t) THEN ToSet(l[k]) \cup {t}
                                            ELSE ToSet(l[k])
      /\ \A u \in Timers \ {t} : timeout_tick'[u] = timeout_tick[u]
      /\ \A u \in ToSet(l[Kind(t)]) : Precedes(list'[Kind(t)], u, t) <=> left'[u] <= left'[t]
  BY ArmInOrder
<1>2. \A k \in Kinds : \A u \in ToSet(list[k]) : u \in Timers /\ Listed(u)
  BY OnItsList, OrderedLists DEF ListInv, Listed
<1> SUFFICES ASSUME NEW k \in Kinds, NEW a \in ToSet(list'[k]), NEW u \in ToSet(list'[k]),
                    a # u, ~Listed(a) \/ timeout_tick'[a] # timeout_tick[a]
             PROVE  Precedes(list'[k], u, a) <=> left'[u] <= left'[a]
  BY DEF TakesItsPlace
<1>3. a = t
  BY <1>1, <1>2
<1>4. k = Kind(t)
  <2> SUFFICES ASSUME k # Kind(t) PROVE FALSE OBVIOUS
  <2>1. ToSet(list'[k]) = ToSet(l[k]) BY <1>1
  <2> QED BY <1>3, <2>1
<1>5. u \in ToSet(l[k])
  <2>1. ToSet(list'[k]) = ToSet(l[k]) \cup {t} BY <1>1, <1>4
  <2> QED BY <1>3, <2>1
<1> QED BY <1>1, <1>3, <1>4, <1>5

-----------------------------------------------------------------------------
(* Steps                                                                   *)

(* The types, in the forms the lemmas above ask for.                       *)
LEMMA Typed ==
    ASSUME TypeOK
    PROVE  /\ tick \in 0..TickMax
           /\ left \in [Timers -> -MaxLate..MaxInit] /\ left \in [Timers -> Int]
           /\ timeout_tick \in [Timers -> 0..TickMax] /\ timeout_tick \in [Timers -> Int]
           /\ active \in [Timers -> BOOLEAN] /\ run \in [Kinds -> Timers \cup {NoTimer}]
           /\ slipped \in BOOLEAN
BY Bounds DEF TypeOK

(* What the timer thread has read is a tick near the present one.          *)
LEMMA LookedAt ==
    ASSUME TypeOK, ListInv, SleepInv, pc = "looked", next_timeout # TickMax
    PROVE  \E d \in -MaxLate..MaxInit : next_timeout = (tick + d) % Range1
<1>1. CASE list["soft"] # <<>> /\ next_timeout = timeout_tick[Head(list["soft"])]
  <2> DEFINE h == Head(list["soft"])
  <2>1. h \in Timers /\ h \in ToSet(list["soft"])
    BY <1>1, Typed, KindOfTimer, HeadInOrder DEF ListInv
  <2> HIDE DEF h
  <2>2. left[h] \in -MaxLate..MaxInit /\ timeout_tick[h] = (tick + left[h]) % Range1
    BY <2>1, Typed, KindOfTimer, OrderedLists DEF ListInv
  <2> QED BY <1>1, <2>2 DEF h
<1> QED BY <1>1 DEF SleepInv

(* rt_timer_start: the lists.                                              *)
LEMMA StartMoves ==
    ASSUME TypeOK, ListInv, NEW t \in HardTimers \cup SoftTimers, NEW n \in 0..MaxInit,
           Start(t, n)
    PROVE  /\ ListInv' /\ TakesItsPlace
           /\ timeout_tick' \in [Timers -> 0..TickMax]
           /\ left' \in [Timers -> -MaxLate..MaxInit]
           /\ left'[t] = n
           /\ \A u \in Timers \ {t} : timeout_tick'[u] = timeout_tick[u] /\ left'[u] = left[u]
           /\ \A u \in Timers :
                 Listed(u)' <=> u = t \/ (Listed(u) /\ ~(u = ThreadTimer /\ t \in SoftTimers
                                                           /\ pc = "asleep"))
           /\ t \in HardTimers => list'["soft"] = list["soft"]
<1> DEFINE wakes == t \in SoftTimers /\ pc = "asleep"
           v == Without(list, t)
           l == IF wakes THEN Without(v, ThreadTimer) ELSE v
<1>1. /\ Arm(t, n, l) /\ tick' = tick /\ t \in Timers /\ t # ThreadTimer
  BY KindOfTimer DEF Start
<1>2. /\ InOrder(v, left, timeout_tick, tick)
      /\ \A k \in Kinds : ToSet(v[k]) = ToSet(list[k]) \ {t}
      /\ \A k \in Kinds : t \notin ToSet(list[k]) => v[k] = list[k]
  BY WithoutInOrder DEF ListInv
<1>3. /\ InOrder(l, left, timeout_tick, tick)
      /\ \A k \in Kinds : ToSet(l[k]) = ToSet(list[k]) \ (IF wakes THEN {t, ThreadTimer} ELSE {t})
  <2> HIDE DEF v
  <2>1. CASE wakes
    <3>1. /\ l = Without(v, ThreadTimer)
          /\ InOrder(l, left, timeout_tick, tick)
          /\ \A k \in Kinds : ToSet(l[k]) = ToSet(v[k]) \ {ThreadTimer}
      BY <1>2, <2>1, WithoutInOrder
    <3> QED BY <1>2, <2>1, <3>1
  <2>2. CASE ~wakes
    BY <1>2, <2>2
  <2> QED BY <2>1, <2>2
<1>4. t \in HardTimers => l = v /\ v["soft"] = list["soft"]
  <2> SUFFICES ASSUME t \in HardTimers PROVE l = v /\ v["soft"] = list["soft"] OBVIOUS
  <2>1. Kind(t) # "soft" /\ ~wakes
    BY KindOfTimer
  <2>2. t \notin ToSet(list["soft"])
    BY <1>1, <2>1, KindOfTimer, OnItsList DEF ListInv
  <2> QED BY <1>2, <2>1, <2>2, KindOfTimer
<1> HIDE DEF l, v
<1>5. \A k \in Kinds : t \notin ToSet(l[k])
  BY <1>3
<1>6. /\ timeout_tick' \in [Timers -> 0..TickMax]
      /\ left' \in [Timers -> -MaxLate..MaxInit]
      /\ InOrder(list', left', timeout_tick', tick)
      /\ \A k \in Kinds : ToSet(list'[k]) = IF k = Kind(t) THEN ToSet(l[k]) \cup {t}
                                            ELSE ToSet(l[k])
      /\ \A k \in Kinds \ {Kind(t)} : list'[k] = l[k]
      /\ \A u \in Timers \ {t} : timeout_tick'[u] = timeout_tick[u] /\ left'[u] = left[u]
      /\ left'[t] = n
  BY <1>1, <1>3, <1>5, ArmInOrder
<1>7. ListInv'
  BY <1>1, <1>6 DEF ListInv
<1>8. TakesItsPlace
  <2>1. \A k \in Kinds : ToSet(l[k]) \subseteq ToSet(list[k])
    BY <1>3
  <2> QED BY <1>1, <1>3, <1>5, <2>1, ArmedTakesPlace
<1>9. ASSUME NEW u \in Timers
      PROVE  Listed(u)' <=> u = t \/ (Listed(u) /\ ~(u = ThreadTimer /\ wakes))
  <2>1. Kind(u) \in Kinds
    BY KindOfTimer
  <2>2. Listed(u) <=> u \in ToSet(list[Kind(u)])
    BY <2>1, OnItsList DEF ListInv, Listed
  <2>3. Contains(list'[Kind(u)], u) <=> u \in ToSet(list'[Kind(u)])
    BY <1>6, <2>1, OnItsList
  <2>4. Listed(u)' <=> u \in ToSet(list'[Kind(u)])
    BY <2>3 DEF Listed
  <2>5. u \in ToSet(list'[Kind(u)]) <=> u = t \/ u \in ToSet(l[Kind(u)])
    BY <1>5, <1>6, <2>1
  <2>6. u \in ToSet(l[Kind(u)]) <=>
            u \in ToSet(list[Kind(u)]) /\ u # t /\ ~(u = ThreadTimer /\ wakes)
    BY <1>3, <2>1
  <2> QED BY <2>2, <2>4, <2>5, <2>6
<1>10. t \in HardTimers => list'["soft"] = list["soft"]
  BY <1>4, <1>6, KindOfTimer
<1> QED BY <1>6, <1>7, <1>8, <1>9, <1>10

(* rt_timer_start keeps the invariant.                                     *)
LEMMA StartStep ==
    ASSUME IInv, NEW t \in HardTimers \cup SoftTimers, NEW n \in 0..MaxInit, Start(t, n)
    PROVE  IInv' /\ OnlyWhenDue /\ TakesItsPlace
<1> DEFINE wakes == t \in SoftTimers /\ pc = "asleep"
<1>0. TypeOK /\ ListInv /\ RunInv /\ CanBeStopped /\ LateInv /\ SleepInv
  BY DEF IInv
<1>1. /\ ListInv' /\ TakesItsPlace
      /\ timeout_tick' \in [Timers -> 0..TickMax]
      /\ left' \in [Timers -> -MaxLate..MaxInit]
      /\ left'[t] = n
      /\ \A u \in Timers \ {t} : timeout_tick'[u] = timeout_tick[u] /\ left'[u] = left[u]
      /\ \A u \in Timers : Listed(u)' <=> u = t \/ (Listed(u) /\ ~(u = ThreadTimer /\ wakes))
      /\ t \in HardTimers => list'["soft"] = list["soft"]
  BY <1>0, StartMoves
<1>2. /\ CanCall /\ Legal(t, n)
      /\ active' = [active EXCEPT ![t] = TRUE, ![ThreadTimer] = IF wakes THEN FALSE ELSE @]
      /\ run' = [k \in Kinds |-> IF run[k] = t THEN NoTimer ELSE run[k]]
      /\ pc' = IF wakes THEN "check" ELSE pc
      /\ slipped' = (~wakes /\ Slips(t))
      /\ UNCHANGED <<tick, isr, next_timeout>>
  BY DEF Start, OffRun
<1>3. t \in Timers /\ t # ThreadTimer /\ ThreadTimer \in Timers /\ NoTimer \notin Timers
  BY KindOfTimer
<1>4. TypeOK'
  <2>1. list' \in [Kinds -> Seq(Timers)] /\ \A k \in Kinds : \A u \in ToSet(list'[k]) : Kind(u) = k
    BY <1>1 DEF ListInv, InOrder
  <2>2. active' \in [Timers -> BOOLEAN] /\ run' \in [Kinds -> Timers \cup {NoTimer}]
    BY <1>0, <1>2, <1>3, Typed
  <2>3. slipped' \in BOOLEAN
    BY <1>0, <1>2 DEF Slips, TypeOK
  <2> QED BY <1>0, <1>1, <1>2, <2>1, <2>2, <2>3 DEF TypeOK
<1>5. RunInv'
  <2>1. ASSUME NEW k \in Kinds, NEW u \in Timers, run'[k] = u
        PROVE  u \in HardTimers \cup SoftTimers /\ Kind(u) = k /\ ~Listed(u)'
    <3>1. run[k] = u /\ u # t
      BY <1>2, <1>3, <2>1
    <3>2. u \in HardTimers \cup SoftTimers /\ Kind(u) = k /\ ~Listed(u)
      BY <1>0, <3>1 DEF RunInv
    <3> QED BY <1>1, <3>1, <3>2, KindOfTimer
  <2>2. \A k \in Kinds : run'[k] # NoTimer => run'[k] = run[k]
    BY <1>2
  <2>3. /\ run'["hard"] # NoTimer => isr' = "callback"
        /\ run'["soft"] # NoTimer => pc' = "callback"
    BY <1>0, <1>2, <2>2, KindOfTimer DEF RunInv
  <2> QED BY <2>1, <2>3 DEF RunInv
<1>6. CanBeStopped'
  <2> SUFFICES ASSUME NEW u \in Timers
               PROVE  active'[u] <=> \/ Listed(u)'
                                     \/ u \in {run'[k] : k \in Kinds} /\ Period[u] > 0
    BY DEF CanBeStopped
  <2>0. active[u] <=> Listed(u) \/ (u \in {run[k] : k \in Kinds} /\ Period[u] > 0)
    BY <1>0 DEF CanBeStopped
  <2>1. CASE u = t
    BY <1>0, <1>1, <1>2, <1>3, <2>1, Typed
  <2>2. CASE u # t
    <3>1. u \in {run'[k] : k \in Kinds} <=> u \in {run[k] : k \in Kinds}
      BY <1>2, <1>3, <2>2
    <3>2. CASE u = ThreadTimer /\ wakes
      <4>1. ~active'[u]
        BY <1>0, <1>2, <1>3, <3>2, Typed
      <4>2. u \notin {run[k] : k \in Kinds}
        BY <1>0, <1>3, <3>2, KindOfTimer DEF RunInv
      <4> QED BY <1>1, <2>2, <3>1, <3>2, <4>1, <4>2
    <3>3. CASE ~(u = ThreadTimer /\ wakes)
      <4>1. active'[u] = active[u]
        BY <1>0, <1>2, <1>3, <2>2, <3>3, Typed
      <4> QED BY <1>1, <2>0, <2>2, <3>1, <3>3, <4>1
    <3> QED BY <3>2, <3>3
  <2> QED BY <2>1, <2>2
<1>7. LateInv'
  <2>1. \A u \in HardTimers : left'[u] >= 0 /\ (u = t => left'[u] > 0)
    BY <1>0, <1>1, <1>2, KindOfTimer DEF LateInv, Legal
  <2>2. left'[ThreadTimer] = left[ThreadTimer] /\ left[ThreadTimer] >= 0
    BY <1>0, <1>1, <1>2, <1>3 DEF LateInv, HardPunctual, CanCall
  <2>3. left[ThreadTimer] \in Int
    BY <1>0, <1>3, Typed
  <2>4. HardPunctual'
    BY <1>0, <1>1, <1>2, <2>1, <2>2, KindOfTimer DEF LateInv, HardPunctual
  <2> QED BY <2>1, <2>2, <2>3, <2>4 DEF LateInv
<1>8. SleepInv'
  <2>1. CASE wakes
    BY <1>0, <1>1, <1>2, <1>3, <2>1 DEF SleepInv
  <2>2. CASE ~wakes /\ t \in SoftTimers
    <3>1. /\ pc' = pc /\ pc # "asleep" /\ slipped' = Slips(t)
          /\ ~Listed(ThreadTimer)' /\ slipped' = (slipped \/ pc \in {"looked", "measured"})
      BY <1>0, <1>1, <1>2, <1>3, <2>2 DEF SleepInv, Slips
    <3>2. pc = "looked" /\ next_timeout # TickMax =>
             \E d \in -MaxLate..MaxInit : next_timeout = (tick + d) % Range1
      BY <1>0, LookedAt
    <3> QED BY <1>0, <1>2, <3>1, <3>2 DEF SleepInv
  <2>3. CASE t \in HardTimers
    <3>1. /\ pc' = pc /\ slipped' = slipped /\ list'["soft"] = list["soft"]
          /\ Listed(ThreadTimer)' <=> Listed(ThreadTimer)
      BY <1>0, <1>1, <1>2, <1>3, <2>3, KindOfTimer DEF Slips, TypeOK
    <3>2. \A u \in ToSet(list["soft"]) : u \in Timers /\ u # t
      BY <1>0, <2>3, KindOfTimer, OrderedLists DEF ListInv
    <3>3. list["soft"] # <<>> => Head(list["soft"]) \in ToSet(list["soft"])
      BY <1>0, KindOfTimer, Typed, HeadInOrder DEF ListInv
    <3>4. /\ left'[ThreadTimer] = left[ThreadTimer]
          /\ \A u \in ToSet(list["soft"]) : left'[u] = left[u] /\ timeout_tick'[u] = timeout_tick[u]
      BY <1>1, <1>3, <3>2
    <3> QED BY <1>0, <1>2, <3>1, <3>3, <3>4 DEF SleepInv
  <2> QED BY <2>1, <2>2, <2>3
<1>9. OnlyWhenDue
  BY <1>1, <1>2, KindOfTimer DEF OnlyWhenDue
<1> QED BY <1>1, <1>4, <1>5, <1>6, <1>7, <1>8, <1>9 DEF IInv

-----------------------------------------------------------------------------
(* A timer that leaves its list                                            *)

(* To be listed is to be on the list of one's kind.                        *)
LEMMA ListedNow ==
    ASSUME ListInv
    PROVE  \A u \in Timers : Listed(u) <=> u \in ToSet(list[Kind(u)])
BY KindOfTimer, OnItsList DEF ListInv, Listed

(* The same after a step.                                                  *)
LEMMA ListedNext ==
    ASSUME ListInv'
    PROVE  \A u \in Timers : Listed(u)' <=> u \in ToSet(list'[Kind(u)])
<1>1. InOrder(list', left', timeout_tick', tick')
  BY DEF ListInv
<1>2. \A u \in Timers : u \in ToSet(list'[Kind(u)]) <=> Contains(list'[Kind(u)], u)
  BY <1>1, KindOfTimer, OnItsList
<1> QED BY <1>2 DEF Listed

(* One timer leaves its list, and nobody else is touched.                  *)
LEMMA LeaveMoves ==
    ASSUME TypeOK, ListInv, NEW t \in Timers, tick' = tick,
           timeout_tick' = Cleared(timeout_tick, t), left' = Cleared(left, t),
           InOrder(list', Cleared(left, t), Cleared(timeout_tick, t), tick),
           \A k \in Kinds : ToSet(list'[k]) = ToSet(list[k]) \ {t}
    PROVE  /\ ListInv' /\ TakesItsPlace
           /\ list' \in [Kinds -> Seq(Timers)]
           /\ \A k \in Kinds : \A u \in ToSet(list'[k]) : Kind(u) = k
           /\ timeout_tick' \in [Timers -> 0..TickMax]
           /\ left' \in [Timers -> -MaxLate..MaxInit]
           /\ left'[t] = 0
           /\ \A u \in Timers \ {t} : timeout_tick'[u] = timeout_tick[u] /\ left'[u] = left[u]
           /\ \A u \in Timers : Listed(u)' <=> Listed(u) /\ u # t
<1>1. ListInv'
  BY DEF ListInv
<1>2. /\ timeout_tick' \in [Timers -> 0..TickMax]
      /\ left' \in [Timers -> -MaxLate..MaxInit]
      /\ left'[t] = 0
      /\ \A u \in Timers \ {t} : timeout_tick'[u] = timeout_tick[u] /\ left'[u] = left[u]
  BY Typed, Bounds DEF Cleared
<1>3. \A u \in Timers : Listed(u)' <=> Listed(u) /\ u # t
  <2>1. \A u \in Timers : u \in ToSet(list'[Kind(u)]) <=> u \in ToSet(list[Kind(u)]) /\ u # t
    BY KindOfTimer
  <2> QED BY <1>1, <2>1, ListedNow, ListedNext
<1>4. TakesItsPlace
  <2>1. \A k \in Kinds : \A u \in ToSet(list'[k]) : timeout_tick'[u] = timeout_tick[u]
    <3>1. \A k \in Kinds : ToSet(list[k]) \subseteq Timers
      BY OrderedLists DEF ListInv
    <3> QED BY <1>2, <3>1
  <2> QED BY <2>1, NobodyMoves
<1>5. /\ list' \in [Kinds -> Seq(Timers)]
      /\ \A k \in Kinds : \A u \in ToSet(list'[k]) : Kind(u) = k
  BY DEF InOrder
<1> QED BY <1>1, <1>2, <1>3, <1>4, <1>5

(* rt_timer_stop.                                                          *)
LEMMA StopStep ==
    ASSUME IInv, NEW t \in HardTimers \cup SoftTimers, Stop(t)
    PROVE  IInv' /\ OnlyWhenDue /\ TakesItsPlace
<1>0. TypeOK /\ ListInv /\ RunInv /\ CanBeStopped /\ LateInv /\ SleepInv
  BY DEF IInv
<1>2. /\ CanCall
      /\ list' = Without(list, t)
      /\ run' = [k \in Kinds |-> IF run[k] = t THEN NoTimer ELSE run[k]]
      /\ active' = [active EXCEPT ![t] = FALSE]
      /\ timeout_tick' = Cleared(timeout_tick, t) /\ left' = Cleared(left, t)
      /\ slipped' = Slips(t)
      /\ UNCHANGED <<tick, isr, pc, next_timeout>>
  BY DEF Stop, OffRun
<1>3. t \in Timers /\ t # ThreadTimer /\ ThreadTimer \in Timers /\ NoTimer \notin Timers
  BY KindOfTimer
<1>1. /\ ListInv' /\ TakesItsPlace
      /\ list' \in [Kinds -> Seq(Timers)]
      /\ \A k \in Kinds : \A u \in ToSet(list'[k]) : Kind(u) = k
      /\ timeout_tick' \in [Timers -> 0..TickMax]
      /\ left' \in [Timers -> -MaxLate..MaxInit]
      /\ left'[t] = 0
      /\ \A u \in Timers \ {t} : timeout_tick'[u] = timeout_tick[u] /\ left'[u] = left[u]
      /\ \A u \in Timers : Listed(u)' <=> Listed(u) /\ u # t
  <2>1. /\ InOrder(list', left, timeout_tick, tick)
        /\ \A k \in Kinds : ToSet(list'[k]) = ToSet(list[k]) \ {t}
    BY <1>0, <1>2, WithoutInOrder DEF ListInv
  <2>2. InOrder(list', Cleared(left, t), Cleared(timeout_tick, t), tick)
    BY <1>0, <2>1, ClearedInOrder, Typed
  <2> QED BY <1>0, <1>2, <1>3, <2>1, <2>2, LeaveMoves
<1>4. TypeOK'
  <2>1. active' \in [Timers -> BOOLEAN] /\ run' \in [Kinds -> Timers \cup {NoTimer}]
    BY <1>0, <1>2, <1>3, Typed
  <2>2. slipped' \in BOOLEAN
    BY <1>0, <1>2 DEF Slips, TypeOK
  <2> QED BY <1>0, <1>1, <1>2, <2>1, <2>2 DEF TypeOK
<1>5. RunInv'
  <2>1. ASSUME NEW k \in Kinds, NEW u \in Timers, run'[k] = u
        PROVE  u \in HardTimers \cup SoftTimers /\ Kind(u) = k /\ ~Listed(u)'
    <3>1. run[k] = u
      BY <1>2, <1>3, <2>1
    <3> QED BY <1>0, <1>1, <3>1 DEF RunInv
  <2>2. \A k \in Kinds : run'[k] # NoTimer => run'[k] = run[k]
    BY <1>2
  <2>3. /\ run'["hard"] # NoTimer => isr' = "callback"
        /\ run'["soft"] # NoTimer => pc' = "callback"
    BY <1>0, <1>2, <2>2, KindOfTimer DEF RunInv
  <2> QED BY <2>1, <2>3 DEF RunInv
<1>6. CanBeStopped'
  <2> SUFFICES ASSUME NEW u \in Timers
               PROVE  active'[u] <=> \/ Listed(u)'
                                     \/ u \in {run'[k] : k \in Kinds} /\ Period[u] > 0
    BY DEF CanBeStopped
  <2>0. active[u] <=> Listed(u) \/ (u \in {run[k] : k \in Kinds} /\ Period[u] > 0)
    BY <1>0 DEF CanBeStopped
  <2>1. CASE u = t
    <3>1. ~active'[u] /\ ~Listed(u)'
      BY <1>0, <1>1, <1>2, <1>3, <2>1, Typed
    <3>2. u \notin {run'[k] : k \in Kinds}
      BY <1>2, <1>3, <2>1
    <3> QED BY <3>1, <3>2
  <2>2. CASE u # t
    <3>1. u \in {run'[k] : k \in Kinds} <=> u \in {run[k] : k \in Kinds}
      BY <1>2, <1>3, <2>2
    <3>2. active'[u] = active[u]
      BY <1>0, <1>2, <1>3, <2>2, Typed
    <3> QED BY <1>1, <2>0, <2>2, <3>1, <3>2
  <2> QED BY <2>1, <2>2
<1>7. LateInv'
  <2>1. ASSUME NEW u \in HardTimers PROVE left'[u] >= 0
    <3>1. u \in Timers /\ left[u] >= 0
      BY <1>0, KindOfTimer DEF LateInv
    <3> QED BY <1>1, <3>1
  <2>2. left'[ThreadTimer] = left[ThreadTimer] /\ left[ThreadTimer] >= 0
    BY <1>0, <1>1, <1>2, <1>3 DEF LateInv, HardPunctual, CanCall
  <2>3. left[ThreadTimer] \in Int
    BY <1>0, <1>3, Typed
  <2>4. HardPunctual'
    BY <1>0, <1>1, <1>2, <2>1, <2>2, KindOfTimer DEF LateInv, HardPunctual
  <2> QED BY <2>1, <2>2, <2>3, <2>4 DEF LateInv
<1>8. SleepInv'
  <2>0. Listed(ThreadTimer)' <=> Listed(ThreadTimer)
    BY <1>1, <1>3
  <2>1. \A u \in ToSet(list["soft"]) : u \in Timers /\ Kind(u) = "soft"
    BY <1>0, KindOfTimer, OrderedLists DEF ListInv
  <2>2. CASE t \in SoftTimers
    <3>1. slipped' = (slipped \/ pc \in {"looked", "measured"})
      BY <1>2, <2>2 DEF Slips
    <3>2. pc = "looked" /\ next_timeout # TickMax =>
             \E d \in -MaxLate..MaxInit : next_timeout = (tick + d) % Range1
      BY <1>0, LookedAt
    <3>3. ToSet(list'["soft"]) \subseteq ToSet(list["soft"]) \ {t}
      BY <1>0, <1>2, KindOfTimer, WithoutInOrder DEF ListInv
    <3>4. /\ left'[ThreadTimer] = left[ThreadTimer]
          /\ \A u \in ToSet(list'["soft"]) : left'[u] = left[u]
      BY <1>1, <1>3, <2>1, <3>3
    <3>5. list["soft"] = <<>> => list'["soft"] = <<>>
      <4> SUFFICES ASSUME list["soft"] = <<>> PROVE list'["soft"] = <<>> OBVIOUS
      <4>1. t \notin ToSet(list["soft"])
        BY EmptyList
      <4> QED BY <1>0, <1>2, <4>1, KindOfTimer, WithoutInOrder DEF ListInv
    <3> QED BY <1>0, <1>2, <2>0, <3>1, <3>2, <3>3, <3>4, <3>5 DEF SleepInv
  <2>3. CASE t \in HardTimers
    <3>0. t \notin ToSet(list["soft"])
      BY <2>1, <2>3, KindOfTimer
    <3>1. slipped' = slipped /\ list'["soft"] = list["soft"]
      BY <1>0, <1>2, <2>3, <3>0, KindOfTimer, WithoutInOrder DEF Slips, TypeOK, ListInv
    <3>2. list["soft"] # <<>> => Head(list["soft"]) \in ToSet(list["soft"])
      BY <1>0, KindOfTimer, Typed, HeadInOrder DEF ListInv
    <3>3. /\ left'[ThreadTimer] = left[ThreadTimer]
          /\ \A u \in ToSet(list["soft"]) : left'[u] = left[u] /\ timeout_tick'[u] = timeout_tick[u]
      BY <1>1, <1>3, <2>1, <3>0
    <3> QED BY <1>0, <1>2, <2>0, <3>1, <3>2, <3>3 DEF SleepInv
  <2> QED BY <2>2, <2>3
<1>9. OnlyWhenDue
  BY <1>1, <1>2 DEF OnlyWhenDue
<1> QED BY <1>1, <1>4, <1>5, <1>6, <1>7, <1>8, <1>9 DEF IInv

-----------------------------------------------------------------------------
(* The checks                                                              *)

(* What the timer thread knows, if nothing changed that it looks at.       *)
LEMMA SleepKept ==
    ASSUME IInv, UNCHANGED <<pc, slipped, next_timeout, tick>>,
           list'["soft"] = list["soft"], Listed(ThreadTimer)' <=> Listed(ThreadTimer),
           left'[ThreadTimer] = left[ThreadTimer],
           \A u \in ToSet(list["soft"]) : left'[u] = left[u] /\ timeout_tick'[u] = timeout_tick[u]
    PROVE  SleepInv'
<1>1. list["soft"] # <<>> => Head(list["soft"]) \in ToSet(list["soft"])
  BY KindOfTimer, Typed, HeadInOrder DEF IInv, ListInv
<1> QED BY <1>1 DEF IInv, SleepInv

(* The head of list k moves to the local list.                             *)
LEMMA ExpireMoves ==
    ASSUME IInv, NEW k \in Kinds, run[k] = NoTimer, Expire(k), Head(list[k]) # ThreadTimer
    PROVE  LET t == Head(list[k])
           IN  /\ t \in HardTimers \cup SoftTimers /\ Kind(t) = k
               /\ left[t] <= 0 /\ \A u \in ToSet(list[k]) : left[t] <= left[u]
               /\ ListInv' /\ CanBeStopped' /\ OnlyWhenDue /\ TakesItsPlace
               /\ list' \in [Kinds -> Seq(Timers)]
               /\ \A j \in Kinds : \A u \in ToSet(list'[j]) : Kind(u) = j
               /\ timeout_tick' \in [Timers -> 0..TickMax]
               /\ left' \in [Timers -> -MaxLate..MaxInit]
               /\ active' \in [Timers -> BOOLEAN]
               /\ run' \in [Kinds -> Timers \cup {NoTimer}]
               /\ \A j \in Kinds : \A u \in Timers : run'[j] = u =>
                     u \in HardTimers \cup SoftTimers /\ Kind(u) = j /\ ~Listed(u)'
               /\ \A j \in Kinds \ {k} : run'[j] = run[j] /\ list'[j] = list[j]
               /\ left'[t] = 0
               /\ \A u \in Timers \ {t} : timeout_tick'[u] = timeout_tick[u] /\ left'[u] = left[u]
               /\ \A u \in Timers : Listed(u)' <=> Listed(u) /\ u # t
<1> DEFINE t == Head(list[k])
<1>0. TypeOK /\ ListInv /\ RunInv /\ CanBeStopped /\ LateInv /\ SleepInv
  BY DEF IInv
<1>1. /\ HeadDue(k)
      /\ list' = [list EXCEPT ![k] = Tail(@)]
      /\ run' = [run EXCEPT ![k] = t]
      /\ active' = [active EXCEPT ![t] = t # ThreadTimer /\ Period[t] > 0]
      /\ timeout_tick' = Cleared(timeout_tick, t) /\ left' = Cleared(left, t)
      /\ tick' = tick
  BY DEF Expire
<1>2. list[k] # <<>> /\ Minus(tick, timeout_tick[t]) < Half
  BY <1>1 DEF HeadDue, TimedOut
<1>3. left[t] <= 0
  BY <1>0, <1>2, Typed, DueHead DEF ListInv
<1>4. /\ t \in Timers /\ Kind(t) = k /\ t \in ToSet(list[k])
      /\ \A u \in ToSet(list[k]) : left[t] <= left[u]
      /\ \A j \in Kinds : ToSet(list'[j]) = ToSet(list[j]) \ {t}
      /\ InOrder(list', Cleared(left, t), Cleared(timeout_tick, t), tick)
  BY <1>0, <1>1, <1>2, HeadLeaves
<1> HIDE DEF t
<1>5. t \in HardTimers \cup SoftTimers /\ t # ThreadTimer /\ NoTimer \notin Timers
  BY <1>4, KindOfTimer DEF Timers, t
<1>6. /\ ListInv' /\ TakesItsPlace
      /\ list' \in [Kinds -> Seq(Timers)]
      /\ \A j \in Kinds : \A u \in ToSet(list'[j]) : Kind(u) = j
      /\ timeout_tick' \in [Timers -> 0..TickMax]
      /\ left' \in [Timers -> -MaxLate..MaxInit]
      /\ left'[t] = 0
      /\ \A u \in Timers \ {t} : timeout_tick'[u] = timeout_tick[u] /\ left'[u] = left[u]
      /\ \A u \in Timers : Listed(u)' <=> Listed(u) /\ u # t
  BY <1>0, <1>1, <1>4, LeaveMoves
<1>7. (Period[t] > 0) \in BOOLEAN /\ active' \in [Timers -> BOOLEAN]
      /\ run' \in [Kinds -> Timers \cup {NoTimer}]
      /\ run'[k] = t
      /\ \A j \in Kinds \ {k} : run'[j] = run[j]
  BY <1>0, <1>1, <1>4, Typed
<1>8. \A j \in Kinds : \A u \in Timers : run'[j] = u =>
          u \in HardTimers \cup SoftTimers /\ Kind(u) = j /\ ~Listed(u)'
  <2> SUFFICES ASSUME NEW j \in Kinds, NEW u \in Timers, run'[j] = u
               PROVE  u \in HardTimers \cup SoftTimers /\ Kind(u) = j /\ ~Listed(u)'
    OBVIOUS
  <2>1. CASE j = k
    BY <1>4, <1>5, <1>6, <1>7, <2>1
  <2>2. CASE j # k
    <3>1. run[j] = u
      BY <1>7, <2>2
    <3> QED BY <1>0, <1>6, <3>1 DEF RunInv
  <2> QED BY <2>1, <2>2
<1>9. CanBeStopped'
  <2> SUFFICES ASSUME NEW u \in Timers
               PROVE  active'[u] <=> \/ Listed(u)'
                                     \/ u \in {run'[j] : j \in Kinds} /\ Period[u] > 0
    BY DEF CanBeStopped
  <2>0. active[u] <=> Listed(u) \/ (u \in {run[j] : j \in Kinds} /\ Period[u] > 0)
    BY <1>0 DEF CanBeStopped
  <2>1. CASE u = t
    <3>1. active'[u] = (Period[u] > 0) /\ ~Listed(u)'
      BY <1>0, <1>1, <1>4, <1>5, <1>6, <2>1, Typed
    <3>2. u \in {run'[j] : j \in Kinds}
      BY <1>7, <2>1
    <3> QED BY <3>1, <3>2
  <2>2. CASE u # t
    <3>1. u \in {run'[j] : j \in Kinds} <=> u \in {run[j] : j \in Kinds}
      BY <1>5, <1>7, <2>2
    <3>2. active'[u] = active[u]
      BY <1>0, <1>1, <2>2, Typed
    <3> QED BY <1>6, <2>0, <2>2, <3>1, <3>2
  <2> QED BY <2>1, <2>2
<1>10. OnlyWhenDue
  BY <1>3, <1>4, <1>6, <1>7 DEF OnlyWhenDue
<1>11. \A j \in Kinds \ {k} : list'[j] = list[j]
  BY <1>0, <1>1 DEF TypeOK
<1> QED BY <1>3, <1>4, <1>5, <1>6, <1>7, <1>8, <1>9, <1>10, <1>11 DEF t

(* A hard timer goes to its callback.                                      *)
LEMMA HardExpireStep ==
    ASSUME IInv, HardExpire
    PROVE  IInv' /\ OnlyWhenDue /\ TakesItsPlace
<1> DEFINE t == Head(list["hard"])
<1>0. TypeOK /\ ListInv /\ RunInv /\ CanBeStopped /\ LateInv /\ SleepInv
  BY DEF IInv
<1>1. /\ isr = "check" /\ isr' = "callback" /\ Expire("hard")
      /\ UNCHANGED <<tick, next_timeout, slipped, pc>>
      /\ run' = [run EXCEPT !["hard"] = t] /\ run'["hard"] # ThreadTimer
  BY DEF HardExpire, Expire
<1>2. run["hard"] = NoTimer /\ t # ThreadTimer
  BY <1>0, <1>1, KindOfTimer, Typed DEF RunInv
<1>3. /\ t \in HardTimers \cup SoftTimers /\ Kind(t) = "hard"
      /\ left[t] <= 0 /\ \A u \in ToSet(list["hard"]) : left[t] <= left[u]
      /\ ListInv' /\ CanBeStopped' /\ OnlyWhenDue /\ TakesItsPlace
      /\ list' \in [Kinds -> Seq(Timers)]
      /\ \A j \in Kinds : \A u \in ToSet(list'[j]) : Kind(u) = j
      /\ timeout_tick' \in [Timers -> 0..TickMax]
      /\ left' \in [Timers -> -MaxLate..MaxInit]
      /\ active' \in [Timers -> BOOLEAN]
      /\ run' \in [Kinds -> Timers \cup {NoTimer}]
      /\ \A j \in Kinds : \A u \in Timers : run'[j] = u =>
            u \in HardTimers \cup SoftTimers /\ Kind(u) = j /\ ~Listed(u)'
      /\ \A j \in Kinds \ {"hard"} : run'[j] = run[j] /\ list'[j] = list[j]
      /\ left'[t] = 0
      /\ \A u \in Timers \ {t} : timeout_tick'[u] = timeout_tick[u] /\ left'[u] = left[u]
      /\ \A u \in Timers : Listed(u)' <=> Listed(u) /\ u # t
  BY <1>1, <1>2, KindOfTimer, ExpireMoves
<1> HIDE DEF t
<1>4. t \in HardTimers /\ t \in Timers /\ list'["soft"] = list["soft"] /\ run'["soft"] = run["soft"]
  BY <1>3, KindOfTimer
<1>5. TypeOK'
  BY <1>0, <1>1, <1>3 DEF TypeOK
<1>6. RunInv'
  <2>1. run'["soft"] # NoTimer => pc' = "callback"
    BY <1>0, <1>1, <1>4 DEF RunInv
  <2> QED BY <1>1, <1>3, <2>1 DEF RunInv
<1>7. LateInv'
  <2>1. ASSUME NEW u \in HardTimers PROVE left'[u] >= 0
    <3>1. u \in Timers /\ left[u] >= 0
      BY <1>0, KindOfTimer DEF LateInv
    <3>2. left'[t] = 0 /\ (u # t => left'[u] = left[u])
      BY <1>3, <3>1
    <3> QED BY <3>1, <3>2
  <2>2. left'[ThreadTimer] = left[ThreadTimer] /\ left[ThreadTimer] \in Int
    BY <1>0, <1>2, <1>3, KindOfTimer, Typed
  <2>3. left[ThreadTimer] >= 0
    <3>1. CASE Listed(ThreadTimer)
      <4>1. left[t] <= left[ThreadTimer]
        BY <1>0, <1>3, <3>1, ListedNow, KindOfTimer
      <4>2. left[t] >= 0 /\ left[t] \in Int
        BY <1>0, <1>4, Typed DEF LateInv
      <4> QED BY <2>2, <4>1, <4>2
    <3>2. CASE ~Listed(ThreadTimer)
      BY <1>0, <3>2 DEF LateInv
    <3> QED BY <3>1, <3>2
  <2> QED BY <1>1, <2>1, <2>2, <2>3 DEF LateInv, HardPunctual
<1>8. SleepInv'
  <2>1. \A u \in ToSet(list["soft"]) : u \in Timers /\ u # t
    BY <1>0, <1>3, KindOfTimer, OrderedLists DEF ListInv
  <2>2. \A u \in ToSet(list["soft"]) : left'[u] = left[u] /\ timeout_tick'[u] = timeout_tick[u]
    BY <1>3, <2>1
  <2>3. (Listed(ThreadTimer)' <=> Listed(ThreadTimer)) /\ left'[ThreadTimer] = left[ThreadTimer]
    BY <1>2, <1>3, KindOfTimer
  <2> QED BY <1>1, <1>4, <2>2, <2>3, SleepKept
<1> QED BY <1>3, <1>5, <1>6, <1>7, <1>8 DEF IInv

(* A soft timer goes to its callback.                                      *)
LEMMA SoftExpireStep ==
    ASSUME IInv, SoftExpire
    PROVE  IInv' /\ OnlyWhenDue /\ TakesItsPlace
<1> DEFINE t == Head(list["soft"])
<1>0. TypeOK /\ ListInv /\ RunInv /\ CanBeStopped /\ LateInv /\ SleepInv
  BY DEF IInv
<1>1. /\ isr = "out" /\ pc = "check" /\ pc' = "callback" /\ Expire("soft")
      /\ UNCHANGED <<tick, next_timeout, slipped, isr>>
  BY DEF SoftExpire, Expire
<1>2. run["soft"] = NoTimer /\ run["hard"] = NoTimer /\ t # ThreadTimer
  <2>1. list["soft"] # <<>>
    BY <1>1 DEF Expire, HeadDue
  <2>2. Kind(t) = "soft"
    BY <1>0, <2>1, KindOfTimer, Typed, HeadInOrder DEF ListInv
  <2> QED BY <1>0, <1>1, <2>2, KindOfTimer DEF RunInv
<1>3. /\ t \in HardTimers \cup SoftTimers /\ Kind(t) = "soft"
      /\ ListInv' /\ CanBeStopped' /\ OnlyWhenDue /\ TakesItsPlace
      /\ list' \in [Kinds -> Seq(Timers)]
      /\ \A j \in Kinds : \A u \in ToSet(list'[j]) : Kind(u) = j
      /\ timeout_tick' \in [Timers -> 0..TickMax]
      /\ left' \in [Timers -> -MaxLate..MaxInit]
      /\ active' \in [Timers -> BOOLEAN]
      /\ run' \in [Kinds -> Timers \cup {NoTimer}]
      /\ \A j \in Kinds : \A u \in Timers : run'[j] = u =>
            u \in HardTimers \cup SoftTimers /\ Kind(u) = j /\ ~Listed(u)'
      /\ \A j \in Kinds \ {"soft"} : run'[j] = run[j] /\ list'[j] = list[j]
      /\ \A u \in Timers \ {t} : timeout_tick'[u] = timeout_tick[u] /\ left'[u] = left[u]
      /\ \A u \in Timers : Listed(u)' <=> Listed(u) /\ u # t
  BY <1>1, <1>2, KindOfTimer, ExpireMoves
<1> HIDE DEF t
<1>5. TypeOK'
  BY <1>0, <1>1, <1>3 DEF TypeOK
<1>6. RunInv'
  <2>1. run'["hard"] = NoTimer
    BY <1>2, <1>3, KindOfTimer
  <2> QED BY <1>1, <1>3, <2>1 DEF RunInv
<1>7. LateInv'
  <2>1. \A u \in HardTimers \cup {ThreadTimer} : u \in Timers \ {t}
    BY <1>2, <1>3, KindOfTimer
  <2>2. \A u \in HardTimers \cup {ThreadTimer} :
            left'[u] = left[u] /\ (Listed(u)' <=> Listed(u))
    BY <1>3, <2>1
  <2> QED BY <1>0, <1>1, <2>2 DEF LateInv, HardPunctual
<1>8. SleepInv'
  BY <1>0, <1>1, <1>3, KindOfTimer DEF SleepInv
<1> QED BY <1>3, <1>5, <1>6, <1>7, <1>8 DEF IInv

(* The check ends when no hard timer is due.                               *)
LEMMA NothingDue ==
    ASSUME tick' \in 0..TickMax, left' \in [Timers -> -MaxLate..MaxInit],
           timeout_tick' \in [Timers -> 0..TickMax], ListInv', CheckOn
    PROVE  /\ isr' \in {"check", "out"}
           /\ isr' = "out" => \A u \in Timers : Kind(u) = "hard" /\ Listed(u)' => left'[u] > 0
<1>1. InOrder(list', left', timeout_tick', tick')
  BY DEF ListInv
<1>2. LET due == list'["hard"] # <<>> /\ Minus(tick', timeout_tick'[Head(list'["hard"])]) < Half
      IN  ~due => \A u \in ToSet(list'["hard"]) : left'[u] > 0
  BY <1>1, KindOfTimer, DueHead
<1>3. isr' = IF list'["hard"] # <<>> /\ Minus(tick', timeout_tick'[Head(list'["hard"])]) < Half
             THEN "check" ELSE "out"
  BY DEF CheckOn, HeadDue, TimedOut
<1>4. isr' \in {"check", "out"} /\ (isr' = "out" => \A u \in ToSet(list'["hard"]) : left'[u] > 0)
  BY <1>2, <1>3
<1> QED BY <1>4, ListedNext

(* The timer comes back from its callback.                                 *)
LEMMA ReturnMoves ==
    ASSUME IInv, NEW k \in Kinds, Return(k)
    PROVE  /\ ListInv' /\ CanBeStopped' /\ OnlyWhenDue /\ TakesItsPlace
           /\ list' \in [Kinds -> Seq(Timers)]
           /\ \A j \in Kinds : \A u \in ToSet(list'[j]) : Kind(u) = j
           /\ timeout_tick' \in [Timers -> 0..TickMax]
           /\ left' \in [Timers -> -MaxLate..MaxInit]
           /\ run' \in [Kinds -> Timers \cup {NoTimer}]
           /\ \A j \in Kinds : \A u \in Timers : run'[j] = u =>
                 u \in HardTimers \cup SoftTimers /\ Kind(u) = j /\ ~Listed(u)'
           /\ run'[k] = NoTimer
           /\ \A j \in Kinds \ {k} : run'[j] = run[j] /\ list'[j] = list[j]
           /\ \A u \in Timers : u = run[k] => left'[u] = left[u] \/ left'[u] >= 0
           /\ \A u \in Timers : u # run[k] =>
                 timeout_tick'[u] = timeout_tick[u] /\ left'[u] = left[u]
           /\ \A u \in Timers : u # run[k] => (Listed(u)' <=> Listed(u))
<1> DEFINE t == run[k]
<1>0. TypeOK /\ ListInv /\ RunInv /\ CanBeStopped /\ LateInv /\ SleepInv
  BY DEF IInv
<1>1. /\ run' = [run EXCEPT ![k] = NoTimer]
      /\ IF t # NoTimer /\ active[t] THEN Arm(t, Period[t], list)
         ELSE UNCHANGED <<list, timeout_tick, left>>
      /\ UNCHANGED <<tick, active>>
  BY DEF Return
<1>2. NoTimer \notin Timers /\ t \in Timers \cup {NoTimer}
  BY <1>0, KindOfTimer, Typed
<1>3. t # NoTimer => /\ t \in Timers /\ t \in HardTimers \cup SoftTimers
                     /\ Kind(t) = k /\ ~Listed(t)
  BY <1>0, <1>2 DEF RunInv
<1>4. /\ run' \in [Kinds -> Timers \cup {NoTimer}] /\ run'[k] = NoTimer
      /\ \A j \in Kinds \ {k} : run'[j] = run[j]
  BY <1>0, <1>1, Typed
<1>5. ASSUME NEW j \in Kinds, NEW u \in Timers, run'[j] = u
      PROVE  /\ run[j] = u /\ j # k /\ u # t
             /\ u \in HardTimers \cup SoftTimers /\ Kind(u) = j /\ ~Listed(u)
  <2>1. j # k /\ run[j] = u
    BY <1>2, <1>4, <1>5
  <2>2. u \in HardTimers \cup SoftTimers /\ Kind(u) = j /\ ~Listed(u)
    BY <1>0, <2>1 DEF RunInv
  <2> QED BY <1>2, <1>3, <2>1, <2>2
<1>6. \A u \in Timers : u \in {run'[j] : j \in Kinds} <=> u # t /\ u \in {run[j] : j \in Kinds}
  BY <1>2, <1>4, <1>5
<1>7. CASE t # NoTimer /\ active[t]
  <2>1. /\ t \in Timers /\ t \in HardTimers \cup SoftTimers /\ Kind(t) = k /\ ~Listed(t)
        /\ Arm(t, Period[t], list) /\ active[t]
    BY <1>1, <1>3, <1>7
  <2>2. Period[t] \in 0..MaxInit /\ Period[t] > 0
    BY <1>0, <2>1, TimerAssumption DEF CanBeStopped
  <2>3. \A j \in Kinds : t \notin ToSet(list[j])
    BY <1>0, <2>1, OnItsList DEF ListInv, Listed
  <2> DEFINE n == Period[t]
  <2> HIDE DEF t, n
  <2>4. InOrder(list, left, timeout_tick, tick) /\ Arm(t, n, list) /\ n \in 0..MaxInit /\ n > 0
    BY <1>0, <2>1, <2>2 DEF ListInv, n
  <2>5. /\ timeout_tick' \in [Timers -> 0..TickMax]
        /\ left' \in [Timers -> -MaxLate..MaxInit]
        /\ InOrder(list', left', timeout_tick', tick)
        /\ \A j \in Kinds : ToSet(list'[j]) = IF j = Kind(t) THEN ToSet(list[j]) \cup {t}
                                              ELSE ToSet(list[j])
        /\ \A j \in Kinds \ {Kind(t)} : list'[j] = list[j]
        /\ \A u \in Timers \ {t} : timeout_tick'[u] = timeout_tick[u] /\ left'[u] = left[u]
        /\ left'[t] = n
    BY <1>0, <2>1, <2>3, <2>4, ArmInOrder
  <2>6. TakesItsPlace
    BY <1>0, <2>1, <2>3, <2>4, ArmedTakesPlace
  <2>7. ListInv' /\ list' \in [Kinds -> Seq(Timers)]
        /\ \A j \in Kinds : \A u \in ToSet(list'[j]) : Kind(u) = j
    BY <1>1, <2>5 DEF ListInv, InOrder
  <2>8. \A u \in Timers : Listed(u)' <=> Listed(u) \/ u = t
    <3>1. \A u \in Timers : u \in ToSet(list'[Kind(u)]) <=> u \in ToSet(list[Kind(u)]) \/ u = t
      BY <2>5, KindOfTimer
    <3> QED BY <1>0, <2>7, <3>1, ListedNow, ListedNext
  <2>9. OnlyWhenDue
    BY <2>8 DEF OnlyWhenDue
  <2>10. CanBeStopped'
    <3> SUFFICES ASSUME NEW u \in Timers
                 PROVE  active'[u] <=> \/ Listed(u)'
                                       \/ u \in {run'[j] : j \in Kinds} /\ Period[u] > 0
      BY DEF CanBeStopped
    <3>0. active[u] <=> Listed(u) \/ (u \in {run[j] : j \in Kinds} /\ Period[u] > 0)
      BY <1>0 DEF CanBeStopped
    <3>1. active'[u] = active[u]
      BY <1>1
    <3> QED BY <1>6, <2>1, <2>8, <3>0, <3>1
  <2>11. \A j \in Kinds : \A u \in Timers : run'[j] = u =>
                 u \in HardTimers \cup SoftTimers /\ Kind(u) = j /\ ~Listed(u)'
    BY <1>5, <2>8
  <2>12. \A j \in Kinds \ {k} : list'[j] = list[j]
    BY <2>1, <2>5
  <2>13. \A u \in Timers : u = t => left'[u] >= 0
    BY <2>4, <2>5
  <2> QED BY <1>4, <2>5, <2>6, <2>7, <2>8, <2>9, <2>10, <2>11, <2>12, <2>13 DEF t
<1>8. CASE ~(t # NoTimer /\ active[t])
  <2>1. /\ list' = list /\ timeout_tick' = timeout_tick /\ left' = left
        /\ tick' = tick /\ active' = active
    BY <1>1, <1>8
  <2>2. /\ ListInv' /\ list' \in [Kinds -> Seq(Timers)]
        /\ \A j \in Kinds : \A u \in ToSet(list'[j]) : Kind(u) = j
    BY <1>0, <2>1 DEF ListInv, TypeOK
  <2>3. \A u \in Timers : Listed(u)' <=> Listed(u)
    BY <2>1 DEF Listed
  <2>4. OnlyWhenDue
    BY <2>3 DEF OnlyWhenDue
  <2>5. TakesItsPlace
    BY <1>0, <2>1, NobodyMoves
  <2>6. CanBeStopped'
    <3> SUFFICES ASSUME NEW u \in Timers
                 PROVE  active'[u] <=> \/ Listed(u)'
                                       \/ u \in {run'[j] : j \in Kinds} /\ Period[u] > 0
      BY DEF CanBeStopped
    <3>0. active[u] <=> Listed(u) \/ (u \in {run[j] : j \in Kinds} /\ Period[u] > 0)
      BY <1>0 DEF CanBeStopped
    <3>1. u = t => ~active[u]
      BY <1>2, <1>8
    <3>2. u \in {run'[j] : j \in Kinds} <=> u # t /\ u \in {run[j] : j \in Kinds}
      BY <1>6
    <3>3. u = t => u \in {run[j] : j \in Kinds}
      OBVIOUS
    <3> HIDE DEF t
    <3> QED BY <2>1, <2>3, <3>0, <3>1, <3>2, <3>3
  <2>7. \A j \in Kinds : \A u \in Timers : run'[j] = u =>
                 u \in HardTimers \cup SoftTimers /\ Kind(u) = j /\ ~Listed(u)'
    BY <1>5, <2>3
  <2> QED BY <1>0, <1>4, <2>1, <2>2, <2>3, <2>4, <2>5, <2>6, <2>7, Typed
<1> QED BY <1>7, <1>8

(* A hard timer comes back from its callback.                              *)
LEMMA HardReturnStep ==
    ASSUME IInv, HardReturn
    PROVE  IInv' /\ OnlyWhenDue /\ TakesItsPlace
<1>0. TypeOK /\ ListInv /\ RunInv /\ CanBeStopped /\ LateInv /\ SleepInv
  BY DEF IInv
<1>1. /\ isr = "callback" /\ Return("hard") /\ CheckOn
      /\ UNCHANGED <<tick, active, next_timeout, slipped, pc>>
  BY DEF HardReturn, Return
<1>2. run["hard"] # ThreadTimer /\ run["hard"] \notin SoftTimers /\ left[ThreadTimer] >= 0
  BY <1>0, <1>1, KindOfTimer DEF RunInv, LateInv
<1>3. /\ ListInv' /\ CanBeStopped' /\ OnlyWhenDue /\ TakesItsPlace
      /\ list' \in [Kinds -> Seq(Timers)]
      /\ \A j \in Kinds : \A u \in ToSet(list'[j]) : Kind(u) = j
      /\ timeout_tick' \in [Timers -> 0..TickMax]
      /\ left' \in [Timers -> -MaxLate..MaxInit]
      /\ run' \in [Kinds -> Timers \cup {NoTimer}]
      /\ \A j \in Kinds : \A u \in Timers : run'[j] = u =>
            u \in HardTimers \cup SoftTimers /\ Kind(u) = j /\ ~Listed(u)'
      /\ run'["hard"] = NoTimer
      /\ \A j \in Kinds \ {"hard"} : run'[j] = run[j] /\ list'[j] = list[j]
      /\ \A u \in Timers : u = run["hard"] => left'[u] = left[u] \/ left'[u] >= 0
      /\ \A u \in Timers : u # run["hard"] =>
            timeout_tick'[u] = timeout_tick[u] /\ left'[u] = left[u]
      /\ \A u \in Timers : u # run["hard"] => (Listed(u)' <=> Listed(u))
  BY <1>1, KindOfTimer, ReturnMoves
<1>4. ThreadTimer \in Timers /\ list'["soft"] = list["soft"] /\ run'["soft"] = run["soft"]
  BY <1>3, KindOfTimer
<1>5. /\ isr' \in {"check", "out"}
      /\ isr' = "out" => \A u \in Timers : Kind(u) = "hard" /\ Listed(u)' => left'[u] > 0
  BY <1>0, <1>1, <1>3, Typed, NothingDue
<1>6. TypeOK'
  BY <1>0, <1>1, <1>3, <1>5 DEF TypeOK
<1>7. RunInv'
  BY <1>0, <1>1, <1>3, <1>4 DEF RunInv
<1>8. left'[ThreadTimer] = left[ThreadTimer] /\ (Listed(ThreadTimer)' <=> Listed(ThreadTimer))
  BY <1>2, <1>3, <1>4
<1>9. LateInv'
  <2>1. \A u \in HardTimers : left'[u] >= 0
    BY <1>0, <1>3, KindOfTimer DEF LateInv
  <2>2. left[ThreadTimer] \in Int
    BY <1>0, <1>4, Typed
  <2>3. HardPunctual'
    BY <1>2, <1>5, <1>8, KindOfTimer DEF HardPunctual
  <2> QED BY <1>2, <1>8, <2>1, <2>2, <2>3 DEF LateInv
<1>10. SleepInv'
  <2>1. \A u \in ToSet(list["soft"]) : u \in Timers /\ u # run["hard"]
    <3>1. \A u \in ToSet(list["soft"]) : u \in Timers /\ Kind(u) = "soft"
      BY <1>0, KindOfTimer, OrderedLists DEF ListInv
    <3>2. \A u \in Timers : u = run["hard"] => Kind(u) = "hard"
      BY <1>0, KindOfTimer DEF RunInv
    <3> QED BY <3>1, <3>2
  <2>2. \A u \in ToSet(list["soft"]) : left'[u] = left[u] /\ timeout_tick'[u] = timeout_tick[u]
    BY <1>3, <2>1
  <2> QED BY <1>1, <1>4, <1>8, <2>2, SleepKept
<1> QED BY <1>3, <1>6, <1>7, <1>9, <1>10 DEF IInv

(* A soft timer comes back from its callback.                              *)
LEMMA SoftReturnStep ==
    ASSUME IInv, SoftReturn
    PROVE  IInv' /\ OnlyWhenDue /\ TakesItsPlace
<1>0. TypeOK /\ ListInv /\ RunInv /\ CanBeStopped /\ LateInv /\ SleepInv
  BY DEF IInv
<1>1. /\ isr = "out" /\ pc = "callback" /\ pc' = "check" /\ Return("soft")
      /\ UNCHANGED <<tick, active, next_timeout, slipped, isr>>
  BY DEF SoftReturn, Return
<1>3. /\ ListInv' /\ CanBeStopped' /\ OnlyWhenDue /\ TakesItsPlace
      /\ list' \in [Kinds -> Seq(Timers)]
      /\ \A j \in Kinds : \A u \in ToSet(list'[j]) : Kind(u) = j
      /\ timeout_tick' \in [Timers -> 0..TickMax]
      /\ left' \in [Timers -> -MaxLate..MaxInit]
      /\ run' \in [Kinds -> Timers \cup {NoTimer}]
      /\ \A j \in Kinds : \A u \in Timers : run'[j] = u =>
            u \in HardTimers \cup SoftTimers /\ Kind(u) = j /\ ~Listed(u)'
      /\ run'["soft"] = NoTimer
      /\ \A j \in Kinds \ {"soft"} : run'[j] = run[j] /\ list'[j] = list[j]
      /\ \A u \in Timers : u = run["soft"] => left'[u] = left[u] \/ left'[u] >= 0
      /\ \A u \in Timers : u # run["soft"] =>
            timeout_tick'[u] = timeout_tick[u] /\ left'[u] = left[u]
      /\ \A u \in Timers : u # run["soft"] => (Listed(u)' <=> Listed(u))
  BY <1>1, KindOfTimer, ReturnMoves
<1>4. \A u \in HardTimers \cup {ThreadTimer} : u \in Timers /\ u # run["soft"]
  BY <1>0, KindOfTimer DEF RunInv
<1>5. \A u \in HardTimers \cup {ThreadTimer} : left'[u] = left[u] /\ (Listed(u)' <=> Listed(u))
  BY <1>3, <1>4
<1>6. TypeOK'
  BY <1>0, <1>1, <1>3 DEF TypeOK
<1>7. RunInv'
  <2>1. run'["hard"] = run["hard"]
    BY <1>3, KindOfTimer
  <2> QED BY <1>0, <1>1, <1>3, <2>1 DEF RunInv
<1>8. LateInv'
  BY <1>0, <1>1, <1>5 DEF LateInv, HardPunctual
<1>9. SleepInv'
  BY <1>0, <1>1, <1>5 DEF SleepInv
<1> QED BY <1>3, <1>6, <1>7, <1>8, <1>9 DEF IInv

(* The thread's own timer fires.                                           *)
LEMMA ThreadTimeoutStep ==
    ASSUME IInv, ThreadTimeout
    PROVE  IInv' /\ OnlyWhenDue /\ TakesItsPlace
<1>0. TypeOK /\ ListInv /\ RunInv /\ CanBeStopped /\ LateInv /\ SleepInv
  BY DEF IInv
<1>1. /\ isr = "check" /\ HeadDue("hard") /\ Head(list["hard"]) = ThreadTimer
      /\ list' = [list EXCEPT !["hard"] = Tail(@)]
      /\ active' = [active EXCEPT ![ThreadTimer] = FALSE]
      /\ timeout_tick' = Cleared(timeout_tick, ThreadTimer)
      /\ left' = Cleared(left, ThreadTimer)
      /\ pc' = "check" /\ slipped' = FALSE
      /\ UNCHANGED <<tick, run, next_timeout>> /\ CheckOn
  BY DEF ThreadTimeout
<1>2. list["hard"] # <<>> /\ Minus(tick, timeout_tick[ThreadTimer]) < Half
  BY <1>1 DEF HeadDue, TimedOut
<1>3. left[ThreadTimer] <= 0
  BY <1>0, <1>1, <1>2, KindOfTimer, Typed, DueHead DEF ListInv
<1>4. /\ ThreadTimer \in Timers /\ ThreadTimer \in ToSet(list["hard"])
      /\ \A j \in Kinds : ToSet(list'[j]) = ToSet(list[j]) \ {ThreadTimer}
      /\ InOrder(list', Cleared(left, ThreadTimer), Cleared(timeout_tick, ThreadTimer), tick)
  BY <1>0, <1>1, <1>2, KindOfTimer, HeadLeaves
<1>5. /\ ListInv' /\ TakesItsPlace
      /\ list' \in [Kinds -> Seq(Timers)]
      /\ \A j \in Kinds : \A u \in ToSet(list'[j]) : Kind(u) = j
      /\ timeout_tick' \in [Timers -> 0..TickMax]
      /\ left' \in [Timers -> -MaxLate..MaxInit]
      /\ left'[ThreadTimer] = 0
      /\ \A u \in Timers \ {ThreadTimer} : timeout_tick'[u] = timeout_tick[u] /\ left'[u] = left[u]
      /\ \A u \in Timers : Listed(u)' <=> Listed(u) /\ u # ThreadTimer
  BY <1>0, <1>1, <1>4, LeaveMoves
<1>6. Listed(ThreadTimer)
  BY <1>0, <1>4, KindOfTimer, ListedNow
<1>7. run["hard"] = NoTimer /\ run["soft"] = NoTimer
  BY <1>0, <1>1, <1>6 DEF RunInv, SleepInv
<1>8. /\ isr' \in {"check", "out"}
      /\ isr' = "out" => \A u \in Timers : Kind(u) = "hard" /\ Listed(u)' => left'[u] > 0
  BY <1>0, <1>1, <1>5, Typed, NothingDue
<1>9. TypeOK'
  <2>1. active' \in [Timers -> BOOLEAN]
    BY <1>0, <1>1, Typed
  <2> QED BY <1>0, <1>1, <1>5, <1>8, <2>1 DEF TypeOK
<1>10. RunInv'
  BY <1>1, <1>7, KindOfTimer DEF RunInv
<1>11. CanBeStopped'
  <2> SUFFICES ASSUME NEW u \in Timers
               PROVE  active'[u] <=> \/ Listed(u)'
                                     \/ u \in {run'[j] : j \in Kinds} /\ Period[u] > 0
    BY DEF CanBeStopped
  <2>0. active[u] <=> Listed(u) \/ (u \in {run[j] : j \in Kinds} /\ Period[u] > 0)
    BY <1>0 DEF CanBeStopped
  <2>1. u \notin {run'[j] : j \in Kinds} /\ u \notin {run[j] : j \in Kinds}
    BY <1>1, <1>7, KindOfTimer
  <2>2. active'[u] = IF u = ThreadTimer THEN FALSE ELSE active[u]
    BY <1>0, <1>1, <1>4, Typed
  <2> QED BY <1>5, <2>0, <2>1, <2>2
<1>12. LateInv'
  <2>1. \A u \in HardTimers : left'[u] >= 0
    BY <1>0, <1>5, KindOfTimer DEF LateInv
  <2>2. HardPunctual'
    BY <1>5, <1>8, KindOfTimer DEF HardPunctual
  <2> QED BY <1>5, <2>1, <2>2 DEF LateInv
<1>13. SleepInv'
  BY <1>1, <1>4, <1>5 DEF SleepInv
<1>14. OnlyWhenDue
  BY <1>1, <1>3, <1>5 DEF OnlyWhenDue
<1> QED BY <1>5, <1>9, <1>10, <1>11, <1>12, <1>13, <1>14 DEF IInv

-----------------------------------------------------------------------------
(* The tick and the timer thread                                           *)

(* rt_tick_increase takes one tick from every listed timer.                *)
LEMMA TickStep ==
    ASSUME IInv, Tick
    PROVE  IInv' /\ OnlyWhenDue /\ TakesItsPlace
<1>0. TypeOK /\ ListInv /\ RunInv /\ CanBeStopped /\ LateInv /\ SleepInv
  BY DEF IInv
<1>1. /\ isr = "out" /\ InReach
      /\ tick' = (tick + 1) % Range1
      /\ left' = [u \in Timers |-> IF Listed(u) THEN left[u] - 1 ELSE left[u]]
      /\ slipped' = (slipped \/ pc = "measured")
      /\ UNCHANGED <<list, timeout_tick, active, run, pc, next_timeout>> /\ CheckOn
  BY DEF Tick, timer, Range1
<1>2. /\ MaxLate \in Nat \ {0} /\ MaxInit \in Nat
      /\ left \in [Timers -> -MaxLate..MaxInit]
  BY <1>0, Bounds, Typed
<1>3. \A u \in Timers : left'[u] = IF Listed(u) THEN left[u] - 1 ELSE left[u]
  BY <1>1
<1>4. \A u \in Timers : Listed(u)' <=> Listed(u)
  BY <1>1 DEF Listed
<1>5. left[ThreadTimer] >= 0 /\ \A u \in HardTimers : Listed(u) => left[u] > 0
  BY <1>0, <1>1 DEF LateInv, HardPunctual
<1>6. ASSUME NEW u \in Timers, Listed(u) PROVE left[u] > -MaxLate
  <2>1. CASE u \in SoftTimers
    BY <1>1, <2>1 DEF InReach
  <2>2. CASE u \in HardTimers
    BY <1>2, <1>5, <1>6, <2>2
  <2>3. CASE u = ThreadTimer
    BY <1>2, <1>5, <2>3
  <2> QED BY <2>1, <2>2, <2>3 DEF Timers
<1>7. left' \in [Timers -> -MaxLate..MaxInit]
  <2>1. ASSUME NEW u \in Timers
        PROVE  (IF Listed(u) THEN left[u] - 1 ELSE left[u]) \in -MaxLate..MaxInit
    <3>1. left[u] \in -MaxLate..MaxInit
      BY <1>2
    <3> QED BY <1>2, <1>6, <3>1
  <2> QED BY <1>1, <2>1
<1>8. tick' \in 0..TickMax
  BY <1>1, <1>0, Bounds, Typed
<1>9. ListInv'
  <2>1. ASSUME NEW k \in Kinds, NEW u \in ToSet(list[k])
        PROVE  /\ u \in Timers /\ Listed(u) /\ Kind(u) = k /\ left'[u] = left[u] - 1
               /\ timeout_tick[u] = (tick' + left'[u]) % Range1
    <3>1. u \in Timers /\ Kind(u) = k /\ timeout_tick[u] = (tick + left[u]) % Range1
      BY <1>0, OrderedLists DEF ListInv
    <3>2. Listed(u)
      BY <1>0, <3>1, ListedNow
    <3>3. left'[u] = left[u] - 1
      BY <1>3, <3>1, <3>2
    <3>4. tick \in 0..TickMax /\ left[u] \in -MaxLate..MaxInit /\ left[u] > -MaxLate
      BY <1>0, <1>2, <1>6, <3>1, <3>2, Typed
    <3>5. (tick + left[u]) % Range1 = (tick' + (left[u] - 1)) % Range1
      BY <1>1, <3>4, NextTick
    <3> QED BY <3>1, <3>2, <3>3, <3>5
  <2>2. ASSUME NEW k \in Kinds PROVE SortedBy(list[k], left')
    <3>1. SortedBy(list[k], left) /\ \A i \in DOMAIN list[k] : list[k][i] \in ToSet(list[k])
      BY <1>0, OrderedLists DEF ListInv, ToSet
    <3>2. \A u \in ToSet(list[k]) : left'[u] = left[u] - 1 /\ left[u] \in Int
      BY <1>2, <2>1
    <3> QED BY <3>1, <3>2 DEF SortedBy
  <2>3. /\ list' \in [Kinds -> Seq(Timers)]
        /\ \A k \in Kinds : IsInjective(list'[k])
    BY <1>0, <1>1 DEF ListInv, InOrder
  <2>4. InOrder(list', left', timeout_tick', tick')
    BY <1>1, <2>1, <2>2, <2>3 DEF InOrder
  <2> QED BY <2>4 DEF ListInv
<1>10. /\ isr' \in {"check", "out"}
       /\ isr' = "out" => \A u \in Timers : Kind(u) = "hard" /\ Listed(u)' => left'[u] > 0
  BY <1>0, <1>1, <1>7, <1>8, <1>9, Typed, NothingDue
<1>11. TypeOK'
  BY <1>0, <1>1, <1>7, <1>8, <1>10 DEF TypeOK
<1>12. RunInv'
  BY <1>0, <1>1, <1>4 DEF RunInv
<1>13. CanBeStopped'
  BY <1>0, <1>1, <1>4 DEF CanBeStopped
<1>14. LateInv'
  <2>1. ASSUME NEW u \in HardTimers PROVE left'[u] >= 0
    <3>1. u \in Timers /\ left[u] \in Int /\ left[u] >= 0
      BY <1>0, <1>2, KindOfTimer DEF LateInv
    <3> QED BY <1>3, <1>5, <3>1
  <2>2. ThreadTimer \in Timers /\ left[ThreadTimer] \in Int
    BY <1>2, KindOfTimer
  <2>3. /\ left'[ThreadTimer] >= -1
        /\ ~Listed(ThreadTimer)' => left'[ThreadTimer] >= 0
    BY <1>3, <1>4, <1>5, <2>2
  <2>4. HardPunctual'
    <3>1. isr' = "out" /\ Listed(ThreadTimer)' => left'[ThreadTimer] > 0
      BY <1>10, KindOfTimer
    <3>2. isr' = "out" => left'[ThreadTimer] >= 0
      BY <1>3, <2>2, <2>3, <3>1
    <3> QED BY <1>10, <3>2, KindOfTimer DEF HardPunctual
  <2> QED BY <1>10, <2>1, <2>3, <2>4 DEF LateInv
<1>15. SleepInv'
  <2>1. Listed(ThreadTimer)' <=> Listed(ThreadTimer)
    BY <1>4, KindOfTimer
  <2>2. pc' \in {"look", "check", "callback"} => ~slipped'
    BY <1>0, <1>1 DEF SleepInv
  <2>3. pc' = "looked" /\ next_timeout' # TickMax =>
          \/ /\ slipped'
             /\ \E d \in -MaxLate..MaxInit : next_timeout' = (tick' + d) % Range1
          \/ /\ list'["soft"] # <<>>
             /\ next_timeout' = timeout_tick'[Head(list'["soft"])]
    BY <1>0, <1>1 DEF SleepInv, InReach
  <2>4. pc' = "measured" => next_timeout' <= MaxInit /\ slipped'
    BY <1>0, <1>1 DEF SleepInv
  <2>5. pc' = "asleep" =>
          \/ slipped' \/ list'["soft"] = <<>>
          \/ /\ Listed(ThreadTimer)'
             /\ \A u \in ToSet(list'["soft"]) : left'[ThreadTimer] <= left'[u]
    <3> SUFFICES ASSUME pc = "asleep", Listed(ThreadTimer),
                        \A u \in ToSet(list["soft"]) : left[ThreadTimer] <= left[u]
                 PROVE  \A u \in ToSet(list["soft"]) : left'[ThreadTimer] <= left'[u]
      BY <1>0, <1>1, <2>1 DEF SleepInv
    <3>1. \A u \in ToSet(list["soft"]) : u \in Timers /\ Listed(u)
      BY <1>0, KindOfTimer, OrderedLists, ListedNow DEF ListInv
    <3>2. left'[ThreadTimer] = left[ThreadTimer] - 1 /\ left[ThreadTimer] \in Int
      BY <1>2, <1>3, KindOfTimer
    <3>3. \A u \in ToSet(list["soft"]) : left'[u] = left[u] - 1 /\ left[u] \in Int
      BY <1>2, <1>3, <3>1
    <3> QED BY <3>2, <3>3
  <2>6. pc' # "asleep" => ~Listed(ThreadTimer)'
    BY <1>0, <1>1, <2>1 DEF SleepInv
  <2> QED BY <2>2, <2>3, <2>4, <2>5, <2>6 DEF SleepInv
<1>16. OnlyWhenDue
  BY <1>4 DEF OnlyWhenDue
<1>17. TakesItsPlace
  BY <1>0, <1>1, NobodyMoves
<1> QED BY <1>9, <1>11, <1>12, <1>13, <1>14, <1>15, <1>16, <1>17 DEF IInv

(* What the timer thread's own steps leave alone.                          *)
LEMMA ListsKept ==
    ASSUME IInv, UNCHANGED <<tick, list, timer, run, isr, left>>,
           pc = "callback" => pc' = "callback"
    PROVE  ListInv' /\ RunInv' /\ CanBeStopped' /\ LateInv' /\ OnlyWhenDue /\ TakesItsPlace
<1>0. TypeOK /\ ListInv /\ RunInv /\ CanBeStopped /\ LateInv /\ SleepInv
  BY DEF IInv
<1>1. /\ tick' = tick /\ list' = list /\ timeout_tick' = timeout_tick /\ active' = active
      /\ run' = run /\ isr' = isr /\ left' = left
  BY DEF timer
<1>2. \A u \in Timers : Listed(u)' <=> Listed(u)
  BY <1>1 DEF Listed
<1>3. ListInv'
  BY <1>0, <1>1 DEF ListInv
<1>4. RunInv'
  BY <1>0, <1>1, <1>2 DEF RunInv
<1>5. CanBeStopped'
  BY <1>0, <1>1, <1>2 DEF CanBeStopped
<1>6. LateInv'
  BY <1>0, <1>1, <1>2, KindOfTimer DEF LateInv, HardPunctual
<1>7. OnlyWhenDue
  BY <1>2 DEF OnlyWhenDue
<1>8. TakesItsPlace
  BY <1>0, <1>1, NobodyMoves
<1> QED BY <1>3, <1>4, <1>5, <1>6, <1>7, <1>8

(* The thread reads the due tick of its first timer.                       *)
LEMMA LookStep ==
    ASSUME IInv, Look
    PROVE  IInv' /\ OnlyWhenDue /\ TakesItsPlace
<1>0. TypeOK /\ ListInv /\ RunInv /\ CanBeStopped /\ LateInv /\ SleepInv
  BY DEF IInv
<1>1. /\ pc = "look" /\ pc' = "looked"
      /\ next_timeout' = IF list["soft"] = <<>> THEN TickMax
                         ELSE timeout_tick[Head(list["soft"])]
      /\ UNCHANGED <<tick, list, timer, run, isr, left>> /\ slipped' = slipped
  BY DEF Look
<1>2. ListInv' /\ RunInv' /\ CanBeStopped' /\ LateInv' /\ OnlyWhenDue /\ TakesItsPlace
  BY <1>1, ListsKept
<1>3. next_timeout' \in 0..TickMax
  <2>1. CASE list["soft"] = <<>>
    BY <1>1, <2>1, Bounds
  <2>2. CASE list["soft"] # <<>>
    <3>1. Head(list["soft"]) \in Timers
      BY <1>0, <2>2, KindOfTimer, Typed, HeadInOrder DEF ListInv
    <3> QED BY <1>0, <1>1, <2>2, <3>1, Typed
  <2> QED BY <2>1, <2>2
<1>4. TypeOK'
  BY <1>0, <1>1, <1>3 DEF TypeOK, timer
<1>5. SleepInv'
  <2>1. Listed(ThreadTimer)' <=> Listed(ThreadTimer)
    BY <1>1 DEF Listed
  <2> QED BY <1>0, <1>1, <2>1 DEF SleepInv, timer
<1> QED BY <1>2, <1>4, <1>5 DEF IInv

(* The thread computes how long that is from now.                          *)
LEMMA MeasureStep ==
    ASSUME IInv, Measure
    PROVE  IInv' /\ OnlyWhenDue /\ TakesItsPlace
<1>0. TypeOK /\ ListInv /\ RunInv /\ CanBeStopped /\ LateInv /\ SleepInv
  BY DEF IInv
<1>1. /\ pc = "looked" /\ next_timeout # TickMax
      /\ \/ /\ Minus(next_timeout, tick) < Half
            /\ next_timeout' = Minus(next_timeout, tick)
            /\ pc' = "measured" /\ slipped' = slipped
         \/ next_timeout' = 0 /\ pc' = "check" /\ slipped' = FALSE
      /\ UNCHANGED <<tick, list, timer, run, isr, left>>
  BY DEF Measure
<1>2. ListInv' /\ RunInv' /\ CanBeStopped' /\ LateInv' /\ OnlyWhenDue /\ TakesItsPlace
  BY <1>1, ListsKept
<1>3. (Listed(ThreadTimer)' <=> Listed(ThreadTimer)) /\ ~Listed(ThreadTimer)
  BY <1>0, <1>1 DEF Listed, SleepInv
<1>4. CASE pc' = "measured"
  <2>1. /\ Minus(next_timeout, tick) < Half
        /\ next_timeout' = Minus(next_timeout, tick) /\ slipped' = slipped
    BY <1>1, <1>4
  <2>2. tick \in 0..TickMax
    BY <1>0, Typed
  <2>3. next_timeout' \in 0..MaxInit
    <3>1. PICK d \in -MaxLate..MaxInit : next_timeout = (tick + d) % Range1
      BY <1>0, <1>1, LookedAt
    <3>2. d >= 0 /\ Minus(next_timeout, tick) = d
      BY <2>1, <2>2, <3>1, AheadTick
    <3> QED BY <2>1, <3>1, <3>2, Bounds
  <2>4. slipped \/ \A u \in ToSet(list["soft"]) : next_timeout' <= left[u]
    <3> SUFFICES ASSUME ~slipped
                 PROVE  \A u \in ToSet(list["soft"]) : next_timeout' <= left[u]
      OBVIOUS
    <3> DEFINE h == Head(list["soft"])
    <3>1. list["soft"] # <<>> /\ next_timeout = timeout_tick[h]
      BY <1>0, <1>1 DEF SleepInv
    <3>2. /\ h \in Timers /\ h \in ToSet(list["soft"])
          /\ \A u \in ToSet(list["soft"]) : left[h] <= left[u]
      BY <1>0, <3>1, KindOfTimer, Typed, HeadInOrder DEF ListInv
    <3> HIDE DEF h
    <3>3. left[h] \in -MaxLate..MaxInit /\ next_timeout = (tick + left[h]) % Range1
      BY <1>0, <3>1, <3>2, KindOfTimer, Typed, OrderedLists DEF ListInv
    <3>4. next_timeout' = left[h]
      BY <2>1, <2>2, <3>3, AheadTick
    <3> QED BY <3>2, <3>4
  <2>5. TypeOK'
    <3>1. next_timeout' \in 0..TickMax
      BY <2>3, Bounds
    <3> QED BY <1>0, <1>1, <1>4, <2>1, <3>1 DEF TypeOK, timer
  <2>6. SleepInv'
    BY <1>1, <1>3, <1>4, <2>1, <2>3, <2>4, Bounds DEF SleepInv
  <2> QED BY <1>2, <2>5, <2>6 DEF IInv
<1>5. CASE pc' = "check"
  <2>1. next_timeout' = 0 /\ slipped' = FALSE
    BY <1>1, <1>5
  <2>2. TypeOK'
    <3>1. next_timeout' \in 0..TickMax
      BY <2>1, Bounds
    <3> QED BY <1>0, <1>1, <1>5, <2>1, <3>1 DEF TypeOK, timer
  <2>3. SleepInv'
    BY <1>3, <1>5, <2>1 DEF SleepInv
  <2> QED BY <1>2, <2>2, <2>3 DEF IInv
<1> QED BY <1>1, <1>4, <1>5

(* The thread sleeps without a timer.                                      *)
LEMMA SleepForeverStep ==
    ASSUME IInv, SleepForever
    PROVE  IInv' /\ OnlyWhenDue /\ TakesItsPlace
<1>0. TypeOK /\ ListInv /\ RunInv /\ CanBeStopped /\ LateInv /\ SleepInv
  BY DEF IInv
<1>1. /\ pc = "looked" /\ pc' = "asleep" /\ next_timeout' = 0
      /\ slipped' = (slipped \/ list["soft"] # <<>>)
      /\ UNCHANGED <<tick, list, timer, run, isr, left>>
  BY DEF SleepForever
<1>2. ListInv' /\ RunInv' /\ CanBeStopped' /\ LateInv' /\ OnlyWhenDue /\ TakesItsPlace
  BY <1>1, ListsKept
<1>3. TypeOK'
  BY <1>0, <1>1, Bounds DEF TypeOK, timer
<1>4. SleepInv'
  BY <1>1 DEF SleepInv
<1> QED BY <1>2, <1>3, <1>4 DEF IInv

(* The thread starts its own timer and sleeps.                             *)
LEMMA SleepForStep ==
    ASSUME IInv, SleepFor
    PROVE  IInv' /\ OnlyWhenDue /\ TakesItsPlace
<1> DEFINE n == next_timeout
<1>0. TypeOK /\ ListInv /\ RunInv /\ CanBeStopped /\ LateInv /\ SleepInv
  BY DEF IInv
<1>1. /\ isr = "out" /\ pc = "measured" /\ pc' = "asleep" /\ next_timeout' = 0
      /\ Arm(ThreadTimer, n, list)
      /\ active' = [active EXCEPT ![ThreadTimer] = TRUE]
      /\ UNCHANGED <<tick, run, isr, slipped>>
  BY DEF SleepFor
<1>2. ThreadTimer \in Timers /\ Kind(ThreadTimer) = "hard" /\ ~Listed(ThreadTimer)
  BY <1>0, <1>1, KindOfTimer DEF SleepInv
<1>3. n \in 0..MaxInit
  BY <1>0, <1>1, Bounds DEF SleepInv, TypeOK
<1>4. InOrder(list, left, timeout_tick, tick) /\ \A k \in Kinds : ThreadTimer \notin ToSet(list[k])
  BY <1>0, <1>2, OnItsList DEF ListInv, Listed
<1> HIDE DEF n
<1>5. /\ timeout_tick' \in [Timers -> 0..TickMax]
      /\ left' \in [Timers -> -MaxLate..MaxInit]
      /\ InOrder(list', left', timeout_tick', tick)
      /\ \A k \in Kinds : ToSet(list'[k]) = IF k = Kind(ThreadTimer)
                                            THEN ToSet(list[k]) \cup {ThreadTimer}
                                            ELSE ToSet(list[k])
      /\ \A k \in Kinds \ {Kind(ThreadTimer)} : list'[k] = list[k]
      /\ \A u \in Timers \ {ThreadTimer} :
            timeout_tick'[u] = timeout_tick[u] /\ left'[u] = left[u]
      /\ left'[ThreadTimer] = n
  BY <1>0, <1>1, <1>2, <1>3, <1>4, ArmInOrder
<1>6. TakesItsPlace
  BY <1>0, <1>1, <1>2, <1>3, <1>4, ArmedTakesPlace
<1>7. ListInv' /\ list' \in [Kinds -> Seq(Timers)]
      /\ \A k \in Kinds : \A u \in ToSet(list'[k]) : Kind(u) = k
  BY <1>1, <1>5 DEF ListInv, InOrder
<1>8. \A u \in Timers : Listed(u)' <=> Listed(u) \/ u = ThreadTimer
  <2>1. \A u \in Timers : u \in ToSet(list'[Kind(u)]) <=>
                             u \in ToSet(list[Kind(u)]) \/ u = ThreadTimer
    BY <1>5, KindOfTimer
  <2> QED BY <1>0, <1>7, <2>1, ListedNow, ListedNext
<1>9. TypeOK'
  <2>1. active' \in [Timers -> BOOLEAN]
    BY <1>0, <1>1, Typed
  <2> QED BY <1>0, <1>1, <1>5, <1>7, <2>1, Bounds DEF TypeOK
<1>10. RunInv'
  <2>1. \A k \in Kinds : \A u \in Timers : run[k] = u => u # ThreadTimer
    BY <1>0, KindOfTimer DEF RunInv
  <2> QED BY <1>0, <1>1, <1>8, <2>1 DEF RunInv
<1>11. CanBeStopped'
  <2>1. \A u \in Timers : active'[u] <=> active[u] \/ u = ThreadTimer
    BY <1>0, <1>1, <1>2, Typed
  <2> QED BY <1>0, <1>1, <1>8, <2>1 DEF CanBeStopped
<1>12. LateInv'
  <2>1. \A u \in HardTimers : left'[u] = left[u] /\ (Listed(u)' <=> Listed(u))
    BY <1>5, <1>8, KindOfTimer
  <2>2. left'[ThreadTimer] >= 0
    BY <1>3, <1>5
  <2> QED BY <1>0, <1>1, <1>3, <1>5, <2>1, <2>2 DEF LateInv, HardPunctual
<1>13. SleepInv'
  <2>1. list'["soft"] = list["soft"] /\ Listed(ThreadTimer)'
    BY <1>2, <1>5, <1>8, KindOfTimer
  <2>2. slipped \/ \A u \in ToSet(list["soft"]) : n <= left[u]
    BY <1>0, <1>1 DEF SleepInv, n
  <2>3. \A u \in ToSet(list["soft"]) : left'[u] = left[u]
    <3>1. \A u \in ToSet(list["soft"]) : u \in Timers /\ u # ThreadTimer
      BY <1>0, <1>4, KindOfTimer, OrderedLists DEF ListInv
    <3> QED BY <1>5, <3>1
  <2> QED BY <1>1, <1>5, <2>1, <2>2, <2>3 DEF SleepInv
<1>14. OnlyWhenDue
  BY <1>8 DEF OnlyWhenDue
<1> QED BY <1>6, <1>7, <1>9, <1>10, <1>11, <1>12, <1>13, <1>14 DEF IInv

(* The thread has called what was due.                                     *)
LEMMA SoftDoneStep ==
    ASSUME IInv, SoftDone
    PROVE  IInv' /\ OnlyWhenDue /\ TakesItsPlace
<1>0. TypeOK /\ SleepInv
  BY DEF IInv
<1>1. /\ pc = "check" /\ pc' = "look"
      /\ UNCHANGED <<tick, list, timer, run, isr, left>>
      /\ next_timeout' = next_timeout /\ slipped' = slipped
  BY DEF SoftDone
<1>2. ListInv' /\ RunInv' /\ CanBeStopped' /\ LateInv' /\ OnlyWhenDue /\ TakesItsPlace
  BY <1>1, ListsKept
<1>3. TypeOK'
  BY <1>0, <1>1 DEF TypeOK, timer
<1>4. SleepInv'
  <2>1. Listed(ThreadTimer)' <=> Listed(ThreadTimer)
    BY <1>1 DEF Listed
  <2> QED BY <1>0, <1>1, <2>1 DEF SleepInv
<1> QED BY <1>2, <1>3, <1>4 DEF IInv

-----------------------------------------------------------------------------
(* The theorems                                                            *)

(* The invariant holds initially,                                          *)
LEMMA InitIInv == Init => IInv
<1> SUFFICES ASSUME Init PROVE IInv
  OBVIOUS
<1>1. /\ tick = 0 /\ list = [k \in Kinds |-> <<>>]
      /\ timeout_tick = [t \in Timers |-> 0] /\ active = [t \in Timers |-> FALSE]
      /\ run = [k \in Kinds |-> NoTimer] /\ isr = "out" /\ pc = "look" /\ next_timeout = 0
      /\ left = [t \in Timers |-> 0] /\ slipped = FALSE
  BY DEF Init
<1>2. /\ <<>> \in Seq(Timers) /\ ToSet(<<>>) = {} /\ IsInjective(<<>>)
      /\ Len(<<>>) = 0
  BY EmptyList
<1>3. \A f : SortedBy(<<>>, f)
  BY DEF SortedBy
<1>4. \A k \in Kinds : list[k] = <<>>
  BY <1>1
<1>5. ListInv
  BY <1>1, <1>2, <1>3 DEF ListInv, InOrder
<1>6. \A t \in Timers : ~Listed(t)
  BY <1>2, <1>4, <1>5, KindOfTimer, ListedNow
<1>7. TypeOK
  <2>1. 0 \in 0..TickMax /\ 0 \in -MaxLate..MaxInit
    BY Bounds
  <2>2. tick \in 0..TickMax /\ next_timeout \in 0..TickMax
    BY <1>1, <2>1
  <2>3. timeout_tick \in [Timers -> 0..TickMax] /\ left \in [Timers -> -MaxLate..MaxInit]
    BY <1>1, <2>1
  <2>4. /\ list \in [Kinds -> Seq(Timers)]
        /\ \A k \in Kinds : \A t \in ToSet(list[k]) : Kind(t) = k
    BY <1>1, <1>2
  <2>5. active \in [Timers -> BOOLEAN] /\ run \in [Kinds -> Timers \cup {NoTimer}]
    BY <1>1
  <2> QED BY <1>1, <2>2, <2>3, <2>4, <2>5 DEF TypeOK
<1>8. RunInv
  BY <1>1, KindOfTimer DEF RunInv
<1>9. CanBeStopped
  <2>1. \A t \in Timers : t \notin {run[k] : k \in Kinds} /\ ~active[t]
    BY <1>1, KindOfTimer
  <2> QED BY <1>6, <2>1 DEF CanBeStopped
<1>10. LateInv
  <2>1. \A t \in Timers : left[t] = 0
    BY <1>1
  <2> QED BY <1>6, <2>1, KindOfTimer DEF LateInv, HardPunctual
<1>11. SleepInv
  BY <1>1, <1>6, KindOfTimer DEF SleepInv
<1> QED BY <1>5, <1>7, <1>8, <1>9, <1>10, <1>11 DEF IInv

(* every step keeps it and takes timers in turn,                           *)
LEMMA StepIInv == IInv /\ [Next]_vars => IInv' /\ [OnlyWhenDue /\ TakesItsPlace]_vars
<1> SUFFICES ASSUME IInv, [Next]_vars
             PROVE  IInv' /\ [OnlyWhenDue /\ TakesItsPlace]_vars
  OBVIOUS
<1>1. CASE Calls
  <2>1. PICK t \in HardTimers \cup SoftTimers : (\E n \in 0..MaxInit : Start(t, n)) \/ Stop(t)
    BY <1>1 DEF Calls
  <2> QED BY <2>1, StartStep, StopStep
<1>2. CASE Tick
  BY <1>2, TickStep
<1>3. CASE Isr
  BY <1>3, HardExpireStep, HardReturnStep, ThreadTimeoutStep DEF Isr
<1>4. CASE Thread
  BY <1>4, LookStep, MeasureStep, SleepForeverStep, SleepForStep, SoftExpireStep,
     SoftReturnStep, SoftDoneStep DEF Thread
<1>5. CASE UNCHANGED vars
  <2>0. TypeOK /\ SleepInv
    BY DEF IInv
  <2>1. /\ UNCHANGED <<tick, list, timer, run, isr, left>>
        /\ pc' = pc /\ next_timeout' = next_timeout /\ slipped' = slipped
    BY <1>5 DEF vars
  <2>2. ListInv' /\ RunInv' /\ CanBeStopped' /\ LateInv'
    BY <2>1, ListsKept
  <2>3. TypeOK'
    BY <2>0, <2>1 DEF TypeOK, timer
  <2>4. SleepInv'
    <3>1. Listed(ThreadTimer)' <=> Listed(ThreadTimer)
      BY <2>1 DEF Listed
    <3> QED BY <2>0, <2>1, <3>1 DEF SleepInv, timer
  <2> QED BY <1>5, <2>2, <2>3, <2>4 DEF IInv
<1> QED BY <1>1, <1>2, <1>3, <1>4, <1>5 DEF Next

(* and so it holds always.                                                 *)
LEMMA Invariance == Spec => []IInv
BY InitIInv, StepIInv, PTL DEF Spec

(* Every variable keeps its type: each timer in the list of its kind, the  *)
(* ticks in their range, and what the history says is left within the      *)
(* bounds on the times set and on the delay of the timer thread.           *)
THEOREM TypeCorrect == Spec => []TypeOK
BY Invariance, PTL DEF IInv

(* rt_timer_check finds all hard timers that are due, with whatever is     *)
(* started and stopped by callbacks and others, wherever the tick wraps:   *)
(* each list is in order of the ticks left, so that nothing is due behind  *)
(* a head that is not, and the half of the range tells early from late.    *)
THEOREM HardTimersPunctual == Spec => []HardPunctual
<1>1. IInv => HardPunctual
  BY DEF IInv, LateInv
<1> QED BY <1>1, Invariance, PTL

(* A timer that can still fire is active, so that rt_timer_stop stops it.  *)
THEOREM StopAlwaysWorks == Spec => []CanBeStopped
BY Invariance, PTL DEF IInv

(* The timer thread sleeps no longer than until its first timer, unless    *)
(* what it looked at is no longer, or never was, so.                       *)
THEOREM SleepIsWatched == Spec => []SoftWatched
<1>1. IInv => SoftWatched
  <2> SUFFICES ASSUME IInv, pc = "asleep", list["soft"] # <<>>, ~slipped
               PROVE  Listed(ThreadTimer) /\ left[ThreadTimer] <= left[Head(list["soft"])]
    BY DEF SoftWatched
  <2>1. Head(list["soft"]) \in ToSet(list["soft"])
    BY KindOfTimer, Typed, HeadInOrder DEF IInv, ListInv
  <2> QED BY <2>1 DEF IInv, SleepInv
<1> QED BY <1>1, Invariance, PTL

(* A listed timer leaves its list only when it is due, to be called, or    *)
(* because it is stopped, and whoever gets a new place gets it behind all  *)
(* that are due no later and before all others.                            *)
THEOREM TimersInTurn == Spec => CalledInTurn
BY Invariance, StepIInv, PTL DEF Spec, CalledInTurn
=============================================================================
