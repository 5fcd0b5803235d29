------------------------- MODULE SuspendListLemmas --------------------------
(***************************************************************************)
(* What the operations on a suspend list do to the set of threads on it:   *)
(* rt_list_insert_before, rt_list_remove and the removal of its head.  A   *)
(* thread is on a list at most once, so the lists are injective sequences. *)
(***************************************************************************)
EXTENDS Integers, SequencesExt, SequenceTheorems, TLAPS

(* The positions and elements of a list.                                   *)
LEMMA ListElements ==
    ASSUME NEW T, NEW s \in Seq(T)
    PROVE  /\ Len(s) \in Nat /\ DOMAIN s = 1..Len(s)
           /\ \A i \in 1..Len(s) : s[i] \in T
           /\ ToSet(s) = {s[i] : i \in 1..Len(s)}
           /\ ToSet(s) \subseteq T
           /\ s = << >> <=> Len(s) = 0
<1>1. Len(s) \in Nat /\ DOMAIN s = 1..Len(s) /\ \A i \in 1..Len(s) : s[i] \in T
  BY LenProperties, ElementOfSeq
<1>2. s = << >> <=> Len(s) = 0
  BY EmptySeq
<1> QED BY <1>1, <1>2 DEF ToSet

(* Only the empty list holds no thread.                                    *)
LEMMA EmptyList ==
    ASSUME NEW T
    PROVE  << >> \in Seq(T) /\ ToSet(<< >>) = {} /\ IsInjective(<< >>)
BY EmptySeq, ListElements DEF IsInjective, ToSet

(* Taking the first thread off the list.                                   *)
LEMMA TailOfList ==
    ASSUME NEW T, NEW s \in Seq(T), s # << >>, IsInjective(s)
    PROVE  /\ Tail(s) \in Seq(T) /\ IsInjective(Tail(s))
           /\ Head(s) = s[1] /\ Head(s) \in ToSet(s)
           /\ ToSet(Tail(s)) = ToSet(s) \ {Head(s)}
           /\ Len(Tail(s)) = Len(s) - 1
           /\ \A i \in 1..Len(s)-1 : Tail(s)[i] = s[i+1]
<1> DEFINE n == Len(s)
           r == Tail(s)
<1>1. /\ n \in Nat /\ n > 0 /\ DOMAIN s = 1..n
      /\ ToSet(s) = {s[i] : i \in 1..n}
  BY ListElements
<1>2. /\ r \in Seq(T) /\ Len(r) = n - 1
      /\ \A i \in 1..n-1 : r[i] = s[i+1]
  BY HeadTailProperties
<1>3. DOMAIN r = 1..n-1 /\ ToSet(r) = {r[i] : i \in 1..n-1}
  BY <1>2, ListElements
<1>4. Head(s) = s[1]
  OBVIOUS
<1>5. \A i, j \in 1..n : s[i] = s[j] => i = j
  BY <1>1 DEF IsInjective
<1> HIDE DEF n, r
<1>6. IsInjective(r)
  <2> SUFFICES ASSUME NEW i \in 1..n-1, NEW j \in 1..n-1, r[i] = r[j] PROVE i = j
    BY <1>3 DEF IsInjective
  <2>1. s[i+1] = s[j+1] /\ i + 1 \in 1..n /\ j + 1 \in 1..n
    BY <1>1, <1>2
  <2> QED BY <1>5, <2>1
<1>7. ASSUME NEW x \in ToSet(r) PROVE x \in ToSet(s) \ {s[1]}
  <2>1. PICK i \in 1..n-1 : x = r[i]
    BY <1>3
  <2>2. x = s[i+1] /\ i + 1 \in 1..n /\ i + 1 # 1 /\ 1 \in 1..n
    BY <1>1, <1>2, <2>1
  <2> QED BY <1>1, <1>5, <2>2
<1>8. ASSUME NEW x \in ToSet(s) \ {s[1]} PROVE x \in ToSet(r)
  <2>1. PICK i \in 1..n : x = s[i] /\ i # 1
    BY <1>1
  <2>2. i - 1 \in 1..n-1 /\ r[i-1] = x
    BY <1>1, <1>2, <2>1
  <2> QED BY <1>3, <2>2
<1>9. s[1] \in ToSet(s)
  BY <1>1
<1> QED BY <1>2, <1>4, <1>6, <1>7, <1>8, <1>9 DEF n, r

(* Taking any thread off the list.                                         *)
LEMMA RemoveFromList ==
    ASSUME NEW T, NEW s \in Seq(T), IsInjective(s), NEW k \in DOMAIN s
    PROVE  /\ RemoveAt(s, k) \in Seq(T) /\ IsInjective(RemoveAt(s, k))
           /\ s[k] \in ToSet(s)
           /\ ToSet(RemoveAt(s, k)) = ToSet(s) \ {s[k]}
           /\ Len(RemoveAt(s, k)) = Len(s) - 1
           /\ \A i \in 1..Len(s)-1 :
                 RemoveAt(s, k)[i] = IF i < k THEN s[i] ELSE s[i+1]
<1> DEFINE n == Len(s)
           a == SubSeq(s, 1, k-1)
           b == SubSeq(s, k+1, n)
           r == RemoveAt(s, k)
<1>1. /\ n \in Nat /\ DOMAIN s = 1..n /\ k \in 1..n
      /\ \A i \in 1..n : s[i] \in T
      /\ ToSet(s) = {s[i] : i \in 1..n}
  BY ListElements
<1>2. /\ a \in Seq(T) /\ Len(a) = k - 1
      /\ \A i \in 1..k-1 : a[i] = s[i]
  <2>1. \A i \in 1..k-1 : s[i] \in T
    BY <1>1
  <2>2. /\ SubSeq(s, 1, k-1) \in Seq(T)
        /\ Len(SubSeq(s, 1, k-1)) = IF 1 <= k-1 THEN k-1-1+1 ELSE 0
        /\ \A i \in 1..k-1-1+1 : SubSeq(s, 1, k-1)[i] = s[1+i-1]
    BY <1>1, <2>1, SubSeqProperties, 1 \in Int, k-1 \in Int
  <2> QED BY <1>1, <2>2
<1>3. /\ b \in Seq(T) /\ Len(b) = n - k
      /\ \A i \in 1..n-k : b[i] = s[k+i]
  <2>1. \A i \in k+1..n : s[i] \in T
    BY <1>1
  <2>2. /\ SubSeq(s, k+1, n) \in Seq(T)
        /\ Len(SubSeq(s, k+1, n)) = IF k+1 <= n THEN n-(k+1)+1 ELSE 0
        /\ \A i \in 1..n-(k+1)+1 : SubSeq(s, k+1, n)[i] = s[k+1+i-1]
    BY <1>1, <2>1, SubSeqProperties, k+1 \in Int, n \in Int
  <2> QED BY <1>1, <2>2
<1>4. /\ r \in Seq(T) /\ Len(r) = n - 1
      /\ \A i \in 1..n-1 : r[i] = IF i < k THEN s[i] ELSE s[i+1]
  <2>1. r = a \o b
    BY DEF RemoveAt
  <2> HIDE DEF a, b, r
  <2>2. /\ r \in Seq(T) /\ Len(r) = Len(a) + Len(b)
        /\ \A i \in 1..Len(a) + Len(b) : r[i] = IF i <= Len(a) THEN a[i] ELSE b[i - Len(a)]
    BY <1>2, <1>3, <2>1, ConcatProperties
  <2>3. Len(r) = n - 1
    BY <1>1, <1>2, <1>3, <2>2
  <2>4. ASSUME NEW i \in 1..n-1 PROVE r[i] = IF i < k THEN s[i] ELSE s[i+1]
    <3>1. r[i] = IF i <= k - 1 THEN a[i] ELSE b[i - (k - 1)]
      BY <1>1, <1>2, <1>3, <2>2
    <3>2. CASE i < k
      BY <1>1, <1>2, <3>1, <3>2
    <3>3. CASE i >= k
      <4>1. i - (k - 1) \in 1..n-k /\ k + (i - (k - 1)) = i + 1
        BY <1>1, <3>3
      <4> QED BY <1>1, <1>3, <3>1, <3>3, <4>1
    <3> QED BY <1>1, <3>2, <3>3
  <2> QED BY <2>2, <2>3, <2>4
<1>5. DOMAIN r = 1..n-1 /\ ToSet(r) = {r[i] : i \in 1..n-1}
  BY <1>4, ListElements
<1>6. \A i, j \in 1..n : s[i] = s[j] => i = j
  BY <1>1 DEF IsInjective
<1> HIDE DEF n, r
<1>7. IsInjective(r)
  <2> SUFFICES ASSUME NEW i \in 1..n-1, NEW j \in 1..n-1, r[i] = r[j] PROVE i = j
    BY <1>5 DEF IsInjective
  <2> QED BY <1>1, <1>4, <1>6
<1>8. ASSUME NEW x \in ToSet(r) PROVE x \in ToSet(s) \ {s[k]}
  <2>1. PICK i \in 1..n-1 : x = r[i]
    BY <1>5
  <2> QED BY <1>1, <1>4, <1>6, <2>1
<1>9. ASSUME NEW x \in ToSet(s) \ {s[k]} PROVE x \in ToSet(r)
  <2>1. PICK i \in 1..n : x = s[i] /\ i # k
    BY <1>1
  <2>2. CASE i < k
    <3>1. i \in 1..n-1 /\ r[i] = x
      BY <1>1, <1>4, <2>1, <2>2
    <3> QED BY <1>5, <3>1
  <2>3. CASE i > k
    <3>1. i - 1 \in 1..n-1 /\ r[i-1] = x
      BY <1>1, <1>4, <2>1, <2>3
    <3> QED BY <1>5, <3>1
  <2> QED BY <1>1, <2>1, <2>2, <2>3
<1>10. s[k] \in ToSet(s)
  BY <1>1
<1> QED BY <1>4, <1>7, <1>8, <1>9, <1>10 DEF n, r

(* What stands where once a thread is put on the list.                     *)
LEMMA InsertElements ==
    ASSUME NEW T, NEW s \in Seq(T), NEW k \in 1..Len(s)+1, NEW e \in T
    PROVE  /\ InsertAt(s, k, e) \in Seq(T) /\ Len(InsertAt(s, k, e)) = Len(s) + 1
           /\ \A i \in 1..Len(s)+1 :
                 InsertAt(s, k, e)[i] =
                     IF i < k THEN s[i] ELSE IF i = k THEN e ELSE s[i-1]
<1> DEFINE n == Len(s)
           a == SubSeq(s, 1, k-1)
           b == SubSeq(s, k, n)
           m == a \o <<e>>
           r == InsertAt(s, k, e)
<1>1. /\ n \in Nat /\ DOMAIN s = 1..n /\ k \in 1..n+1
      /\ \A i \in 1..n : s[i] \in T
      /\ ToSet(s) = {s[i] : i \in 1..n}
  BY ListElements
<1>2. /\ a \in Seq(T) /\ Len(a) = k - 1
      /\ \A i \in 1..k-1 : a[i] = s[i]
  <2>1. \A i \in 1..k-1 : s[i] \in T
    BY <1>1
  <2>2. /\ SubSeq(s, 1, k-1) \in Seq(T)
        /\ Len(SubSeq(s, 1, k-1)) = IF 1 <= k-1 THEN k-1-1+1 ELSE 0
        /\ \A i \in 1..k-1-1+1 : SubSeq(s, 1, k-1)[i] = s[1+i-1]
    BY <1>1, <2>1, SubSeqProperties, 1 \in Int, k-1 \in Int
  <2> QED BY <1>1, <2>2
<1>3. /\ b \in Seq(T) /\ Len(b) = n - k + 1
      /\ \A i \in 1..n-k+1 : b[i] = s[k+i-1]
  <2>1. \A i \in k..n : s[i] \in T
    BY <1>1
  <2>2. /\ SubSeq(s, k, n) \in Seq(T)
        /\ Len(SubSeq(s, k, n)) = IF k <= n THEN n-k+1 ELSE 0
        /\ \A i \in 1..n-k+1 : SubSeq(s, k, n)[i] = s[k+i-1]
    BY <1>1, <2>1, SubSeqProperties, k \in Int, n \in Int
  <2> QED BY <1>1, <2>2
<1>4. /\ m \in Seq(T) /\ Len(m) = k
      /\ \A i \in 1..k : m[i] = IF i < k THEN s[i] ELSE e
  <2>1. <<e>> \in Seq(T) /\ Len(<<e>>) = 1 /\ <<e>>[1] = e
    OBVIOUS
  <2> HIDE DEF a
  <2>2. /\ a \o <<e>> \in Seq(T) /\ Len(a \o <<e>>) = Len(a) + Len(<<e>>)
        /\ \A i \in 1..Len(a) + Len(<<e>>) :
              (a \o <<e>>)[i] = IF i <= Len(a) THEN a[i] ELSE <<e>>[i - Len(a)]
    BY <1>2, <2>1, ConcatProperties
  <2> QED BY <1>1, <1>2, <2>1, <2>2
<1>5. /\ r \in Seq(T) /\ Len(r) = n + 1
      /\ \A i \in 1..n+1 :
            r[i] = IF i < k THEN s[i] ELSE IF i = k THEN e ELSE s[i-1]
  <2>1. r = m \o b
    BY DEF InsertAt
  <2> HIDE DEF a, b, m, r
  <2>2. /\ r \in Seq(T) /\ Len(r) = Len(m) + Len(b)
        /\ \A i \in 1..Len(m) + Len(b) : r[i] = IF i <= Len(m) THEN m[i] ELSE b[i - Len(m)]
    BY <1>3, <1>4, <2>1, ConcatProperties
  <2>3. Len(r) = n + 1
    BY <1>1, <1>3, <1>4, <2>2
  <2>4. ASSUME NEW i \in 1..n+1
        PROVE  r[i] = IF i < k THEN s[i] ELSE IF i = k THEN e ELSE s[i-1]
    <3>1. r[i] = IF i <= k THEN m[i] ELSE b[i - k]
      BY <1>1, <1>3, <1>4, <2>2
    <3>2. CASE i <= k
      BY <1>1, <1>4, <3>1, <3>2
    <3>3. CASE i > k
      <4>1. i - k \in 1..n-k+1 /\ k + (i - k) - 1 = i - 1
        BY <1>1, <3>3
      <4> QED BY <1>1, <1>3, <3>1, <3>3, <4>1
    <3> QED BY <1>1, <3>2, <3>3
  <2> QED BY <2>2, <2>3, <2>4
<1> QED BY <1>5 DEF n, r

(* Putting a thread on the list, at any place.                             *)
LEMMA InsertIntoList ==
    ASSUME NEW T, NEW s \in Seq(T), IsInjective(s),
           NEW k \in 1..Len(s)+1, NEW e \in T, e \notin ToSet(s)
    PROVE  /\ InsertAt(s, k, e) \in Seq(T) /\ IsInjective(InsertAt(s, k, e))
           /\ ToSet(InsertAt(s, k, e)) = ToSet(s) \cup {e}
<1> DEFINE n == Len(s)
           r == InsertAt(s, k, e)
<1>1. /\ n \in Nat /\ DOMAIN s = 1..n /\ k \in 1..n+1
      /\ ToSet(s) = {s[i] : i \in 1..n}
  BY ListElements
<1>5. /\ r \in Seq(T) /\ Len(r) = n + 1
      /\ \A i \in 1..n+1 :
            r[i] = IF i < k THEN s[i] ELSE IF i = k THEN e ELSE s[i-1]
  BY InsertElements
<1>6. DOMAIN r = 1..n+1 /\ ToSet(r) = {r[i] : i \in 1..n+1}
  BY <1>5, ListElements
<1>7. \A i, j \in 1..n : s[i] = s[j] => i = j
  BY <1>1 DEF IsInjective
<1>8. \A i \in 1..n : s[i] # e
  BY <1>1
<1> HIDE DEF n, r
<1>9. IsInjective(r)
  <2> SUFFICES ASSUME NEW i \in 1..n+1, NEW j \in 1..n+1, r[i] = r[j] PROVE i = j
    BY <1>6 DEF IsInjective
  <2> QED BY <1>1, <1>5, <1>7, <1>8
<1>10. ASSUME NEW x \in ToSet(r) PROVE x \in ToSet(s) \cup {e}
  <2>1. PICK i \in 1..n+1 : x = r[i]
    BY <1>6
  <2> QED BY <1>1, <1>5, <2>1
<1>11. ASSUME NEW x \in ToSet(s) \cup {e} PROVE x \in ToSet(r)
  <2>1. CASE x = e
    <3>1. k \in 1..n+1 /\ r[k] = e
      BY <1>1, <1>5
    <3> QED BY <1>6, <2>1, <3>1
  <2>2. CASE x \in ToSet(s)
    <3>1. PICK i \in 1..n : x = s[i]
      BY <1>1, <2>2
    <3>2. CASE i < k
      <4>1. i \in 1..n+1 /\ r[i] = x
        BY <1>1, <1>5, <3>1, <3>2
      <4> QED BY <1>6, <4>1
    <3>3. CASE i >= k
      <4>1. i + 1 \in 1..n+1 /\ r[i+1] = x
        BY <1>1, <1>5, <3>1, <3>3
      <4> QED BY <1>6, <4>1
    <3> QED BY <1>1, <3>2, <3>3
  <2> QED BY <2>1, <2>2
<1> QED BY <1>5, <1>9, <1>10, <1>11 DEF n, r

(* Putting a thread at the end of the list.                                *)
LEMMA AppendToList ==
    ASSUME NEW T, NEW s \in Seq(T), IsInjective(s), NEW e \in T, e \notin ToSet(s)
    PROVE  /\ Append(s, e) \in Seq(T) /\ IsInjective(Append(s, e))
           /\ ToSet(Append(s, e)) = ToSet(s) \cup {e}
<1> DEFINE n == Len(s)
           r == Append(s, e)
<1>1. /\ n \in Nat /\ DOMAIN s = 1..n
      /\ ToSet(s) = {s[i] : i \in 1..n}
  BY ListElements
<1>2. /\ r \in Seq(T) /\ Len(r) = n + 1
      /\ \A i \in 1..n+1 : r[i] = IF i = n + 1 THEN e ELSE s[i]
  BY <1>1, AppendProperties
<1>3. DOMAIN r = 1..n+1 /\ ToSet(r) = {r[i] : i \in 1..n+1}
  BY <1>2, ListElements
<1>4. \A i, j \in 1..n : s[i] = s[j] => i = j
  BY <1>1 DEF IsInjective
<1>5. \A i \in 1..n : s[i] # e
  BY <1>1
<1> HIDE DEF n, r
<1>6. IsInjective(r)
  <2> SUFFICES ASSUME NEW i \in 1..n+1, NEW j \in 1..n+1, r[i] = r[j] PROVE i = j
    BY <1>3 DEF IsInjective
  <2> QED BY <1>1, <1>2, <1>4, <1>5
<1>7. ToSet(r) = ToSet(s) \cup {e}
  BY <1>1, <1>2, <1>3
<1> QED BY <1>2, <1>6, <1>7 DEF n, r

-----------------------------------------------------------------------------
(* u stands before t on the list.                                          *)
Before(s, u, t) == \E i, j \in DOMAIN s : i < j /\ s[i] = u /\ s[j] = t

(* Serving the head brings nobody before anybody.                          *)
LEMMA TailKeepsOrder ==
    ASSUME NEW T, NEW s \in Seq(T), s # << >>, IsInjective(s), NEW u, NEW t,
           Before(Tail(s), u, t)
    PROVE  Before(s, u, t)
<1>1. /\ Len(s) \in Nat /\ DOMAIN s = 1..Len(s)
      /\ DOMAIN Tail(s) = 1..Len(s)-1
      /\ \A i \in 1..Len(s)-1 : Tail(s)[i] = s[i+1]
  BY TailOfList, ListElements
<1>2. PICK i, j \in 1..Len(s)-1 : i < j /\ Tail(s)[i] = u /\ Tail(s)[j] = t
  BY <1>1 DEF Before
<1>3. i + 1 \in DOMAIN s /\ j + 1 \in DOMAIN s /\ i + 1 < j + 1
  BY <1>1, <1>2
<1>4. s[i+1] = u /\ s[j+1] = t
  BY <1>1, <1>2
<1> QED BY <1>3, <1>4 DEF Before

(* A thread that gives up waiting brings nobody before anybody.            *)
LEMMA RemovalKeepsOrder ==
    ASSUME NEW T, NEW s \in Seq(T), IsInjective(s), NEW k \in DOMAIN s, NEW u, NEW t,
           Before(RemoveAt(s, k), u, t)
    PROVE  Before(s, u, t)
<1> DEFINE r == RemoveAt(s, k)
           At(i) == IF i < k THEN i ELSE i + 1
<1>1. /\ Len(s) \in Nat /\ DOMAIN s = 1..Len(s) /\ k \in 1..Len(s)
      /\ DOMAIN r = 1..Len(s)-1
      /\ \A i \in 1..Len(s)-1 : r[i] = s[At(i)]
  BY RemoveFromList, ListElements
<1>2. PICK i, j \in 1..Len(s)-1 : i < j /\ r[i] = u /\ r[j] = t
  BY <1>1 DEF Before
<1>3. At(i) \in DOMAIN s /\ At(j) \in DOMAIN s /\ At(i) < At(j)
  BY <1>1, <1>2
<1>4. s[At(i)] = u /\ s[At(j)] = t
  BY <1>1, <1>2
<1> QED BY <1>3, <1>4 DEF Before

(* A thread put at the end of the list is before nobody.                   *)
LEMMA AppendKeepsOrder ==
    ASSUME NEW T, NEW s \in Seq(T), IsInjective(s), NEW e \in T, e \notin ToSet(s),
           NEW u, NEW t, t # e, Before(InsertAt(s, Len(s) + 1, e), u, t)
    PROVE  Before(s, u, t)
<1> DEFINE n == Len(s)
           r == InsertAt(s, n + 1, e)
<1>1. n \in Nat /\ DOMAIN s = 1..n /\ n + 1 \in 1..n+1
  BY ListElements
<1>2. /\ r \in Seq(T) /\ Len(r) = n + 1
      /\ \A i \in 1..n+1 : r[i] = IF i < n + 1 THEN s[i] ELSE IF i = n + 1 THEN e ELSE s[i-1]
  <2>1. \A k \in 1..Len(s)+1 :
          /\ InsertAt(s, k, e) \in Seq(T) /\ Len(InsertAt(s, k, e)) = Len(s) + 1
          /\ \A i \in 1..Len(s)+1 :
                InsertAt(s, k, e)[i] =
                    IF i < k THEN s[i] ELSE IF i = k THEN e ELSE s[i-1]
    BY InsertElements
  <2> QED BY <1>1, <2>1
<1>3. DOMAIN r = 1..n+1
  BY <1>2, ListElements
<1>4. PICK i, j \in 1..n+1 : i < j /\ r[i] = u /\ r[j] = t
  BY <1>3 DEF Before
<1> HIDE DEF n, r
<1>5. i \in 1..n /\ j \in 1..n
  BY <1>1, <1>2, <1>4
<1>6. s[i] = u /\ s[j] = t
  BY <1>1, <1>2, <1>4, <1>5
<1> QED BY <1>1, <1>4, <1>5, <1>6 DEF Before
=============================================================================
