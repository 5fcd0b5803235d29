------------------------ MODULE KernelMailboxProofs -------------------------
(***************************************************************************)
(* Proofs about KernelMailbox for any number of threads, any size of the   *)
(* ring and any timeouts: its types, that nobody sleeps beside a mail or a *)
(* free place, that waits keep their timeout, and that the mailbox is the  *)
(* queue of BoundedMailbox.                                                *)
(***************************************************************************)
EXTENDS KernelMailbox, FiniteSetTheorems, SequenceTheorems, TLAPS

(* A thread inside a call knows what it wants and has not been told the    *)
(* outcome; its waits so far and the one it is in fit in its timeout.  A   *)
(* suspended thread has no error yet.                                      *)
InCall(t) ==
    /\ op[t] = "none" =>
          /\ stat[t] = "ready"
          /\ asked[t] = 0 /\ timeout[t] = 0 /\ waited[t] = 0 /\ total[t] = 0
    /\ op[t] # "none" =>
          /\ outcome[t] = <<"waiting">>
          /\ \/ asked[t] = Forever /\ timeout[t] = Forever
             \/ /\ asked[t] \in 1..MaxWait /\ timeout[t] \in 1..MaxWait
                /\ waited[t] <= total[t]
                /\ total[t] - waited[t] + timeout[t] <= asked[t]
    /\ op[t] = "send" => mail[t] \in Values
    /\ stat[t] = "suspend" => error[t] = "EOK"

CallInv == \A t \in Threads : InCall(t)

(* The write offset is where the mails end.                                *)
Wrap(n)  == IF n < Size THEN n ELSE n - Size
RingInv == in_offset = Wrap(out_offset + entry)

IInv == TypeOK /\ CallInv /\ RingInv /\ NobodyForgotten

-----------------------------------------------------------------------------
(* The ring                                                                *)

RingTypes ==
    /\ pool \in [0..Size-1 -> Values] /\ entry \in 0..Size
    /\ in_offset \in 0..Size-1 /\ out_offset \in 0..Size-1

(* Offsets never exceed twice the size, so one subtraction wraps them.     *)
LEMMA WrapIsModulo ==
    ASSUME NEW n \in 0..2*Size-1
    PROVE  n % Size = Wrap(n) /\ Wrap(n) \in 0..Size-1
<1> USE MailboxAssumption DEF Wrap
<1>1. CASE n < Size
  BY <1>1
<1>2. CASE n >= Size
  <2>1. n - Size \in 0..Size-1 /\ n = (n - Size) + Size
    BY <1>2
  <2>2. n % Size = n - Size
    BY <2>1
  <2> QED BY <1>2, <2>1, <2>2
<1> QED BY <1>1, <1>2

(* What the queue holds, by position.                                      *)
Mails(p, n, o) == [i \in 1..n |-> p[(o + i - 1) % Size]]

LEMMA MailsByPosition ==
    ASSUME NEW p \in [0..Size-1 -> Values], NEW n \in 0..Size, NEW o \in 0..Size-1
    PROVE  /\ Mails(p, n, o) \in Seq(Values) /\ Len(Mails(p, n, o)) = n
           /\ \A i \in 1..n : Mails(p, n, o)[i] = p[Wrap(o + i - 1)]
<1>1. ASSUME NEW i \in 1..n
      PROVE  (o + i - 1) % Size = Wrap(o + i - 1) /\ Wrap(o + i - 1) \in 0..Size-1
  <2>1. o + i - 1 \in 0..2*Size-1
    BY MailboxAssumption
  <2> QED BY <2>1, WrapIsModulo
<1>2. Mails(p, n, o) \in [1..n -> Values]
  BY <1>1 DEF Mails
<1>3. n \in Nat
  BY MailboxAssumption
<1>4. \A i \in 1..n : Mails(p, n, o)[i] = p[Wrap(o + i - 1)]
  BY <1>1 DEF Mails
<1>5. Mails(p, n, o) \in Seq(Values) /\ Len(Mails(p, n, o)) = n
  BY <1>2, <1>3
<1> QED BY <1>4, <1>5

LEMMA QueueIsMails == Queue = Mails(pool, entry, out_offset)
BY DEF Queue, Mails

(* A new mail goes behind the others.                                      *)
LEMMA PutAppends ==
    ASSUME RingTypes, RingInv, NEW v \in Values, Put(v)
    PROVE  /\ entry < Size /\ entry' = entry + 1 /\ RingTypes' /\ RingInv'
           /\ Len(Queue) = entry /\ Queue' = Append(Queue, v)
           /\ ResumeOne("recv")
<1> USE MailboxAssumption
<1>1. /\ entry < Size /\ entry' = entry + 1 /\ out_offset' = out_offset
      /\ pool' = [pool EXCEPT ![in_offset] = v] /\ in_offset' = Up(in_offset)
      /\ ResumeOne("recv")
  BY DEF Put
<1>2. RingTypes'
  BY <1>1 DEF RingTypes, Up
<1>3. RingInv'
  BY <1>1 DEF RingTypes, RingInv, Wrap, Up
<1> DEFINE q == Queue
           r == Queue'
<1>4. q \in Seq(Values) /\ Len(q) = entry /\ \A i \in 1..entry : q[i] = pool[Wrap(out_offset + i - 1)]
  BY QueueIsMails, MailsByPosition DEF RingTypes
<1>5. /\ r \in Seq(Values) /\ Len(r) = entry + 1
      /\ \A i \in 1..entry+1 : r[i] = pool'[Wrap(out_offset + i - 1)]
  <2>1. r = Mails(pool', entry + 1, out_offset)
    BY <1>1 DEF Queue, Mails
  <2>2. pool' \in [0..Size-1 -> Values] /\ entry + 1 \in 0..Size /\ out_offset \in 0..Size-1
    BY <1>1, <1>2 DEF RingTypes
  <2> HIDE DEF r
  <2> QED BY <2>1, <2>2, MailsByPosition
<1> HIDE DEF q, r
<1>6. ASSUME NEW i \in 1..entry
      PROVE  Wrap(out_offset + i - 1) # in_offset /\ Wrap(out_offset + i - 1) \in 0..Size-1
  BY <1>1 DEF RingTypes, RingInv, Wrap
<1>7. Wrap(out_offset + (entry + 1) - 1) = in_offset
  BY DEF RingTypes, RingInv
<1>8. /\ \A i \in 1..entry : r[i] = q[i]
      /\ r[entry + 1] = v
  <2>1. entry \in Nat /\ in_offset \in 0..Size-1 /\ pool \in [0..Size-1 -> Values]
    BY DEF RingTypes
  <2>2. ASSUME NEW i \in 1..entry PROVE r[i] = q[i]
    <3>1. r[i] = pool'[Wrap(out_offset + i - 1)]
      BY <1>5, <2>1
    <3>2. pool'[Wrap(out_offset + i - 1)] = pool[Wrap(out_offset + i - 1)]
      BY <1>1, <1>6, <2>1
    <3> QED BY <1>4, <3>1, <3>2
  <2>3. r[entry + 1] = v
    <3>1. entry + 1 \in 1..entry+1
      BY <2>1
    <3>2. r[entry + 1] = pool'[in_offset]
      BY <1>5, <1>7, <3>1
    <3> QED BY <1>1, <2>1, <3>2
  <2> QED BY <2>2, <2>3
<1>9. r = Append(q, v)
  BY <1>4, <1>5, <1>8, AppendProperties, SeqEqual DEF RingTypes
<1> QED BY <1>1, <1>2, <1>3, <1>4, <1>9 DEF q, r

(* The oldest mail is taken.                                               *)
LEMMA TakeRemoves ==
    ASSUME RingTypes, RingInv, Take
    PROVE  /\ entry > 0 /\ entry' = entry - 1 /\ RingTypes' /\ RingInv'
           /\ pool[out_offset] \in Values
           /\ Queue # << >> /\ Queue' = Tail(Queue) /\ Head(Queue) = pool[out_offset]
           /\ ResumeOne("send")
<1> USE MailboxAssumption
<1>1. /\ entry > 0 /\ entry' = entry - 1 /\ out_offset' = Up(out_offset)
      /\ UNCHANGED <<pool, in_offset>> /\ ResumeOne("send")
  BY DEF Take
<1>2. RingTypes'
  BY <1>1 DEF RingTypes, Up
<1>3. RingInv'
  BY <1>1 DEF RingTypes, RingInv, Wrap, Up
<1> DEFINE q == Queue
           r == Queue'
<1>4. q \in Seq(Values) /\ Len(q) = entry /\ \A i \in 1..entry : q[i] = pool[Wrap(out_offset + i - 1)]
  BY QueueIsMails, MailsByPosition DEF RingTypes
<1>5. /\ r \in Seq(Values) /\ Len(r) = entry - 1
      /\ \A i \in 1..entry-1 : r[i] = pool[Wrap(Up(out_offset) + i - 1)]
  <2>1. r = Mails(pool, entry - 1, Up(out_offset))
    BY <1>1 DEF Queue, Mails
  <2>2. pool \in [0..Size-1 -> Values] /\ entry - 1 \in 0..Size /\ Up(out_offset) \in 0..Size-1
    BY <1>1, <1>2 DEF RingTypes
  <2> HIDE DEF r
  <2> QED BY <2>1, <2>2, MailsByPosition
<1> HIDE DEF q, r
<1>6. ASSUME NEW i \in 1..entry-1
      PROVE  Wrap(Up(out_offset) + i - 1) = Wrap(out_offset + (i + 1) - 1)
  BY <1>1 DEF RingTypes, Wrap, Up
<1>7. q # << >> /\ Head(q) = pool[out_offset]
  <2>1. Wrap(out_offset + 1 - 1) = out_offset
    BY DEF RingTypes, Wrap
  <2> QED BY <1>1, <1>4, <2>1, EmptySeq DEF RingTypes
<1>8. r = Tail(q)
  <2>1. \A i \in 1..entry-1 : r[i] = q[i + 1]
    <3> TAKE i \in 1..entry-1
    <3>1. i + 1 \in 1..entry
      BY DEF RingTypes
    <3> QED BY <1>4, <1>5, <1>6, <3>1
  <2>2. /\ Tail(q) \in Seq(Values) /\ Len(Tail(q)) = Len(q) - 1
        /\ \A i \in 1..Len(Tail(q)) : Tail(q)[i] = q[i + 1]
    BY <1>4, <1>7, HeadTailProperties
  <2> QED BY <1>4, <1>5, <2>1, <2>2, SeqEqual
<1>9. pool[out_offset] \in Values
  BY DEF RingTypes
<1> QED BY <1>1, <1>2, <1>3, <1>7, <1>8, <1>9 DEF q, r

(* An urgent mail goes in front of the others.                             *)
LEMMA UrgentPrepends ==
    ASSUME RingTypes, RingInv, NEW v \in Values, Urgent(v)
    PROVE  /\ entry < Size /\ entry' = entry + 1 /\ RingTypes' /\ RingInv'
           /\ Len(Queue) = entry /\ Queue' = <<v>> \o Queue
<1> USE MailboxAssumption
<1>1. /\ entry < Size /\ entry' = entry + 1 /\ out_offset' = Down(out_offset)
      /\ pool' = [pool EXCEPT ![Down(out_offset)] = v] /\ UNCHANGED in_offset
  BY DEF Urgent
<1>2. RingTypes'
  BY <1>1 DEF RingTypes, Down
<1>3. RingInv'
  BY <1>1 DEF RingTypes, RingInv, Wrap, Down
<1> DEFINE q == Queue
           r == Queue'
<1>4. q \in Seq(Values) /\ Len(q) = entry /\ \A i \in 1..entry : q[i] = pool[Wrap(out_offset + i - 1)]
  BY QueueIsMails, MailsByPosition DEF RingTypes
<1>5. /\ r \in Seq(Values) /\ Len(r) = entry + 1
      /\ \A i \in 1..entry+1 : r[i] = pool'[Wrap(Down(out_offset) + i - 1)]
  <2>1. r = Mails(pool', entry + 1, Down(out_offset))
    BY <1>1 DEF Queue, Mails
  <2>2. pool' \in [0..Size-1 -> Values] /\ entry + 1 \in 0..Size /\ Down(out_offset) \in 0..Size-1
    BY <1>1, <1>2 DEF RingTypes
  <2> HIDE DEF r
  <2> QED BY <2>1, <2>2, MailsByPosition
<1> HIDE DEF q, r
<1>6. ASSUME NEW i \in 2..entry+1
      PROVE  /\ Wrap(Down(out_offset) + i - 1) = Wrap(out_offset + (i - 1) - 1)
             /\ Wrap(Down(out_offset) + i - 1) # Down(out_offset)
             /\ Wrap(Down(out_offset) + i - 1) \in 0..Size-1
  BY <1>1 DEF RingTypes, Wrap, Down
<1>7. Wrap(Down(out_offset) + 1 - 1) = Down(out_offset) /\ Down(out_offset) \in 0..Size-1
  BY DEF RingTypes, Wrap, Down
<1>8. r[1] = v /\ \A i \in 2..entry+1 : r[i] = q[i - 1]
  <2>1. entry \in Nat /\ pool \in [0..Size-1 -> Values]
    BY DEF RingTypes
  <2>2. ASSUME NEW i \in 2..entry+1 PROVE r[i] = q[i - 1]
    <3>1. i \in 1..entry+1 /\ i - 1 \in 1..entry
      BY <2>1
    <3>2. r[i] = pool'[Wrap(Down(out_offset) + i - 1)]
      BY <1>5, <3>1
    <3>3. pool'[Wrap(Down(out_offset) + i - 1)] = pool[Wrap(Down(out_offset) + i - 1)]
      BY <1>1, <1>6, <1>7, <2>1
    <3> QED BY <1>4, <1>6, <3>1, <3>2, <3>3
  <2>3. r[1] = v
    <3>1. 1 \in 1..entry+1
      BY <2>1
    <3>2. r[1] = pool'[Down(out_offset)]
      BY <1>5, <1>7, <3>1
    <3> QED BY <1>1, <1>7, <2>1, <3>2
  <2> QED BY <2>2, <2>3
<1>9. r = <<v>> \o q
  <2>1. <<v>> \in Seq(Values) /\ Len(<<v>>) = 1 /\ <<v>>[1] = v
    OBVIOUS
  <2>2. /\ <<v>> \o q \in Seq(Values) /\ Len(<<v>> \o q) = 1 + entry
        /\ \A i \in 1..1+entry : (<<v>> \o q)[i] = IF i <= 1 THEN v ELSE q[i - 1]
    BY <1>4, <2>1, ConcatProperties
  <2> HIDE DEF q
  <2>3. \A i \in 1..Len(r) : r[i] = (<<v>> \o q)[i]
    BY <1>5, <1>8, <2>2 DEF RingTypes
  <2> QED BY <1>5, <2>2, <2>3, SeqEqual DEF RingTypes
<1> QED BY <1>1, <1>2, <1>3, <1>4, <1>9 DEF q, r

-----------------------------------------------------------------------------
(* Who waits and who was woken                                             *)

Sides == {"recv", "send"}
Other(o) == IF o = "recv" THEN "send" ELSE "recv"

(* What a woken thread on either side is woken for.                        *)
Avail(o) == IF o = "recv" THEN entry ELSE Size - entry

Balanced(o) == Suspended(o) # {} => Avail(o) <= Cardinality(Woken(o))

LEMMA NobodyForgottenBySide == NobodyForgotten <=> \A o \in Sides : Balanced(o)
BY DEF NobodyForgotten, Sides, Balanced, Avail

LEMMA WokenFinite ==
    ASSUME NEW W \in SUBSET Threads
    PROVE  IsFiniteSet(W) /\ Cardinality(W) \in Nat
BY ThreadsAssumption, FS_Subset, FS_CardinalityType

(* The threads of X end their calls, and no other call changes.            *)
OnlyEnds(X) ==
    /\ \A u \in X : stat[u] = "ready" /\ op'[u] = "none"
    /\ \A u \in Threads \ X : op'[u] = op[u] /\ error'[u] = error[u]

(* _ipc_list_resume moves one thread, if any waits, to the woken ones.     *)
LEMMA ResumeMovesOne ==
    ASSUME NEW o \in Sides, NEW X \in SUBSET Threads, CallInv,
           stat \in [Threads -> {"ready", "suspend"}], ResumeOne(o), OnlyEnds(X)
    PROVE  /\ stat' \in [Threads -> {"ready", "suspend"}]
           /\ \A u \in Threads : stat'[u] = "suspend" => stat[u] = "suspend"
           /\ Suspended(o) = {} => Suspended(o)' = {}
           /\ Suspended(o) # {} =>
                 \E u \in Suspended(o) :
                    u \notin Woken(o) /\ Woken(o)' = (Woken(o) \ X) \cup {u}
           /\ Suspended(Other(o))' = Suspended(Other(o))
           /\ Woken(Other(o))' = Woken(Other(o)) \ X
<1> USE DEF Sides, Suspended, Woken, Other, OnlyEnds
<1>1. CASE Suspended(o) = {}
  <2>1. stat' = stat
    BY <1>1 DEF ResumeOne
  <2> QED BY <1>1, <2>1
<1>2. CASE Suspended(o) # {}
  <2>1. PICK u \in Suspended(o) : stat' = [stat EXCEPT ![u] = "ready"]
    BY <1>2 DEF ResumeOne
  <2>2. u \in Threads /\ u \notin X /\ op[u] = o /\ stat[u] = "suspend" /\ error[u] = "EOK"
    BY <2>1 DEF CallInv, InCall
  <2>3. Suspended(Other(o))' = Suspended(Other(o)) /\ Woken(Other(o))' = Woken(Other(o)) \ X
    BY <2>1, <2>2
  <2>4. u \notin Woken(o) /\ Woken(o)' = (Woken(o) \ X) \cup {u}
    BY <2>1, <2>2
  <2> QED BY <1>2, <2>1, <2>2, <2>3, <2>4
<1> QED BY <1>1, <1>2

(* A mail or a place that comes is matched by a thread that is woken; one  *)
(* that goes, by a thread that took it or by a surplus.                    *)
LEMMA MoveKeepsBalance ==
    ASSUME TypeOK, CallInv, NobodyForgotten, RingTypes',
           NEW o \in Sides, ResumeOne(o), Avail(o)' = Avail(o) + 1,
           NEW X \in SUBSET Threads, OnlyEnds(X), X \cap Woken(o) = {},
           X = {} \/ \E t \in Threads : X = {t}
    PROVE  NobodyForgotten'
<1> USE MailboxAssumption
<1> DEFINE p == Other(o)
<1>1. p \in Sides /\ o # p /\ Sides = {o, p}
  BY DEF Sides, Other
<1>2. /\ Avail(o) \in Nat /\ Avail(p) \in Nat /\ Avail(p)' = Avail(p) - 1
  <2>1. entry \in 0..Size /\ entry' \in 0..Size
    BY DEF TypeOK, RingTypes
  <2>2. CASE o = "recv"
    BY <2>1, <2>2 DEF Avail, Other
  <2>3. CASE o = "send"
    <3>1. /\ Avail(o) = Size - entry /\ Avail(o)' = Size - entry'
          /\ Avail(p) = entry /\ Avail(p)' = entry'
      BY <2>3 DEF Avail, Other
    <3>2. Size - entry' = Size - entry + 1
      BY <3>1
    <3> HIDE DEF p
    <3> QED BY <2>1, <3>1, <3>2
  <2> QED BY <2>2, <2>3 DEF Sides
<1>3. /\ Suspended(o) = {} => Suspended(o)' = {}
      /\ Suspended(o) # {} =>
            \E u \in Suspended(o) : u \notin Woken(o) /\ Woken(o)' = (Woken(o) \ X) \cup {u}
      /\ Suspended(p)' = Suspended(p) /\ Woken(p)' = Woken(p) \ X
  BY ResumeMovesOne DEF TypeOK
<1>4. Balanced(o) /\ Balanced(p)
  BY <1>1, NobodyForgottenBySide
<1>5. \A q \in Sides : IsFiniteSet(Woken(q)) /\ Cardinality(Woken(q)) \in Nat
  BY WokenFinite DEF Woken
<1> HIDE DEF p
<1>6. Balanced(o)'
  <2>1. SUFFICES ASSUME Suspended(o)' # {} PROVE Avail(o)' <= Cardinality(Woken(o)')
    BY DEF Balanced
  <2>2. PICK u \in Suspended(o) : u \notin Woken(o) /\ Woken(o)' = Woken(o) \cup {u}
    BY <1>3, <2>1
  <2>3. Cardinality(Woken(o)') = Cardinality(Woken(o)) + 1
    BY <1>5, <2>2, FS_AddElement
  <2>4. Avail(o) <= Cardinality(Woken(o))
    BY <1>4, <2>2 DEF Balanced
  <2> QED BY <1>2, <1>5, <2>3, <2>4
<1>7. Balanced(p)'
  <2>1. SUFFICES ASSUME Suspended(p)' # {} PROVE Avail(p)' <= Cardinality(Woken(p)')
    BY DEF Balanced
  <2>2. Avail(p) <= Cardinality(Woken(p))
    BY <1>3, <1>4, <2>1 DEF Balanced
  <2>3. Cardinality(Woken(p)') >= Cardinality(Woken(p)) - 1
    <3>1. CASE X = {}
      BY <1>1, <1>3, <1>5, <3>1
    <3>2. ASSUME NEW t \in Threads, X = {t} PROVE Cardinality(Woken(p)') >= Cardinality(Woken(p)) - 1
      <4>1. Cardinality(Woken(p) \ {t}) \in {Cardinality(Woken(p)), Cardinality(Woken(p)) - 1}
        BY <1>1, <1>5, FS_RemoveElement
      <4> QED BY <1>1, <1>3, <1>5, <3>2, <4>1
    <3> QED BY <3>1, <3>2
  <2>4. Cardinality(Woken(p)') \in Nat
    BY WokenFinite DEF Woken
  <2> QED BY <1>1, <1>2, <1>5, <2>2, <2>3, <2>4
<1> QED BY <1>1, <1>6, <1>7 DEF NobodyForgotten, Balanced, Avail, Sides

(* A step that wakes nobody and moves no mail.                             *)
LEMMA QuietKeepsBalance ==
    ASSUME NobodyForgotten, entry' = entry,
           \A o \in Sides : Suspended(o)' \subseteq Suspended(o) /\ Woken(o)' = Woken(o)
    PROVE  NobodyForgotten'
BY DEF NobodyForgotten, Sides

-----------------------------------------------------------------------------
(* The invariant                                                           *)

(* What a thread keeps of its call, one thread at a time.                  *)
FieldTypes ==
    /\ op \in [Threads -> {"none", "recv", "send"}]
    /\ mail \in [Threads -> Values \cup {NoMail}]
    /\ stat \in [Threads -> {"ready", "suspend"}]
    /\ error \in [Threads -> {"EOK", "ETIMEOUT", "ERROR"}]
    /\ timeout \in [Threads -> Waits \cup {0}] /\ asked \in [Threads -> Waits \cup {0}]
    /\ waited \in [Threads -> 0..MaxWait] /\ total \in [Threads -> 0..MaxWait]
    /\ outcome \in [Threads -> Outcomes]

LEMMA TypeParts == TypeOK <=> RingTypes /\ FieldTypes
BY DEF TypeOK, RingTypes, FieldTypes

(* A mailbox starts with nobody inside of a call.                          *)
LEMMA InitIInv == Init => IInv
<1> SUFFICES ASSUME Init PROVE IInv OBVIOUS
<1> USE MailboxAssumption
<1>1. RingTypes
  BY DEF Init, RingTypes
<1>2. FieldTypes
  BY DEF Init, FieldTypes, Outcomes
<1>3. CallInv /\ RingInv
  BY DEF Init, CallInv, InCall, RingInv, Wrap
<1>4. NobodyForgotten
  BY DEF Init, NobodyForgotten, Suspended
<1> QED BY <1>1, <1>2, <1>3, <1>4, TypeParts DEF IInv

(* A call that ends is nobody else's business.                             *)
LEMMA ReturnsEnds ==
    ASSUME FieldTypes, NEW t \in Threads, NEW o, Returns(t, o), stat[t] = "ready"
    PROVE  OnlyEnds({t})
BY DEF OnlyEnds, Returns, FieldTypes

(* The end of a call of t, whatever it was.                                *)
LEMMA ReturnsKeeps ==
    ASSUME FieldTypes, CallInv, NEW t \in Threads, NEW o \in Outcomes, Returns(t, o),
           stat[t] = "ready", stat' \in [Threads -> {"ready", "suspend"}],
           \A u \in Threads : stat'[u] = "suspend" => stat[u] = "suspend"
    PROVE  FieldTypes' /\ CallInv'
<1> USE MailboxAssumption
<1>1. FieldTypes'
  <2>1. /\ op' \in [Threads -> {"none", "recv", "send"}]
        /\ mail' \in [Threads -> Values \cup {NoMail}]
        /\ error' \in [Threads -> {"EOK", "ETIMEOUT", "ERROR"}]
        /\ outcome' \in [Threads -> Outcomes]
    BY DEF FieldTypes, Returns
  <2>2. /\ timeout' \in [Threads -> Waits \cup {0}] /\ asked' \in [Threads -> Waits \cup {0}]
        /\ waited' \in [Threads -> 0..MaxWait] /\ total' \in [Threads -> 0..MaxWait]
    BY DEF FieldTypes, Returns
  <2> QED BY <2>1, <2>2 DEF FieldTypes
<1>2. CallInv'
  <2> SUFFICES ASSUME NEW u \in Threads PROVE InCall(u)'
    BY DEF CallInv
  <2>1. CASE u = t
    BY <2>1 DEF FieldTypes, InCall, Returns
  <2>2. CASE u # t
    <3>1. InCall(u)
      BY DEF CallInv
    <3> QED BY <2>2, <3>1 DEF FieldTypes, InCall, Returns
  <2> QED BY <2>1, <2>2
<1> QED BY <1>1, <1>2

(* The suspension of t inside a call, for all or for the rest of its time. *)
LEMMA SuspendKeeps ==
    ASSUME FieldTypes, CallInv, NEW t \in Threads, NEW wait \in Waits, Suspend(t, wait),
           op' \in [Threads -> {"none", "recv", "send"}], op'[t] # "none",
           mail' \in [Threads -> Values \cup {NoMail}], op'[t] = "send" => mail'[t] \in Values,
           asked' \in [Threads -> Waits \cup {0}], asked'[t] \in Waits,
           IF wait = Forever THEN asked'[t] = Forever ELSE total[t] + wait <= asked'[t],
           UNCHANGED total,
           \A u \in Threads \ {t} :
              op'[u] = op[u] /\ mail'[u] = mail[u] /\ asked'[u] = asked[u]
    PROVE  FieldTypes' /\ CallInv'
<1> USE MailboxAssumption
<1>1. FieldTypes'
  <2>1. /\ stat' \in [Threads -> {"ready", "suspend"}]
        /\ error' \in [Threads -> {"EOK", "ETIMEOUT", "ERROR"}]
        /\ outcome' \in [Threads -> Outcomes]
    BY DEF FieldTypes, Suspend, Outcomes
  <2>2. /\ timeout' \in [Threads -> Waits \cup {0}] /\ waited' \in [Threads -> 0..MaxWait]
        /\ total' \in [Threads -> 0..MaxWait]
    BY DEF FieldTypes, Suspend
  <2> QED BY <2>1, <2>2 DEF FieldTypes
<1>2. CallInv'
  <2> SUFFICES ASSUME NEW u \in Threads PROVE InCall(u)'
    BY DEF CallInv
  <2>1. CASE u = t
    <3>1. /\ error'[t] = "EOK" /\ stat'[t] = "suspend" /\ timeout'[t] = wait
          /\ waited'[t] = 0 /\ outcome'[t] = <<"waiting">> /\ total'[t] = total[t]
      BY DEF FieldTypes, Suspend
    <3>2. total[t] \in 0..MaxWait
      BY DEF FieldTypes
    <3> QED BY <2>1, <3>1, <3>2 DEF InCall, Waits, Forever
  <2>2. CASE u # t
    <3>1. InCall(u)
      BY DEF CallInv
    <3>2. /\ op'[u] = op[u] /\ mail'[u] = mail[u] /\ asked'[u] = asked[u]
          /\ stat'[u] = stat[u] /\ error'[u] = error[u] /\ timeout'[u] = timeout[u]
          /\ waited'[u] = waited[u] /\ total'[u] = total[u] /\ outcome'[u] = outcome[u]
      BY <2>2 DEF FieldTypes, Suspend
    <3> QED BY <3>1, <3>2 DEF InCall
  <2> QED BY <2>1, <2>2
<1> QED BY <1>1, <1>2

(* Every section with interrupts off keeps the invariant.                  *)
LEMMA StepIInv == ASSUME IInv, [Next]_vars PROVE IInv'
<1> USE MailboxAssumption DEF box, clock
<1>0. TypeOK /\ RingTypes /\ FieldTypes /\ CallInv /\ RingInv /\ NobodyForgotten
  BY TypeParts DEF IInv
<1>i. RingTypes' /\ FieldTypes' /\ CallInv' /\ RingInv' /\ NobodyForgotten' => IInv'
  BY DEF IInv, TypeOK, RingTypes, FieldTypes
<1>r. ASSUME NEW t \in Threads, op[t] = "none" PROVE stat[t] = "ready"
  BY <1>0, <1>r DEF CallInv, InCall
<1>w. \A o \in Sides : IsFiniteSet(Woken(o)') /\ Cardinality(Woken(o)') \in Nat
  BY WokenFinite DEF Woken
\* A call that puts or takes a mail and ends.
<1>p. ASSUME NEW t \in Threads, NEW v \in Values, Put(v), Returns(t, <<"sent">>),
             stat[t] = "ready", t \notin Woken("recv")
      PROVE  IInv'
  <2>1. entry' = entry + 1 /\ RingTypes' /\ RingInv' /\ ResumeOne("recv")
    BY <1>0, <1>p, PutAppends
  <2>2. OnlyEnds({t})
    BY <1>0, <1>p, ReturnsEnds
  <2>3. /\ stat' \in [Threads -> {"ready", "suspend"}]
        /\ \A u \in Threads : stat'[u] = "suspend" => stat[u] = "suspend"
    BY <1>0, <2>1, <2>2, ResumeMovesOne DEF Sides, FieldTypes
  <2>4. FieldTypes' /\ CallInv'
    BY <1>0, <1>p, <2>3, ReturnsKeeps DEF Outcomes
  <2>5. Avail("recv")' = Avail("recv") + 1
    BY <2>1 DEF Avail
  <2>6. NobodyForgotten'
    BY <1>0, <1>p, <2>1, <2>2, <2>5, MoveKeepsBalance DEF Sides
  <2> QED BY <1>i, <2>1, <2>4, <2>6
<1>t. ASSUME NEW t \in Threads, Take, Returns(t, <<"got", pool[out_offset]>>),
             stat[t] = "ready", t \notin Woken("send")
      PROVE  IInv'
  <2>1. entry' = entry - 1 /\ RingTypes' /\ RingInv' /\ ResumeOne("send")
           /\ pool[out_offset] \in Values
    BY <1>0, <1>t, TakeRemoves
  <2>2. OnlyEnds({t})
    BY <1>0, <1>t, ReturnsEnds
  <2>3. /\ stat' \in [Threads -> {"ready", "suspend"}]
        /\ \A u \in Threads : stat'[u] = "suspend" => stat[u] = "suspend"
    BY <1>0, <2>1, <2>2, ResumeMovesOne DEF Sides, FieldTypes
  <2>4. FieldTypes' /\ CallInv'
    BY <1>0, <1>t, <2>1, <2>3, ReturnsKeeps DEF Outcomes
  <2>5. Avail("send")' = Avail("send") + 1
    BY <1>0, <2>1 DEF Avail, RingTypes
  <2>6. NobodyForgotten'
    BY <1>0, <1>t, <2>1, <2>2, <2>5, MoveKeepsBalance DEF Sides
  <2> QED BY <1>i, <2>1, <2>4, <2>6
\* A call that ends and leaves the box alone.
<1>e. ASSUME NEW t \in Threads, NEW o \in {"ETIMEOUT", "EFULL", "ERROR"}, Returns(t, <<o>>),
             stat[t] = "ready", UNCHANGED <<box, stat>>,
             \A s \in Sides : t \notin Woken(s) \/ Avail(s) = 0
      PROVE  IInv'
  <2>1. RingTypes' /\ RingInv'
    BY <1>0, <1>e DEF RingTypes, RingInv, Wrap
  <2>2. FieldTypes' /\ CallInv'
    BY <1>0, <1>e, ReturnsKeeps DEF Outcomes, FieldTypes
  <2>3. ASSUME NEW s \in Sides PROVE Balanced(s)'
    <3>1. Suspended(s)' = Suspended(s) /\ Woken(s)' = Woken(s) \ {t} /\ Avail(s)' = Avail(s)
      BY <1>0, <1>e DEF Suspended, Woken, Avail, Returns, FieldTypes, Sides
    <3>2. CASE t \notin Woken(s)
      BY <1>0, <3>1, <3>2, NobodyForgottenBySide DEF Balanced
    <3>3. CASE Avail(s) = 0
      BY <1>w, <3>1, <3>3 DEF Balanced
    <3> QED BY <1>e, <3>2, <3>3
  <2> QED BY <1>i, <2>1, <2>2, <2>3 DEF NobodyForgotten, Balanced, Avail, Sides
\* A thread that waits, for the first time or again.
<1>s. ASSUME NEW t \in Threads, NEW s \in Sides, NEW wait \in Waits, Suspend(t, wait),
             FieldTypes', CallInv', UNCHANGED box, Avail(s) = 0,
             op[t] \in {"none", s}, op' = [op EXCEPT ![t] = s]
      PROVE  IInv'
  <2>1. RingTypes' /\ RingInv'
    BY <1>0, <1>s DEF RingTypes, RingInv, Wrap
  <2>2. Avail(s)' = 0
    BY <1>s DEF Avail
  <2>3. Suspended(Other(s))' = Suspended(Other(s)) /\ Woken(Other(s))' = Woken(Other(s))
        /\ Avail(Other(s))' = Avail(Other(s))
    BY <1>0, <1>s DEF Suspended, Woken, Other, Sides, Avail, Suspend, FieldTypes
  <2>4. Balanced(s)' /\ Balanced(Other(s))'
    BY <1>0, <1>w, <2>2, <2>3, NobodyForgottenBySide DEF Balanced, Other, Sides
  <2> QED BY <1>i, <1>s, <2>1, <2>4 DEF NobodyForgotten, Balanced, Avail, Sides, Other
\* The actions.
<1>1. ASSUME NEW t \in Threads, RecvNow(t) PROVE IInv'
  BY <1>1, <1>r, <1>t DEF RecvNow, Woken
<1>2. ASSUME NEW t \in Threads, Refused(t) PROVE IInv'
  <2>1. stat[t] = "ready" /\ \A s \in Sides : t \notin Woken(s)
    BY <1>2, <1>r DEF Refused, Woken, Sides
  <2> QED BY <1>2, <1>e, <2>1 DEF Refused
<1>3. ASSUME NEW t \in Threads, NEW wait \in Waits, RecvWaits(t, wait) PROVE IInv'
  <2>1. /\ op' = [op EXCEPT ![t] = "recv"] /\ asked' = [asked EXCEPT ![t] = wait]
        /\ Suspend(t, wait) /\ UNCHANGED <<box, mail, total>> /\ entry = 0 /\ op[t] = "none"
    BY <1>3 DEF RecvWaits
  <2>2. total[t] = 0
    BY <1>0, <2>1 DEF CallInv, InCall
  <2>3. FieldTypes' /\ CallInv'
    <3>1. /\ op' \in [Threads -> {"none", "recv", "send"}] /\ op'[t] = "recv"
          /\ asked' \in [Threads -> Waits \cup {0}] /\ asked'[t] = wait
          /\ \A u \in Threads \ {t} : op'[u] = op[u] /\ mail'[u] = mail[u] /\ asked'[u] = asked[u]
      BY <1>0, <2>1 DEF FieldTypes
    <3>2. IF wait = Forever THEN asked'[t] = Forever ELSE total[t] + wait <= asked'[t]
      BY <2>2, <3>1 DEF Waits, Forever
    <3>3. mail' \in [Threads -> Values \cup {NoMail}] /\ UNCHANGED total
      BY <1>0, <2>1 DEF FieldTypes
    <3> QED BY <1>0, <2>1, <3>1, <3>2, <3>3, SuspendKeeps
  <2> QED BY <1>s, <2>1, <2>3 DEF Avail, Sides
<1>4. ASSUME NEW t \in Threads, NEW v \in Values, SendNow(t, v) PROVE IInv'
  BY <1>4, <1>r, <1>p DEF SendNow, Woken
<1>5. ASSUME NEW t \in Threads, NEW v \in Values, NEW wait \in Waits, SendWaits(t, v, wait)
      PROVE  IInv'
  <2>1. /\ op' = [op EXCEPT ![t] = "send"] /\ asked' = [asked EXCEPT ![t] = wait]
        /\ mail' = [mail EXCEPT ![t] = v]
        /\ Suspend(t, wait) /\ UNCHANGED <<box, total>> /\ entry = Size /\ op[t] = "none"
    BY <1>5 DEF SendWaits
  <2>2. total[t] = 0
    BY <1>0, <2>1 DEF CallInv, InCall
  <2>3. FieldTypes' /\ CallInv'
    <3>1. /\ op' \in [Threads -> {"none", "recv", "send"}] /\ op'[t] = "send"
          /\ asked' \in [Threads -> Waits \cup {0}] /\ asked'[t] = wait
          /\ mail' \in [Threads -> Values \cup {NoMail}] /\ mail'[t] = v
          /\ \A u \in Threads \ {t} : op'[u] = op[u] /\ mail'[u] = mail[u] /\ asked'[u] = asked[u]
      BY <1>0, <2>1 DEF FieldTypes
    <3>2. IF wait = Forever THEN asked'[t] = Forever ELSE total[t] + wait <= asked'[t]
      BY <2>2, <3>1 DEF Waits, Forever
    <3> QED BY <1>0, <2>1, <3>1, <3>2, SuspendKeeps
  <2>4. Avail("send") = 0
    BY <2>1 DEF Avail
  <2> QED BY <1>s, <2>1, <2>3, <2>4 DEF Sides
<1>6. ASSUME NEW t \in Threads, WaitFails(t) PROVE IInv'
  <2>1. /\ stat[t] = "ready" /\ Returns(t, <<error[t]>>) /\ UNCHANGED <<box, stat>>
        /\ error[t] # "EOK"
    BY <1>6 DEF WaitFails, Resumed
  <2>2. error[t] \in {"ETIMEOUT", "EFULL", "ERROR"} /\ \A s \in Sides : t \notin Woken(s)
    BY <1>0, <2>1 DEF FieldTypes, Woken
  <2> QED BY <1>e, <2>1, <2>2
\* What is left of a timeout, when it is not over.
<1>l. ASSUME NEW t \in Threads, op[t] # "none", Left(t) # 0
      PROVE  /\ Left(t) \in Waits /\ asked[t] \in Waits
             /\ IF Left(t) = Forever THEN asked[t] = Forever ELSE total[t] + Left(t) <= asked[t]
  <2>1. InCall(t) /\ waited[t] \in 0..MaxWait /\ total[t] \in 0..MaxWait
    BY <1>0 DEF CallInv, FieldTypes
  <2> QED BY <1>l, <2>1 DEF InCall, Left, Waits, Forever
\* A woken thread that waits again.
<1>a. ASSUME NEW t \in Threads, NEW s \in Sides, op[t] = s, Left(t) # 0, Avail(s) = 0,
             Suspend(t, Left(t)), UNCHANGED <<box, op, mail, asked, total>>
      PROVE  IInv'
  <2>1. op[t] # "none" /\ op' = [op EXCEPT ![t] = s] /\ op[t] \in {"none", s}
    BY <1>0, <1>a DEF FieldTypes, Sides
  <2>2. /\ Left(t) \in Waits /\ asked[t] \in Waits
        /\ IF Left(t) = Forever THEN asked[t] = Forever ELSE total[t] + Left(t) <= asked[t]
    BY <1>a, <1>l, <2>1
  <2>3. op[t] = "send" => mail[t] \in Values
    BY <1>0 DEF CallInv, InCall
  <2>4. FieldTypes' /\ CallInv'
    BY <1>0, <1>a, <2>1, <2>2, <2>3, SuspendKeeps DEF FieldTypes
  <2> QED BY <1>a, <1>s, <2>1, <2>2, <2>4
<1>7. ASSUME NEW t \in Threads, RecvAgain(t) PROVE IInv'
  <2>1. op[t] = "recv" /\ stat[t] = "ready" /\ t \notin Woken("send")
    BY <1>7 DEF RecvAgain, Resumed, Woken
  <2>2. CASE Take /\ Returns(t, <<"got", pool[out_offset]>>)
    BY <1>t, <2>1, <2>2
  <2>3. CASE entry = 0 /\ Returns(t, <<"ETIMEOUT">>) /\ UNCHANGED <<box, stat>>
    BY <1>e, <2>1, <2>3 DEF Sides, Avail
  <2>4. CASE /\ entry = 0 /\ Left(t) # 0 /\ Suspend(t, Left(t))
             /\ UNCHANGED <<box, op, mail, asked, total>>
    BY <1>a, <2>1, <2>4 DEF Sides, Avail
  <2> QED BY <1>7, <2>2, <2>3, <2>4 DEF RecvAgain
<1>8. ASSUME NEW t \in Threads, SendAgain(t) PROVE IInv'
  <2>1. op[t] = "send" /\ stat[t] = "ready" /\ t \notin Woken("recv") /\ mail[t] \in Values
    BY <1>0, <1>8 DEF SendAgain, Resumed, Woken, CallInv, InCall
  <2>2. CASE Put(mail[t]) /\ Returns(t, <<"sent">>)
    BY <1>p, <2>1, <2>2
  <2>s. entry = Size => Avail("send") = 0
    BY DEF Avail
  <2>3. CASE entry = Size /\ Returns(t, <<"EFULL">>) /\ UNCHANGED <<box, stat>>
    BY <1>e, <2>1, <2>3, <2>s DEF Sides
  <2>4. CASE /\ entry = Size /\ Left(t) # 0 /\ Suspend(t, Left(t))
             /\ UNCHANGED <<box, op, mail, asked, total>>
    BY <1>a, <2>1, <2>4, <2>s DEF Sides
  <2> QED BY <1>8, <2>2, <2>3, <2>4 DEF SendAgain
\* Mails that come from outside of the waiting calls.
<1>o. ASSUME RingTypes', RingInv', entry' = entry + 1, ResumeOne("recv"),
             UNCHANGED <<op, mail, error, clock, outcome>>
      PROVE  IInv'
  <2>1. OnlyEnds({})
    BY <1>o DEF OnlyEnds
  <2>2. /\ stat' \in [Threads -> {"ready", "suspend"}]
        /\ \A u \in Threads : stat'[u] = "suspend" => stat[u] = "suspend"
    BY <1>0, <1>o, <2>1, ResumeMovesOne DEF Sides, FieldTypes
  <2>3. FieldTypes'
    BY <1>0, <1>o, <2>2 DEF FieldTypes
  <2>4. CallInv'
    <3> SUFFICES ASSUME NEW u \in Threads PROVE InCall(u)'
      BY DEF CallInv
    <3>1. InCall(u) /\ stat'[u] \in {"ready", "suspend"}
      BY <1>0, <2>2 DEF CallInv
    <3> QED BY <1>o, <2>2, <3>1 DEF InCall
  <2>5. Avail("recv")' = Avail("recv") + 1
    BY <1>o DEF Avail
  <2>6. NobodyForgotten'
    BY <1>0, <1>o, <2>1, <2>5, MoveKeepsBalance DEF Sides
  <2> QED BY <1>i, <1>o, <2>3, <2>4, <2>6
<1>9. ASSUME NEW v \in Values, IrqSend(v) PROVE IInv'
  <2>1. Put(v) /\ UNCHANGED <<op, mail, error, clock, outcome>>
    BY <1>9 DEF IrqSend
  <2> QED BY <1>0, <1>o, <2>1, PutAppends
<1>10. ASSUME NEW v \in Values, Urgent(v) PROVE IInv'
  <2>1. ResumeOne("recv") /\ UNCHANGED <<op, mail, error, clock, outcome>>
    BY <1>10 DEF Urgent
  <2> QED BY <1>0, <1>o, <1>10, <2>1, UrgentPrepends
<1>11. CASE Reset
  <2>1. /\ stat' = [t \in Threads |-> IF t \in Suspended("recv") \cup Suspended("send")
                                      THEN "ready" ELSE stat[t]]
        /\ error' = [t \in Threads |-> IF t \in Suspended("recv") \cup Suspended("send")
                                       THEN "ERROR" ELSE error[t]]
        /\ entry' = 0 /\ in_offset' = 0 /\ out_offset' = 0
        /\ UNCHANGED <<pool, op, mail, clock, outcome>>
    BY <1>11 DEF Reset
  <2>2. RingTypes' /\ RingInv'
    BY <1>0, <2>1 DEF RingTypes, RingInv, Wrap
  <2>3. FieldTypes'
    BY <1>0, <2>1 DEF FieldTypes
  <2>4. \A u \in Threads : stat'[u] = "ready"
    BY <1>0, <2>1 DEF FieldTypes, CallInv, InCall, Suspended
  <2>5. CallInv'
    BY <1>0, <2>1, <2>4 DEF CallInv, InCall
  <2>6. NobodyForgotten'
    BY <2>4 DEF NobodyForgotten, Suspended
  <2> QED BY <1>i, <2>2, <2>3, <2>5, <2>6
<1>12. ASSUME NEW t \in Threads, Timeout(t) PROVE IInv'
  <2>1. /\ stat' = [stat EXCEPT ![t] = "ready"] /\ error' = [error EXCEPT ![t] = "ETIMEOUT"]
        /\ UNCHANGED <<box, op, mail, clock, outcome>> /\ stat[t] = "suspend"
    BY <1>12 DEF Timeout, Due
  <2>2. RingTypes' /\ RingInv'
    BY <1>0, <2>1 DEF RingTypes, RingInv, Wrap
  <2>3. FieldTypes'
    BY <1>0, <2>1 DEF FieldTypes
  <2>4. CallInv'
    <3> SUFFICES ASSUME NEW u \in Threads PROVE InCall(u)'
      BY DEF CallInv
    <3>1. InCall(u)
      BY <1>0 DEF CallInv
    <3> QED BY <1>0, <2>1, <3>1 DEF InCall, FieldTypes
  <2>5. NobodyForgotten'
    <3>1. \A o \in Sides : Suspended(o)' \subseteq Suspended(o) /\ Woken(o)' = Woken(o)
      BY <1>0, <2>1 DEF Suspended, Woken, FieldTypes
    <3> QED BY <1>0, <2>1, <3>1, QuietKeepsBalance
  <2> QED BY <1>i, <2>2, <2>3, <2>4, <2>5
<1>13. CASE Tick
  <2>1. /\ waited' = [t \in Threads |-> IF timeout[t] > 0 THEN Later(waited[t]) ELSE 0]
        /\ total' = [t \in Threads |-> IF asked[t] > 0 THEN Later(total[t]) ELSE 0]
        /\ UNCHANGED <<box, op, mail, stat, error, timeout, asked, outcome>>
    BY <1>13 DEF Tick
  <2>2. RingTypes' /\ RingInv'
    BY <1>0, <2>1 DEF RingTypes, RingInv, Wrap
  <2>3. waited' \in [Threads -> 0..MaxWait] /\ total' \in [Threads -> 0..MaxWait]
    BY <1>0, <2>1 DEF FieldTypes, Later
  <2>4. FieldTypes'
    BY <1>0, <2>1, <2>3 DEF FieldTypes
  <2>5. CallInv'
    <3> SUFFICES ASSUME NEW u \in Threads PROVE InCall(u)'
      BY DEF CallInv
    <3>1. InCall(u) /\ waited[u] \in 0..MaxWait /\ total[u] \in 0..MaxWait
      BY <1>0 DEF CallInv, FieldTypes
    <3>2. /\ waited'[u] = IF timeout[u] > 0 THEN Later(waited[u]) ELSE 0
          /\ total'[u] = IF asked[u] > 0 THEN Later(total[u]) ELSE 0
      BY <2>1
    <3> QED BY <2>1, <3>1, <3>2 DEF InCall, Later, Forever
  <2>6. NobodyForgotten'
    BY <1>0, <2>1, QuietKeepsBalance DEF Suspended, Woken
  <2> QED BY <1>i, <2>2, <2>4, <2>5, <2>6
<1>14. CASE UNCHANGED vars
  <2>1. RingTypes' /\ RingInv' /\ FieldTypes' /\ CallInv'
    BY <1>0, <1>14 DEF vars, RingTypes, RingInv, Wrap, FieldTypes, CallInv, InCall
  <2>2. NobodyForgotten'
    BY <1>0, <1>14, QuietKeepsBalance DEF vars, Suspended, Woken
  <2> QED BY <1>i, <2>1, <2>2
<1> QED BY <1>1, <1>2, <1>3, <1>4, <1>5, <1>6, <1>7, <1>8, <1>9, <1>10, <1>11, <1>12,
           <1>13, <1>14 DEF Next, Call, GoOn

-----------------------------------------------------------------------------
(* The invariant holds in every reachable state.                           *)
LEMMA Invariance == Spec => []IInv
<1>1. Init => IInv
  BY InitIInv
<1>2. IInv /\ [Next]_vars => IInv'
  BY StepIInv
<1> QED BY <1>1, <1>2, PTL DEF Spec

(* The fields of the mailbox and of every call keep their types, for any   *)
(* size of the ring and any number of threads.                             *)
THEOREM TypeCorrect == Spec => []TypeOK
<1>1. IInv => TypeOK
  BY DEF IInv
<1> QED BY <1>1, Invariance, PTL

(* Nobody sleeps beside a mail or a free place for which no thread was     *)
(* woken, for any number of threads on either side.                        *)
THEOREM WakeupsSuffice == Spec => []NobodyForgotten
<1>1. IInv => NobodyForgotten
  BY DEF IInv
<1> QED BY <1>1, Invariance, PTL

(* However many threads and interrupts are faster, a call never waits for  *)
(* longer than its timeout in all.                                         *)
THEOREM WaitsInTime == Spec => []InTime
<1>1. IInv => InTime
  <2> SUFFICES ASSUME IInv, NEW t \in Threads, stat[t] = "suspend", asked[t] > 0
               PROVE  total[t] - waited[t] + timeout[t] <= asked[t]
    BY DEF InTime
  <2>1. InCall(t)
    BY DEF IInv, CallInv
  <2> QED BY <2>1 DEF InCall, Forever
<1> QED BY <1>1, Invariance, PTL

-----------------------------------------------------------------------------
(* The mailbox is a bounded queue                                          *)

LEMMA RefineInit == Init => Abstract!Init
<1> SUFFICES ASSUME Init PROVE Abstract!Init OBVIOUS
<1>1. RingTypes /\ entry = 0
  BY MailboxAssumption DEF Init, RingTypes
<1>2. Queue = << >>
  <2>1. Len(Queue) = 0 /\ Queue \in Seq(Values)
    BY <1>1, QueueIsMails, MailsByPosition DEF RingTypes
  <2> QED BY <2>1, EmptySeq
<1> QED BY <1>2 DEF Init, Abstract!Init

LEMMA RefineNext ==
    ASSUME IInv, IInv', [Next]_vars
    PROVE  [Abstract!Next]_(Abstract!vars)
<1> USE MailboxAssumption DEF box
<1>0. RingTypes /\ RingInv /\ FieldTypes /\ CallInv
  BY TypeParts DEF IInv
<1>q. Queue \in Seq(Values) /\ Len(Queue) = entry
  BY <1>0, QueueIsMails, MailsByPosition DEF RingTypes
<1>b. UNCHANGED box => UNCHANGED Queue
  BY DEF Queue
<1>p. ASSUME NEW t \in Threads, NEW v \in Values, Put(v), Returns(t, <<"sent">>)
      PROVE  Abstract!Send(t, v)
  BY <1>0, <1>p, PutAppends DEF Returns, Abstract!Send, Abstract!Room, Abstract!Ends
<1>t. ASSUME NEW t \in Threads, Take, Returns(t, <<"got", pool[out_offset]>>)
      PROVE  Abstract!Recv(t)
  BY <1>0, <1>t, TakeRemoves DEF Returns, Abstract!Recv, Abstract!Ends
<1>e. ASSUME NEW t \in Threads, NEW o \in {"ETIMEOUT", "EFULL", "ERROR"}, Returns(t, <<o>>),
             UNCHANGED <<box, stat>>, op[t] # "none" \/ entry = 0 \/ entry = Size
      PROVE  Abstract!Fail(t)
  <2>1. outcome[t] = <<"waiting">> \/ ~Abstract!Room \/ Queue = << >>
    BY <1>0, <1>q, <1>e, EmptySeq DEF CallInv, InCall, Abstract!Room
  <2>2. UNCHANGED Queue
    BY <1>b, <1>e
  <2> QED BY <1>e, <2>1, <2>2 DEF Returns, Abstract!Fail, Abstract!Ends
<1>s. ASSUME NEW t \in Threads, NEW wait, Suspend(t, wait), UNCHANGED box
      PROVE  Abstract!Wait(t)
  BY <1>b, <1>s DEF Suspend, Abstract!Wait, Abstract!Ends
<1>1. ASSUME NEW t \in Threads, Call(t) PROVE Abstract!Next
  <2>1. CASE RecvNow(t)
    BY <1>t, <2>1 DEF RecvNow, Abstract!Next
  <2>2. CASE Refused(t)
    BY <1>e, <2>2 DEF Refused, Abstract!Next
  <2>3. ASSUME NEW wait \in Waits, RecvWaits(t, wait) PROVE Abstract!Next
    BY <1>s, <2>3 DEF RecvWaits, Abstract!Next
  <2>4. ASSUME NEW v \in Values, SendNow(t, v) PROVE Abstract!Next
    BY <1>p, <2>4 DEF SendNow, Abstract!Next
  <2>5. ASSUME NEW v \in Values, NEW wait \in Waits, SendWaits(t, v, wait) PROVE Abstract!Next
    BY <1>s, <2>5 DEF SendWaits, Abstract!Next
  <2> QED BY <1>1, <2>1, <2>2, <2>3, <2>4, <2>5 DEF Call
<1>2. ASSUME NEW t \in Threads, GoOn(t) PROVE Abstract!Next
  <2>1. CASE WaitFails(t)
    <3>1. /\ op[t] # "none" /\ Returns(t, <<error[t]>>) /\ UNCHANGED <<box, stat>>
          /\ error[t] \in {"ETIMEOUT", "EFULL", "ERROR"}
      BY <1>0, <2>1 DEF WaitFails, Resumed, FieldTypes
    <3> QED BY <1>e, <3>1 DEF Abstract!Next
  <2>2. CASE RecvAgain(t)
    BY <1>t, <1>e, <1>s, <2>2 DEF RecvAgain, Abstract!Next
  <2>3. CASE SendAgain(t)
    <3>1. mail[t] \in Values
      BY <1>0, <2>3 DEF SendAgain, Resumed, CallInv, InCall
    <3> QED BY <1>p, <1>e, <1>s, <2>3, <3>1 DEF SendAgain, Abstract!Next
  <2> QED BY <1>2, <2>1, <2>2, <2>3 DEF GoOn
<1>3. ASSUME NEW v \in Values, IrqSend(v) PROVE Abstract!Next
  BY <1>0, <1>3, PutAppends DEF IrqSend, Abstract!Post, Abstract!Room, Abstract!Next
<1>4. ASSUME NEW v \in Values, Urgent(v) PROVE Abstract!Next
  <2>1. UNCHANGED outcome
    BY <1>4 DEF Urgent
  <2> QED BY <1>0, <1>4, <2>1, UrgentPrepends DEF Abstract!PostUrgent, Abstract!Room, Abstract!Next
<1>5. CASE Reset
  <2>1. entry' = 0 /\ UNCHANGED outcome
    BY <1>5 DEF Reset
  <2>2. Queue' = << >>
    BY <2>1 DEF Queue
  <2> QED BY <2>1, <2>2 DEF Abstract!Clear, Abstract!Next
<1>6. ASSUME NEW t \in Threads, Timeout(t) PROVE UNCHANGED <<Queue, outcome>>
  BY <1>b, <1>6 DEF Timeout
<1>7. ASSUME Tick \/ UNCHANGED vars PROVE UNCHANGED <<Queue, outcome>>
  <2>1. UNCHANGED <<box, outcome>>
    BY <1>7 DEF Tick, vars
  <2> QED BY <1>b, <2>1
<1> QED BY <1>1, <1>2, <1>3, <1>4, <1>5, <1>6, <1>7 DEF Next, Abstract!vars

(* The mailbox of ipc.c implements the bounded queue: for any number of    *)
(* threads and any size, no mail is lost, doubled or overtaken.            *)
THEOREM Refinement == Spec => IsBoundedQueue
<1>1. Init => Abstract!Init
  BY RefineInit
<1>2. IInv /\ IInv' /\ [Next]_vars => [Abstract!Next]_(Abstract!vars)
  BY RefineNext
<1>3. Spec => []IInv
  BY Invariance
<1> QED BY <1>1, <1>2, <1>3, PTL DEF Spec, IsBoundedQueue, Abstract!Spec
=============================================================================
