--------------------------- MODULE KernelMailbox ----------------------------
(***************************************************************************)
(* The mailbox of rt-thread/src/ipc.c: the ring of mails, the threads that *)
(* wait to receive or to send, and the loop in which a woken thread looks  *)
(* again, because another may have been faster, and waits for what is left *)
(* of its timeout.                                                         *)
(*                                                                         *)
(* A section with interrupts off is one action.  The order of the suspend  *)
(* lists and the handling of the thread timer are those of KernelSem; here *)
(* a list is the set of threads suspended in the same operation, and any   *)
(* of them may be its head.  Ticks are counted from the moment a thread    *)
(* was suspended, which is all the code uses them for.                     *)
(***************************************************************************)
EXTENDS Integers, Sequences, FiniteSets

CONSTANTS
    Threads,
    Values,     \* the mails
    NoMail,     \* a thread has nothing to send
    Size,       \* mb->size
    MaxWait     \* bound on the timeouts, in ticks

ASSUME ThreadsAssumption == IsFiniteSet(Threads)
ASSUME MailboxAssumption ==
    Size \in Nat \ {0} /\ MaxWait \in Nat /\ NoMail \notin Values

Forever == -1   \* RT_WAITING_FOREVER
Waits   == (1..MaxWait) \cup {Forever}

VARIABLES
    pool, entry, in_offset, out_offset,   \* the fields of rt_mailbox
    op,       \* what a thread is inside of: "none", "recv" or "send"
    mail,     \* the mail it wants to send
    stat,     \* thread->stat: "ready" or "suspend"
    error,    \* thread->error
    timeout,  \* the argument timeout, as reduced by the loop
    waited,   \* ticks since tick_delta was taken
    outcome,  \* of the last call; "waiting" inside of one that had to wait
    asked,    \* history: the timeout the call was given
    total     \* history: ticks since the call began

box   == <<pool, entry, in_offset, out_offset>>
clock == <<timeout, waited, asked, total>>
vars  == <<box, op, mail, stat, error, clock, outcome>>

Init ==
    /\ pool \in [0..Size-1 -> Values] /\ entry = 0 /\ in_offset = 0 /\ out_offset = 0
    /\ op = [t \in Threads |-> "none"]
    /\ mail = [t \in Threads |-> NoMail]
    /\ stat = [t \in Threads |-> "ready"]
    /\ error = [t \in Threads |-> "EOK"]
    /\ timeout = [t \in Threads |-> 0] /\ waited = [t \in Threads |-> 0]
    /\ asked = [t \in Threads |-> 0] /\ total = [t \in Threads |-> 0]
    /\ outcome = [t \in Threads |-> <<"none">>]

Suspended(o) == {t \in Threads : op[t] = o /\ stat[t] = "suspend"}

(* Woken by the other side, and not yet back from rt_schedule.             *)
Woken(o) == {t \in Threads : op[t] = o /\ stat[t] = "ready" /\ error[t] = "EOK"}

(* _ipc_list_resume, if anybody waits.                                     *)
ResumeOne(o) ==
    IF Suspended(o) = {} THEN UNCHANGED stat
    ELSE \E t \in Suspended(o) : stat' = [stat EXCEPT ![t] = "ready"]

-----------------------------------------------------------------------------
(* The ring                                                                *)

Up(offset)   == IF offset + 1 >= Size THEN 0 ELSE offset + 1
Down(offset) == IF offset > 0 THEN offset - 1 ELSE Size - 1

PutSilent(v) ==
    /\ entry < Size
    /\ pool' = [pool EXCEPT ![in_offset] = v]
    /\ in_offset' = Up(in_offset)
    /\ entry' = entry + 1
    /\ UNCHANGED out_offset
    /\ IF entry > 0 THEN UNCHANGED stat ELSE ResumeOne("recv")

PutUnchecked(v) ==
    /\ pool' = [pool EXCEPT ![in_offset] = v]
    /\ in_offset' = Up(in_offset)
    /\ entry' = entry + 1
    /\ UNCHANGED out_offset
    /\ ResumeOne("recv")

(* The end of rt_mb_send_wait.                                             *)
Put(v) ==
    /\ entry < Size
    /\ pool' = [pool EXCEPT ![in_offset] = v]
    /\ in_offset' = Up(in_offset)
    /\ entry' = entry + 1
    /\ UNCHANGED out_offset
    /\ ResumeOne("recv")

(* The end of rt_mb_recv.                                                  *)
Take ==
    /\ entry > 0
    /\ out_offset' = Up(out_offset)
    /\ entry' = entry - 1
    /\ UNCHANGED <<pool, in_offset>>
    /\ ResumeOne("send")

-----------------------------------------------------------------------------
(* Calls                                                                   *)

Returns(t, o) ==
    /\ op' = [op EXCEPT ![t] = "none"]
    /\ mail' = [mail EXCEPT ![t] = NoMail]
    /\ outcome' = [outcome EXCEPT ![t] = o]
    /\ error' = [error EXCEPT ![t] = "EOK"]   \* its value is not read again
    /\ timeout' = [timeout EXCEPT ![t] = 0] /\ waited' = [waited EXCEPT ![t] = 0]
    /\ asked' = [asked EXCEPT ![t] = 0] /\ total' = [total EXCEPT ![t] = 0]

(* thread->error = RT_EOK, _ipc_list_suspend, rt_timer_start; then         *)
(* rt_schedule, so the outcome is still open.                              *)
Suspend(t, wait) ==
    /\ error' = [error EXCEPT ![t] = "EOK"]
    /\ stat' = [stat EXCEPT ![t] = "suspend"]
    /\ timeout' = [timeout EXCEPT ![t] = wait]
    /\ waited' = [waited EXCEPT ![t] = 0]
    /\ outcome' = [outcome EXCEPT ![t] = <<"waiting">>]

(* rt_mb_recv on a box that holds a mail.                                  *)
RecvNow(t) ==
    /\ op[t] = "none"
    /\ Take
    /\ Returns(t, <<"got", pool[out_offset]>>)

(* rt_mb_recv(0) on an empty box, rt_mb_send on a full one.                *)
Refused(t) ==
    /\ op[t] = "none"
    /\ \/ entry = 0 /\ Returns(t, <<"ETIMEOUT">>)
       \/ entry = Size /\ Returns(t, <<"EFULL">>)
    /\ UNCHANGED <<box, stat>>

RecvWaits(t, wait) ==
    /\ op[t] = "none" /\ entry = 0
    /\ op' = [op EXCEPT ![t] = "recv"]
    /\ Suspend(t, wait)
    /\ asked' = [asked EXCEPT ![t] = wait]
    /\ UNCHANGED <<box, mail, total>>

SendNow(t, v) ==
    /\ op[t] = "none"
    /\ Put(v)
    /\ Returns(t, <<"sent">>)

SendWaits(t, v, wait) ==
    /\ op[t] = "none" /\ entry = Size
    /\ op' = [op EXCEPT ![t] = "send"]
    /\ mail' = [mail EXCEPT ![t] = v]
    /\ Suspend(t, wait)
    /\ asked' = [asked EXCEPT ![t] = wait]
    /\ UNCHANGED <<box, total>>

LeftAll(t) == timeout[t]

(* What is left of the timeout when a woken thread runs.                   *)
Left(t) ==
    IF timeout[t] <= 0 THEN timeout[t]
    ELSE IF waited[t] < timeout[t] THEN timeout[t] - waited[t] ELSE 0

Resumed(t, o) == op[t] = o /\ stat[t] = "ready"

(* Back from rt_schedule with an error.                                    *)
WaitFails(t) ==
    /\ Resumed(t, "recv") \/ Resumed(t, "send")
    /\ error[t] # "EOK"
    /\ Returns(t, <<error[t]>>)
    /\ UNCHANGED <<box, stat>>

(* Back without one: the loop looks at the box again.                      *)
RecvAgain(t) ==
    /\ Resumed(t, "recv") /\ error[t] = "EOK"
    /\ \/ /\ Take
          /\ Returns(t, <<"got", pool[out_offset]>>)
       \/ /\ entry = 0 /\ Left(t) = 0
          /\ Returns(t, <<"ETIMEOUT">>)
          /\ UNCHANGED <<box, stat>>
       \/ /\ entry = 0 /\ Left(t) # 0
          /\ Suspend(t, Left(t))
          /\ UNCHANGED <<box, op, mail, asked, total>>

SendAgain(t) ==
    /\ Resumed(t, "send") /\ error[t] = "EOK"
    /\ \/ /\ Put(mail[t])
          /\ Returns(t, <<"sent">>)
       \/ /\ entry = Size /\ Left(t) = 0
          /\ Returns(t, <<"EFULL">>)
          /\ UNCHANGED <<box, stat>>
       \/ /\ entry = Size /\ Left(t) # 0
          /\ Suspend(t, Left(t))
          /\ UNCHANGED <<box, op, mail, asked, total>>

-----------------------------------------------------------------------------
(* Interrupts, the tick, and rt_mb_control                                 *)

(* rt_mb_send by an interrupt, on a box with room.                         *)
IrqSend(v) ==
    /\ Put(v)
    /\ UNCHANGED <<op, mail, error, clock, outcome>>

UrgentNoRewind(v) ==
    /\ entry < Size
    /\ pool' = [pool EXCEPT ![out_offset] = v]
    /\ entry' = entry + 1
    /\ ResumeOne("recv")
    /\ UNCHANGED <<in_offset, out_offset, op, mail, error, clock, outcome>>

(* rt_mb_urgent: in front of the oldest mail.                              *)
Urgent(v) ==
    /\ entry < Size
    /\ out_offset' = Down(out_offset)
    /\ pool' = [pool EXCEPT ![out_offset'] = v]
    /\ entry' = entry + 1
    /\ ResumeOne("recv")
    /\ UNCHANGED <<in_offset, op, mail, error, clock, outcome>>

(* rt_mb_control(RT_IPC_CMD_RESET): all waits end with an error.           *)
Reset ==
    LET all == Suspended("recv") \cup Suspended("send")
    IN  /\ stat' = [t \in Threads |-> IF t \in all THEN "ready" ELSE stat[t]]
        /\ error' = [t \in Threads |-> IF t \in all THEN "ERROR" ELSE error[t]]
        /\ entry' = 0 /\ in_offset' = 0 /\ out_offset' = 0
        /\ UNCHANGED <<pool, op, mail, clock, outcome>>

Due(t) == stat[t] = "suspend" /\ timeout[t] > 0 /\ waited[t] >= timeout[t]

(* rt_thread_timeout.                                                      *)
Timeout(t) ==
    /\ Due(t)
    /\ stat' = [stat EXCEPT ![t] = "ready"]
    /\ error' = [error EXCEPT ![t] = "ETIMEOUT"]
    /\ UNCHANGED <<box, op, mail, clock, outcome>>

(* No counter matters beyond the longest timeout.                          *)
Later(n) == IF n < MaxWait THEN n + 1 ELSE n

(* rt_tick_increase; the timers that are due fire before the next tick.    *)
Tick ==
    /\ \A t \in Threads : ~Due(t)
    /\ waited' = [t \in Threads |-> IF timeout[t] > 0 THEN Later(waited[t]) ELSE 0]
    /\ total' = [t \in Threads |-> IF asked[t] > 0 THEN Later(total[t]) ELSE 0]
    /\ UNCHANGED <<box, op, mail, stat, error, timeout, asked, outcome>>

-----------------------------------------------------------------------------
Call(t) ==
    \/ RecvNow(t) \/ Refused(t)
    \/ \E wait \in Waits : RecvWaits(t, wait)
    \/ \E v \in Values : SendNow(t, v) \/ \E wait \in Waits : SendWaits(t, v, wait)

GoOn(t) == WaitFails(t) \/ RecvAgain(t) \/ SendAgain(t)

Next ==
    \/ \E t \in Threads : Call(t) \/ GoOn(t) \/ Timeout(t)
    \/ \E v \in Values : IrqSend(v) \/ Urgent(v)
    \/ Reset \/ Tick

Spec == Init /\ [][Next]_vars

-----------------------------------------------------------------------------
Outcomes == {<<o>> : o \in {"none", "waiting", "sent", "EFULL", "ETIMEOUT", "ERROR"}}
              \cup {<<"got", v>> : v \in Values}

TypeOK ==
    /\ pool \in [0..Size-1 -> Values] /\ entry \in 0..Size
    /\ in_offset \in 0..Size-1 /\ out_offset \in 0..Size-1
    /\ op \in [Threads -> {"none", "recv", "send"}]
    /\ mail \in [Threads -> Values \cup {NoMail}]
    /\ stat \in [Threads -> {"ready", "suspend"}]
    /\ error \in [Threads -> {"EOK", "ETIMEOUT", "ERROR"}]
    /\ timeout \in [Threads -> Waits \cup {0}] /\ asked \in [Threads -> Waits \cup {0}]
    /\ waited \in [Threads -> 0..MaxWait] /\ total \in [Threads -> 0..MaxWait]
    /\ outcome \in [Threads -> Outcomes]

(* Nobody sleeps beside a mail or a free place: while a receiver is        *)
(* suspended every mail in the box has a receiver that was woken for it    *)
(* and has not run yet, and likewise for senders and free places.          *)
NobodyForgotten ==
    /\ Suspended("recv") # {} => entry <= Cardinality(Woken("recv"))
    /\ Suspended("send") # {} => Size - entry <= Cardinality(Woken("send"))

(* However often a waiting thread is woken and finds that another was      *)
(* faster, its waits together never exceed the timeout of its call.        *)
InTime ==
    \A t \in Threads :
        stat[t] = "suspend" /\ asked[t] > 0
            => total[t] - waited[t] + timeout[t] <= asked[t]

(* The mails in the ring, in order.                                        *)
Queue == [i \in 1..entry |-> pool[(out_offset + i - 1) % Size]]

Abstract == INSTANCE BoundedMailbox WITH queue <- Queue

(* The mailbox is a bounded queue: no mail is lost, doubled or overtaken,  *)
(* whatever the interplay of waits, urgent mails and resets.               *)
IsBoundedQueue == Abstract!Spec
=============================================================================
