--------------------------- MODULE BoundedMailbox ---------------------------
(***************************************************************************)
(* What the comments of rt-thread/src/ipc.c promise of a mailbox: a queue  *)
(* of bounded length from which mails are taken in the order in which they *)
(* were sent, urgent ones first.  A call that cannot be served waits or    *)
(* fails; which of several waiting threads is served is left open.         *)
(***************************************************************************)
EXTENDS Integers, Sequences

CONSTANTS
    Threads,
    Values,     \* the mails
    Size        \* how many fit

VARIABLES
    queue,      \* the mails in the box, the next one first
    outcome     \* of each thread's last call; "waiting" until there is one

vars == <<queue, outcome>>

Room == Len(queue) < Size

Ends(t, o) == outcome' = [outcome EXCEPT ![t] = o]

Init == queue = << >> /\ outcome = [t \in Threads |-> <<"none">>]

Send(t, v) == Room /\ queue' = Append(queue, v) /\ Ends(t, <<"sent">>)

Recv(t) == queue # << >> /\ queue' = Tail(queue) /\ Ends(t, <<"got", Head(queue)>>)

Wait(t) == Ends(t, <<"waiting">>) /\ UNCHANGED queue

(* A call fails at once because the box is full or empty, or after a wait. *)
Fail(t) ==
    /\ outcome[t] = <<"waiting">> \/ ~Room \/ queue = << >>
    /\ \E e \in {"EFULL", "ETIMEOUT", "ERROR"} : Ends(t, <<e>>)
    /\ UNCHANGED queue

(* Sent by an interrupt or as an urgent mail: nobody waits for the result. *)
Post(v) == Room /\ queue' = Append(queue, v) /\ UNCHANGED outcome

PostUrgent(v) == Room /\ queue' = <<v>> \o queue /\ UNCHANGED outcome

Clear == queue' = << >> /\ UNCHANGED outcome

Next ==
    \/ \E t \in Threads : Recv(t) \/ Wait(t) \/ Fail(t) \/ \E v \in Values : Send(t, v)
    \/ \E v \in Values : Post(v) \/ PostUrgent(v)
    \/ Clear

Spec == Init /\ [][Next]_vars
=============================================================================
