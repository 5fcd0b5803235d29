------------------------- MODULE SdioRequestProofs --------------------------
(***************************************************************************)
(* Proofs about SdioRequest for any number of threads, any card and any    *)
(* number of retries.  The first part, on the bus lock, the retries and    *)
(* the acknowledgement, holds in every state.  The second, on the data of  *)
(* a request, speaks of states with ~stray: a transfer that outlives the   *)
(* five-second timeout of drv_sdio.c answers a later command.              *)
(***************************************************************************)
EXTENDS SdioRequest, SuspendListLemmas

BusTypes ==
    /\ req \in [Threads -> Requests \cup {NoReq, Asking}]
    /\ owner \in Threads \cup {NoThread}
    /\ queue \in Seq(Threads)
    /\ step \in {"idle", "send", "wait", "poll", "ack", "acked", "return"}
    /\ kind \in {"data", "stop", "cmd"}
    /\ left \in -1..Retries

(* The waiters for bus_lock are distinct, and its owner has a request.     *)
QueueInv ==
    /\ IsInjective(queue)
    /\ \A t \in ToSet(queue) : req[t] = Asking
    /\ owner = NoThread <=> step = "idle"
    /\ owner # NoThread => req[owner] \in Requests

(* The command in progress is one of the request; the data phase has no    *)
(* retries left, a command about to be sent has one.                       *)
KindInv ==
    /\ owner # NoThread /\ Current.op = "cmd" => kind = "cmd"
    /\ owner # NoThread /\ Current.op = "read" => kind # "cmd"
    /\ step = "poll" => kind = "data"
    /\ step = "send" /\ kind = "data" => left = 0
    /\ step = "send" /\ kind = "cmd" => left > 0
    /\ step # "idle" /\ kind # "cmd" => left <= 0

(* sem_ack is up just between mmcsd_req_complete and the take.             *)
AckInv == ack = (IF step = "acked" THEN 1 ELSE 0)

BusInv == BusTypes /\ QueueInv /\ KindInv /\ AckInv

HwTypes ==
    /\ err \in BOOLEAN /\ stopErr \in BOOLEAN
    /\ event \subseteq {"done", "err", "crc"} /\ sta \subseteq {"done", "err"}
    /\ cpsm \in Transfers \cup {NoReq, Plain} /\ dpsm \in Transfers \cup {NoReq}
    /\ cache \in Values \cup {Garbage} /\ buf \in Values \cup {Garbage}
    /\ disk \in [Sectors -> Values \cup {Garbage}]
    /\ stray \in BOOLEAN /\ excused \in BOOLEAN

(* The controller works on what the owner waits for, and on nothing else.  *)
(* The event comes when it is at rest, a checksum's while the data path    *)
(* may have started; and no CMDREND is left for the next command.          *)
CommandInv ==
    /\ cpsm # NoReq =>
          step = "wait" /\ cpsm = Command /\ dpsm = NoReq /\ event = {}
    /\ dpsm # NoReq =>
          /\ step \in {"wait", "poll"} /\ kind = "data" /\ dpsm = Transfer
          /\ step = "wait" => event = {} \/ "crc" \in event
          /\ step = "poll" => excused
    /\ "done" \in sta => step = "wait" /\ event = {}

(* cache_buf holds what is to be written; what was read without an error   *)
(* travels from the card to cache_buf and to the buffer of the request.    *)
DataInv ==
    /\ owner # NoThread /\ Current.op = "write" =>
          (step \in {"wait", "poll"} /\ kind = "data" => cache = Current.val)
    /\ owner # NoThread /\ Current.op = "read" =>
          /\ step = "wait" /\ kind = "data" /\ event = {"done"}
                => cache = disk[Current.sector]
          /\ step = "poll" /\ ~err /\ ~excused => cache = disk[Current.sector]
          /\ (step \in {"ack", "acked", "return"} \/ kind = "stop") /\ ~err /\ ~excused
                => buf = disk[Current.sector]

IInv == BusInv /\ HwTypes /\ (~stray => CommandInv /\ DataInv)

-----------------------------------------------------------------------------
(* A request has its fields, and is neither absent nor yet to be looked at.*)
LEMMA RequestFields ==
    ASSUME NEW r \in Requests
    PROVE  /\ r # NoReq /\ r # Asking /\ r.op \in {"read", "write", "cmd"}
           /\ r.sector \in Sectors
           /\ r.val \in Values \cup {Garbage} /\ r.multi \in BOOLEAN
           /\ r.op = "write" => r.val \in Values
<1>1. "sector" \notin DOMAIN NoReq /\ "sector" \notin DOMAIN Asking
  BY DEF NoReq, Asking
<1>2. CASE r \in [op : {"read"}, sector : Sectors, val : {Garbage}, multi : BOOLEAN]
  BY <1>1, <1>2
<1>3. CASE r \in [op : {"write"}, sector : Sectors, val : Values, multi : BOOLEAN]
  BY <1>1, <1>3
<1>4. CASE r \in [op : {"cmd"}, sector : Sectors, val : {Garbage}, multi : {FALSE}]
  BY <1>1, <1>4
<1> QED BY <1>2, <1>3, <1>4 DEF Requests

(* What the controller works on is told apart by its op.                   *)
LEMMA TransferFields ==
    /\ Asking # NoReq /\ Plain # NoReq
    /\ NoReq \notin Transfers /\ Plain \notin Transfers
    /\ \A x \in Transfers : x.op \in {"read", "write"} /\ x.sector \in Sectors
<1>1. NoReq.op = "none" /\ Asking.op = "asking" /\ Plain.op = "plain"
  BY DEF NoReq, Asking, Plain
<1>2. \A x \in Transfers : x.op \in {"read", "write"} /\ x.sector \in Sectors
  BY DEF Transfers
<1>3. NoReq \notin Transfers /\ Plain \notin Transfers
  BY <1>1, <1>2
<1> QED BY <1>1, <1>2, <1>3

-----------------------------------------------------------------------------
(* The bus, the retries and the acknowledgement                            *)

LEMMA InitBusInv == Init => BusInv
<1> SUFFICES ASSUME Init PROVE BusInv OBVIOUS
<1> USE SetAssumption, RetryAssumption
<1>1. << >> \in Seq(Threads) /\ ToSet(<< >>) = {} /\ IsInjective(<< >>)
  BY EmptyList
<1>2. BusTypes
  <2>1. 0 \in -1..Retries
    OBVIOUS
  <2> QED BY <1>1, <2>1 DEF Init, BusTypes
<1>3. QueueInv
  BY <1>1 DEF Init, QueueInv
<1>4. KindInv /\ AckInv
  BY DEF Init, KindInv, AckInv
<1> QED BY <1>2, <1>3, <1>4 DEF BusInv

(* A request begins: by a thread that finds the bus free, or was handed it.*)
LEMMA BeginBus ==
    ASSUME BusInv, NEW r \in Requests, Begin(r), owner' \in Threads, req'[owner'] = r,
           ack = 0, UNCHANGED ack,
           req' \in [Threads -> Requests \cup {NoReq, Asking}], queue' \in Seq(Threads),
           IsInjective(queue'), \A t \in ToSet(queue') : req'[t] = Asking
    PROVE  BusInv'
<1> USE SetAssumption, RetryAssumption
<1>1. r # NoReq /\ r.op \in {"read", "write", "cmd"}
  BY RequestFields
<1>2. step' = "send" /\ kind' \in {"data", "cmd"} /\ left' \in -1..Retries
  BY DEF Begin
<1>3. BusTypes'
  BY <1>2 DEF BusTypes
<1>4. QueueInv'
  BY <1>1, <1>2 DEF QueueInv
<1>5. KindInv'
  BY <1>1 DEF KindInv, Begin, Current
<1>6. AckInv'
  BY <1>2 DEF AckInv
<1> QED BY <1>3, <1>4, <1>5, <1>6 DEF BusInv

LEMMA EnterBus == ASSUME BusInv, NEW t \in Threads, Enter(t) PROVE BusInv'
<1> USE SetAssumption, RetryAssumption
<1>0. BusTypes /\ QueueInv /\ KindInv /\ AckInv
  BY DEF BusInv
<1>1. /\ queue \in Seq(Threads) /\ IsInjective(queue) /\ ToSet(queue) \subseteq Threads
      /\ t \notin ToSet(queue) /\ req[t] = NoReq /\ UNCHANGED ack
  BY <1>0, ListElements, TransferFields DEF Enter, QueueInv, BusTypes
<1>2. ASSUME owner = NoThread, owner' = t, NEW r \in Requests,
             req' = [req EXCEPT ![t] = r], Begin(r), UNCHANGED queue
      PROVE  BusInv'
  <2>1. /\ req' \in [Threads -> Requests \cup {NoReq, Asking}]
        /\ req'[t] = r /\ \A u \in Threads \ {t} : req'[u] = req[u]
    BY <1>0, <1>2 DEF BusTypes
  <2>2. \A u \in ToSet(queue') : req'[u] = Asking
    BY <1>0, <1>1, <1>2, <2>1 DEF QueueInv
  <2>3. ack = 0
    BY <1>0, <1>2 DEF QueueInv, AckInv
  <2> QED BY <1>1, <1>2, <2>1, <2>2, <2>3, BeginBus
<1>3. CASE /\ owner # NoThread /\ queue' = Append(queue, t)
           /\ req' = [req EXCEPT ![t] = Asking]
           /\ UNCHANGED <<owner, step, kind, left, err, stopErr, buf, hist>>
  <2>1. /\ queue' \in Seq(Threads) /\ IsInjective(queue')
        /\ ToSet(queue') = ToSet(queue) \cup {t}
    BY <1>1, <1>3, AppendToList
  <2>2. /\ req' \in [Threads -> Requests \cup {NoReq, Asking}]
        /\ req'[t] = Asking /\ \A u \in Threads \ {t} : req'[u] = req[u]
    BY <1>0, <1>3 DEF BusTypes
  <2>3. owner' \in Threads \ {t} /\ req'[owner'] = req[owner]
    BY <1>0, <1>1, <1>3, <2>2, RequestFields DEF QueueInv, BusTypes
  <2>4. BusTypes'
    BY <1>0, <1>3, <2>1, <2>2 DEF BusTypes
  <2>5. QueueInv'
    BY <1>0, <1>1, <1>3, <2>1, <2>2, <2>3 DEF QueueInv
  <2>6. UNCHANGED Current
    BY <1>3, <2>3 DEF Current
  <2>7. KindInv' /\ AckInv'
    BY <1>0, <1>1, <1>3, <2>6 DEF KindInv, AckInv
  <2> QED BY <2>4, <2>5, <2>7 DEF BusInv
<1> QED BY <1>2, <1>3 DEF Enter

LEMMA LeaveBus == ASSUME BusInv, Leave PROVE BusInv'
<1> USE SetAssumption, RetryAssumption
<1>0. BusTypes /\ QueueInv /\ KindInv /\ AckInv
  BY DEF BusInv
<1>1. owner \in Threads /\ ack = 0 /\ UNCHANGED ack /\ req[owner] \in Requests
  BY <1>0 DEF Leave, QueueInv, AckInv, BusTypes
<1>2. CASE /\ queue = << >> /\ owner' = NoThread /\ step' = "idle"
           /\ req' = [req EXCEPT ![owner] = NoReq] /\ UNCHANGED queue
           /\ kind' = "cmd" /\ left' = 0
  <2>1. BusTypes'
    BY <1>0, <1>1, <1>2 DEF BusTypes
  <2>2. QueueInv'
    BY <1>2, EmptyList DEF QueueInv
  <2>3. KindInv' /\ AckInv'
    BY <1>0, <1>1, <1>2 DEF KindInv, AckInv
  <2> QED BY <2>1, <2>2, <2>3 DEF BusInv
<1>3. ASSUME queue # << >>, owner' = Head(queue), queue' = Tail(queue), NEW r \in Requests,
             req' = [req EXCEPT ![owner] = NoReq, ![Head(queue)] = r], Begin(r)
      PROVE  BusInv'
  <2>1. queue \in Seq(Threads) /\ IsInjective(queue) /\ ToSet(queue) \subseteq Threads
    BY <1>0, ListElements DEF QueueInv, BusTypes
  <2>2. PICK h \in Threads : h = Head(queue)
    BY <1>3, <2>1, TailOfList
  <2>3. /\ h \in ToSet(queue) /\ Tail(queue) \in Seq(Threads) /\ IsInjective(Tail(queue))
        /\ ToSet(Tail(queue)) = ToSet(queue) \ {h}
    BY <1>3, <2>1, <2>2, TailOfList
  <2>4. \A u \in ToSet(queue) : req[u] = Asking /\ u # owner
    BY <1>0, <1>1, RequestFields DEF QueueInv
  <2>5. /\ req' \in [Threads -> Requests \cup {NoReq, Asking}] /\ req'[h] = r
        /\ \A u \in Threads \ {owner, h} : req'[u] = req[u]
    BY <1>0, <1>1, <1>3, <2>2, <2>3, <2>4 DEF BusTypes
  <2>6. \A u \in ToSet(queue') : req'[u] = Asking
    BY <1>3, <2>1, <2>3, <2>4, <2>5
  <2> QED BY <1>1, <1>3, <2>2, <2>3, <2>5, <2>6, BeginBus
<1> QED BY <1>2, <1>3 DEF Leave

(* The rest of the steps leave the bus to its owner.                       *)
LEMMA BusKeeps ==
    ASSUME BusInv, UNCHANGED bus, step = "idle" <=> step' = "idle"
    PROVE  /\ QueueInv' /\ UNCHANGED Current
           /\ step # "idle" => owner \in Threads /\ Current \in Requests
<1> USE SetAssumption
<1>1. BusTypes /\ QueueInv
  BY DEF BusInv
<1>2. UNCHANGED <<req, owner, queue>>
  BY DEF bus
<1>3. QueueInv' /\ UNCHANGED Current
  BY <1>1, <1>2 DEF QueueInv, Current
<1>4. step # "idle" => owner \in Threads /\ Current \in Requests
  BY <1>1 DEF QueueInv, BusTypes, Current
<1> QED BY <1>3, <1>4

LEMMA OwnerBus ==
    ASSUME BusInv, SendCommand \/ WaitEvent \/ WaitTimeout \/ PollData \/ ReqComplete
                     \/ RetryCommand \/ AskStatus \/ StatusBusy \/ Finish
    PROVE  BusInv'
<1> USE SetAssumption, RetryAssumption
<1>0. BusTypes /\ QueueInv /\ KindInv /\ AckInv
  BY DEF BusInv
<1> DEFINE Kept == UNCHANGED bus /\ step # "idle" /\ step' # "idle"
           Types == /\ step' \in {"send", "wait", "poll", "ack", "acked", "return"}
                    /\ kind' \in {"data", "stop", "cmd"} /\ left' \in -1..Retries
<1>1. CASE SendCommand
  <2>1. Kept /\ Types /\ AckInv'
    BY <1>0, <1>1 DEF SendCommand, BusTypes, KindInv, AckInv
  <2>2. UNCHANGED Current
    BY <2>1, BusKeeps
  <2>3. KindInv'
    BY <1>0, <1>1, <2>1, <2>2 DEF SendCommand, KindInv, BusTypes, bus
  <2> QED BY <1>0, <2>1, <2>3, BusKeeps DEF BusInv, BusTypes, bus
<1>2. CASE WaitEvent \/ WaitTimeout
  <2>1. /\ Kept /\ Types /\ AckInv' /\ UNCHANGED <<kind, left>>
        /\ step' = IF kind = "data" THEN "poll" ELSE "ack"
    BY <1>0, <1>2 DEF WaitEvent, WaitTimeout, Completed, BusTypes, AckInv
  <2>2. UNCHANGED Current
    BY <2>1, BusKeeps
  <2>3. KindInv'
    BY <1>0, <2>1, <2>2, <1>2 DEF WaitEvent, WaitTimeout, KindInv, bus
  <2> QED BY <1>0, <2>1, <2>3, BusKeeps DEF BusInv, BusTypes, bus
<1>3. CASE PollData
  <2>1. Kept /\ Types /\ AckInv'
    BY <1>0, <1>3 DEF PollData, BusTypes, AckInv
  <2>2. UNCHANGED Current
    BY <2>1, BusKeeps
  <2>3. KindInv'
    BY <1>0, <1>3, <2>1, <2>2 DEF PollData, KindInv, bus
  <2> QED BY <1>0, <2>1, <2>3, BusKeeps DEF BusInv, BusTypes, bus
<1>4. CASE ReqComplete
  <2>1. Kept /\ Types /\ AckInv'
    BY <1>0, <1>4 DEF ReqComplete, BusTypes, AckInv
  <2>2. UNCHANGED Current
    BY <2>1, BusKeeps
  <2>3. KindInv'
    BY <1>0, <1>4, <2>1, <2>2 DEF ReqComplete, KindInv, bus
  <2> QED BY <1>0, <2>1, <2>3, BusKeeps DEF BusInv, BusTypes, bus
<1>5. CASE RetryCommand \/ AskStatus \/ StatusBusy \/ Finish
  <2>1. Kept /\ Types /\ AckInv'
    BY <1>0, <1>5 DEF RetryCommand, AskStatus, StatusBusy, Finish, TakeAck, BusTypes, AckInv
  <2>2. UNCHANGED Current
    BY <2>1, BusKeeps
  <2>3. KindInv'
    BY <1>0, <1>5, <2>1, <2>2
    DEF RetryCommand, AskStatus, StatusBusy, Finish, TakeAck, Retry, KindInv, bus
  <2> QED BY <1>0, <2>1, <2>3, BusKeeps DEF BusInv, BusTypes, bus
<1> QED BY <1>1, <1>2, <1>3, <1>4, <1>5

LEMMA HwBus ==
    ASSUME BusInv, UNCHANGED <<bus, step, kind, left, ack>>
    PROVE  BusInv'
<1>1. QueueInv' /\ UNCHANGED Current
  BY BusKeeps
<1> QED BY <1>1 DEF BusInv, BusTypes, KindInv, AckInv, bus

LEMMA StepBusInv == ASSUME BusInv, [Next]_vars PROVE BusInv'
<1>1. CASE HwNext \/ UNCHANGED vars
  BY <1>1, HwBus DEF HwNext, CmdAnswered, CmdFails, CmdDamaged, DataMoved, DataFails, vars
<1> QED BY <1>1, EnterBus, LeaveBus, OwnerBus DEF Next, OwnerNext

(* Whatever the controller does and however late it is, bus_lock has each  *)
(* waiter once, sem_ack is up only for the request that waits for it, the  *)
(* retries are counted down to -1 at most and no data phase is retried.    *)
THEOREM HandshakeHolds == Spec => []BusInv
<1>1. Init => BusInv
  BY InitBusInv
<1>2. BusInv /\ [Next]_vars => BusInv'
  BY StepBusInv
<1> QED BY <1>1, <1>2, PTL DEF Spec

-----------------------------------------------------------------------------
(* The data of a request                                                   *)

LEMMA InitIInv == Init => IInv
<1> SUFFICES ASSUME Init PROVE IInv OBVIOUS
<1>1. BusInv
  BY InitBusInv
<1>2. HwTypes
  <2>1. /\ cpsm = NoReq /\ dpsm = NoReq /\ sta = {} /\ event = {}
        /\ disk \in [Sectors -> Values \cup {Garbage}]
        /\ cache = Garbage /\ buf = Garbage
    BY DEF Init, AtRest
  <2>2. err = FALSE /\ stopErr = FALSE /\ stray = FALSE /\ excused = FALSE
    BY DEF Init
  <2> QED BY <2>1, <2>2 DEF HwTypes
<1>3. CommandInv /\ DataInv
  BY DEF Init, AtRest, CommandInv, DataInv
<1> QED BY <1>1, <1>2, <1>3 DEF IInv

(* Unless a wait was given up and the controller is still busy, a request  *)
(* begins with the controller at rest and no CMDREND pending.              *)
LEMMA BeginKeeps ==
    ASSUME IInv, NEW r, Begin(r), step \in {"idle", "return"},
           UNCHANGED <<event, hw, cache>>, BusInv'
    PROVE  IInv'
<1>0. HwTypes
  BY DEF IInv
<1>1. HwTypes'
  <2>1. err' = FALSE /\ stopErr' = FALSE /\ excused' = FALSE /\ buf' = Garbage
    BY DEF Begin
  <2>2. stray' \in BOOLEAN
    BY DEF Begin
  <2> QED BY <1>0, <2>1, <2>2 DEF HwTypes, hw
<1>2. ASSUME ~stray' PROVE CommandInv'
  <2>1. cpsm = NoReq /\ dpsm = NoReq /\ "done" \notin sta
    BY <1>2 DEF Begin, AtRest, IInv, CommandInv
  <2> QED BY <2>1 DEF CommandInv, hw
<1>3. DataInv'
  BY DEF DataInv, Begin
<1> QED BY <1>1, <1>2, <1>3 DEF IInv

LEMMA EnterKeeps == ASSUME IInv, BusInv', NEW t \in Threads, Enter(t) PROVE IInv'
<1>0. BusTypes /\ QueueInv /\ HwTypes
  BY DEF IInv, BusInv
<1>1. CASE owner = NoThread
  BY <1>0, <1>1, BeginKeeps DEF Enter, QueueInv
<1>2. CASE owner # NoThread
  <2>1. /\ UNCHANGED <<owner, step, kind, left, err, stopErr, buf, ack, event, hw, cache, hist>>
        /\ req[t] = NoReq /\ req' = [req EXCEPT ![t] = Asking]
    BY <1>2 DEF Enter
  <2>2. UNCHANGED Current
    BY <1>0, <1>2, <2>1, RequestFields DEF Current, QueueInv, BusTypes
  <2>3. HwTypes' /\ (~stray' => ~stray)
    BY <1>0, <2>1 DEF HwTypes, hw, hist
  <2>4. (CommandInv => CommandInv') /\ (DataInv => DataInv')
    BY <2>1, <2>2 DEF CommandInv, Command, Transfer, DataInv, hw, hist
  <2> QED BY <2>3, <2>4 DEF IInv
<1> QED BY <1>1, <1>2

LEMMA LeaveKeeps == ASSUME IInv, BusInv', Leave PROVE IInv'
<1>0. HwTypes /\ step = "return" /\ UNCHANGED <<event, hw, cache>>
  BY DEF IInv, Leave
<1>1. CASE /\ owner' = NoThread /\ step' = "idle" /\ UNCHANGED hist
           /\ err' = FALSE /\ stopErr' = FALSE /\ buf' = Garbage
  <2>1. HwTypes' /\ DataInv' /\ UNCHANGED stray
    BY <1>0, <1>1 DEF HwTypes, DataInv, hw, hist
  <2>2. CommandInv => CommandInv'
    BY <1>0, <1>1 DEF CommandInv, hw
  <2> QED BY <2>1, <2>2 DEF IInv
<1>2. ASSUME NEW r \in Requests, Begin(r) PROVE IInv'
  BY <1>0, <1>2, BeginKeeps
<1> QED BY <1>1, <1>2 DEF Leave

(* The command of a data phase is the transfer the request asks for.       *)
LEMMA CommandIsTransfer ==
    ASSUME BusInv, step # "idle"
    PROVE  /\ kind = "data" => Transfer \in Transfers /\ Command = Transfer
           /\ kind # "data" => Command = Plain
<1>1. BusTypes /\ QueueInv /\ KindInv
  BY DEF BusInv
<1>2. owner # NoThread /\ Current \in Requests
  BY <1>1 DEF QueueInv, Current
<1>3. kind = "data" => Current.op \in {"read", "write"} /\ Current.sector \in Sectors
  BY <1>1, <1>2, RequestFields DEF KindInv
<1> QED BY <1>3 DEF Command, Transfer, Transfers

LEMMA SendKeeps == ASSUME IInv, BusInv', SendCommand PROVE IInv'
<1>0. BusInv /\ BusTypes /\ QueueInv /\ KindInv /\ HwTypes /\ step = "send"
  BY DEF IInv, BusInv, SendCommand
<1>1. UNCHANGED Current /\ owner \in Threads /\ Current \in Requests
  BY <1>0, BusKeeps DEF SendCommand
<1>2. HwTypes'
  <2>1. cache' \in Values \cup {Garbage}
    BY <1>0, <1>1, RequestFields DEF SendCommand, HwTypes
  <2>2. err' \in BOOLEAN
    BY <1>0 DEF SendCommand, HwTypes
  <2>3. cpsm' \in Transfers \cup {NoReq, Plain}
    BY <1>0, CommandIsTransfer DEF SendCommand
  <2>4. event' \subseteq {"done", "err", "crc"} /\ sta' \subseteq {"done", "err"}
    BY <1>0 DEF SendCommand, Unmask, HwTypes
  <2>5. UNCHANGED <<stopErr, dpsm, disk, buf, stray, excused>>
    BY DEF SendCommand, hist
  <2> QED BY <1>0, <2>1, <2>2, <2>3, <2>4, <2>5 DEF HwTypes
<1>3. ASSUME CommandInv PROVE CommandInv'
  <2>1. /\ UNCHANGED <<kind, dpsm>> /\ dpsm = NoReq /\ step' = "wait"
        /\ event' = {} /\ cpsm' = Command
    BY <1>0, <1>3 DEF SendCommand, Unmask, CommandInv
  <2> QED BY <1>1, <2>1 DEF CommandInv, Command, Transfer
<1>4. ASSUME CommandInv, DataInv PROVE DataInv'
  <2>1. /\ UNCHANGED <<kind, owner, excused, disk, buf>> /\ step' = "wait" /\ event' = {}
        /\ err' = (kind = "stop" /\ err)
        /\ cache' = IF kind = "data" /\ Current.op = "write" THEN Current.val ELSE cache
    BY <1>0, <1>4 DEF SendCommand, Unmask, CommandInv, bus, hist
  <2> QED BY <1>0, <1>1, <1>4, <2>1 DEF DataInv
<1> QED BY <1>2, <1>3, <1>4 DEF IInv, SendCommand, hist

LEMMA WaitKeeps == ASSUME IInv, BusInv', WaitEvent \/ WaitTimeout PROVE IInv'
<1>0. BusTypes /\ QueueInv /\ KindInv /\ HwTypes
  BY DEF IInv, BusInv
<1>1. PICK failed \in BOOLEAN :
          Completed(failed) /\ (WaitEvent => failed = (event # {"done"} /\ ~Forgiven))
                            /\ (WaitTimeout /\ ~WaitEvent => failed)
  <2>1. CASE WaitEvent
    <3>1. (event # {"done"} /\ ~Forgiven) \in BOOLEAN
          /\ Completed(event # {"done"} /\ ~Forgiven)
      BY <2>1 DEF WaitEvent
    <3> QED BY <2>1, <3>1
  <2>2. CASE WaitTimeout /\ ~WaitEvent
    <3>1. Completed(TRUE)
      BY <2>2 DEF WaitTimeout
    <3> QED BY <2>2, <3>1
  <2> QED BY <2>1, <2>2
<1>2. /\ step = "wait" /\ step' = IF kind = "data" THEN "poll" ELSE "ack"
      /\ event' = {} /\ UNCHANGED <<bus, kind, hw, cache, buf>>
  BY <1>1 DEF WaitEvent, WaitTimeout, Completed
<1>3. UNCHANGED Current
  BY <1>2, BusKeeps DEF IInv
<1>4. HwTypes'
  <2>1. err' \in BOOLEAN /\ stopErr' \in BOOLEAN
    BY <1>0, <1>1 DEF Completed, HwTypes
  <2>2. stray' \in BOOLEAN
    BY <1>0 DEF WaitEvent, WaitTimeout, HwTypes
  <2>3. excused' \in BOOLEAN
    BY <1>0 DEF WaitEvent, WaitTimeout, HwTypes
  <2> QED BY <1>0, <1>2, <2>1, <2>2, <2>3 DEF HwTypes, hw
<1>5. CASE WaitTimeout
  BY <1>4, <1>5 DEF IInv, WaitTimeout
<1>6. CASE WaitEvent
  <2> SUFFICES ASSUME CommandInv, DataInv PROVE CommandInv' /\ DataInv'
    BY <1>4, <1>6 DEF IInv, WaitEvent
  <2>1. /\ event # {} /\ cpsm = NoReq
        /\ dpsm # NoReq => kind = "data" /\ dpsm = Transfer /\ "crc" \in event
        /\ UNCHANGED Transfer
    BY <1>2, <1>3, <1>6 DEF CommandInv, WaitEvent, Transfer
  <2>2. /\ excused' <=> excused \/ Forgiven
        /\ kind = "data" /\ "crc" \in event => Forgiven
    BY <1>6 DEF WaitEvent, Forgiven
  <2>3. "done" \notin sta
    BY <2>1 DEF CommandInv
  <2>4. CommandInv'
    BY <1>2, <2>1, <2>2, <2>3 DEF CommandInv, hw
  <2>5. kind = "data" /\ ~err' /\ ~excused' => event = {"done"}
    BY <1>1, <1>6, <2>2 DEF Completed
  <2>6. kind = "stop" => UNCHANGED err
    BY <1>1 DEF Completed
  <2>7. DataInv'
    BY <1>0, <1>2, <1>3, <2>2, <2>5, <2>6 DEF DataInv, KindInv, BusTypes, bus, hw
  <2> QED BY <2>4, <2>7
<1> QED BY <1>5, <1>6

LEMMA PollKeeps == ASSUME IInv, BusInv', PollData PROVE IInv'
<1>0. BusTypes /\ QueueInv /\ KindInv /\ HwTypes
  BY DEF IInv, BusInv
<1>1. /\ step = "poll" /\ kind = "data"
      /\ \/ step' = "send" /\ kind' = "stop"
         \/ step' = "ack" /\ kind' = "data"
      /\ UNCHANGED <<bus, left, stopErr, ack, event, hw, cache, excused>>
  BY <1>0 DEF PollData, KindInv
<1>2. UNCHANGED Current /\ owner \in Threads /\ Current \in Requests
  BY <1>1, BusKeeps DEF IInv
<1>3. HwTypes'
  <2>1. err' \in BOOLEAN
    BY <1>0 DEF PollData, HwTypes
  <2>2. stray' \in BOOLEAN
    BY <1>0 DEF PollData, HwTypes
  <2>3. buf' \in Values \cup {Garbage}
    BY <1>0 DEF PollData, HwTypes
  <2> QED BY <1>0, <1>1, <2>1, <2>2, <2>3 DEF HwTypes, hw
<1>4. ASSUME CommandInv, DataInv, ~stray' PROVE CommandInv' /\ DataInv'
  <2>1. dpsm = NoReq /\ cpsm = NoReq /\ "done" \notin sta
    BY <1>1, <1>4 DEF PollData, CommandInv
  <2>2. CommandInv'
    BY <1>1, <2>1 DEF CommandInv, hw
  <2>3. Current.op = "read" /\ ~err' => ~err /\ buf' = cache
    BY DEF PollData
  <2>4. DataInv'
    BY <1>0, <1>1, <1>2, <1>4, <2>3 DEF DataInv, bus, hw
  <2> QED BY <2>2, <2>4
<1>5. ~stray' => ~stray
  BY DEF PollData
<1> QED BY <1>3, <1>4, <1>5 DEF IInv

LEMMA AckKeeps ==
    ASSUME IInv, BusInv', ReqComplete \/ RetryCommand \/ AskStatus \/ StatusBusy \/ Finish
    PROVE  IInv'
<1>0. BusTypes /\ QueueInv /\ KindInv /\ HwTypes
  BY DEF IInv, BusInv
<1>1. /\ UNCHANGED <<bus, err, stopErr, event, hw, cache, buf, hist>>
      /\ step \in {"ack", "acked"} /\ step' \in {"acked", "send", "return"}
  BY DEF ReqComplete, RetryCommand, AskStatus, StatusBusy, Finish, TakeAck
<1>2. UNCHANGED Current /\ owner \in Threads /\ Current \in Requests
  BY <1>1, BusKeeps DEF IInv
<1>3. HwTypes' /\ UNCHANGED <<stray, excused>>
  BY <1>0, <1>1 DEF HwTypes, hw, hist
<1>4. CommandInv => CommandInv'
  BY <1>1 DEF CommandInv, hw
<1>5. DataInv => DataInv'
  <2>1. Current.op = "read" /\ step' = "send" /\ kind' = "stop" => kind = "stop"
    BY <1>0 DEF ReqComplete, RetryCommand, AskStatus, StatusBusy, Finish, KindInv
  <2> QED BY <1>0, <1>1, <1>2, <1>3, <2>1 DEF DataInv, bus, hw
<1> QED BY <1>3, <1>4, <1>5 DEF IInv

(* The controller's steps, told apart by what becomes of cpsm and dpsm.    *)
LEMMA HwTypesKept == ASSUME IInv, HwNext PROVE HwTypes'
<1>0. HwTypes
  BY DEF IInv
<1>1. /\ UNCHANGED <<err, stopErr, buf, stray, excused>>
      /\ event' \subseteq {"done", "err", "crc"} /\ sta' \subseteq {"done", "err"}
  <2>1. CASE CmdAnswered
    BY <1>0, <2>1 DEF CmdAnswered, Irq, HwTypes, hist
  <2>2. CASE CmdFails
    BY <1>0, <2>2 DEF CmdFails, Irq, HwTypes, hist
  <2>3. CASE CmdDamaged
    BY <1>0, <2>3 DEF CmdDamaged, Irq, HwTypes, hist
  <2>4. CASE DataMoved
    BY <1>0, <2>4 DEF DataMoved, Irq, HwTypes, hist
  <2>5. CASE DataFails
    BY <1>0, <2>5 DEF DataFails, Irq, HwTypes, hist
  <2> QED BY <2>1, <2>2, <2>3, <2>4, <2>5 DEF HwNext
<1>2. cpsm' \in Transfers \cup {NoReq, Plain} /\ dpsm' \in Transfers \cup {NoReq}
  BY <1>0 DEF HwNext, CmdAnswered, CmdFails, CmdDamaged, DataMoved, DataFails, HwTypes
<1>3. cache' \in Values \cup {Garbage} /\ disk' \in [Sectors -> Values \cup {Garbage}]
  <2>1. CASE CmdAnswered \/ CmdFails \/ CmdDamaged
    BY <1>0, <2>1 DEF CmdAnswered, CmdFails, CmdDamaged, HwTypes
  <2>2. CASE DataMoved
    <3>1. dpsm.sector \in Sectors
      BY <1>0, <2>2, TransferFields DEF DataMoved, HwTypes
    <3> QED BY <1>0, <2>2, <3>1 DEF DataMoved, HwTypes
  <2>3. CASE DataFails
    BY <1>0, <2>3 DEF DataFails, HwTypes
  <2> QED BY <2>1, <2>2, <2>3 DEF HwNext
<1> QED BY <1>0, <1>1, <1>2, <1>3 DEF HwTypes

LEMMA HwKeeps == ASSUME IInv, BusInv', HwNext PROVE IInv'
<1>0. BusInv /\ BusTypes /\ QueueInv /\ KindInv /\ HwTypes
  BY DEF IInv, BusInv
<1>1. /\ UNCHANGED <<bus, step, kind, left, err, stopErr, ack, buf, hist>>
      /\ UNCHANGED <<owner, stray, excused>>
  BY DEF HwNext, CmdAnswered, CmdFails, CmdDamaged, DataMoved, DataFails, bus, hist
<1> SUFFICES ASSUME ~stray, CommandInv, DataInv PROVE CommandInv' /\ DataInv'
  BY <1>1, HwTypesKept DEF IInv
<1>2. step # "idle" /\ UNCHANGED Current /\ Current \in Requests /\ UNCHANGED Transfer
  <2>1. step \in {"wait", "poll"}
    BY DEF HwNext, CmdAnswered, CmdFails, CmdDamaged, DataMoved, DataFails, CommandInv
  <2> QED BY <1>0, <1>1, <2>1, BusKeeps DEF Transfer
<1>3. CASE CmdAnswered
  <2>1. /\ step = "wait" /\ cpsm = Command /\ dpsm = NoReq /\ event = {} /\ cpsm' = NoReq
        /\ UNCHANGED <<cache, disk>>
    BY <1>3 DEF CmdAnswered, CommandInv
  <2>2. CASE kind = "data"
    <3>1. cpsm = Transfer /\ cpsm # Plain
      BY <1>0, <1>2, <2>1, <2>2, CommandIsTransfer, TransferFields
    <3>2. dpsm' = Transfer /\ event' = {}
      BY <1>3, <2>1, <3>1 DEF CmdAnswered
    <3> QED BY <1>1, <1>2, <2>1, <2>2, <3>2 DEF CommandInv, DataInv
  <2>3. CASE kind # "data"
    <3>1. cpsm = Plain
      BY <1>0, <1>2, <2>1, <2>3, CommandIsTransfer
    <3>2. dpsm' = NoReq /\ sta' = {}
      BY <1>3, <2>1, <3>1 DEF CmdAnswered, Irq
    <3> QED BY <1>1, <1>2, <2>1, <2>3, <3>2 DEF CommandInv, DataInv
  <2> QED BY <2>2, <2>3
<1>4. CASE CmdFails \/ CmdDamaged
  <2>1. /\ step = "wait" /\ cpsm = Command /\ dpsm = NoReq /\ event = {} /\ cpsm' = NoReq
        /\ UNCHANGED <<cache, disk>>
    BY <1>4 DEF CmdFails, CmdDamaged, CommandInv
  <2>2. sta' = {} /\ event' # {"done"}
    BY <1>4 DEF CmdFails, CmdDamaged, Irq
  <2>3. dpsm' # NoReq => kind = "data" /\ dpsm' = Transfer /\ "crc" \in event'
    BY <1>0, <1>2, <1>4, <2>1, CommandIsTransfer DEF CmdFails, CmdDamaged, Irq
  <2> QED BY <1>1, <1>2, <2>1, <2>2, <2>3 DEF CommandInv, DataInv
<1>5. CASE DataMoved
  <2>1. /\ step \in {"wait", "poll"} /\ kind = "data" /\ dpsm = Transfer /\ cpsm = NoReq
        /\ step = "poll" => excused
        /\ dpsm' = NoReq /\ UNCHANGED cpsm /\ sta' = {}
    BY <1>5 DEF DataMoved, CommandInv, Irq
  <2>2. /\ Current.op = "read" => cache' = disk'[Current.sector]
        /\ Current.op = "write" => UNCHANGED cache
    BY <1>5, <2>1 DEF DataMoved, Transfer
  <2> QED BY <1>1, <1>2, <2>1, <2>2 DEF CommandInv, DataInv
<1>6. CASE DataFails
  <2>1. /\ step \in {"wait", "poll"} /\ kind = "data" /\ dpsm = Transfer /\ cpsm = NoReq
        /\ step = "wait" => event = {} \/ "crc" \in event
        /\ step = "poll" => excused
        /\ dpsm' = NoReq /\ UNCHANGED <<cpsm, disk>>
    BY <1>6 DEF DataFails, CommandInv
  <2>2. step = "wait" => event' # {"done"}
    BY <1>6, <2>1 DEF DataFails, Irq
  <2>3. "done" \in sta' => "done" \in sta /\ UNCHANGED event
    BY <1>6 DEF DataFails, Irq
  <2>4. Current.op = "write" => UNCHANGED cache
    BY <1>6, <2>1 DEF DataFails, Transfer
  <2> QED BY <1>1, <1>2, <2>1, <2>2, <2>3, <2>4 DEF CommandInv, DataInv
<1> QED BY <1>3, <1>4, <1>5, <1>6 DEF HwNext

-----------------------------------------------------------------------------
LEMMA StepIInv == ASSUME IInv, [Next]_vars PROVE IInv'
<1>0. BusInv'
  BY StepBusInv DEF IInv
<1>1. CASE UNCHANGED vars
  <2>1. UNCHANGED Current
    BY <1>1 DEF vars, bus, Current
  <2>2. HwTypes' /\ UNCHANGED stray
    BY <1>1 DEF IInv, HwTypes, vars, hw, hist
  <2>3. (CommandInv => CommandInv') /\ (DataInv => DataInv')
    BY <1>1, <2>1 DEF CommandInv, Command, Transfer, DataInv, vars, bus, hw, hist
  <2> QED BY <1>0, <2>2, <2>3 DEF IInv
<1> QED BY <1>0, <1>1, EnterKeeps, LeaveKeeps, SendKeeps, WaitKeeps, PollKeeps, AckKeeps, HwKeeps
        DEF Next, OwnerNext

LEMMA Invariance == Spec => []IInv
<1>1. Init => IInv
  BY InitIInv
<1>2. IInv /\ [Next]_vars => IInv'
  BY StepIInv
<1> QED BY <1>1, <1>2, PTL DEF Spec

(* The state of a request keeps its types: retries are not counted below   *)
(* -1, and nothing but values and garbage ever reaches the card.           *)
THEOREM TypeCorrect == Spec => []TypeOK
<1>1. IInv => TypeOK
  BY DEF IInv, BusInv, BusTypes, AckInv, HwTypes, TypeOK
<1> QED BY <1>1, Invariance, PTL

(* A block read for which rt_mmcsd_req_blk returns RT_EOK delivers what is *)
(* on the card, whatever failed transfers, stop commands and retries did,  *)
(* unless drv_sdio.c:161 took one of its damaged responses for a good one  *)
(* or it began while the controller was busy with a request given up.      *)
THEOREM ReadsAreTruthful == Spec => []ReadTruthful
<1>1. IInv => ReadTruthful
  <2> SUFFICES ASSUME IInv, step = "return", Reported, ~excused, ~stray, Current.op = "read"
               PROVE  buf = disk[Current.sector]
    BY DEF ReadTruthful, Delivered
  <2> QED BY DEF IInv, BusInv, QueueInv, DataInv, Reported
<1> QED BY <1>1, Invariance, PTL

(* sem_ack carries no count from a request into the next, ever; bus_lock   *)
(* is handed over with the controller at rest, or a wait was given up.     *)
THEOREM HandoverIsClean == Spec => []CleanHandover
<1>1. IInv => CleanHandover
  BY DEF IInv, BusInv, AckInv, CommandInv, CleanHandover
<1> QED BY <1>1, Invariance, PTL

(* The data path writes to the card only what the owner of the bus asked   *)
(* for, to the sector it asked for, as long as no wait was given up: also  *)
(* while a damaged response leaves it running through the poll.            *)
THEOREM WritesAreRequested == Spec => OnlyRequestedWrites
<1>1. ASSUME IInv, [Next]_vars, ~stray, NEW s \in Sectors, disk'[s] # disk[s]
      PROVE  /\ owner # NoThread /\ Current.op = "write"
             /\ Current.sector = s /\ disk'[s] = Current.val
  <2>1. DataMoved
    BY <1>1 DEF Next, Enter, OwnerNext, SendCommand, WaitEvent, WaitTimeout, PollData,
              ReqComplete, RetryCommand, AskStatus, Finish, Leave, StatusBusy, HwNext,
              CmdAnswered, CmdFails, CmdDamaged, DataFails, vars, hw
  <2>2. /\ dpsm = Transfer /\ step \in {"wait", "poll"} /\ kind = "data" /\ owner # NoThread
        /\ disk \in [Sectors -> Values \cup {Garbage}]
    BY <1>1, <2>1 DEF IInv, BusInv, DataMoved, CommandInv, QueueInv, HwTypes
  <2>3. Current.op = "write" /\ disk' = [disk EXCEPT ![Current.sector] = cache]
    BY <1>1, <2>1, <2>2 DEF DataMoved, Transfer
  <2>4. cache = Current.val
    BY <1>1, <2>2, <2>3 DEF IInv, DataInv
  <2> QED BY <1>1, <2>2, <2>3, <2>4
<1>2. IInv /\ [Next]_vars =>
          [~stray => \A s \in Sectors : disk'[s] # disk[s] =>
              /\ owner # NoThread /\ Current.op = "write"
              /\ Current.sector = s /\ disk'[s] = Current.val]_vars
  BY <1>1
<1> QED BY <1>2, Invariance, PTL DEF Spec, OnlyRequestedWrites
=============================================================================
