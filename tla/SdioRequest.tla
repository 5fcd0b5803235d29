---------------------------- MODULE SdioRequest -----------------------------
(***************************************************************************)
(* One block request from rt_mmcsd_req_blk down to the SDMMC controller:   *)
(* the bus lock and the retry loop of the MMC/SD core, the command and its *)
(* stop command in drivers/drv_sdio.c, the event that carries the          *)
(* interrupt status, its five-second timeout, the bounded poll of the data *)
(* path, and the acknowledging semaphore.  Several threads use the card:   *)
(* the file system on behalf of main() and the shell, and mmcsd_detect.    *)
(***************************************************************************)
EXTENDS Integers, Sequences

CONSTANTS
    Threads,    \* threads that use the card
    Sectors,    \* sectors of the card
    Values,     \* contents of a sector
    Garbage,    \* what a failed transfer leaves in cache_buf
    NoThread,   \* bus_lock is free
    Retries     \* the retries argument of mmcsd_send_cmd (3 or 5)

ASSUME SetAssumption == NoThread \notin Threads /\ Garbage \notin Values
ASSUME RetryAssumption == Retries \in Nat \ {0}

Requests ==
    [op : {"read"}, sector : Sectors, val : {Garbage}, multi : BOOLEAN]
    \cup [op : {"write"}, sector : Sectors, val : Values, multi : BOOLEAN]
    \cup [op : {"cmd"}, sector : Sectors, val : {Garbage}, multi : {FALSE}]

NoReq == [op |-> "none"]
Asking == [op |-> "asking"] \* a thread on bus_lock: its request is looked at later

(* What the controller works on: a command without data, or a transfer.    *)
Plain     == [op |-> "plain"]
Transfers == [op : {"read", "write"}, sector : Sectors]

VARIABLES
    req,     \* what each thread asks for
    owner,   \* holder of host->bus_lock
    queue,   \* threads suspended on it, first come first served
    step,    \* where the owner is
    kind,    \* the command in progress: "data", "stop" or "cmd"
    left,    \* cmd.retries
    err,     \* cmd.err is not RT_EOK
    stopErr, \* stop.err is not RT_EOK
    ack,     \* value of host->sem_ack
    event,   \* the status bits in sdio->event
    cpsm,    \* the command being sent: NoReq, Plain or the transfer it starts
    dpsm,    \* the transfer that is running, or NoReq
    sta,     \* bits of the status register that have raised no interrupt
    cache,   \* cache_buf
    buf,     \* the buffer of the request
    disk,    \* the card
    stray,   \* history: a wait gave up, and the controller was not found at
             \* rest since by a request that began
    excused  \* history: a damaged response to this request counted as good

bus  == <<req, owner, queue>>
hw   == <<cpsm, dpsm, sta, disk>>
hist == <<stray, excused>>
vars == <<bus, step, kind, left, err, stopErr, ack, event, hw, cache, buf, hist>>

AtRest == cpsm = NoReq /\ dpsm = NoReq /\ sta = {}

Current == req[owner]

Init ==
    /\ req = [t \in Threads |-> NoReq] /\ owner = NoThread /\ queue = << >>
    /\ step = "idle" /\ kind = "cmd" /\ left = 0 /\ err = FALSE /\ stopErr = FALSE
    /\ ack = 0 /\ event = {} /\ AtRest
    /\ stray = FALSE /\ excused = FALSE
    /\ cache = Garbage /\ buf = Garbage
    /\ disk \in [Sectors -> Values]

-----------------------------------------------------------------------------
(* Entering and leaving                                                    *)

(* The lock is taken: cmd, data and stop are cleared.  A data request has  *)
(* no retries, a plain command has some.                                   *)
Begin(r) ==
    /\ step' = "send"
    /\ kind' = IF r.op = "cmd" THEN "cmd" ELSE "data"
    /\ left' = IF r.op = "cmd" THEN Retries ELSE 0
    /\ err' = FALSE /\ stopErr' = FALSE /\ buf' = Garbage
    /\ stray' = (stray /\ ~AtRest) /\ excused' = FALSE

(* mmcsd_host_lock: the lock is free, or the thread is suspended on it.    *)
Enter(t) ==
    /\ req[t] = NoReq
    /\ \/ /\ owner = NoThread /\ owner' = t
          /\ \E r \in Requests : req' = [req EXCEPT ![t] = r] /\ Begin(r)
          /\ UNCHANGED queue
       \/ /\ owner # NoThread /\ queue' = Append(queue, t)
          /\ req' = [req EXCEPT ![t] = Asking]
          /\ UNCHANGED <<owner, step, kind, left, err, stopErr, buf, hist>>
    /\ UNCHANGED <<ack, event, hw, cache>>

(* mmcsd_host_unlock: rt_mutex_release hands bus_lock to the first waiter. *)
(* Without one, cmd, stop and buf are gone with the stack of the caller.   *)
Leave ==
    /\ step = "return"
    /\ \/ /\ queue = << >> /\ owner' = NoThread /\ step' = "idle"
          /\ req' = [req EXCEPT ![owner] = NoReq]
          /\ UNCHANGED <<queue, hist>>
          /\ kind' = "cmd" /\ left' = 0 /\ err' = FALSE /\ stopErr' = FALSE
          /\ buf' = Garbage
       \/ /\ queue # << >> /\ owner' = Head(queue) /\ queue' = Tail(queue)
          /\ \E r \in Requests :
                /\ req' = [req EXCEPT ![owner] = NoReq, ![Head(queue)] = r]
                /\ Begin(r)
    /\ UNCHANGED <<ack, event, hw, cache>>

-----------------------------------------------------------------------------
(* drv_sdio.c, in the context of the owner                                 *)

(* The command register, and with data dlen, dctrl and the DMA's address.  *)
Transfer == [op |-> Current.op, sector |-> Current.sector]
Command  == IF kind = "data" THEN Transfer ELSE Plain

(* The event is reset and all interrupts are enabled, CMDREND's too: if it *)
(* is pending since an earlier command with data, the interrupt comes now. *)
(* (With data CMDREND is masked again, nine lines too late.)               *)
Unmask ==
    IF "done" \in sta THEN event' = sta /\ sta' = {}
                      ELSE event' = {} /\ UNCHANGED sta

SendCommandNoCopy ==
    /\ step = "send"
    /\ err' = (kind = "stop" /\ err)
    /\ left' = IF kind = "stop" THEN left ELSE left - 1
    /\ Unmask
    /\ cpsm' = Command /\ step' = "wait"
    /\ UNCHANGED <<bus, kind, stopErr, ack, dpsm, disk, cache, buf, hist>>

(* One round of mmcsd_send_request up to the wait: retries--, err = 0,     *)
(* data to be written copied to cache_buf, the command register written.   *)
SendCommand ==
    /\ step = "send"
    /\ err' = (kind = "stop" /\ err)
    /\ left' = IF kind = "stop" THEN left ELSE left - 1
    /\ cache' = IF kind = "data" /\ Current.op = "write" THEN Current.val ELSE cache
    /\ Unmask
    /\ cpsm' = Command /\ step' = "wait"
    /\ UNCHANGED <<bus, kind, stopErr, ack, dpsm, disk, buf, hist>>

(* CCRCFAIL is forgiven if resp_type(cmd) & (RESP_R3 | RESP_R4).  The types*)
(* are numbers, not flags, and the mask is 5: true of RESP_R1 (1), which   *)
(* data, status and plain commands have, and false of the stop's RESP_R1B. *)
Forgiven == "crc" \in event /\ kind # "stop"

(* What rthw_sdio_wait_completed stores, and where the request goes next.  *)
Completed(failed) ==
    /\ IF kind = "stop" THEN stopErr' = failed /\ UNCHANGED err
                        ELSE err' = failed /\ UNCHANGED stopErr
    /\ step' = IF kind = "data" THEN "poll" ELSE "ack"

WaitEvent ==
    /\ step = "wait" /\ event # {}
    /\ Completed(event # {"done"} /\ ~Forgiven)
    /\ event' = {}
    /\ excused' = (excused \/ Forgiven)
    /\ UNCHANGED <<bus, kind, left, ack, hw, cache, buf, stray>>

(* rt_event_recv gives up after five seconds.  The data path, whose own    *)
(* timer is the longest there is, goes on.                                 *)
WaitTimeout ==
    /\ step = "wait" /\ event = {} /\ cpsm = NoReq
    /\ Completed(TRUE)
    /\ stray' = TRUE
    /\ UNCHANGED <<bus, kind, left, ack, event, hw, cache, buf, excused>>

PollOverwritesErr ==
    /\ step = "poll"
    /\ err' = ("err" \in sta \/ dpsm # NoReq)
    /\ stray' = (stray \/ dpsm # NoReq)
    /\ buf' = IF Current.op = "read" THEN cache ELSE buf
    /\ \/ Current.multi /\ step' = "send" /\ kind' = "stop"
       \/ ~Current.multi /\ step' = "ack" /\ UNCHANGED kind
    /\ UNCHANGED <<bus, left, stopErr, ack, event, hw, cache, excused>>

(* The data path is idle or a million polls are over; then the copy out of *)
(* cache_buf, failed or not, and the stop command of a multi-block request.*)
PollData ==
    /\ step = "poll"
    /\ err' = (err \/ "err" \in sta \/ dpsm # NoReq)
    /\ stray' = (stray \/ dpsm # NoReq)
    /\ buf' = IF Current.op = "read" THEN cache ELSE buf
    /\ \/ Current.multi /\ step' = "send" /\ kind' = "stop"
       \/ ~Current.multi /\ step' = "ack" /\ UNCHANGED kind
    /\ UNCHANGED <<bus, left, stopErr, ack, event, hw, cache, excused>>

ReqCompleteTwice ==
    /\ step = "ack"
    /\ ack' = ack + (IF kind = "stop" THEN 2 ELSE 1)
    /\ step' = "acked"
    /\ UNCHANGED <<bus, kind, left, err, stopErr, event, hw, cache, buf, hist>>

(* mmcsd_req_complete                                                      *)
ReqComplete ==
    /\ step = "ack"
    /\ ack' = ack + 1
    /\ step' = "acked"
    /\ UNCHANGED <<bus, kind, left, err, stopErr, event, hw, cache, buf, hist>>

-----------------------------------------------------------------------------
(* mmcsd_send_request and rt_mmcsd_req_blk after rt_sem_take(&sem_ack)     *)

RetryAlways == err

Retry == err /\ left > 0

TakeAck == step = "acked" /\ ack > 0 /\ ack' = ack - 1

RetryCommand ==
    /\ TakeAck /\ Retry
    /\ step' = "send"
    /\ UNCHANGED <<bus, kind, left, err, stopErr, event, hw, cache, buf, hist>>

(* A write goes on to ask for the card's status, in the same cmd.          *)
AskStatus ==
    /\ TakeAck /\ ~Retry
    /\ Current.op = "write" /\ kind # "cmd"
    /\ step' = "send" /\ kind' = "cmd" /\ left' = Retries
    /\ UNCHANGED <<bus, err, stopErr, event, hw, cache, buf, hist>>

(* The card answers that it is still programming: ask again.               *)
StatusBusy ==
    /\ TakeAck /\ ~err
    /\ Current.op = "write" /\ kind = "cmd"
    /\ step' = "send" /\ left' = Retries
    /\ UNCHANGED <<bus, kind, err, stopErr, event, hw, cache, buf, hist>>

(* Reads and commands are over; the status was not answered, or says ready.*)
Finish ==
    /\ TakeAck /\ ~Retry
    /\ Current.op = "write" => kind = "cmd"
    /\ step' = "return"
    /\ UNCHANGED <<bus, kind, left, err, stopErr, event, hw, cache, buf, hist>>

-----------------------------------------------------------------------------
(* The controller and SDMMC1_IRQHandler: the interrupt reads and clears    *)
(* the whole status register and sends it to the event.                    *)

Irq(bits) == event' = event \cup bits \cup sta /\ sta' = {}

(* A command is answered.  With data attached its interrupt is masked, so  *)
(* that CMDREND stays in the register, and the data path starts.           *)
CmdAnswered ==
    /\ cpsm # NoReq /\ cpsm' = NoReq
    /\ \/ cpsm # Plain /\ dpsm' = cpsm /\ sta' = sta \cup {"done"} /\ UNCHANGED event
       \/ cpsm = Plain /\ Irq({"done"}) /\ UNCHANGED dpsm
    /\ UNCHANGED <<bus, step, kind, left, err, stopErr, ack, cache, buf, disk, hist>>

(* No answer within CTIMEOUT.                                              *)
CmdFails ==
    /\ cpsm # NoReq /\ cpsm' = NoReq
    /\ Irq({"err"})
    /\ UNCHANGED <<bus, step, kind, left, err, stopErr, ack, dpsm, cache, buf, disk, hist>>

(* An answer with a wrong checksum.  Whether its data path starts is open. *)
CmdDamaged ==
    /\ cpsm # NoReq /\ cpsm' = NoReq
    /\ Irq({"crc"})
    /\ dpsm' \in {dpsm, IF cpsm = Plain THEN dpsm ELSE cpsm}
    /\ UNCHANGED <<bus, step, kind, left, err, stopErr, ack, cache, buf, disk, hist>>

(* DATAEND: the block is in cache_buf or on the card.                      *)
DataMoved ==
    /\ dpsm # NoReq /\ dpsm' = NoReq
    /\ Irq({"done"})
    /\ \/ dpsm.op = "read" /\ cache' = disk[dpsm.sector] /\ UNCHANGED disk
       \/ /\ dpsm.op = "write" /\ UNCHANGED cache
          /\ disk' = [disk EXCEPT ![dpsm.sector] = cache]
    /\ UNCHANGED <<bus, step, kind, left, err, stopErr, ack, cpsm, buf, hist>>

(* The transfer fails, with an interrupt or (DTIMEOUT, IDMATE) without.    *)
DataFails ==
    /\ dpsm # NoReq /\ dpsm' = NoReq
    /\ \/ Irq({"err"})
       \/ sta' = sta \cup {"err"} /\ UNCHANGED event
    /\ cache' = IF dpsm.op = "read" THEN Garbage ELSE cache
    /\ UNCHANGED <<bus, step, kind, left, err, stopErr, ack, cpsm, buf, disk, hist>>

-----------------------------------------------------------------------------
OwnerNext == SendCommand \/ WaitEvent \/ WaitTimeout \/ PollData \/ ReqComplete
               \/ RetryCommand \/ AskStatus \/ Finish \/ Leave
HwNext == CmdAnswered \/ CmdFails \/ CmdDamaged \/ DataMoved \/ DataFails

Next == (\E t \in Threads : Enter(t)) \/ OwnerNext \/ StatusBusy \/ HwNext

Spec == Init /\ [][Next]_vars

(* The owner runs, the controller reaches some end, and a card that is     *)
(* asked for its status again and again is ready in the end.               *)
FairSpec == Spec /\ WF_vars(OwnerNext) /\ WF_vars(HwNext) /\ SF_vars(Finish)

-----------------------------------------------------------------------------
TypeOK ==
    /\ req \in [Threads -> Requests \cup {NoReq, Asking}]
    /\ owner \in Threads \cup {NoThread}
    /\ queue \in Seq(Threads)
    /\ step \in {"idle", "send", "wait", "poll", "ack", "acked", "return"}
    /\ kind \in {"data", "stop", "cmd"}
    /\ left \in -1..Retries
    /\ err \in BOOLEAN /\ stopErr \in BOOLEAN
    /\ ack \in Nat
    /\ event \subseteq {"done", "err", "crc"} /\ sta \subseteq {"done", "err"}
    /\ cpsm \in Transfers \cup {NoReq, Plain}
    /\ dpsm \in Transfers \cup {NoReq}
    /\ cache \in Values \cup {Garbage} /\ buf \in Values \cup {Garbage}
    /\ disk \in [Sectors -> Values \cup {Garbage}]
    /\ stray \in BOOLEAN /\ excused \in BOOLEAN

Reported == ~err /\ ~stopErr   \* rt_mmcsd_req_blk returns RT_EOK

Delivered == Current.op = "read" => buf = disk[Current.sector]

(* A block read that reports success delivers the sector asked for, not    *)
(* what an earlier request or a failed transfer left in cache_buf, unless  *)
(* it met a damaged response (drv_sdio.c:161) or began while the           *)
(* controller was still at a request that had been given up.               *)
ReadTruthful ==
    step = "return" /\ Reported /\ ~excused /\ ~stray => Delivered

(* The same after a wait that was given up; the code falls short of it.    *)
ReadAfterTimeout == step = "return" /\ Reported /\ ~excused => Delivered

(* A block write that reports success has reached the card.                *)
WriteTruthful ==
    step = "return" /\ Reported /\ Current.op = "write" /\ ~excused /\ ~stray
        => disk[Current.sector] = Current.val

(* The acknowledgement belongs to the request that waits for it: sem_ack   *)
(* never carries a count from one request into the next.  And only a wait  *)
(* that was given up hands the bus over with a command or a transfer       *)
(* under way; a request that begins with the controller at rest mends it.  *)
CleanHandover ==
    /\ ack = (IF step = "acked" THEN 1 ELSE 0)
    /\ step \in {"idle", "return"} /\ ~stray => cpsm = NoReq /\ dpsm = NoReq

(* The card changes only where and as a write in progress says: as long as *)
(* no wait was given up, the data path never moves another thread's        *)
(* cache_buf to the card.                                                  *)
OnlyRequestedWrites ==
    [][~stray => \A s \in Sectors : disk'[s] # disk[s] =>
          /\ owner # NoThread /\ Current.op = "write"
          /\ Current.sector = s /\ disk'[s] = Current.val]_vars

(* Every request comes back, whatever the card does: an unanswered command *)
(* ends by timeout and the retries are bounded.                            *)
RequestReturns ==
    \A t \in Threads : (req[t] # NoReq) ~> (req[t] = NoReq)
=============================================================================
