----------------------------- MODULE LcdRefresh -----------------------------
(***************************************************************************)
(* The display path of the firmware: the render loop of applications/      *)
(* main.c, the RECT_UPDATE command of drivers/drv_lcd_8080.c, the DMA      *)
(* stream that copies the framebuffer to the panel, its interrupt, and the *)
(* semaphore lcd_lock that joins the two.                                  *)
(*                                                                         *)
(* The main thread hands the framebuffer to the DMA block by block and     *)
(* waits for each block with a 50 ms timeout whose result it ignores; the  *)
(* result of HAL_DMA_Start_IT is ignored too.  The model therefore tracks  *)
(* what a timeout leaves behind: a transfer still in flight, a completion  *)
(* that nobody waits for, a block the HAL refused.                         *)
(***************************************************************************)
EXTENDS Integers

CONSTANTS
    NumTx,      \* LCD_NUM_OF_TX: bus writes in one frame
    BlkMax,     \* 0xffff: the longest transfer the DMA counter holds
    SemMax,     \* RT_SEM_VALUE_MAX
    Frames,     \* the pictures PX_LiveFrameworkRender may leave on the surface
    FaultyFrames, \* those of the runs in which the DMA is slow or fails (a bound:
                  \* no property of such a run looks at the picture)
    MaxErrors   \* bound on the DMA transfer errors of one behaviour

ASSUME FrameAssumption == NumTx \in Nat /\ BlkMax \in Nat \ {0} /\ NumTx >= BlkMax
ASSUME SemAssumption   == SemMax \in Nat /\ SemMax >= 2
ASSUME FaultAssumption == MaxErrors \in Nat

Pixels == 0..NumTx-1

Channel == 0..255
Color   == [r : Channel, g : Channel, b : Channel]

ASSUME PictureAssumption ==
    Frames \subseteq [Pixels -> Color] /\ FaultyFrames \subseteq Frames

VARIABLES
    pc,       \* where the main thread is
    surface,  \* the rendered surface
    px,       \* next pixel the conversion loop writes
    fb,       \* _lcd_framebuffer
    blk,      \* i, the loop variable of RECT_UPDATE
    pos,      \* dma_tx_start_pos
    dma,      \* hdma and the stream: HAL state, first item, length, items moved
    lock,     \* value of the semaphore lcd_lock
    gram,     \* memory of the panel
    gp,       \* write pointer of the panel inside its full-screen window
    prompt,   \* whether every transfer succeeds within 50 ms; never changed
    errors,   \* transfer errors so far (bounds the fault, see MaxErrors)
    debt      \* history: timeouts of rt_sem_take minus blocks the HAL refused

thread == <<pc, surface, px, fb, blk, pos>>
panel  == <<gram, gp>>
faults == <<prompt, errors>>
vars   == <<thread, dma, lock, panel, faults, debt>>

(* The loop of main(): an 8-8-8 colour becomes 5-6-5. *)
Rgb565(c) == (c.r \div 8) * 2048 + (c.g \div 4) * 32 + (c.b \div 8)

WordMax == 65535
Words   == 0..WordMax

Uncleared == -1   \* what GRAM holds before the first refresh

-----------------------------------------------------------------------------
(* drv_lcd_8080_hw_init: how many transfers a frame takes.                 *)

FullBlocks   == NumTx \div BlkMax
TxBlkNumOffByOne == FullBlocks + 2

TxBlkNum ==
    LET full == IF FullBlocks = 0 THEN 1 ELSE FullBlocks
    IN  IF NumTx % BlkMax # 0 THEN full + 1 ELSE full

TxLastBlkSize == IF NumTx % BlkMax # 0 THEN NumTx % BlkMax ELSE BlkMax

Pictures == IF prompt THEN Frames ELSE FaultyFrames

(* The last act of the driver's initialisation clears the panel: the main  *)
(* thread starts inside RECT_UPDATE with a zeroed framebuffer, and nothing *)
(* is converted yet.                                                       *)
Init ==
    /\ pc = "start" /\ px = 0 /\ blk = TxBlkNum /\ pos = 0
    /\ prompt \in BOOLEAN /\ surface \in Pictures
    /\ fb = [k \in Pixels |-> 0]
    /\ dma = [state |-> "READY", from |-> 0, size |-> 0, done |-> 0]
    /\ lock = 0
    /\ gram = [k \in Pixels |-> Uncleared] /\ gp = 0
    /\ errors = 0 /\ debt = 0

-----------------------------------------------------------------------------
(* The main thread                                                         *)

(* PX_SurfaceClear, PX_LiveFrameworkRender: a new picture on the surface.  *)
Render ==
    /\ pc = "render"
    /\ surface' \in Pictures
    /\ px' = 0
    /\ pc' = "convert"
    /\ UNCHANGED <<fb, blk, pos, dma, lock, panel, faults, debt>>

(* One round of the conversion loop: it writes the framebuffer in place.   *)
Convert ==
    /\ pc = "convert" /\ px < NumTx
    /\ fb' = [fb EXCEPT ![px] = Rgb565(surface[px])]
    /\ px' = px + 1
    /\ UNCHANGED <<pc, surface, blk, pos, dma, lock, panel, faults, debt>>

(* rt_device_control(RECT_UPDATE) enters drv_lcd_control.                  *)
EnterUpdate ==
    /\ pc = "convert" /\ px = NumTx
    /\ blk' = TxBlkNum /\ pos' = 0
    /\ pc' = "start"
    /\ UNCHANGED <<surface, px, fb, dma, lock, panel, faults, debt>>

(* HAL_DMA_Start_IT: the handle stays locked while a transfer is in        *)
(* flight, so a second start returns HAL_BUSY and changes nothing; after a *)
(* stream that could not be disabled it returns HAL_ERROR.                 *)
HAL_DMA_Start_IT(from, size) ==
    \/ /\ dma.state = "READY"
       /\ dma' = [state |-> "BUSY", from |-> from, size |-> size, done |-> 0]
       /\ UNCHANGED debt
    \/ /\ dma.state # "READY"
       /\ debt' = debt - 1
       /\ UNCHANGED dma

StartBlockNoAdvance ==
    /\ pc = "start" /\ blk > 0
    /\ HAL_DMA_Start_IT(pos, IF blk = 1 THEN TxLastBlkSize ELSE BlkMax)
    /\ pc' = "take"
    /\ UNCHANGED <<surface, px, fb, blk, pos, lock, panel, faults>>

StartBlockForgetsLast ==
    /\ pc = "start" /\ blk > 0
    /\ HAL_DMA_Start_IT(pos, BlkMax)
    /\ pos' = pos + BlkMax
    /\ pc' = "take"
    /\ UNCHANGED <<surface, px, fb, blk, lock, panel, faults>>

(* One round of the loop of RECT_UPDATE up to rt_sem_take.                 *)
StartBlock ==
    /\ pc = "start" /\ blk > 0
    /\ HAL_DMA_Start_IT(pos, IF blk = 1 THEN TxLastBlkSize ELSE BlkMax)
    /\ pos' = IF blk = 1 THEN pos ELSE pos + BlkMax
    /\ pc' = "take"
    /\ UNCHANGED <<surface, px, fb, blk, lock, panel, faults>>

(* rt_sem_take(&lcd_lock, 50 ms): a token is there, or the thread waits.   *)
TakeToken ==
    /\ pc = "take" /\ lock > 0
    /\ lock' = lock - 1
    /\ blk' = blk - 1 /\ pc' = "start"
    /\ UNCHANGED <<surface, px, fb, pos, dma, panel, faults, debt>>

TakeBlocksNot ==
    /\ pc = "take" /\ lock = 0
    /\ blk' = blk - 1 /\ pc' = "start"
    /\ UNCHANGED <<surface, px, fb, pos, dma, lock, panel, faults, debt>>

TakeBlocks ==
    /\ pc = "take" /\ lock = 0
    /\ pc' = "wait"
    /\ UNCHANGED <<surface, px, fb, blk, pos, dma, lock, panel, faults, debt>>

TimeoutNever == FALSE /\ UNCHANGED vars

(* The thread timer ends the wait; the return value is dropped and the     *)
(* loop goes on as if the block had been sent.  While a transfer is in     *)
(* flight this needs one slower than 50 ms per block.                      *)
TakeTimeout ==
    /\ pc = "wait"
    /\ prompt => dma.state # "BUSY"
    /\ debt' = debt + 1
    /\ blk' = blk - 1 /\ pc' = "start"
    /\ UNCHANGED <<surface, px, fb, pos, dma, lock, panel, faults>>

LeaveUpdate ==
    /\ pc = "start" /\ blk = 0
    /\ pc' = "delay"
    /\ UNCHANGED <<surface, px, fb, blk, pos, dma, lock, panel, faults, debt>>

(* rt_thread_mdelay(5), then the next round of while (count++).            *)
Delay ==
    /\ pc = "delay"
    /\ pc' = "render"
    /\ UNCHANGED <<surface, px, fb, blk, pos, dma, lock, panel, faults, debt>>

-----------------------------------------------------------------------------
(* The DMA stream and its interrupt                                        *)

(* One bus write: the panel stores it and advances its pointer, which      *)
(* wraps at the end of the window; no command of RECT_UPDATE rewinds it.   *)
DmaMove ==
    /\ dma.state = "BUSY" /\ dma.done < dma.size
    /\ gram' = [gram EXCEPT ![gp] = fb[dma.from + dma.done]]
    /\ gp' = (gp + 1) % NumTx
    /\ dma' = [dma EXCEPT !.done = @ + 1]
    /\ UNCHANGED <<thread, lock, faults, debt>>

ReleaseLockTwice ==
    \/ /\ pc = "wait"
       /\ blk' = blk - 1 /\ pc' = "start" /\ lock' = 1
       /\ UNCHANGED <<surface, px, fb, pos>>
    \/ /\ pc # "wait"
       /\ lock' = IF lock + 2 < SemMax THEN lock + 2 ELSE SemMax
       /\ UNCHANGED thread

(* rt_sem_release(&lcd_lock): the waiter gets the token directly.          *)
ReleaseLock ==
    \/ /\ pc = "wait"
       /\ blk' = blk - 1 /\ pc' = "start"
       /\ UNCHANGED <<surface, px, fb, pos, lock>>
    \/ /\ pc # "wait"
       /\ lock' = IF lock < SemMax THEN lock + 1 ELSE lock
       /\ UNCHANGED thread

(* DMA1_Stream6_IRQHandler on transfer complete.                           *)
DmaComplete ==
    /\ dma.state = "BUSY" /\ dma.done = dma.size
    /\ dma' = [dma EXCEPT !.state = "READY"]
    /\ ReleaseLock
    /\ UNCHANGED <<panel, faults, debt>>

(* DMA1_Stream6_IRQHandler on a transfer error: the HAL disables the       *)
(* stream and, having no error callback, tells nobody.                     *)
DmaError ==
    /\ dma.state = "BUSY" /\ dma.done < dma.size
    /\ ~prompt /\ errors < MaxErrors
    /\ errors' = errors + 1
    /\ \E s \in {"READY", "ERROR"} : dma' = [dma EXCEPT !.state = s]
    /\ UNCHANGED <<thread, lock, panel, prompt, debt>>

-----------------------------------------------------------------------------
MainNext == Render \/ Convert \/ EnterUpdate \/ StartBlock \/ TakeToken
              \/ TakeBlocks \/ LeaveUpdate \/ Delay

Next == MainNext \/ TakeTimeout \/ DmaMove \/ DmaComplete \/ DmaError

Spec == Init /\ [][Next]_vars

(* The main thread is the highest-priority ready thread of the display     *)
(* path, and the tick interrupt that ends a wait always comes.  Of the DMA *)
(* nothing is assumed unless it is prompt.                                 *)
FairSpec == Spec /\ WF_vars(MainNext) /\ WF_vars(TakeTimeout)
                 /\ WF_vars(prompt /\ (DmaMove \/ DmaComplete))

-----------------------------------------------------------------------------
InFlight == IF dma.state = "BUSY" THEN 1 ELSE 0

(* Completions that will reach the main thread without a take of their     *)
(* own: tokens and transfers in flight, less the take the thread is in.    *)
Excess == lock + InFlight - (IF pc \in {"take", "wait"} THEN 1 ELSE 0)

TypeOK ==
    /\ pc \in {"render", "convert", "start", "take", "wait", "delay"}
    /\ surface \in Frames
    /\ px \in 0..NumTx
    /\ fb \in [Pixels -> Words]
    /\ blk \in 0..TxBlkNum
    /\ pos \in 0..NumTx
    /\ dma \in [state : {"READY", "BUSY", "ERROR"}, from : 0..NumTx,
                size : 0..BlkMax, done : 0..BlkMax]
    /\ dma.done <= dma.size
    /\ lock \in 0..SemMax
    /\ gram \in [Pixels -> Words \cup {Uncleared}]
    /\ gp \in Pixels
    /\ prompt \in BOOLEAN /\ errors \in 0..MaxErrors
    /\ debt \in Int

(* Late completions do not pile up in lcd_lock: whatever times out or      *)
(* fails, when a block is started at most one completion is outstanding,   *)
(* so the semaphore never comes near RT_SEM_VALUE_MAX.                     *)
StaleTokenBound ==
    /\ lock + InFlight <= IF pc = "take" THEN 2 ELSE 1
    /\ pc = "wait" => lock = 0

(* Every block the HAL refuses is paid for by an earlier timeout: without  *)
(* a timeout RECT_UPDATE never starts a transfer on a busy stream.         *)
DropPaid == debt >= 0

(* The conversion loop writes the framebuffer under a running transfer (a  *)
(* torn frame) only after a timeout that no refused block has made up for. *)
TearOnlyInDebt ==
    pc \in {"delay", "render", "convert"} /\ dma.state = "BUSY" => debt > 0

(* Neither harm of the ignored results comes without a timeout before it:  *)
(* a block the HAL refuses, or a frame torn under a running transfer.      *)
OnlyAfterTimeout == DropPaid /\ TearOnlyInDebt

(* No transfer reads beyond the framebuffer, whatever was dropped before   *)
(* it: the start position advances with the loop, not with the transfers.  *)
InBounds == dma.state = "BUSY" => dma.from + dma.size <= NumTx

(* With a prompt and healthy DMA a refresh ends with the rendered picture  *)
(* on the panel, each pixel in its place and in its 5-6-5 form (the first  *)
(* refresh clears the panel); the panel's pointer is back at the first     *)
(* pixel, the stream is idle and no token is left over.                    *)
FrameShown ==
    prompt /\ pc = "delay" =>
        /\ gp = 0
        /\ \A k \in Pixels : gram[k] = IF px = NumTx THEN Rgb565(surface[k]) ELSE 0
        /\ dma.state = "READY" /\ lock = 0

(* A refresh always returns, even when the panel or the DMA is dead: the   *)
(* timeout of rt_sem_take is what keeps main() running.                    *)
RefreshReturns == (pc = "start") ~> (pc = "delay")
=============================================================================
