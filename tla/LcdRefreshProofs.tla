-------------------------- MODULE LcdRefreshProofs --------------------------
(***************************************************************************)
(* Proofs about LcdRefresh for every frame size, block size, colour set,   *)
(* panel speed and number of DMA errors.                                   *)
(***************************************************************************)
EXTENDS LcdRefresh, TLAPS

(* Where the loop of RECT_UPDATE stands in the framebuffer.                *)
PosInv ==
    /\ pc = "start" /\ blk > 0 =>
          pos + (blk - 1) * BlkMax + TxLastBlkSize = NumTx
    /\ pc \in {"take", "wait"} =>
          /\ blk > 0
          /\ blk > 1 => pos + (blk - 2) * BlkMax + TxLastBlkSize = NumTx

(* Timeouts not yet made up for cover every completion in excess, and one  *)
(* more once the stream is out of order and refuses every block.           *)
DebtInv ==
    /\ debt >= 0
    /\ debt >= Excess + (IF dma.state = "ERROR" THEN 1 ELSE 0)

IInv == TypeOK /\ PosInv /\ InBounds /\ StaleTokenBound /\ DebtInv

-----------------------------------------------------------------------------
(* The blocks computed by drv_lcd_8080_hw_init add up to the frame.        *)
LEMMA BlocksFillFrame ==
    /\ TxBlkNum \in Nat \ {0}
    /\ TxLastBlkSize \in 1..BlkMax
    /\ (TxBlkNum - 1) * BlkMax + TxLastBlkSize = NumTx
<1> DEFINE q == NumTx \div BlkMax
           r == NumTx % BlkMax
<1>1. NumTx \in Nat /\ BlkMax \in Nat /\ BlkMax > 0 /\ NumTx >= BlkMax
  BY FrameAssumption
<1>2. q \in Nat /\ r \in 0..BlkMax-1 /\ NumTx = BlkMax * q + r
  BY <1>1, SMT
<1>3. q # 0
  BY <1>1, <1>2
<1>4. FullBlocks = q /\ FullBlocks # 0
  BY <1>3 DEF FullBlocks
<1> HIDE DEF q, r
<1>5. CASE r # 0
  <2>1. TxBlkNum = q + 1 /\ TxLastBlkSize = r
    BY <1>4, <1>5 DEF TxBlkNum, TxLastBlkSize, q, r
  <2> QED BY <2>1, <1>1, <1>2, <1>5
<1>6. CASE r = 0
  <2>1. TxBlkNum = q /\ TxLastBlkSize = BlkMax
    BY <1>4, <1>6 DEF TxBlkNum, TxLastBlkSize, q, r
  <2>2. (q - 1) * BlkMax + BlkMax = BlkMax * q
    BY <1>1, <1>2
  <2> QED BY <2>1, <2>2, <1>1, <1>2, <1>3, <1>6
<1> QED BY <1>5, <1>6

(* The conversion of main() yields a sixteen-bit word for every pixel.     *)
LEMMA WordsClosed ==
    /\ 0 \in Words
    /\ \A f \in Frames : \A k \in Pixels : Rgb565(f[k]) \in Words
<1>0. WordMax \in Nat
  BY SMT DEF WordMax
<1>1. 0 \in Words
  BY <1>0, SMT DEF Words
<1>2. ASSUME NEW f \in Frames, NEW k \in Pixels PROVE Rgb565(f[k]) \in Words
  <2> DEFINE x == f[k].r \div 8   y == f[k].g \div 4   z == f[k].b \div 8
  <2>1. f[k].r \in 0..255 /\ f[k].g \in 0..255 /\ f[k].b \in 0..255
    BY PictureAssumption DEF Color, Channel
  <2>2. x \in 0..31 /\ y \in 0..63 /\ z \in 0..31
    BY <2>1
  <2> HIDE DEF x, y, z
  <2>3. /\ x * 2048 + y * 32 + z \in Int
        /\ 0 <= x * 2048 + y * 32 + z /\ x * 2048 + y * 32 + z <= WordMax
    BY <2>2, SMT DEF WordMax
  <2>4. x * 2048 + y * 32 + z \in 0..WordMax
    BY <1>0, <2>3, SMT
  <2> QED BY <2>4 DEF Rgb565, Words, x, y, z
<1> QED BY <1>1, <1>2

(* Initially nothing is in flight and the loop is at the first block.      *)
LEMMA InitIInv == Init => IInv
<1> SUFFICES ASSUME Init PROVE IInv OBVIOUS
<1> USE FrameAssumption, SemAssumption, FaultAssumption, PictureAssumption,
        BlocksFillFrame, WordsClosed
<1>1. TypeOK
  BY DEF Init, Pictures, TypeOK, Pixels
<1>2. PosInv
  BY DEF Init, PosInv
<1>3. InBounds /\ StaleTokenBound /\ DebtInv
  BY DEF Init, InBounds, StaleTokenBound, DebtInv, InFlight, Excess
<1> QED BY <1>1, <1>2, <1>3 DEF IInv

(* Every step of the main thread, of the tick, of the DMA and of its       *)
(* interrupt keeps the invariant.                                          *)
LEMMA StepIInv == IInv /\ [Next]_vars => IInv'
<1> SUFFICES ASSUME IInv, [Next]_vars PROVE IInv' OBVIOUS
<1> USE FrameAssumption, SemAssumption, FaultAssumption, PictureAssumption,
        BlocksFillFrame, WordsClosed
    DEF thread, panel, faults
<1>0. TypeOK /\ PosInv /\ InBounds /\ StaleTokenBound /\ DebtInv
  BY DEF IInv
<1>1. CASE Render
  <2>1. TypeOK' BY <1>0, <1>1 DEF Render, Pictures, TypeOK, Pixels
  <2>2. PosInv' BY <1>0, <1>1 DEF Render, PosInv
  <2>3. InBounds' /\ StaleTokenBound' /\ DebtInv'
    BY <1>0, <1>1 DEF Render, TypeOK, InBounds, StaleTokenBound, DebtInv, InFlight, Excess
  <2> QED BY <2>1, <2>2, <2>3 DEF IInv
<1>2. CASE Convert
  <2>1. TypeOK' BY <1>0, <1>2 DEF Convert, TypeOK, Pixels
  <2>2. PosInv' BY <1>0, <1>2 DEF Convert, PosInv
  <2>3. InBounds' /\ StaleTokenBound' /\ DebtInv'
    BY <1>0, <1>2 DEF Convert, TypeOK, InBounds, StaleTokenBound, DebtInv, InFlight, Excess
  <2> QED BY <2>1, <2>2, <2>3 DEF IInv
<1>3. CASE EnterUpdate
  <2>1. TypeOK' BY <1>0, <1>3 DEF EnterUpdate, TypeOK, Pixels
  <2>2. PosInv' BY <1>0, <1>3 DEF EnterUpdate, PosInv
  <2>3. InBounds' /\ StaleTokenBound' /\ DebtInv'
    BY <1>0, <1>3 DEF EnterUpdate, TypeOK, InBounds, StaleTokenBound, DebtInv, InFlight, Excess
  <2> QED BY <2>1, <2>2, <2>3 DEF IInv
<1>4. CASE StartBlock
  <2> DEFINE size == IF blk = 1 THEN TxLastBlkSize ELSE BlkMax
  <2>1. /\ blk \in Nat /\ blk > 0 /\ pos \in Nat /\ BlkMax \in Nat /\ pc = "start"
        /\ TxLastBlkSize \in 1..BlkMax
        /\ pos + (blk - 1) * BlkMax + TxLastBlkSize = NumTx
    BY <1>0, <1>4 DEF StartBlock, TypeOK, PosInv
  <2>2. blk > 1 => /\ (blk - 1) * BlkMax = BlkMax + (blk - 2) * BlkMax
                   /\ (blk - 2) * BlkMax \in Nat
    BY <2>1
  <2>3. pos + size <= NumTx /\ size \in 0..BlkMax
    <3>1. CASE blk = 1 BY <2>1, <3>1
    <3>2. CASE blk > 1 BY <2>1, <2>2, <3>2
    <3> QED BY <2>1, <3>1, <3>2
  <2>4. pos' \in 0..NumTx /\ PosInv'
    <3>1. CASE blk = 1 BY <2>1, <1>0, <1>4, <3>1 DEF StartBlock, PosInv, TypeOK
    <3>2. CASE blk > 1
      <4>1. pos' = pos + BlkMax /\ blk' = blk /\ pc' = "take"
        BY <1>4, <3>2, <2>1 DEF StartBlock
      <4> QED BY <2>1, <2>2, <3>2, <4>1 DEF PosInv
    <3> QED BY <2>1, <3>1, <3>2
  <2>5. CASE dma.state = "READY"
    <3>1. dma' = [state |-> "BUSY", from |-> pos, size |-> size, done |-> 0]
          /\ debt' = debt
      BY <1>4, <2>5 DEF StartBlock, HAL_DMA_Start_IT
    <3>2. TypeOK'
      BY <1>0, <1>4, <2>1, <2>3, <2>4, <3>1 DEF StartBlock, TypeOK
    <3>3. InBounds' BY <2>3, <3>1 DEF InBounds
    <3>4. StaleTokenBound' /\ DebtInv'
      BY <1>0, <1>4, <3>1, <2>5, <2>1
      DEF StartBlock, TypeOK, StaleTokenBound, DebtInv, InFlight, Excess
    <3> QED BY <2>4, <3>2, <3>3, <3>4 DEF IInv
  <2>6. CASE dma.state # "READY"
    <3>1. dma' = dma /\ debt' = debt - 1
      BY <1>4, <2>6 DEF StartBlock, HAL_DMA_Start_IT
    <3>2. TypeOK'
      BY <1>0, <1>4, <2>1, <2>4, <3>1 DEF StartBlock, TypeOK
    <3>3. InBounds' BY <1>0, <1>4, <3>1 DEF InBounds
    <3>4. StaleTokenBound' /\ DebtInv'
      BY <1>0, <1>4, <3>1, <2>6, <2>1
      DEF StartBlock, TypeOK, StaleTokenBound, DebtInv, InFlight, Excess
    <3> QED BY <2>4, <3>2, <3>3, <3>4 DEF IInv
  <2> QED BY <2>5, <2>6
<1>5. CASE TakeToken
  <2>1. TypeOK' BY <1>0, <1>5 DEF TakeToken, TypeOK, PosInv
  <2>2. PosInv' BY <1>0, <1>5 DEF TakeToken, PosInv, TypeOK
  <2>3. InBounds' /\ StaleTokenBound' /\ DebtInv'
    BY <1>0, <1>5 DEF TakeToken, TypeOK, InBounds, StaleTokenBound, DebtInv, InFlight, Excess
  <2> QED BY <2>1, <2>2, <2>3 DEF IInv
<1>6. CASE TakeBlocks
  <2>1. TypeOK' BY <1>0, <1>6 DEF TakeBlocks, TypeOK
  <2>2. PosInv' BY <1>0, <1>6 DEF TakeBlocks, PosInv
  <2>3. InBounds' /\ StaleTokenBound' /\ DebtInv'
    BY <1>0, <1>6 DEF TakeBlocks, TypeOK, InBounds, StaleTokenBound, DebtInv, InFlight, Excess
  <2> QED BY <2>1, <2>2, <2>3 DEF IInv
<1>7. CASE LeaveUpdate
  <2>1. TypeOK' BY <1>0, <1>7 DEF LeaveUpdate, TypeOK
  <2>2. PosInv' BY <1>0, <1>7 DEF LeaveUpdate, PosInv
  <2>3. InBounds' /\ StaleTokenBound' /\ DebtInv'
    BY <1>0, <1>7 DEF LeaveUpdate, TypeOK, InBounds, StaleTokenBound, DebtInv, InFlight, Excess
  <2> QED BY <2>1, <2>2, <2>3 DEF IInv
<1>8. CASE Delay
  <2>1. TypeOK' BY <1>0, <1>8 DEF Delay, TypeOK
  <2>2. PosInv' BY <1>0, <1>8 DEF Delay, PosInv
  <2>3. InBounds' /\ StaleTokenBound' /\ DebtInv'
    BY <1>0, <1>8 DEF Delay, TypeOK, InBounds, StaleTokenBound, DebtInv, InFlight, Excess
  <2> QED BY <2>1, <2>2, <2>3 DEF IInv
<1>9. CASE TakeTimeout
  <2>1. TypeOK' BY <1>0, <1>9 DEF TakeTimeout, TypeOK, PosInv
  <2>2. PosInv' BY <1>0, <1>9 DEF TakeTimeout, PosInv, TypeOK
  <2>3. InBounds' /\ StaleTokenBound' /\ DebtInv'
    BY <1>0, <1>9 DEF TakeTimeout, TypeOK, InBounds, StaleTokenBound, DebtInv, InFlight, Excess
  <2> QED BY <2>1, <2>2, <2>3 DEF IInv
<1>10. CASE DmaMove
  <2>0. dma.from + dma.done \in Pixels
    <3>1. /\ dma.from \in Nat /\ dma.size \in Nat /\ dma.done \in Nat
          /\ dma.done < dma.size /\ dma.from + dma.size <= NumTx
      BY <1>0, <1>10 DEF DmaMove, TypeOK, InBounds
    <3> QED BY <3>1 DEF Pixels
  <2>1. (gp + 1) % NumTx \in Pixels
    <3>1. NumTx \in Nat /\ NumTx > 0 /\ gp + 1 \in Nat
      BY <1>0 DEF TypeOK, Pixels
    <3> QED BY <3>1 DEF Pixels
  <2>2. fb[dma.from + dma.done] \in Words
    BY <1>0, <2>0 DEF TypeOK
  <2>3. TypeOK' BY <1>0, <1>10, <2>1, <2>2 DEF DmaMove, TypeOK
  <2>4. PosInv' BY <1>0, <1>10 DEF DmaMove, PosInv
  <2>5. InBounds' /\ StaleTokenBound' /\ DebtInv'
    BY <1>0, <1>10 DEF DmaMove, TypeOK, InBounds, StaleTokenBound, DebtInv, InFlight, Excess
  <2> QED BY <2>3, <2>4, <2>5 DEF IInv
<1>11. CASE DmaComplete
  <2>0. /\ dma'.state = "READY" /\ dma'.done = dma.done /\ dma'.size = dma.size
        /\ dma' \in [state : {"READY", "BUSY", "ERROR"}, from : 0..NumTx,
                     size : 0..BlkMax, done : 0..BlkMax]
        /\ dma.state = "BUSY" /\ ReleaseLock /\ UNCHANGED <<panel, faults, debt>>
    BY <1>0, <1>11 DEF DmaComplete, TypeOK
  <2>1. TypeOK' BY <1>0, <2>0 DEF ReleaseLock, TypeOK, PosInv
  <2>2. PosInv'
    <3>1. CASE pc = "wait"
      <4>1. pc' = "start" /\ blk' = blk - 1 /\ pos' = pos
        BY <2>0, <3>1 DEF ReleaseLock
      <4>2. blk \in Int /\ (blk > 1 => pos + (blk - 2) * BlkMax + TxLastBlkSize = NumTx)
        BY <1>0, <3>1 DEF PosInv, TypeOK
      <4>3. blk - 1 > 0 => blk > 1 /\ (blk - 1) - 1 = blk - 2
        BY <4>2
      <4> QED BY <4>1, <4>2, <4>3 DEF PosInv
    <3>2. CASE pc # "wait"
      BY <1>0, <2>0, <3>2 DEF ReleaseLock, PosInv
    <3> QED BY <3>1, <3>2
  <2>3. InBounds' /\ StaleTokenBound' /\ DebtInv'
    BY <1>0, <2>0
    DEF ReleaseLock, TypeOK, InBounds, StaleTokenBound, DebtInv, InFlight, Excess
  <2> QED BY <2>1, <2>2, <2>3 DEF IInv
<1>12. CASE DmaError
  <2>1. TypeOK' BY <1>0, <1>12 DEF DmaError, TypeOK
  <2>2. PosInv' BY <1>0, <1>12 DEF DmaError, PosInv
  <2>3. InBounds' /\ StaleTokenBound' /\ DebtInv'
    BY <1>0, <1>12 DEF DmaError, TypeOK, InBounds, StaleTokenBound, DebtInv, InFlight, Excess
  <2> QED BY <2>1, <2>2, <2>3 DEF IInv
<1>13. CASE UNCHANGED vars
  BY <1>0, <1>13 DEF vars, IInv, TypeOK, PosInv, InBounds, StaleTokenBound, DebtInv,
                     InFlight, Excess
<1> QED BY <1>1, <1>2, <1>3, <1>4, <1>5, <1>6, <1>7, <1>8, <1>9, <1>10, <1>11, <1>12,
           <1>13 DEF Next, MainNext
-----------------------------------------------------------------------------
(* The invariant holds in every reachable state.                           *)
LEMMA IInvHolds == Spec => []IInv
BY InitIInv, StepIInv, PTL DEF Spec

(* Every variable of the display path keeps its type: no index of the      *)
(* framebuffer, of the panel or of the block loop leaves its range.        *)
THEOREM TypeCorrect == Spec => []TypeOK
BY IInvHolds, PTL DEF IInv

(* rt_sem_take's timeouts and the DMA's errors never let lcd_lock gather   *)
(* more than one stale completion (StaleTokenBound).                       *)
THEOREM TokensBounded == Spec => []StaleTokenBound
BY IInvHolds, PTL DEF IInv

(* No transfer started by RECT_UPDATE reads past the framebuffer, even     *)
(* after refused blocks (InBounds).                                        *)
THEOREM TransfersInBounds == Spec => []InBounds
BY IInvHolds, PTL DEF IInv

(* A block is refused by HAL_DMA_Start_IT only as the price of an earlier  *)
(* timeout (DropPaid).                                                     *)
THEOREM DropsArePaid == Spec => []DropPaid
<1>1. IInv => DropPaid BY DEF IInv, DebtInv, DropPaid
<1> QED BY <1>1, IInvHolds, PTL

(* main() overwrites a framebuffer that is being sent only after a timeout *)
(* that is still unpaid (TearOnlyInDebt).                                  *)
THEOREM TearsNeedTimeout == Spec => []TearOnlyInDebt
<1>1. IInv => TearOnlyInDebt
  BY DEF IInv, TypeOK, DebtInv, TearOnlyInDebt, Excess, InFlight
<1> QED BY <1>1, IInvHolds, PTL

(* What the ignored results of rt_sem_take and HAL_DMA_Start_IT can do to  *)
(* a frame, they do only after a timeout (OnlyAfterTimeout).               *)
THEOREM HarmNeedsTimeout == Spec => []OnlyAfterTimeout
BY DropsArePaid, TearsNeedTimeout, PTL DEF OnlyAfterTimeout

-----------------------------------------------------------------------------
(* A refresh with a prompt DMA.                                            *)

(* What the framebuffer holds while it is sent.                            *)
Picture(k) == IF px = NumTx THEN Rgb565(surface[k]) ELSE 0

(* Where the block in progress ends, and how far the refresh has come.     *)
BlockEnd == IF blk = 1 THEN NumTx ELSE pos

Sent == IF pc = "start" THEN IF blk = 0 THEN NumTx ELSE pos
        ELSE IF dma.state = "BUSY" THEN dma.from + dma.done ELSE BlockEnd

(* Between two blocks the stream is idle; the main thread waits for the    *)
(* very block that is in flight, or its token is there.                    *)
IdleInv ==
    /\ pc \notin {"take", "wait"} => dma.state = "READY" /\ lock = 0
    /\ pc \in {"take", "wait"} =>
          \/ dma.state = "BUSY" /\ lock = 0 /\ dma.from + dma.size = BlockEnd
          \/ pc = "take" /\ dma.state = "READY" /\ lock = 1

(* The panel's pointer goes round once in a refresh, and what it has left  *)
(* behind is the picture.                                                  *)
GramInv ==
    /\ pc \in {"render", "convert", "delay"} => gp = 0
    /\ pc = "convert" => \A k \in Pixels : k < px => fb[k] = Rgb565(surface[k])
    /\ pc \in {"start", "take", "wait", "delay"} => \A k \in Pixels : fb[k] = Picture(k)
    /\ pc \in {"start", "take", "wait"} =>
          /\ gp = IF Sent = NumTx THEN 0 ELSE Sent
          /\ \A k \in Pixels : k < Sent => gram[k] = fb[k]
    /\ pc = "delay" => \A k \in Pixels : gram[k] = fb[k]

PromptInv == prompt => IdleInv /\ GramInv

(* Where the loop stands between blocks, and where a block ends.           *)
LEMMA Positions ==
    ASSUME IInv
    PROVE  /\ NumTx \in Nat \ {0} /\ Pixels = 0..NumTx-1 /\ blk \in Nat /\ pos \in Nat
           /\ TxLastBlkSize \in 1..BlkMax /\ BlkMax \in Nat
           /\ pc = "start" /\ blk > 0 => pos < NumTx
           /\ pc = "start" /\ blk = 1 => pos + TxLastBlkSize = NumTx
           /\ pc \in {"take", "wait"} =>
                 /\ blk > 0 /\ BlockEnd \in 0..NumTx
                 /\ BlockEnd = NumTx <=> blk = 1
<1> USE FrameAssumption, BlocksFillFrame
<1>0. TypeOK /\ PosInv
  BY DEF IInv
<1>1. NumTx \in Nat \ {0} /\ BlkMax \in Nat /\ blk \in Nat /\ pos \in 0..NumTx
  BY <1>0 DEF TypeOK
<1>2. ASSUME blk > 0 PROVE (blk - 1) * BlkMax \in Nat
  BY <1>1, <1>2
<1>3. ASSUME blk > 1 PROVE (blk - 2) * BlkMax \in Nat
  BY <1>1, <1>3
<1>4. pc = "start" /\ blk > 0 => pos < NumTx
  BY <1>0, <1>1, <1>2 DEF PosInv
<1>5. pc = "start" /\ blk = 1 => pos + TxLastBlkSize = NumTx
  BY <1>0, <1>1 DEF PosInv
<1>6. pc \in {"take", "wait"} =>
         /\ blk > 0 /\ BlockEnd \in 0..NumTx
         /\ BlockEnd = NumTx <=> blk = 1
  BY <1>0, <1>1, <1>3 DEF PosInv, BlockEnd
<1> QED BY <1>1, <1>4, <1>5, <1>6 DEF Pixels

LEMMA InitPromptInv == Init => PromptInv
<1> SUFFICES ASSUME Init PROVE PromptInv OBVIOUS
<1> USE FrameAssumption, BlocksFillFrame
<1>1. NumTx \in Nat \ {0} /\ Sent = 0
  BY DEF Init, Sent
<1> QED BY <1>1 DEF Init, PromptInv, IdleInv, GramInv, Picture, Pixels

(* A step of the main thread outside of RECT_UPDATE, or into or out of it. *)
LEMMA LoopKeepsPrompt ==
    ASSUME IInv, PromptInv, prompt,
           Render \/ Convert \/ EnterUpdate \/ LeaveUpdate \/ Delay
    PROVE  PromptInv'
<1> USE DEF thread, panel, faults
<1>0. TypeOK /\ IdleInv /\ GramInv
  BY DEF IInv, PromptInv
<1>p. NumTx \in Nat \ {0} /\ Pixels = 0..NumTx-1 /\ TxBlkNum \in Nat \ {0}
  BY Positions, BlocksFillFrame
<1>1. CASE Render
  BY <1>0, <1>1, <1>p DEF Render, PromptInv, IdleInv, GramInv
<1>2. CASE Convert
  <2>1. /\ pc = "convert" /\ pc' = pc /\ px \in 0..NumTx /\ px' = px + 1
        /\ \A k \in Pixels : fb'[k] = IF k = px THEN Rgb565(surface[px]) ELSE fb[k]
        /\ UNCHANGED <<pc, surface, blk, pos, dma, lock, panel, faults>>
    BY <1>0, <1>2 DEF Convert, TypeOK
  <2>2. \A k \in Pixels : k < px' => fb'[k] = Rgb565(surface[k])
    BY <1>0, <1>p, <2>1 DEF GramInv
  <2> QED BY <1>0, <2>1, <2>2 DEF PromptInv, IdleInv, GramInv
<1>3. CASE EnterUpdate
  <2>1. /\ pc = "convert" /\ pc' = "start" /\ px = NumTx /\ Sent' = 0 /\ gp = 0
        /\ UNCHANGED <<surface, px, fb, dma, lock, panel, faults>>
    BY <1>0, <1>3, <1>p DEF EnterUpdate, Sent, GramInv
  <2>2. \A k \in Pixels : fb'[k] = Picture(k)'
    BY <1>0, <1>p, <2>1 DEF GramInv, Picture
  <2> QED BY <1>0, <1>p, <2>1, <2>2 DEF PromptInv, IdleInv, GramInv
<1>4. CASE LeaveUpdate
  <2>1. /\ pc = "start" /\ blk = 0 /\ pc' = "delay" /\ Sent = NumTx
        /\ UNCHANGED <<surface, px, fb, blk, pos, dma, lock, panel, faults>>
    BY <1>4 DEF LeaveUpdate, Sent
  <2>2. \A k \in Pixels : gram[k] = fb[k] /\ fb[k] = Picture(k)
    BY <1>0, <1>p, <2>1 DEF GramInv
  <2> QED BY <1>0, <1>p, <2>1, <2>2 DEF PromptInv, IdleInv, GramInv, Picture
<1>5. CASE Delay
  BY <1>0, <1>5, <1>p DEF Delay, PromptInv, IdleInv, GramInv
<1> QED BY <1>1, <1>2, <1>3, <1>4, <1>5

(* The next block starts where the last one ended.                         *)
LEMMA StartKeepsPrompt == ASSUME IInv, PromptInv, prompt, StartBlock PROVE PromptInv'
<1> USE DEF thread, panel, faults
<1> DEFINE len == IF blk = 1 THEN TxLastBlkSize ELSE BlkMax
<1>0. TypeOK /\ IdleInv /\ GramInv
  BY DEF IInv, PromptInv
<1>1. /\ pc = "start" /\ blk > 0 /\ pc' = "take" /\ dma.state = "READY" /\ lock = 0
      /\ dma' = [state |-> "BUSY", from |-> pos, size |-> len, done |-> 0]
      /\ pos' = IF blk = 1 THEN pos ELSE pos + BlkMax
      /\ UNCHANGED <<surface, px, fb, blk, lock, panel, faults>>
  BY <1>0 DEF StartBlock, HAL_DMA_Start_IT, IdleInv
<1>2. /\ NumTx \in Nat \ {0} /\ Pixels = 0..NumTx-1 /\ blk \in Nat /\ pos \in Nat
      /\ BlkMax \in Nat
      /\ blk = 1 => pos + TxLastBlkSize = NumTx
  BY <1>1, Positions
<1>3. /\ dma'.state = "BUSY" /\ dma'.from = pos /\ dma'.done = 0
      /\ dma'.size = IF blk = 1 THEN TxLastBlkSize ELSE BlkMax
  BY <1>1
<1>4. dma'.from + dma'.size = BlockEnd'
  <2>1. CASE blk = 1 BY <1>1, <1>2, <1>3, <2>1 DEF BlockEnd
  <2>2. CASE blk # 1 BY <1>1, <1>2, <1>3, <2>2 DEF BlockEnd
  <2> QED BY <2>1, <2>2
<1>5. Sent = pos /\ Sent' = pos
  BY <1>1, <1>2, <1>3 DEF Sent
<1>6. \A k \in Pixels : fb'[k] = Picture(k)'
  BY <1>0, <1>1 DEF GramInv, Picture
<1>7. IdleInv'
  BY <1>1, <1>3, <1>4 DEF IdleInv
<1>8. GramInv'
  BY <1>0, <1>1, <1>5, <1>6 DEF GramInv
<1> QED BY <1>7, <1>8 DEF PromptInv

(* The thread looks for its token, and goes on to the next block when the  *)
(* last one is complete.                                                   *)
LEMMA TakeKeepsPrompt ==
    ASSUME IInv, PromptInv, prompt, TakeToken \/ TakeBlocks \/ TakeTimeout
    PROVE  PromptInv'
<1> USE DEF thread, panel, faults
<1>0. TypeOK /\ IdleInv /\ GramInv
  BY DEF IInv, PromptInv
<1>1. CASE TakeToken
  <2>1. /\ pc = "take" /\ pc' = "start" /\ dma.state = "READY" /\ lock = 1 /\ lock' = 0
        /\ blk' = blk - 1
        /\ UNCHANGED <<surface, px, fb, pos, dma, panel, faults>>
    BY <1>0, <1>1 DEF TakeToken, IdleInv
  <2>2. Sent' = Sent
    BY <2>1, Positions DEF Sent, BlockEnd
  <2>3. \A k \in Pixels : fb'[k] = Picture(k)'
    BY <1>0, <2>1 DEF GramInv, Picture
  <2> QED BY <1>0, <2>1, <2>2, <2>3 DEF PromptInv, IdleInv, GramInv
<1>2. CASE TakeBlocks
  <2>1. /\ pc = "take" /\ pc' = "wait" /\ dma.state = "BUSY" /\ lock = 0
        /\ UNCHANGED <<surface, px, fb, blk, pos, dma, lock, panel, faults>>
    BY <1>0, <1>2 DEF TakeBlocks, IdleInv
  <2>2. Sent' = Sent /\ BlockEnd' = BlockEnd
    BY <2>1 DEF Sent, BlockEnd
  <2>3. \A k \in Pixels : fb'[k] = Picture(k)'
    BY <1>0, <2>1 DEF GramInv, Picture
  <2> QED BY <1>0, <2>1, <2>2, <2>3 DEF PromptInv, IdleInv, GramInv
<1>3. CASE TakeTimeout
  BY <1>0, <1>3 DEF TakeTimeout, IdleInv
<1> QED BY <1>1, <1>2, <1>3

(* One more pixel is sent.                                                 *)
LEMMA MoveKeepsPrompt == ASSUME IInv, PromptInv, prompt, DmaMove PROVE PromptInv'
<1> USE DEF thread, panel, faults
<1>0. TypeOK /\ IdleInv /\ GramInv
  BY DEF IInv, PromptInv
<1>1. /\ dma.state = "BUSY" /\ dma.done < dma.size /\ pc \in {"take", "wait"}
      /\ lock = 0 /\ dma.from + dma.size = BlockEnd
      /\ UNCHANGED <<pc, surface, px, fb, blk, pos, lock, faults>>
  BY <1>0 DEF DmaMove, IdleInv
<1>2. /\ dma.from \in Nat /\ dma.size \in Nat /\ dma.done \in Nat
      /\ dma'.state = "BUSY" /\ dma'.from = dma.from /\ dma'.size = dma.size
      /\ dma'.done = dma.done + 1
  BY <1>0, <1>1 DEF DmaMove, TypeOK
<1>3. NumTx \in Nat \ {0} /\ Pixels = 0..NumTx-1 /\ BlockEnd \in 0..NumTx
  BY <1>1, Positions
<1>4. /\ Sent = dma.from + dma.done /\ Sent' = Sent + 1 /\ BlockEnd' = BlockEnd
      /\ Sent \in 0..NumTx-1
  BY <1>1, <1>2, <1>3 DEF Sent, BlockEnd
<1>5. /\ gp = Sent
      /\ gram' = [gram EXCEPT ![Sent] = fb[Sent]]
      /\ gp' = (Sent + 1) % NumTx
  <2>1. gp = Sent
    BY <1>0, <1>1, <1>3, <1>4 DEF GramInv
  <2> QED BY <1>4, <2>1 DEF DmaMove
<1>6. gp' = IF Sent' = NumTx THEN 0 ELSE Sent'
  <2>1. CASE Sent + 1 = NumTx BY <1>3, <1>4, <1>5, <2>1
  <2>2. CASE Sent + 1 < NumTx BY <1>3, <1>4, <1>5, <2>2
  <2> QED BY <1>3, <1>4, <2>1, <2>2
<1>7. \A k \in Pixels : k < Sent' => gram'[k] = fb'[k]
  <2> TAKE k \in Pixels
  <2> HAVE k < Sent'
  <2>1. gram \in [Pixels -> Words \cup {Uncleared}]
    BY <1>0 DEF TypeOK
  <2>2. CASE k = Sent BY <1>1, <1>5, <2>1, <2>2
  <2>3. CASE k # Sent
    <3>1. k < Sent BY <1>3, <1>4, <2>3
    <3>2. gram[k] = fb[k] BY <1>0, <1>1, <3>1 DEF GramInv
    <3> QED BY <1>1, <1>5, <2>1, <2>3, <3>2
  <2> QED BY <2>2, <2>3
<1>8. \A k \in Pixels : fb'[k] = Picture(k)'
  BY <1>0, <1>1 DEF GramInv, Picture
<1>9. IdleInv'
  BY <1>1, <1>2, <1>4 DEF IdleInv
<1>10. GramInv'
  BY <1>1, <1>6, <1>7, <1>8 DEF GramInv
<1> QED BY <1>9, <1>10 DEF PromptInv

(* The block is complete: the waiter goes on, or finds its token later.    *)
LEMMA CompleteKeepsPrompt == ASSUME IInv, PromptInv, prompt, DmaComplete PROVE PromptInv'
<1> USE DEF thread, panel, faults
<1>0. TypeOK /\ IdleInv /\ GramInv
  BY DEF IInv, PromptInv
<1>1. /\ dma.state = "BUSY" /\ dma.done = dma.size /\ pc \in {"take", "wait"}
      /\ lock = 0 /\ dma.from + dma.size = BlockEnd
      /\ UNCHANGED <<surface, px, fb, pos, panel, faults>>
  BY <1>0 DEF DmaComplete, ReleaseLock, IdleInv
<1>2. dma'.state = "READY"
  BY <1>0, <1>1 DEF DmaComplete, TypeOK
<1>3. Sent = BlockEnd
  BY <1>1 DEF Sent
<1>4. \A k \in Pixels : fb'[k] = Picture(k)'
  BY <1>0, <1>1 DEF GramInv, Picture
<1>5. CASE pc = "wait"
  <2>1. pc' = "start" /\ blk' = blk - 1 /\ lock' = 0
    BY <1>1, <1>5 DEF DmaComplete, ReleaseLock
  <2>2. Sent' = Sent
    BY <1>1, <1>3, <2>1, Positions DEF Sent, BlockEnd
  <2> QED BY <1>0, <1>1, <1>2, <1>4, <2>1, <2>2 DEF PromptInv, IdleInv, GramInv
<1>6. CASE pc = "take"
  <2>1. pc' = "take" /\ blk' = blk /\ lock' = 1
    BY <1>1, <1>6, SemAssumption DEF DmaComplete, ReleaseLock
  <2>2. Sent' = Sent
    BY <1>1, <1>2, <1>3, <2>1 DEF Sent, BlockEnd
  <2> QED BY <1>0, <1>1, <1>2, <1>4, <2>1, <2>2 DEF PromptInv, IdleInv, GramInv
<1> QED BY <1>1, <1>5, <1>6

LEMMA StepPromptInv == IInv /\ PromptInv /\ [Next]_vars => PromptInv'
<1> SUFFICES ASSUME IInv, PromptInv, [Next]_vars PROVE PromptInv' OBVIOUS
<1>1. prompt' = prompt
  BY DEF Next, MainNext, Render, Convert, EnterUpdate, StartBlock, TakeToken, TakeBlocks,
         LeaveUpdate, Delay, TakeTimeout, DmaMove, DmaComplete, DmaError, faults, vars
<1>2. CASE ~prompt
  BY <1>1, <1>2 DEF PromptInv
<1>3. CASE prompt /\ Next
  <2>1. ~DmaError
    BY <1>3 DEF DmaError
  <2> QED BY <1>3, <2>1, LoopKeepsPrompt, StartKeepsPrompt, TakeKeepsPrompt,
             MoveKeepsPrompt, CompleteKeepsPrompt DEF Next, MainNext
<1>4. CASE UNCHANGED vars
  <2>1. UNCHANGED <<pc, surface, px, fb, blk, pos, dma, lock, gram, gp, prompt>>
    BY <1>4 DEF vars, thread, panel, faults
  <2> QED BY <2>1 DEF PromptInv, IdleInv, GramInv, Picture, Sent, BlockEnd
<1> QED BY <1>2, <1>3, <1>4

(* With a prompt and healthy DMA every refresh ends with the picture on    *)
(* the panel, whatever the frame, the block size and the colours: blocks   *)
(* start where the last one ended, and the panel's pointer, which nothing  *)
(* rewinds, has gone round exactly once.                                   *)
THEOREM FrameIsShown == Spec => []FrameShown
<1>1. Init => IInv /\ PromptInv
  BY InitIInv, InitPromptInv
<1>2. IInv /\ PromptInv /\ [Next]_vars => (IInv /\ PromptInv)'
  BY StepIInv, StepPromptInv
<1>3. IInv /\ PromptInv => FrameShown
  <2> SUFFICES ASSUME IInv, PromptInv, prompt, pc = "delay" PROVE FrameShown
    BY DEF FrameShown
  <2>1. IdleInv /\ GramInv BY DEF PromptInv
  <2> QED BY <2>1 DEF IdleInv, GramInv, Picture, FrameShown
<1> QED BY <1>1, <1>2, <1>3, PTL DEF Spec
=============================================================================
