-------------------------- MODULE SdHotplugProofs ---------------------------
(***************************************************************************)
(* Proofs about SdHotplug for any set of cards, any user and any mailbox   *)
(* size: the two threads take turns, no mount outlives its device, and     *)
(* main() waits long enough for the card.  Then proofs about what main()   *)
(* does after that wait, which is the module LiveMain.                     *)
(***************************************************************************)
EXTENDS SdHotplug, LiveMain, TLAPS

(* "sd0" is the device of host->card, and a probe starts without a card.   *)
DeviceInv ==
    /\ sd0 # NoCard => card = sd0
    /\ det \in {"probe", "init"} => card = NoCard

IInv == TypeOK /\ TakeTurns /\ NoDanglingMount /\ DeviceInv

(* At power-up there is neither a message nor a device.                    *)
LEMMA InitIInv == Init => IInv
BY CardAssumption, BoundAssumption
   DEF Init, IInv, TypeOK, TakeTurns, NoDanglingMount, DeviceInv, Pending, Slots

(* Every step of sd_mount, mmcsd_detect, main() and the user keeps the     *)
(* invariant.                                                              *)
LEMMA StepIInv == IInv /\ [Next]_vars => IInv'
<1> SUFFICES ASSUME IInv, [Next]_vars PROVE IInv' OBVIOUS
<1> USE CardAssumption, BoundAssumption DEF world, sdVars, detVars, mainVars
<1>0. TypeOK /\ TakeTurns /\ NoDanglingMount /\ DeviceInv
  BY DEF IInv
<1>1. CASE SdBoot
  <2>1. TypeOK' BY <1>0, <1>1 DEF SdBoot, Sleep, TypeOK, Slots
  <2>2. TakeTurns' BY <1>0, <1>1 DEF SdBoot, Sleep, TypeOK, TakeTurns, Pending
  <2>3. NoDanglingMount' /\ DeviceInv'
    BY <1>0, <1>1 DEF SdBoot, Sleep, NoDanglingMount, DeviceInv
  <2> QED BY <2>1, <2>2, <2>3 DEF IInv
<1>2. CASE PollRemoved
  <2>1. TypeOK' BY <1>0, <1>2 DEF PollRemoved, TypeOK, Slots
  <2>2. TakeTurns' BY <1>0, <1>2 DEF PollRemoved, TypeOK, TakeTurns, Pending
  <2>3. NoDanglingMount' /\ DeviceInv'
    BY <1>0, <1>2 DEF PollRemoved, NoDanglingMount, DeviceInv
  <2> QED BY <2>1, <2>2, <2>3 DEF IInv
<1>3. CASE PollInserted
  <2>1. TypeOK' BY <1>0, <1>3 DEF PollInserted, Sleep, TypeOK, Slots
  <2>2. TakeTurns' BY <1>0, <1>3 DEF PollInserted, Sleep, TypeOK, TakeTurns, Pending
  <2>3. NoDanglingMount' /\ DeviceInv'
    BY <1>0, <1>3 DEF PollInserted, Sleep, NoDanglingMount, DeviceInv
  <2> QED BY <2>1, <2>2, <2>3 DEF IInv
<1>4. CASE MountFind
  <2>1. TypeOK' BY <1>0, <1>4 DEF MountFind, AskDetect, Post, TypeOK, Slots
  <2>2. TakeTurns' BY <1>0, <1>4 DEF MountFind, AskDetect, Post, TypeOK, TakeTurns, Pending
  <2>3. NoDanglingMount' /\ DeviceInv'
    BY <1>0, <1>4 DEF MountFind, AskDetect, Post, NoDanglingMount, DeviceInv
  <2> QED BY <2>1, <2>2, <2>3 DEF IInv
<1>5. CASE MountAnswer
  <2>1. TypeOK' BY <1>0, <1>5 DEF MountAnswer, Sleep, TypeOK, Slots
  <2>2. TakeTurns' BY <1>0, <1>5 DEF MountAnswer, Sleep, TypeOK, TakeTurns, Pending
  <2>3. NoDanglingMount' /\ DeviceInv'
    BY <1>0, <1>5 DEF MountAnswer, Sleep, NoDanglingMount, DeviceInv
  <2> QED BY <2>1, <2>2, <2>3 DEF IInv
<1>6. CASE DfsMount
  <2>1. TypeOK' BY <1>0, <1>6 DEF DfsMount, Sleep, TypeOK, Slots
  <2>2. TakeTurns' BY <1>0, <1>6 DEF DfsMount, Sleep, TypeOK, TakeTurns, Pending
  <2>3. NoDanglingMount' /\ DeviceInv'
    BY <1>0, <1>6 DEF DfsMount, Sleep, NoDanglingMount, DeviceInv
  <2> QED BY <2>1, <2>2, <2>3 DEF IInv
<1>7. CASE Unmount
  <2>1. TypeOK' BY <1>0, <1>7 DEF Unmount, DfsUnmount, AskDetect, Post, TypeOK, Slots
  <2>2. TakeTurns' BY <1>0, <1>7 DEF Unmount, DfsUnmount, AskDetect, Post, TypeOK, TakeTurns, Pending
  <2>3. NoDanglingMount' /\ DeviceInv'
    BY <1>0, <1>7 DEF Unmount, DfsUnmount, AskDetect, Post, NoDanglingMount, DeviceInv
  <2> QED BY <2>1, <2>2, <2>3 DEF IInv
<1>8. CASE UnmountAnswer
  <2>1. TypeOK' BY <1>0, <1>8 DEF UnmountAnswer, TypeOK, Slots
  <2>2. TakeTurns' BY <1>0, <1>8 DEF UnmountAnswer, TypeOK, TakeTurns, Pending
  <2>3. NoDanglingMount' /\ DeviceInv'
    BY <1>0, <1>8 DEF UnmountAnswer, NoDanglingMount, DeviceInv
  <2> QED BY <2>1, <2>2, <2>3 DEF IInv
<1>9. CASE DetectRecv
  <2>1. TypeOK' BY <1>0, <1>9 DEF DetectRecv, TypeOK, Slots
  <2>2. TakeTurns' BY <1>0, <1>9 DEF DetectRecv, TypeOK, TakeTurns, Pending
  <2>3. NoDanglingMount' /\ DeviceInv'
    BY <1>0, <1>9 DEF DetectRecv, NoDanglingMount, DeviceInv
  <2> QED BY <2>1, <2>2, <2>3 DEF IInv
<1>10. CASE ProbeNothing
  <2>1. TypeOK' BY <1>0, <1>10 DEF ProbeNothing, TypeOK, Slots
  <2>2. TakeTurns' BY <1>0, <1>10 DEF ProbeNothing, TypeOK, TakeTurns, Pending
  <2>3. NoDanglingMount' /\ DeviceInv'
    BY <1>0, <1>10 DEF ProbeNothing, NoDanglingMount, DeviceInv
  <2> QED BY <2>1, <2>2, <2>3 DEF IInv
<1>11. CASE ProbeSdio
  <2>1. TypeOK' BY <1>0, <1>11 DEF ProbeSdio, TypeOK, Slots
  <2>2. TakeTurns' BY <1>0, <1>11 DEF ProbeSdio, TypeOK, TakeTurns, Pending
  <2>3. NoDanglingMount' /\ DeviceInv'
    BY <1>0, <1>11 DEF ProbeSdio, NoDanglingMount, DeviceInv
  <2> QED BY <2>1, <2>2, <2>3 DEF IInv
<1>12. CASE ProbeMemory
  <2>1. TypeOK' BY <1>0, <1>12 DEF ProbeMemory, TypeOK, Slots
  <2>2. TakeTurns' BY <1>0, <1>12 DEF ProbeMemory, TypeOK, TakeTurns, Pending
  <2>3. NoDanglingMount' /\ DeviceInv'
    BY <1>0, <1>12 DEF ProbeMemory, NoDanglingMount, DeviceInv
  <2> QED BY <2>1, <2>2, <2>3 DEF IInv
<1>13. CASE InitMemory
  <2>1. TypeOK' BY <1>0, <1>13 DEF InitMemory, SdInitCard, BlkProbe, Post, GoodCards, TypeOK, Slots
  <2>2. TakeTurns' BY <1>0, <1>13 DEF InitMemory, SdInitCard, BlkProbe, Post, GoodCards, TypeOK, TakeTurns, Pending
  <2>3. NoDanglingMount' /\ DeviceInv'
    BY <1>0, <1>13 DEF InitMemory, SdInitCard, BlkProbe, Post, GoodCards, NoDanglingMount, DeviceInv
  <2> QED BY <2>1, <2>2, <2>3 DEF IInv
<1>14. CASE DetectRemove
  <2>1. TypeOK' BY <1>0, <1>14 DEF DetectRemove, BlkRemove, DfsUnmount, Post, TypeOK, Slots
  <2>2. TakeTurns' BY <1>0, <1>14 DEF DetectRemove, BlkRemove, DfsUnmount, Post, TypeOK, TakeTurns, Pending
  <2>3. NoDanglingMount' /\ DeviceInv'
    BY <1>0, <1>14 DEF DetectRemove, BlkRemove, DfsUnmount, Post, NoDanglingMount, DeviceInv
  <2> QED BY <2>1, <2>2, <2>3 DEF IInv
<1>15. CASE MainLoad
  <2>1. TypeOK' BY <1>0, <1>15 DEF MainLoad, TypeOK, Slots
  <2>2. TakeTurns' BY <1>0, <1>15 DEF MainLoad, TypeOK, TakeTurns, Pending
  <2>3. NoDanglingMount' /\ DeviceInv'
    BY <1>0, <1>15 DEF MainLoad, NoDanglingMount, DeviceInv
  <2> QED BY <2>1, <2>2, <2>3 DEF IInv
<1>16. CASE UserAct
  <2>1. TypeOK' BY <1>0, <1>16 DEF UserAct, CardsAtHand, SimpleCards, GoodCards, TypeOK, Slots
  <2>2. TakeTurns' BY <1>0, <1>16 DEF UserAct, TypeOK, TakeTurns, Pending
  <2>3. NoDanglingMount' /\ DeviceInv'
    BY <1>0, <1>16 DEF UserAct, NoDanglingMount, DeviceInv
  <2> QED BY <2>1, <2>2, <2>3 DEF IInv
<1>17. CASE Tick
  <2>1. TypeOK' BY <1>0, <1>17 DEF Tick, Less, SdAsleep, SdWaits, DetWaits, DetBusy, MainAsleep, TypeOK, Slots
  <2>2. TakeTurns' BY <1>0, <1>17 DEF Tick, Less, SdAsleep, SdWaits, DetWaits, DetBusy, MainAsleep, TypeOK, TakeTurns, Pending
  <2>3. NoDanglingMount' /\ DeviceInv'
    BY <1>0, <1>17 DEF Tick, Less, SdAsleep, SdWaits, DetWaits, DetBusy, MainAsleep, NoDanglingMount, DeviceInv
  <2> QED BY <2>1, <2>2, <2>3 DEF IInv
<1>18. CASE DetectStuck
  <2>1. TypeOK' BY <1>0, <1>18 DEF DetectStuck, BlkRemove, DfsUnmount, TypeOK, Slots
  <2>2. TakeTurns' BY <1>0, <1>18 DEF DetectStuck, BlkRemove, DfsUnmount, TypeOK, TakeTurns, Pending
  <2>3. NoDanglingMount' /\ DeviceInv'
    BY <1>0, <1>18 DEF DetectStuck, BlkRemove, DfsUnmount, NoDanglingMount, DeviceInv
  <2> QED BY <2>1, <2>2, <2>3 DEF IInv
<1>19. CASE UNCHANGED vars
  BY <1>0, <1>19 DEF vars, IInv, TypeOK, TakeTurns, NoDanglingMount, DeviceInv, Pending
<1> QED BY <1>1, <1>2, <1>3, <1>4, <1>5, <1>6, <1>7, <1>8, <1>9, <1>10, <1>11, <1>12, <1>13, <1>14, <1>15, <1>16, <1>17, <1>18, <1>19
        DEF Next, SdNext, DetNext
-----------------------------------------------------------------------------
(* The invariant holds in every reachable state.                           *)
LEMMA IInvHolds == Spec => []IInv
BY InitIInv, StepIInv, PTL DEF Spec

(* Every variable of the hot-plug machinery keeps its type; the mailboxes  *)
(* never hold more messages than their pools.                              *)
THEOREM TypeCorrect == Spec => []TypeOK
BY IInvHolds, PTL DEF IInv

(* sd_mount and mmcsd_detect never work on the card at the same time, and  *)
(* rt_mb_send never meets a full mailbox (TakeTurns).                      *)
THEOREM ThreadsTakeTurns == Spec => []TakeTurns
BY IInvHolds, PTL DEF IInv

(* The mount on /sdcard always belongs to the registered device of the     *)
(* current card (NoDanglingMount).                                         *)
THEOREM MountHasDevice == Spec => []NoDanglingMount
BY IInvHolds, PTL DEF IInv

-----------------------------------------------------------------------------
(* The way of a patient user's card to its mount, while main() waits: the  *)
(* first 200 ms, one sleep, the poll that sees the card, its               *)
(* initialisation, the mount; and what is left of main()'s delay then.     *)
Idle == det = "recv" /\ detectMb = 0 /\ hotplugMb = 0

Bare == card = NoCard /\ sd0 = NoCard /\ mnt = NoCard

Approach ==
    \/ /\ sd = "boot" /\ re = 1 /\ Idle /\ Bare
       /\ mainLeft >= MainDelay - 1 + sdLeft
    \/ /\ sd = "sleep" /\ re = 1 /\ Idle /\ Bare
       /\ mainLeft >= MainDelay - 2 + sdLeft
    \/ /\ sd \in {"poll", "find"} /\ re = (IF sd = "poll" THEN 1 ELSE 0)
       /\ Idle /\ Bare
       /\ mainLeft >= MainDelay - 2

Detection ==
    /\ sd = "waitMount" /\ re = 0 /\ mnt = NoCard
    /\ \/ /\ det = "recv" /\ detectMb = 1 /\ hotplugMb = 0 /\ Bare
          /\ mainLeft >= MainDelay - 2
       \/ /\ det \in {"probe", "init"} /\ detectMb = 0 /\ hotplugMb = 0 /\ Bare
          /\ mainLeft >= MainDelay - 2 - MaxInit + detLeft
       \/ /\ det = "recv" /\ detectMb = 0 /\ hotplugMb = 1 /\ sd0 = slot
          /\ mainLeft >= MainDelay - 2 - MaxInit

Mounting ==
    /\ sd = "mount" /\ re = 0 /\ Idle /\ sd0 = slot /\ mnt = NoCard
    /\ mainLeft >= MainDelay - 2 - MaxInit

Mounted == sd \in {"sleep", "poll"} /\ re = 0 /\ Idle /\ mnt = slot

LoadInv ==
    user = "patient" =>
        /\ main = "wait" => /\ slot \in SimpleCards
                            /\ Approach \/ Detection \/ Mounting \/ Mounted
        /\ main = "play" => model # NoCard

(* At power-up main()'s delay is whole.                                    *)
LEMMA InitLoadInv == Init => LoadInv
BY CardAssumption, BoundAssumption
   DEF Init, LoadInv, Approach, Idle, Bare, SimpleCards, GoodCards

(* Every step, time included, brings the card nearer to its mount.         *)
LEMMA StepLoadInv ==
    ASSUME MainDelay > MaxInit + 2, IInv, LoadInv, [Next]_vars
    PROVE  LoadInv'
<1> USE CardAssumption, BoundAssumption DEF world, sdVars, detVars, mainVars
<1>0. TypeOK
  BY DEF IInv
<1>1. CASE UNCHANGED vars
  BY <1>1 DEF vars, LoadInv, Approach, Detection, Mounting, Mounted, Idle, Bare
<1>2. user' = user
  BY <1>1 DEF Next, SdNext, DetNext, SdBoot, PollRemoved, PollInserted, MountFind,
     MountAnswer, DfsMount, Unmount, UnmountAnswer, DetectRecv, ProbeNothing, ProbeSdio,
     ProbeMemory, InitMemory, DetectRemove, DetectStuck, MainLoad, UserAct, Tick, vars
<1>3. CASE user # "patient"
  BY <1>2, <1>3 DEF LoadInv
<1>4. CASE Next /\ user = "patient" /\ main = "play"
  BY <1>2, <1>4 DEF LoadInv, Next, SdNext, DetNext, SdBoot, PollRemoved, PollInserted,
     MountFind, MountAnswer, DfsMount, Unmount, UnmountAnswer, DetectRecv, ProbeNothing,
     ProbeSdio, ProbeMemory, InitMemory, DetectRemove, DetectStuck, MainLoad, UserAct, Tick
<1>5. CASE Next /\ user = "patient" /\ main = "wait"
  <2> USE <1>0, <1>2, <1>5
  <2>0. /\ slot \in SimpleCards /\ slot # NoCard /\ slot \in GoodCards
        /\ slot \notin SdioCards /\ slot \in Cards \ SdioCards /\ Pin = 0
        /\ Approach \/ Detection \/ Mounting \/ Mounted
    BY DEF LoadInv, SimpleCards, GoodCards, Pin
  <2>a. mainLeft \in Nat /\ sdLeft \in 0..1 /\ detLeft \in 0..MaxInit
    BY DEF TypeOK
  <2>1. CASE MainLoad
    <3>1. Mounted
      BY <2>0, <2>1, <2>a DEF MainLoad, Approach, Detection, Mounting
    <3> QED BY <3>1, <2>0, <2>1 DEF MainLoad, Mounted, LoadInv
  <2>2. CASE UserAct
    BY <2>2 DEF UserAct, UserMay
  <2>3. CASE Tick
    <3>1. /\ UNCHANGED <<user, slot, sd, re, det, detectMb, hotplugMb, card, sd0, mnt, main>>
          /\ mainLeft > 0 /\ mainLeft' = mainLeft - 1
          /\ sdLeft > 0 => sdLeft' = sdLeft - 1
          /\ detLeft > 0 => detLeft' = detLeft - 1
      BY <2>3, <2>a DEF Tick, Less, MainAsleep
    <3>2. (SdAsleep \/ SdWaits) /\ (DetWaits \/ DetBusy)
      BY <2>3 DEF Tick
    <3>3. CASE Approach
      BY <3>1, <3>2, <3>3, <2>0, <2>a
      DEF SdAsleep, SdWaits, Approach, Idle, Bare, LoadInv
    <3>4. CASE Detection
      BY <3>1, <3>2, <3>4, <2>0, <2>a
      DEF SdAsleep, SdWaits, DetWaits, DetBusy, Detection, Bare, LoadInv
    <3>5. CASE Mounting
      BY <3>1, <3>2, <3>5 DEF SdAsleep, SdWaits, Mounting
    <3>6. CASE Mounted
      BY <3>1, <3>6, <2>0 DEF Mounted, Idle, LoadInv
    <3> QED BY <2>0, <3>3, <3>4, <3>5, <3>6
  <2>4. CASE SdNext
    <3>1. CASE Approach
      BY <2>0, <2>a, <2>4, <3>1
      DEF SdNext, SdBoot, PollRemoved, PollInserted, MountFind, MountAnswer, DfsMount,
          Unmount, UnmountAnswer, Sleep, AskDetect, Post, Approach, Detection, Idle, Bare, LoadInv
    <3>2. CASE Detection
      BY <2>0, <2>a, <2>4, <3>2
      DEF SdNext, SdBoot, PollRemoved, PollInserted, MountFind, MountAnswer, DfsMount,
          Unmount, UnmountAnswer, Detection, Mounting, Idle, Bare, LoadInv
    <3>3. CASE Mounting
      BY <2>0, <2>a, <2>4, <3>3
      DEF SdNext, SdBoot, PollRemoved, PollInserted, MountFind, MountAnswer, DfsMount,
          Unmount, UnmountAnswer, Sleep, Mounting, Mounted, Idle, LoadInv
    <3>4. CASE Mounted
      BY <2>0, <2>a, <2>4, <3>4
      DEF SdNext, SdBoot, PollRemoved, PollInserted, MountFind, MountAnswer, DfsMount,
          Unmount, UnmountAnswer, Sleep, Mounted, Idle, LoadInv
    <3> QED BY <2>0, <3>1, <3>2, <3>3, <3>4
  <2>5. CASE DetNext
    <3>1. Detection
      BY <2>0, <2>5
      DEF DetNext, DetectRecv, ProbeNothing, ProbeSdio, ProbeMemory, InitMemory,
          DetectRemove, DetectStuck, Approach, Mounting, Mounted, Idle
    <3> QED
      BY <2>0, <2>a, <2>5, <3>1
      DEF DetNext, DetectRecv, ProbeNothing, ProbeSdio, ProbeMemory, InitMemory,
          DetectRemove, DetectStuck, SdInitCard, BlkProbe, Post, Detection, Bare, LoadInv
  <2> QED BY <1>5, <2>1, <2>2, <2>3, <2>4, <2>5 DEF Next
<1> QED BY <1>0, <1>1, <1>3, <1>4, <1>5 DEF TypeOK

(* The wait of main() is long enough for the card a patient user left in   *)
(* the slot, if it exceeds the time of a card initialisation by more than  *)
(* the two periods that sd_mount needs to see the card (WaitsForMount).    *)
THEOREM LoadFindsMount ==
    ASSUME MainDelay > MaxInit + 2
    PROVE  Spec => []WaitsForMount
<1>1. Init => IInv /\ LoadInv
  BY InitIInv, InitLoadInv
<1>2. IInv /\ LoadInv /\ [Next]_vars => (IInv /\ LoadInv)'
  BY StepIInv, StepLoadInv
<1>3. LoadInv => WaitsForMount
  BY DEF LoadInv, WaitsForMount
<1> QED BY <1>1, <1>2, <1>3, PTL DEF Spec
-----------------------------------------------------------------------------
(* What main() does once its wait is over: the module LiveMain.            *)

(* The file, its buffer and PX_IO_Data through PX_LoadFileToIOData, the    *)
(* import and PX_FreeIOData: the buffer is allocated exactly while io or   *)
(* the read to come knows it, and a file left open has no buffer.          *)
FileInv ==
    /\ pool <=> (io.buffer # NULL \/ pc = "read")
    /\ io.size = IF io.buffer = NULL THEN 0 ELSE fileSize
    /\ pc \in {"open", "malloc", "read"} => io = NoData /\ ~imported
    /\ pc = "open" => ~fd
    /\ pc \in {"open", "malloc"} => ~pool
    /\ pc \in {"import", "free", "loop"} /\ fd =>
          ~pool /\ io = NoData /\ ~imported
    /\ pc = "loop" /\ pool => fileSize = 0

(* The counter tells how many frames of the animation have been rendered;  *)
(* in the first animation, which the counter enters at 1, it is one ahead. *)
RoundInv ==
    /\ pc \notin {"loop", "returned"} => count = 1 /\ anim = 1 /\ shown = 0
    /\ pc = "loop" => \/ shown = (count % Period) + 1
                      \/ /\ count \in 1..Period /\ (count = 1 \/ count < Period)
                         /\ shown = count - 1

LiveInv == LiveTypeOK /\ FileInv /\ RoundInv

(* The remainder of the next number, for any divisor.                      *)
LEMMA NextRemainder ==
    ASSUME NEW n \in Int, NEW m \in Int, m = n + 1, NEW p \in Nat \ {0}
    PROVE  /\ n % p \in 0..(p - 1)
           /\ m % p = IF n % p = p - 1 THEN 0 ELSE (n % p) + 1
<1> DEFINE q == n \div p   r == n % p   u == m \div p   v == m % p
<1>1. q \in Int /\ r \in 0..(p - 1) /\ n = p * q + r
  BY SMT
<1>2. u \in Int /\ v \in 0..(p - 1) /\ m = p * u + v
  BY SMT
<1> HIDE DEF q, r, u, v
<1>3. p * (u - q) = r + 1 - v
  BY <1>1, <1>2, SMT
<1>4. u - q = 0 \/ u - q = 1
  <2>1. ~(u - q <= -1)
    <3>1. u - q <= -1 => p * (u - q) <= -p
      BY <1>1, <1>2, SMT
    <3> QED BY <3>1, <1>1, <1>2, <1>3
  <2>2. ~(u - q >= 2)
    <3>1. u - q >= 2 => p * (u - q) >= 2 * p
      BY <1>1, <1>2, SMT
    <3> QED BY <3>1, <1>1, <1>2, <1>3
  <2> QED BY <2>1, <2>2, <1>1, <1>2
<1>5. CASE u - q = 0
  <2>1. v = r + 1
    BY <1>1, <1>2, <1>3, <1>5
  <2> QED BY <2>1, <1>1, <1>2 DEF r, v
<1>6. CASE u - q = 1
  <2>1. v = 0 /\ r = p - 1
    BY <1>1, <1>2, <1>3, <1>6
  <2> QED BY <2>1, <1>1, <1>2 DEF r, v
<1> QED BY <1>4, <1>5, <1>6

(* A number less than the divisor is its own remainder.                    *)
LEMMA SmallRemainder ==
    ASSUME NEW n \in Nat, NEW p \in Nat \ {0}, n < p
    PROVE  n % p = n
<1> DEFINE q == n \div p   r == n % p
<1>1. q \in Int /\ r \in 0..(p - 1) /\ n = p * q + r
  BY SMT
<1> HIDE DEF q, r
<1>2. q = 0
  <2>1. q <= -1 => p * q <= -p
    BY <1>1, SMT
  <2>2. q >= 1 => p * q >= p
    BY <1>1, SMT
  <2> QED BY <2>1, <2>2, <1>1
<1> QED BY <1>1, <1>2 DEF r

(* main() starts with the file closed, nothing allocated, no frame shown.  *)
LEMMA InitLiveInv == LiveInit => LiveInv
<1> SUFFICES ASSUME LiveInit PROVE LiveInv OBVIOUS
<1>1. LiveTypeOK
  <2>1. count \in (-IntMax - 1)..IntMax /\ anim \in 1..Anims /\ shown \in 0..Period
    BY LoopAssumption DEF LiveInit
  <2>2. io \in [buffer : {NULL, "raw", "file"}, size : FileSizes \cup {0}]
    BY DEF LiveInit, NoData
  <2>3. fd \in BOOLEAN /\ pool \in BOOLEAN /\ imported \in BOOLEAN
    BY DEF LiveInit
  <2> QED BY <2>1, <2>2, <2>3 DEF LiveInit, LiveTypeOK
<1>2. FileInv
  BY DEF LiveInit, NoData, NULL, FileInv
<1>3. RoundInv
  BY DEF LiveInit, RoundInv
<1> QED BY <1>1, <1>2, <1>3 DEF LiveInv

(* count++ follows the remainder: it wraps where an animation starts.      *)
LEMMA NextCount ==
    ASSUME LiveTypeOK
    PROVE  LET next == Increment(count) IN
           /\ next \in (-IntMax - 1)..IntMax
           /\ count % Period \in 0..(Period - 1)
           /\ next % Period = IF count % Period = Period - 1 THEN 0
                              ELSE (count % Period) + 1
           /\ next = count + 1 \/ count % Period = Period - 1
<1>1. /\ IntMax \in Nat \ {0} /\ Period \in Nat \ {0}
      /\ (IntMax + 1) % Period = 0
      /\ count \in (-IntMax - 1)..IntMax
  BY LoopAssumption DEF LiveTypeOK
<1> DEFINE m == count + 1
           top == IntMax + 1
           bottom == -IntMax - 1
<1>2. /\ count % Period \in 0..(Period - 1)
      /\ m % Period = IF count % Period = Period - 1 THEN 0 ELSE (count % Period) + 1
  <2>1. count \in Int /\ m \in Int /\ m = count + 1
    BY <1>1
  <2> HIDE DEF m
  <2> QED BY <2>1, <1>1, NextRemainder
<1>3. bottom % Period = 0
  <2> DEFINE q == top \div Period   u == bottom \div Period   v == bottom % Period
  <2>1. top % Period = 0 /\ top \in Int /\ bottom \in Int /\ bottom = -top
    BY <1>1
  <2> HIDE DEF top, bottom
  <2>2. q \in Int /\ top = Period * q
    BY <2>1, <1>1, SMT
  <2>3. u \in Int /\ v \in 0..(Period - 1) /\ bottom = Period * u + v
    BY <2>1, <1>1, SMT
  <2> HIDE DEF q, u, v
  <2>4. Period * (q + u) = -v
    BY <2>1, <2>2, <2>3, <1>1, SMT
  <2>5. q + u = 0
    <3>1. q + u <= -1 => Period * (q + u) <= -Period
      BY <2>2, <2>3, <1>1, SMT
    <3>2. q + u >= 1 => Period * (q + u) >= Period
      BY <2>2, <2>3, <1>1, SMT
    <3> QED BY <3>1, <3>2, <2>2, <2>3, <2>4, <1>1
  <2>6. v = 0
    BY <2>3, <2>4, <2>5, <1>1
  <2> QED BY <2>6 DEF v
<1>4. CASE count = IntMax
  <2>1. m % Period = 0 /\ Increment(count) = bottom
    BY <1>1, <1>4 DEF Increment
  <2>2. count % Period = Period - 1
    BY <2>1, <1>1, <1>2
  <2> QED BY <2>1, <2>2, <1>1, <1>2, <1>3
<1>5. CASE count # IntMax
  <2>1. Increment(count) = m /\ m \in (-IntMax - 1)..IntMax
    BY <1>1, <1>5 DEF Increment
  <2> HIDE DEF m
  <2> QED BY <2>1, <1>1, <1>2 DEF m
<1> QED BY <1>4, <1>5

(* Every call of the loader and every round of the loop keeps them.        *)
LEMMA StepLiveInv ==
    ASSUME LiveInv, [LiveNext]_liveVars
    PROVE  LiveInv'
<1>0. LiveTypeOK /\ FileInv /\ RoundInv
  BY DEF LiveInv
<1>1. CASE Open
  <2>1. LiveTypeOK'
    BY <1>0, <1>1 DEF Open, May, NoData, NULL, LiveTypeOK
  <2>2. FileInv' /\ RoundInv'
    BY <1>0, <1>1 DEF Open, May, NoData, NULL, FileInv, RoundInv, LiveTypeOK
  <2> QED BY <2>1, <2>2 DEF LiveInv
<1>2. CASE Malloc
  <2>1. LiveTypeOK'
    BY <1>0, <1>2 DEF Malloc, May, LiveTypeOK
  <2>2. FileInv' /\ RoundInv'
    BY <1>0, <1>2 DEF Malloc, May, NoData, NULL, FileInv, RoundInv, LiveTypeOK
  <2> QED BY <2>1, <2>2 DEF LiveInv
<1>3. CASE Read
  <2>1. LiveTypeOK'
    <3>1. io' \in [buffer : {NULL, "raw", "file"}, size : FileSizes \cup {0}]
      BY <1>0, <1>3 DEF Read, LiveTypeOK
    <3>2. fd' \in BOOLEAN /\ pool' \in BOOLEAN
      BY <1>0, <1>3 DEF Read, LiveTypeOK
    <3> QED BY <1>0, <1>3, <3>1, <3>2 DEF Read, LiveTypeOK
  <2>2. FileInv' /\ RoundInv'
    BY <1>0, <1>3 DEF Read, May, NoData, NULL, FileInv, RoundInv, LiveTypeOK
  <2> QED BY <2>1, <2>2 DEF LiveInv
<1>4. CASE Import
  <2>1. LiveTypeOK'
    BY <1>0, <1>4 DEF Import, LiveTypeOK
  <2>2. FileInv' /\ RoundInv'
    BY <1>0, <1>4 DEF Import, NoData, NULL, FileInv, RoundInv, LiveTypeOK
  <2> QED BY <2>1, <2>2 DEF LiveInv
<1>5. CASE Free
  <2>1. LiveTypeOK'
    <3>1. io' \in [buffer : {NULL, "raw", "file"}, size : FileSizes \cup {0}]
      BY <1>0, <1>5 DEF Free, NoData, LiveTypeOK
    <3>2. fd' \in BOOLEAN /\ pool' \in BOOLEAN
      BY <1>0, <1>5 DEF Free, LiveTypeOK
    <3> QED BY <1>0, <1>5, <3>1, <3>2 DEF Free, LiveTypeOK
  <2>2. FileInv'
    BY <1>0, <1>5 DEF Free, NoData, NULL, FileInv, LiveTypeOK
  <2>3. RoundInv'
    BY <1>0, <1>5, LoopAssumption DEF Free, RoundInv
  <2> QED BY <2>1, <2>2, <2>3 DEF LiveInv
<1>6. CASE Frame
  <2> DEFINE next == Increment(count)   r == count % Period   s == next % Period
  <2>1. /\ next \in (-IntMax - 1)..IntMax /\ (next = count + 1 \/ r = Period - 1)
        /\ r \in 0..(Period - 1) /\ s = IF r = Period - 1 THEN 0 ELSE r + 1
    BY <1>0, NextCount
  <2>2. /\ IntMax \in Nat \ {0} /\ Period \in Nat \ {0} /\ Anims \in Nat \ {0}
        /\ anim \in 1..Anims /\ count \in (-IntMax - 1)..IntMax /\ shown \in 0..Period
    BY <1>0, LoopAssumption DEF LiveTypeOK
  <2>3. shown = r + 1 \/ (count \in 1..Period /\ (count = 1 \/ count < Period) /\ shown = count - 1)
    BY <1>0, <1>6 DEF Frame, RoundInv
  <2>4. /\ pc = "loop" /\ pc' = "loop" /\ count' = next /\ UNCHANGED <<fileSize, fd, pool, io, imported>>
        /\ \/ s = 0 /\ anim' = NextAnim(anim) /\ shown' = 1
           \/ s # 0 /\ shown' = shown + 1 /\ anim' = anim
    BY <1>6 DEF Frame, SwitchNow, load
  <2>5. NextAnim(anim) \in 1..Anims
    BY <2>2 DEF NextAnim
  <2>5a. count \in 1..Period /\ count < Period => r = count
    BY <2>2, SmallRemainder
  <2> HIDE DEF next, r, s
  <2>6. shown' = s + 1 \/ (count' \in 1..Period /\ (count' = 1 \/ count' < Period) /\ shown' = count' - 1)
    <3>1. CASE s = 0
      BY <2>4, <3>1
    <3>2. CASE s # 0 /\ shown = r + 1
      BY <2>1, <2>4, <3>2
    <3>3. CASE s # 0 /\ shown # r + 1
      <4>1. count \in 1..Period /\ (count = 1 \/ count < Period) /\ shown = count - 1 /\ r < Period - 1
        BY <2>1, <2>2, <2>3, <3>3
      <4>2. r = count
        BY <2>1, <2>2, <2>5a, <4>1
      <4> QED BY <2>1, <2>2, <2>4, <3>3, <4>1, <4>2
    <3> QED BY <3>1, <3>2, <3>3
  <2>7. shown' \in 0..Period
    BY <2>1, <2>2, <2>4, <2>6
  <2>8. LiveTypeOK'
    <3>1. anim' \in 1..Anims
      BY <2>2, <2>4, <2>5
    <3> QED BY <1>0, <2>1, <2>4, <2>7, <3>1 DEF LiveTypeOK
  <2>9. FileInv'
    BY <1>0, <2>4 DEF FileInv
  <2>10. RoundInv'
    BY <2>4, <2>6 DEF RoundInv, s, next
  <2> QED BY <2>8, <2>9, <2>10 DEF LiveInv
<1>7. CASE Return
  <2>1. LiveTypeOK'
    BY <1>0, <1>7, LoopAssumption DEF Return, load, LiveTypeOK
  <2>2. FileInv' /\ RoundInv'
    BY <1>0, <1>7 DEF Return, load, FileInv, RoundInv
  <2> QED BY <2>1, <2>2 DEF LiveInv
<1>8. CASE UNCHANGED liveVars
  BY <1>0, <1>8 DEF liveVars, load, LiveTypeOK, FileInv, RoundInv, LiveInv
<1> QED BY <1>1, <1>2, <1>3, <1>4, <1>5, <1>6, <1>7, <1>8 DEF LiveNext

LEMMA LiveInvariance == LiveSpec => []LiveInv
<1>1. LiveInit => LiveInv
  BY InitLiveInv
<1>2. LiveInv /\ [LiveNext]_liveVars => LiveInv'
  BY StepLiveInv
<1> QED BY <1>1, <1>2, PTL DEF LiveSpec

(* main() keeps its types, for any animations, faults and width of an int, *)
(* and no animation is rendered more than Period times (LiveTypeOK).       *)
THEOREM LiveTypeCorrect == LiveSpec => []LiveTypeOK
<1>1. LiveInv => LiveTypeOK
  BY DEF LiveInv
<1> QED BY <1>1, LiveInvariance, PTL

(* When the loop starts nothing is left over but the buffer of an empty    *)
(* file, and the file if its buffer could not be had (OnlyKnownLeaks).     *)
THEOREM OnlyTwoLeaks == LiveSpec => []OnlyKnownLeaks
<1>1. LiveInv => OnlyKnownLeaks
  BY DEF LiveInv, FileInv, OnlyKnownLeaks, NoData, NULL
<1> QED BY <1>1, LiveInvariance, PTL

(* Whatever the width of count, also past its overflow, an animation but   *)
(* the first has been rendered Period times when the next one starts       *)
(* (LaterAnimsInFull).                                                     *)
THEOREM AnimsInFull == LiveSpec => LaterAnimsInFull
<1> DEFINE Full == anim' # anim /\ (count > Period \/ count < 0) => shown = Period
<1>1. LiveInv /\ [LiveNext]_liveVars => [Full]_liveVars
  <2> SUFFICES ASSUME LiveInv, LiveNext, anim' # anim, count > Period \/ count < 0
               PROVE  shown = Period
    OBVIOUS
  <2> DEFINE next == Increment(count)   r == count % Period   s == next % Period
  <2>1. Frame
    BY DEF LiveNext, Open, Malloc, Read, Import, Free, Return
  <2>2. s = 0
    BY <2>1 DEF Frame, SwitchNow
  <2>3. r \in 0..(Period - 1) /\ s = IF r = Period - 1 THEN 0 ELSE r + 1
    BY NextCount DEF LiveInv
  <2>4. shown = r + 1
    BY <2>1, LoopAssumption DEF Frame, LiveInv, RoundInv
  <2>5. Period \in Nat \ {0}
    BY LoopAssumption
  <2> HIDE DEF r, s
  <2> QED BY <2>2, <2>3, <2>4, <2>5
<1> QED BY <1>1, LiveInvariance, PTL DEF LiveSpec, LaterAnimsInFull
=============================================================================
