------------------------------ MODULE LiveMain ------------------------------
(***************************************************************************)
(* main() of applications/main.c: the model file is loaded into the        *)
(* renderer's memory pool, imported and released, and the render loop      *)
(* plays the animations in turn.  Every result is only logged, so each     *)
(* error path ends in the render loop.  Some names start with Live because *)
(* SdHotplugProofs speaks of this module and of SdHotplug.                 *)
(***************************************************************************)
EXTENDS Integers

CONSTANTS
    Faults,     \* which calls may fail: a subset of FaultNames
    FileSizes,  \* possible sizes of release.live
    Anims,      \* number of animations (32)
    Period,     \* count % Period selects the next one (8)
    IntMax      \* largest value of the C int "count"

FaultNames == {"open", "malloc", "read"}

(* Eight divides 2^31: the overflow of count falls on a change of anim.     *)
ASSUME LoopAssumption ==
    /\ Anims \in Nat \ {0} /\ Period \in Nat \ {0}
    /\ IntMax \in Nat \ {0} /\ (IntMax + 1) % Period = 0
    /\ FileSizes \subseteq Nat /\ Faults \subseteq FaultNames

VARIABLES
    pc,        \* where main() is
    fileSize,  \* size of release.live on the card
    fd,        \* the file descriptor pf is open
    pool,      \* the file buffer is allocated from px_mp
    io,        \* PX_IO_Data: [buffer, size], buffer is NULL, "raw" or "file"
    imported,  \* result of PX_LiveFrameworkImport
    count,     \* the loop counter
    anim,      \* anim_index, the animation being played
    shown      \* frames rendered of the current animation

load == <<fileSize, fd, pool, io, imported>>
liveVars == <<pc, load, count, anim, shown>>

NULL == "null"
NoData == [buffer |-> NULL, size |-> 0]

May(f) == IF f \in Faults THEN BOOLEAN ELSE {FALSE}   \* may call f fail?

LiveInit ==
    /\ pc = "open" /\ fileSize \in FileSizes
    /\ fd = FALSE /\ pool = FALSE /\ io = NoData /\ imported = FALSE
    /\ count = 1 /\ anim = 1 /\ shown = 0

-----------------------------------------------------------------------------
(* PX_LoadFileToIOData                                                     *)

Open ==
    /\ pc = "open"
    /\ \E failed \in May("open") :
          /\ fd' = ~failed
          /\ io' = NoData
          /\ pc' = IF failed THEN "import" ELSE "malloc"
    /\ UNCHANGED <<fileSize, pool, imported, count, anim, shown>>

(* fstat and MP_Malloc(filesize + 1); the error path does not close pf.    *)
Malloc ==
    /\ pc = "malloc"
    /\ \E failed \in May("malloc") :
          /\ pool' = ~failed
          /\ pc' = IF failed THEN "import" ELSE "read"
    /\ UNCHANGED <<fileSize, fd, io, imported, count, anim, shown>>

ReadWithoutClose ==
    /\ pc = "read"
    /\ \E failed \in May("read") :
          io' = [buffer |-> IF failed THEN "raw" ELSE "file", size |-> fileSize]
    /\ pc' = "import"
    /\ UNCHANGED <<fileSize, fd, pool, imported, count, anim, shown>>

(* read, whose result is ignored, and close.                               *)
Read ==
    /\ pc = "read"
    /\ \E failed \in May("read") :
          io' = [buffer |-> IF failed THEN "raw" ELSE "file", size |-> fileSize]
    /\ fd' = FALSE
    /\ pc' = "import"
    /\ UNCHANGED <<fileSize, pool, imported, count, anim, shown>>

(* PX_LiveFrameworkImport (external): it takes a non-empty model file.     *)
Import ==
    /\ pc = "import"
    /\ imported' = (io.buffer = "file" /\ io.size > 0)
    /\ pc' = "free"
    /\ UNCHANGED <<fileSize, fd, pool, io, count, anim, shown>>

(* PX_FreeIOData, then PX_LiveFrameworkPlay and the first animation.       *)
Free ==
    /\ pc = "free"
    /\ \/ io.size # 0 /\ io.buffer # NULL /\ pool' = FALSE /\ io' = NoData
       \/ ~(io.size # 0 /\ io.buffer # NULL) /\ UNCHANGED <<pool, io>>
    /\ pc' = "loop"
    /\ UNCHANGED <<fileSize, fd, imported, count, anim, shown>>

-----------------------------------------------------------------------------
(* The render loop                                                         *)

(* count++ on a two's-complement int: past the largest value it wraps.     *)
Increment(n) == IF n = IntMax THEN -IntMax - 1 ELSE n + 1

NextAnimUnbounded(a) == a + 1

NextAnimSkipsLast(a) == IF a + 1 >= Anims THEN 1 ELSE a + 1

NextAnim(a) == IF a + 1 > Anims THEN 1 ELSE a + 1

SwitchNowEarly(n) == n % Period \in {0, 1}

SwitchNow(n) == n % Period = 0

(* One round: while (count++), the choice of the animation, the frame.     *)
(* A round with count = 0 is possible too: the counter gets there only by  *)
(* a signed overflow, which lets the compiler drop the test.               *)
Frame ==
    /\ pc = "loop"
    /\ count' = Increment(count)
    /\ \/ /\ SwitchNow(count') /\ anim' = NextAnim(anim) /\ shown' = 1
       \/ /\ ~SwitchNow(count') /\ shown' = shown + 1 /\ UNCHANGED anim
    /\ UNCHANGED <<pc, load>>

(* while (count++) with count = 0, the test kept: main() returns.          *)
Return ==
    /\ pc = "loop" /\ count = 0
    /\ pc' = "returned" /\ count' = 1
    /\ UNCHANGED <<load, anim, shown>>

LiveNext == Open \/ Malloc \/ Read \/ Import \/ Free \/ Frame \/ Return

LiveSpec == LiveInit /\ [][LiveNext]_liveVars

LiveFairSpec == LiveSpec /\ WF_liveVars(LiveNext)

-----------------------------------------------------------------------------
LiveTypeOK ==
    /\ pc \in {"open", "malloc", "read", "import", "free", "loop", "returned"}
    /\ fileSize \in FileSizes /\ fd \in BOOLEAN /\ pool \in BOOLEAN
    /\ io \in [buffer : {NULL, "raw", "file"}, size : FileSizes \cup {0}]
    /\ imported \in BOOLEAN
    /\ count \in (-IntMax - 1)..IntMax
    /\ anim \in 1..Anims
    /\ shown \in 0..Period

(* When the render loop starts, the file buffer is back in the pool the    *)
(* renderer draws from unless the file was empty (PX_FreeIOData tests the  *)
(* size), and the file is closed unless its buffer could not be allocated. *)
OnlyKnownLeaks ==
    pc = "loop" => /\ pool => fileSize = 0
                   /\ fd => ~pool /\ io = NoData /\ ~imported

(* Every animation but the one main() starts with is rendered Period times *)
(* before the next one starts; the first gets only six, the counter being  *)
(* 2 in the first round.                                                   *)
LaterAnimsInFull ==
    [][anim' # anim /\ (count > Period \/ count < 0) => shown = Period]_liveVars

(* The animations follow each other in a circle as long as main() runs.    *)
AllPlayed ==
    \A a \in 1..Anims :
        (pc = "loop" /\ anim = a) ~> (anim = (a % Anims) + 1 \/ pc = "returned")
=============================================================================
