----------------------------- MODULE SdHotplug ------------------------------
(***************************************************************************)
(* SD card hot plugging: the thread sd_mount of drivers/filesystem.c,      *)
(* which samples the card-detect pin every 200 ms, the thread mmcsd_detect *)
(* of the MMC/SD core, the two mailboxes between them, the block device    *)
(* "sd0", the mount on /sdcard, and the main thread, which sleeps 1000 ms  *)
(* and then loads the model from the card.                                 *)
(*                                                                         *)
(* The message sent to mmcsd_detect says only that something changed; what *)
(* is done about it depends on host->card, never on the pin.               *)
(*                                                                         *)
(* Time is counted in units of 200 ms and passes only when every thread    *)
(* sleeps or waits.                                                        *)
(***************************************************************************)
EXTENDS Integers

CONSTANTS
    Cards,      \* the cards a user may push into the slot
    BadCards,   \* those that answer but whose initialisation fails
    SdioCards,  \* those that are SDIO devices, not memories
    SplitCards, \* readable cards with two partitions or more
    NoCard,     \* an empty slot, host->card = RT_NULL, nothing mounted
    BootSlots,  \* what may be in the slot at power-up
    UserModes,  \* the users to consider, see UserMay
    MbSize,     \* size of both mailbox pools (4)
    MaxInit,    \* units mmcsd_detect may need to initialise a card
    MainDelay   \* units main() waits for the card (5)

ASSUME CardAssumption ==
    /\ NoCard \notin Cards
    /\ BadCards \subseteq Cards /\ SdioCards \subseteq Cards
    /\ BadCards \cap SdioCards = {}
    /\ SplitCards \subseteq Cards \ (BadCards \cup SdioCards)
    /\ BootSlots \subseteq Cards \cup {NoCard}
ASSUME BoundAssumption ==
    /\ MbSize \in Nat \ {0} /\ MaxInit \in Nat /\ MainDelay \in Nat
    /\ UserModes \subseteq {"hectic", "calm", "patient"}

VARIABLES
    user,       \* who handles the cards: a member of UserModes, never changed
    slot,       \* the card in the slot: the pin reads low when there is one
    sd,         \* where sd_mount is
    sdLeft,     \* units until its rt_thread_mdelay ends
    re,         \* re_sd_check_pin
    det,        \* where mmcsd_detect is
    detLeft,    \* units left for the card initialisation in progress
    detectMb,   \* messages in mmcsd_detect_mb
    hotplugMb,  \* messages in mmcsd_hotpluge_mb
    card,       \* host->card
    sd0,        \* the card behind the registered device "sd0"
    mnt,        \* the card behind the mount on /sdcard
    main,       \* where main() is
    mainLeft,   \* units until its rt_thread_mdelay(1000) ends
    model       \* the card release.live was loaded from

vars == <<user, slot, sd, sdLeft, re, det, detLeft, detectMb, hotplugMb,
          card, sd0, mnt, main, mainLeft, model>>

world    == <<user, slot>>
sdVars   == <<sd, sdLeft, re>>
detVars  == <<det, detLeft, card, sd0>>
mainVars == <<main, mainLeft, model>>

GoodCards   == Cards \ (BadCards \cup SdioCards)
SimpleCards == GoodCards \ SplitCards

(* A patient user has a readable card of one partition in the slot at      *)
(* power-up and uses no other kind.                                        *)
CardsAtHand == IF user = "patient" THEN SimpleCards ELSE Cards

Pin == IF slot = NoCard THEN 1 ELSE 0   \* rt_pin_read(SD_CHECK_PIN), pulled up

(* rt_mb_send: a full mailbox refuses the message, and nobody looks.       *)
Post(mb) == IF mb < MbSize THEN mb + 1 ELSE mb

Init ==
    /\ user \in UserModes
    /\ slot \in BootSlots /\ (user = "patient" => slot \in SimpleCards)
    /\ sd = "boot" /\ sdLeft = 1 /\ re = 1
    /\ det = "recv" /\ detLeft = 0
    /\ detectMb = 0 /\ hotplugMb = 0
    /\ card = NoCard /\ sd0 = NoCard /\ mnt = NoCard
    /\ main = "wait" /\ mainLeft = MainDelay /\ model = NoCard

-----------------------------------------------------------------------------
(* The thread sd_mount                                                     *)

Sleep(units) == sd' = "sleep" /\ sdLeft' = units

(* After the first 200 ms: a high pin, no card, calls _sdcard_mount.       *)
SdBoot ==
    /\ sd = "boot" /\ sdLeft = 0
    /\ \/ Pin = 1 /\ sd' = "find" /\ UNCHANGED sdLeft
       \/ Pin = 0 /\ Sleep(1)
    /\ UNCHANGED <<world, re, detVars, detectMb, hotplugMb, mnt, mainVars>>

(* The first test of the loop: the pin went high, the card was removed.    *)
PollRemoved ==
    /\ sd = "sleep" /\ sdLeft = 0
    /\ \/ re = 0 /\ Pin = 1 /\ re' = 1 /\ sd' = "unmount" /\ sdLeft' = 1
       \/ ~(re = 0 /\ Pin = 1) /\ sd' = "poll" /\ UNCHANGED <<re, sdLeft>>
    /\ UNCHANGED <<world, detVars, detectMb, hotplugMb, mnt, mainVars>>

(* The second test: the pin went low, a card was inserted.                 *)
PollInserted ==
    /\ sd = "poll"
    /\ \/ re = 1 /\ Pin = 0 /\ re' = 0 /\ sd' = "find" /\ UNCHANGED sdLeft
       \/ ~(re = 1 /\ Pin = 0) /\ Sleep(1) /\ UNCHANGED re
    /\ UNCHANGED <<world, detVars, detectMb, hotplugMb, mnt, mainVars>>

AskDetectTwice ==
    /\ hotplugMb' = hotplugMb
    /\ detectMb' = Post(Post(detectMb))

AskDetectUnderflow ==
    /\ hotplugMb' = hotplugMb - 1
    /\ detectMb' = Post(detectMb)

(* mmcsd_wait_cd_changed(0); sdcard_change(): a left-over answer is        *)
(* discarded, then the detect thread is told.                              *)
AskDetect ==
    /\ hotplugMb' = IF hotplugMb > 0 THEN hotplugMb - 1 ELSE 0
    /\ detectMb' = Post(detectMb)

(* _sdcard_mount up to its wait: rt_device_find("sd0").                    *)
MountFind ==
    /\ sd = "find"
    /\ \/ sd0 # NoCard /\ sd' = "mount" /\ UNCHANGED <<detectMb, hotplugMb>>
       \/ sd0 = NoCard /\ AskDetect /\ sd' = "waitMount"
    /\ UNCHANGED <<world, sdLeft, re, detVars, mnt, mainVars>>

(* mmcsd_wait_cd_changed(RT_WAITING_FOREVER), and "sd0" looked up again.   *)
MountAnswer ==
    /\ sd = "waitMount" /\ hotplugMb > 0
    /\ hotplugMb' = hotplugMb - 1
    /\ \/ sd0 # NoCard /\ sd' = "mount" /\ UNCHANGED sdLeft
       \/ sd0 = NoCard /\ Sleep(1)
    /\ UNCHANGED <<world, re, detVars, detectMb, mnt, mainVars>>

DfsMountAnyCard ==
    /\ sd = "mount"
    /\ mnt' = slot
    /\ Sleep(1)
    /\ UNCHANGED <<world, re, detVars, detectMb, hotplugMb, mainVars>>

(* dfs_mount("sd0", "/sdcard", "elm"): it fails when the device is gone,   *)
(* the path is taken, or the card in the slot is not the one initialised.  *)
DfsMount ==
    /\ sd = "mount"
    /\ mnt' = IF sd0 # NoCard /\ mnt = NoCard /\ slot = sd0 THEN sd0 ELSE mnt
    /\ Sleep(1)
    /\ UNCHANGED <<world, re, detVars, detectMb, hotplugMb, mainVars>>

(* dfs_unmount("/sdcard"): the table entry, if there is one, is cleared.    *)
DfsUnmount == mnt' = NoCard

(* _sdcard_unmount after its 200 ms: dfs_unmount, then tell mmcsd_detect.  *)
Unmount ==
    /\ sd = "unmount" /\ sdLeft = 0
    /\ DfsUnmount
    /\ AskDetect
    /\ sd' = "waitUnmount"
    /\ UNCHANGED <<world, sdLeft, re, detVars, mainVars>>

(* Its wait ends; the loop goes on with the second test.                   *)
UnmountAnswer ==
    /\ sd = "waitUnmount" /\ hotplugMb > 0
    /\ hotplugMb' = hotplugMb - 1
    /\ sd' = "poll"
    /\ UNCHANGED <<world, sdLeft, re, detVars, detectMb, mnt, mainVars>>

-----------------------------------------------------------------------------
(* The thread mmcsd_detect                                                 *)

(* rt_mb_recv; host->card decides between insertion and removal.           *)
DetectRecv ==
    /\ det = "recv" /\ detectMb > 0
    /\ detectMb' = detectMb - 1
    /\ \/ card = NoCard /\ det' = "probe" /\ detLeft' = MaxInit
       \/ card # NoCard /\ det' = "remove" /\ UNCHANGED detLeft
    /\ UNCHANGED <<world, sdVars, hotplugMb, card, sd0, mnt, mainVars>>

(* No operation-condition command is answered: the bus is unlocked and the *)
(* loop goes on, without a message to mmcsd_hotpluge_mb.                   *)
ProbeNothing ==
    /\ det = "probe" /\ slot = NoCard
    /\ det' = "recv" /\ detLeft' = 0
    /\ UNCHANGED <<world, sdVars, detectMb, hotplugMb, card, sd0, mnt, mainVars>>

(* An SDIO device answers: init_sdio, and again no message.                *)
ProbeSdio ==
    /\ det = "probe" /\ slot \in SdioCards
    /\ card' = slot
    /\ det' = "recv" /\ detLeft' = 0
    /\ UNCHANGED <<world, sdVars, detectMb, hotplugMb, sd0, mnt, mainVars>>

(* A memory card answers the operation-condition command.                  *)
ProbeMemory ==
    /\ det = "probe" /\ slot \in Cards \ SdioCards
    /\ det' = "init"
    /\ UNCHANGED <<world, sdVars, detLeft, detectMb, hotplugMb, card, sd0, mnt, mainVars>>

(* mmcsd_sd_init_card: every command of its sequence must succeed before   *)
(* host->card is set; the first error frees the card and returns.          *)
SdInitCard == slot \in GoodCards /\ card' = slot

(* rt_mmcsd_blk_probe: reads the first sector and registers "sd0"; the    *)
(* devices of further partitions are never mounted.                        *)
BlkProbe(c) == sd0' = c

InitMemorySilent ==
    /\ det = "init"
    /\ \/ SdInitCard /\ BlkProbe(slot)
       \/ slot \notin GoodCards /\ UNCHANGED <<card, sd0>>
    /\ det' = "recv" /\ detLeft' = 0
    /\ UNCHANGED <<world, sdVars, detectMb, hotplugMb, mnt, mainVars>>

(* init_sd or init_mmc with rt_mmcsd_blk_probe: host->card and "sd0" exist *)
(* together or, after a failure or a card pulled meanwhile, not at all;    *)
(* the message is sent in both cases.                                      *)
InitMemory ==
    /\ det = "init"
    /\ \/ SdInitCard /\ BlkProbe(slot)
       \/ slot \notin GoodCards /\ UNCHANGED <<card, sd0>>
    /\ hotplugMb' = Post(hotplugMb)
    /\ det' = "recv" /\ detLeft' = 0
    /\ UNCHANGED <<world, sdVars, detectMb, mnt, mainVars>>

(* rt_mmcsd_blk_remove: unmounts what is mounted on the card's device and  *)
(* unregisters the device.  Its walk takes the second entry of the list    *)
(* once and for all: with one device that is the end, with more it comes   *)
(* back to a freed entry and never ends (DetectStuck).                     *)
BlkRemove ==
    /\ IF mnt = sd0 THEN DfsUnmount ELSE UNCHANGED mnt
    /\ sd0' = NoCard

RemoveSticks ==
    /\ det = "remove"
    /\ BlkRemove
    /\ det' = "stuck"
    /\ UNCHANGED <<world, sdVars, detLeft, card, detectMb, hotplugMb, mainVars>>

RemoveKeepsDevice ==
    /\ det = "remove"
    /\ card' = NoCard
    /\ hotplugMb' = Post(hotplugMb)
    /\ det' = "recv"
    /\ UNCHANGED <<world, sdVars, detLeft, sd0, detectMb, mnt, mainVars>>

(* Removal of a memory card; an SDIO device cannot be removed.             *)
DetectRemove ==
    /\ det = "remove"
    /\ \/ card \in SdioCards /\ UNCHANGED <<card, sd0, mnt>>
       \/ card \notin SdioCards \cup SplitCards /\ BlkRemove /\ card' = NoCard
    /\ hotplugMb' = Post(hotplugMb)
    /\ det' = "recv"
    /\ UNCHANGED <<world, sdVars, detLeft, detectMb, mainVars>>

DetectStuck ==
    /\ det = "remove" /\ card \in SplitCards
    /\ BlkRemove
    /\ det' = "stuck"
    /\ UNCHANGED <<world, sdVars, detLeft, card, detectMb, hotplugMb, mainVars>>

-----------------------------------------------------------------------------
MainLoadAtOnce ==
    /\ main = "wait"
    /\ model' = IF mnt = slot THEN mnt ELSE NoCard
    /\ main' = "play"
    /\ UNCHANGED <<world, sdVars, detVars, detectMb, hotplugMb, mnt, mainLeft>>

(* main(): rt_thread_mdelay(1000), then PX_LoadFileToIOData; it plays on   *)
(* whatever the result.                                                    *)
MainLoad ==
    /\ main = "wait" /\ mainLeft = 0
    /\ model' = IF mnt = slot THEN mnt ELSE NoCard
    /\ main' = "play"
    /\ UNCHANGED <<world, sdVars, detVars, detectMb, hotplugMb, mnt, mainLeft>>

SdAsleep   == sd \in {"boot", "sleep", "unmount"} /\ sdLeft > 0
SdWaits    == sd \in {"waitMount", "waitUnmount"} /\ hotplugMb = 0
DetWaits   == det = "recv" /\ detectMb = 0
DetBusy    == det = "stuck" \/ (det \in {"probe", "init"} /\ detLeft > 0)
MainAsleep == main = "play" \/ mainLeft > 0

(* Nothing is left to do about the last change.                            *)
AtRest == DetWaits /\ (SdWaits \/ (sd = "sleep" /\ re = Pin))

(* A hectic user acts at any moment, a calm one when the last change has   *)
(* been dealt with, a patient one besides only once main() plays.          *)
UserMay ==
    /\ user # "hectic" => AtRest
    /\ user = "patient" => main = "play"

(* The user pushes a card in or pulls it out.                              *)
UserAct ==
    /\ UserMay
    /\ \/ slot # NoCard /\ slot' = NoCard
       \/ slot = NoCard /\ slot' \in CardsAtHand
    /\ UNCHANGED <<user, sdVars, detVars, detectMb, hotplugMb, mnt, mainVars>>

Less(n) == IF n > 0 THEN n - 1 ELSE 0

(* Time passes when no thread can run and no card is late.                 *)
Tick ==
    /\ SdAsleep \/ SdWaits
    /\ DetWaits \/ DetBusy
    /\ MainAsleep
    /\ sdLeft' = Less(sdLeft) /\ detLeft' = Less(detLeft) /\ mainLeft' = Less(mainLeft)
    /\ UNCHANGED <<world, sd, re, det, detectMb, hotplugMb, card, sd0, mnt, main, model>>

SdNext == SdBoot \/ PollRemoved \/ PollInserted \/ MountFind \/ MountAnswer
            \/ DfsMount \/ Unmount \/ UnmountAnswer
DetNext == DetectRecv \/ ProbeNothing \/ ProbeSdio \/ ProbeMemory \/ InitMemory
            \/ DetectRemove \/ DetectStuck

Next == SdNext \/ DetNext \/ MainLoad \/ UserAct \/ Tick

Spec == Init /\ [][Next]_vars

(* Each thread is scheduled when it can run, and the tick interrupt keeps  *)
(* coming; the user owes nothing.                                          *)
FairSpec == Spec /\ WF_vars(SdNext) /\ WF_vars(DetNext) /\ WF_vars(MainLoad)
                 /\ WF_vars(Tick)

-----------------------------------------------------------------------------
Slots == Cards \cup {NoCard}

TypeOK ==
    /\ user \in UserModes
    /\ slot \in Slots /\ card \in Slots /\ sd0 \in Slots /\ mnt \in Slots
    /\ model \in Slots
    /\ sd \in {"boot", "sleep", "poll", "find", "waitMount", "mount",
               "unmount", "waitUnmount"}
    /\ sdLeft \in 0..1 /\ re \in 0..1
    /\ det \in {"recv", "probe", "init", "remove", "stuck"} /\ detLeft \in 0..MaxInit
    /\ detectMb \in 0..MbSize /\ hotplugMb \in 0..MbSize
    /\ main \in {"wait", "play"} /\ mainLeft \in 0..MainDelay

Pending == detectMb + hotplugMb + (IF det = "recv" THEN 0 ELSE 1)

(* sd_mount and mmcsd_detect take turns: at most one request or answer is  *)
(* on its way, and only while sd_mount waits for it.  So no answer is ever *)
(* stale, no message is lost to a full mailbox, and the card is never      *)
(* removed under a mount in progress, however the user plays with it.      *)
TakeTurns ==
    /\ Pending <= 1
    /\ sd \notin {"waitMount", "waitUnmount"} => Pending = 0

(* The path /sdcard is never mounted on an unregistered device: the   *)
(* mount goes with, or before, the block device it reads from.             *)
NoDanglingMount == mnt # NoCard => mnt = sd0 /\ sd0 = card

(* main() waits long enough for the card a patient user left in the slot:  *)
(* the mount is there before it loads the model.                           *)
WaitsForMount == user = "patient" /\ main = "play" => model # NoCard

(* A readable card that a calm or patient user leaves in the slot is       *)
(* eventually mounted, and stays mounted.                                  *)
CardServed ==
    \A c \in GoodCards :
        user # "hectic" /\ <>[](slot = c) => <>[](mnt = c)

(* After a patient user pulled a card for good, its mount and its device   *)
(* go away.                                                                *)
CardReleased ==
    user = "patient" /\ <>[](slot = NoCard) => <>[](mnt = NoCard /\ sd0 = NoCard)

(* /sdcard follows the slot, in both directions.                           *)
MountFollowsSlot == CardServed /\ CardReleased

(* mmcsd_detect comes back to its mailbox whatever happens to the card     *)
(* while it works on it, except from the removal of a split card.          *)
DetectReturns == (det # "recv") ~> (det = "recv" \/ card \in SplitCards)
=============================================================================
