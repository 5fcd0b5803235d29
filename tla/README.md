# live2d_on_stm32: a TLA+ model of the firmware

The repository is the firmware of an STM32H7 board that plays a Live2D model on
an 8080-bus LCD. It runs on RT-Thread: `main()` loads `/sdcard/release.live`
from an SD card and then, for ever, renders a frame with PainterEngine, converts
it to RGB565 and hands it to the LCD driver, which lets a DMA stream copy it to
the panel. This directory holds TLA+ modules translated from that code, the TLC
configurations that check them on small instances, and TLAPS proofs of the
properties that matter most for every instance. Paths below are relative to
`src/`; `PROJECT.json` maps each definition to the lines it models.

## 1. Inventory

| Part | State it keeps | Operations | What makes it correct |
|---|---|---|---|
| Application (`applications/main.c`) | file descriptor, I/O buffer in the memory pool, frame counter, animation index | load, import, free, one render round | nothing but the two known leaks, all animations played, each for its time, across overflow of the counter |
| LCD driver (`drivers/drv_lcd_8080.c`, DMA part of the HAL) | framebuffer, block loop, DMA handle, semaphore `lcd_lock`, panel memory and pointer | RECT_UPDATE, DMA start, complete and error interrupt | every picture reaches the panel whole and in place; after a fault the path stays bounded and never hangs |
| SD hot plug (`drivers/filesystem.c`) | last pin level, mount | poll, `_sdcard_mount`, `_sdcard_unmount` | a card that stays is mounted, one that is pulled is released |
| MMC/SD core (`rt-thread/components/drivers/sdio/mmcsd_core.c`, `sd.c`) | `host->card`, two mailboxes, bus mutex, `sem_ack` | `mmcsd_detect`, `mmcsd_send_request` | one message at a time; every request returns |
| Block device (`sdio/block_dev.c`) | "sd0", partition list | `rt_mmcsd_req_blk`, probe, remove | a read or write that reports success happened |
| SDMMC host (`drivers/drv_sdio.c`) | command packet, event, `cache_buf` | send command, wait, data poll, interrupt | the answer belongs to the command that waits |
| Kernel IPC and threads (`rt-thread/src/ipc.c`, `thread.c`) | suspend lists, thread state, error, timer, priority; the ring of a mailbox | take, release, reset, detach, sleep, timeout; send, urgent, receive | no wake-up lost, each token to one thread, order kept; no mail lost or overtaken, no wait beyond its timeout |
| Kernel timers (`rt-thread/src/timer.c`, `clock.c`) | tick, hard and soft list, the timer a check is calling, the timer thread | start, stop, both checks, the thread's sleep | nobody called early or out of turn, hard timers on time, nothing due overslept |
| Kernel memory, objects, devices, serial console, DFS files | see section 7 | | not modelled |

How they interact. `main()` calls the LCD driver, which waits on `lcd_lock`;
the DMA interrupt releases it. The thread `sd_mount` polls the card-detect pin
and talks to the thread `mmcsd_detect` through `mmcsd_detect_mb` and
`mmcsd_hotpluge_mb`; the block device and the mount are shared by both. `main()`
meets them only through a sleep of one second and the path `/sdcard`. File
access goes through the bus mutex to the host driver, whose interrupt sends an
event to the waiting thread. All of it rests on the semaphores, mutexes, events
and mailboxes of `ipc.c`.

What is hard here: results that are ignored (the DMA start and the semaphore
timeout in the LCD driver, every error in `main()`), waits with a timeout that
leave the hardware running (50 ms in the LCD driver, five seconds in the SDMMC
driver), waits without one (`mmcsd_wait_cd_changed`), state shared by two threads
and guarded only by the protocol between them ("sd0"), the meeting of release,
timeout and detach in the kernel, ticks that wrap, and what an interrupt does
between two sections of the timer thread. `PROJECT.json` lists these hazards
line by line, with the properties that would catch each of them.

## 2. Modules

| Module | Models | Used by |
|---|---|---|
| `LcdRefresh` | render loop, RECT_UPDATE, DMA stream and interrupt, `lcd_lock`, panel | `MCLcdRefresh`, `LcdRefreshProofs` |
| `SdHotplug` | `sd_mount`, `mmcsd_detect`, both mailboxes, "sd0", `/sdcard`, the user, time | `MCSdHotplug`, `SdHotplugProofs` |
| `SdioRequest` | a block request from the bus lock to the controller, with retries, stop and status commands | `MCSdioRequest`, `SdioRequestProofs` |
| `LiveMain` | loading and freeing the model file, the animation loop | `SdHotplugProofs` |
| `KernelSem` | the semaphore on the threads that use it | `MCKernelSem`, `KernelSemProofs` |
| `KernelMutex` | recursive mutexes with priority inheritance | `MCKernelMutex`, `KernelMutexProofs` |
| `KernelMailbox` | the ring of a mailbox and the threads that wait at either end | `MCKernelMailbox`, `KernelMailboxProofs` |
| `KernelTimer` | both timer lists, the tick interrupt, the timer thread | `MCKernelTimer`, `KernelTimerProofs` |
| `CountingSem` | abstract: what the comments of `ipc.c` promise of a semaphore | `KernelSem` (as `Abstract`) |
| `BoundedMailbox` | abstract: a bounded queue whose urgent mails go first | `KernelMailbox` (as `Abstract`) |
| `SuspendListLemmas` | lemmas on lists in which each thread, or timer, stands at most once | `KernelSemProofs`, `KernelMutexProofs`, `SdioRequestProofs`, `KernelTimerProofs` |

Operators next to an action whose names extend it (`ReleaseUnbounded` before
`Release`) are wrong versions of it, as a plausible mistake would produce;
replacing the action by one must break the property that `PROJECT.json` pairs
with it.

### LcdRefresh

`pc` follows the main thread: `render`, `convert` (one step per pixel, since the
framebuffer is overwritten in place), `start`, `take` and `wait` inside
RECT_UPDATE, `delay`. `dma` is the HAL handle and the stream; `DmaMove` moves one
word and advances the panel's pointer `gp`, which RECT_UPDATE never rewinds.
`HAL_DMA_Start_IT` refuses a start on a busy handle and the driver does not look,
so the model counts in the history variable `debt` the timeouts not yet made up
for by a refused block. The driver's initialisation ends with a refresh, so
`Init` is the start of RECT_UPDATE. `DmaError` leaves the stream `READY`, or
`ERROR` when it could not be disabled; no error callback is registered. The
variable `prompt`, chosen once, tells the behaviours in which every transfer
keeps within its 50 ms from those in which it may be late, fail or be refused.

### SdHotplug

Time is counted in units of 200 ms and passes when all threads sleep or wait.
The pin is high without a card (`Pin`); at boot a high pin calls
`_sdcard_mount`, as the code does. `AskDetect` is `mmcsd_wait_cd_changed(0)`
followed by `sdcard_change()`. `mmcsd_detect` decides by `host->card` whether a
message means an insertion or a removal; `ProbeNothing` and `ProbeSdio` end
without a message, as the code does. The initialisation of a card takes up to
`MaxInit` units: `SdInitCard` and `BlkProbe` set `host->card` and register
"sd0", or neither happens. `BlkRemove` unmounts (`DfsUnmount`) and unregisters.
A card has one partition or none, or it is split
into several: `rt_mmcsd_blk_remove` never advances its `next` pointer
(`block_dev.c:499`), so taking out a split card leaves `mmcsd_detect` in
`DetectStuck` for good, and nothing is claimed of what follows. The variable
`user` is chosen once: `hectic` (any card at any moment), `calm` (a card is
moved when both threads are done with the last change) or `patient` (besides,
readable cards of one partition only, one of them in the slot at power-up and
left there until `main()` plays).

### SdioRequest

The owner of `bus_lock` walks through `send`, `wait`, (`poll`), `ack`, `acked`,
`return`; what a waiter asks for is looked at when it gets the lock (`Asking`).
The controller answers, fails, garbles its answer, moves data or fails without
an interrupt, and may be as late as it likes. `cpsm` holds the command on its
way, `Plain` or the transfer it starts, `dpsm` the transfer that is running; once
a wait was given up neither need be the owner's. The block write asks for the
card's status in the same `cmd`, as `rt_mmcsd_req_blk` does.

Three details of `drv_sdio.c` decide what a success is worth. A command with data
masks CMDREND (line 229), so that the bit stays in the status register (`sta`)
until some interrupt collects it; the next command enables it again (line 220,
`Unmask`) and, if it is still pending, is completed by it at once. A wrong
checksum counts as success if `resp_type & (RESP_R3 | RESP_R4)` (line 161,
`Forgiven`): these are numbers, the mask is 5, and RESP_R1, the type of block
commands and of SEND_STATUS, meets it; RESP_R1B, the type of the stop command,
does not. And the poll of the data path ends after a million rounds (`PollData`).
Two history variables keep these cases apart: `excused`, a checksum of this
request was forgiven; `stray`, a wait (or the poll) gave up and no request has
since begun with the controller at rest.

### LiveMain

`count` is a C int whose largest value is `IntMax`, so that a run reaches its
overflow; `IntMax + 1` is a multiple of `Period`, as 2^31 is of eight. Signed
overflow being undefined, a round with `count = 0` may end the loop (`Return`)
or not (`Frame`).

### KernelSem

Each section with interrupts off is one action. `TakeWaits` resets
`thread->error`, suspends the thread (which stops its timer), puts it on the
list at the end or by priority (`Place`), and may start the timer; `TakeReturns`
reads the error when the thread runs again. `Timeout` is `rt_thread_timeout`.
`Reset` runs with interrupts off throughout, while the loop of a detach lets
interrupts in between its look at the list and the thread it takes off, and
again before the object goes (`DetachStarts`, `DetachLooks`, `DetachWakes`,
`DetachEnds`). If the last waiter leaves after the look, by its timeout or a
release, `DetachWakes` finds an empty list: the code takes the list head for a
thread, which makes a "thread" of the semaphore itself (`tlist` and
`suspend_thread` have the same offset), the assertion on its type in
`rt_thread_resume` fails, and `rt_assert_handler` loops with interrupts off. This
is the phase `halt`, after which nothing happens; the run therefore does not
check for deadlock. `ChangePriority` is what the
mutex does to an owner; it leaves the list as it is. The history variable
`handed` holds the threads a release has woken. Assumed of the callers: nobody
takes the semaphore after the detach loop found its list empty (`Usable`); such
a thread would wait on an object that is gone.

### KernelMutex

Several mutexes and threads of different priorities. A take by the owner counts
a hold, a take of a free mutex notes the taker's priority (`Give`), any other
lends its priority to the owner (`Inherit`) and waits. The last release restores
the noted priority (`Restore`) and hands the mutex to the head of the list, or
frees it. Two history variables serve the properties: `mine`, what each caller
has seen its takes and releases return, and `multi`, the threads that have owned
two mutexes at a time. Detaching a mutex and `RT_USING_SIGNALS` (off in
`rtconfig.h`) are left out. Clients may deadlock on two mutexes, so deadlock is
not checked.

### KernelMailbox

`pool`, `entry`, `in_offset` and `out_offset` are the fields of `rt_mailbox`.
A suspend list is the set of threads suspended in that operation, any of which
may be resumed: the order of the list is the subject of `KernelSem`. A woken
thread looks at the box again (`RecvAgain`, `SendAgain`), because another thread
or an interrupt may have been faster, and then waits for what `Left` computes
from the ticks since it was suspended. `IrqSend` and `Urgent` are calls from an
interrupt or from any other thread that does not wait, `Reset` is
`rt_mb_control`. `asked` and `total` are history: the timeout of the call and the
ticks since it began, both capped at `MaxWait`. Detaching a mailbox is left out;
no mailbox of this firmware is ever detached.

### KernelTimer

`list` holds both timer lists, `run` the timer that a check has moved to its
local list while its callback runs, `isr` the progress of `rt_timer_check`
inside the tick interrupt, `pc` the timer thread. `tick` wraps at `TickMax`, and
`Minus` is the difference of two machine words. `Start` is `rt_timer_start`: it
takes the timer off whatever list it is on, inserts it behind those due no
later, and resumes a suspended timer thread when it is a soft one. `Look`,
`Measure` and `SleepFor` (or `SleepForever`) are the three sections of
`_timer_thread_entry` between which interrupts are on. The history variable
`left` counts the ticks to a timer's expiry without wrapping; `slipped` records
that the list or the tick changed between the look and the sleep, or that a
timer was due at `RT_TICK_MAX`, which the code takes for "no timer".

Left out: timers that change between one-shot and periodic, deletion, soft
callbacks that block, and the time slices of `rt_tick_increase`. `Legal` assumes
what the code does not check: no period, and no time of a hard timer, is zero
(with one `rt_timer_check` would never end). `InReach` bounds how late the timer
thread may run: `MaxLate` ticks, which must be less than the half of the range
by which ticks are compared.

## 3. Runs

| Run | Bounds | Shows |
|---|---|---|
| `lcd_refresh` | 5 words, blocks of 2, two pictures with all pixels different; a prompt DMA, or a slow one with two errors | with a prompt DMA every rendered picture is on the panel, pixel by pixel, when its refresh returns (`FrameShown`); in any case at most one stale completion (`StaleTokenBound`), a block refused or a frame torn only after a timeout (`OnlyAfterTimeout`), no read beyond the framebuffer (`InBounds`), and RECT_UPDATE returns (`RefreshReturns`) |
| `sd_hotplug` | two good cards, a bad, an SDIO and a split one; a hectic and a patient user | the threads take turns, no mount outlives its device, with a card at power-up `main()` waits long enough; for the patient user cards are mounted and released (`MountFollowsSlot`); only a split card keeps `mmcsd_detect` from returning (`DetectReturns`) |
| `sd_boot_empty` | power-up without a card | violated, see section 6 |
| `sdio_request` | two threads, one sector, two values, two retries; any failure and any delay | `sem_ack` never leaks into the next request and every request returns; until a wait is given up the bus is handed over at rest, the card changes only as asked, and a read that meets no forgiven checksum is truthful |
| `sdio_write` | the same with two sectors | violated, see section 6 |
| `sdio_late` | the same; reads after a wait that was given up | violated, see section 6 |
| `live_main` | three animations, counter up to 127, every call may fail, file empty or not | only the two known leaks, later animations in full, all animations played |
| `kernel_sem` | two threads, two priorities, count up to 2 | list and threads agree, nothing lost, FIFO order, timed waits end unless a detach raced the last waiter and stopped the kernel, refinement of `CountingSem` |
| `kernel_mutex` | three threads of different priorities, two mutexes, two holds | `Ownership`: callers and kernel agree on who is inside, a mutex is free or owned, a hand-over never meets a timeout. `Inheritance`: the owner of one mutex is as urgent as those it keeps waiting, and gives the loan back |
| `kernel_mailbox` | three threads and interrupts, two mails, a ring of two, timeouts up to two ticks | nobody sleeps beside a mail or a place without a woken thread for it (`NobodyForgotten`), waits together keep the timeout of the call (`InTime`), refinement of `BoundedMailbox` |
| `kernel_timer` | a hard timer of period 1, a one-shot and a periodic soft timer, times up to two ticks, a tick of three bits | hard timers are on time across the wrap (`HardPunctual`), what is active and only that can be stopped (`CanBeStopped`), the timer thread oversleeps only when it slipped (`SoftWatched`), nobody is called early or out of turn (`CalledInTurn`), what is late is called (`SoftServed`) |
| `mutex_inversion` | the same | violated, see section 6 |

Why the bounds are enough. Five words in blocks of two give two full blocks and
a short one, as 320 x 480 words in blocks of 65535 do; two errors let one follow
the recovery from another, or the stream stay broken. Two cards suffice to
confuse one with its successor. Two threads at the bus are one owner and one
waiter; more waiters only lengthen the queue. One sector with two values is
enough to tell fresh data from old and from garbage, and keeps the liveness check
short; the safety properties and the invariant of the proofs were also run with
two sectors (986,478 states, no error), which tell a sector from another. Three
animations have a first, a
middle and a last one. For the semaphore two threads are enough to meet in every
pair of operations; for more the proofs take over. A low, a middle and a high
thread are what a priority inversion needs, and two mutexes what nesting needs. Three
threads at a mailbox are a waiter, one that was woken and one that is faster;
a ring of two has a wrap and both a full and a half-full state, and a timeout of
two ticks leaves a rest of one. Two soft timers are what an order needs; with a
tick of three bits a run wraps many times, and times of two ticks with a lateness
of one stay below the half of the range, as the code requires.

## 4. Fairness

* `LcdRefresh`: the main thread runs and the tick ends a wait. The DMA makes
  progress only where it is prompt; nothing is assumed of it otherwise.
* `SdHotplug`: each thread runs when it can, time passes. `sd_mount`,
  `mmcsd_detect` and `main()` all block regularly, so strict priorities do not
  starve them. The user owes nothing.
* `SdioRequest`: the owner runs (its waits end after five seconds, its polls after a
  million rounds), the controller reaches some end (its own timeouts guarantee that
  for a command; for a transfer the wait does not depend on it), and a card asked for its status again
  and again is ready in the end: the loop in `rt_mmcsd_req_blk` has no bound, so
  without this it may spin for ever.
* `LiveMain`: `main()` runs.
* `KernelSem`: a timer that stays active fires, until a failed assertion leaves the
  interrupts off. No fairness of the scheduler is
  assumed, since strict priorities give none: a timed wait *ends* (the thread is
  ready), when it runs is another matter.

* `KernelTimer`: callbacks of the tick interrupt return and the tick never stops
  (weak fairness). The timer thread has the highest priority of the threads
  here (`RT_TIMER_THREAD_PRIO` 4) and the interrupts leave it the processor
  between ticks, so it moves on if it can again and again (strong fairness:
  each tick interrupt disables it for a moment).
* `KernelMutex` and `KernelMailbox` claim no liveness.

## 5. Proofs

All theorems hold for every value of the constants that satisfies the named
assumptions of the modules.

**LcdRefreshProofs** (`TypeCorrect`, `TokensBounded`, `TransfersInBounds`,
`HarmNeedsTimeout`, `FrameIsShown`). Assumes a frame of at least one full block
(`FrameAssumption`; with less, `drv_lcd_8080_hw_init` computes two blocks for a
frame that needs one). The inductive invariant adds two facts. `PosInv`: while
`blk` blocks remain, the position, the remaining full blocks and the last one
add up to the frame; it rests on `BlocksFillFrame`, the arithmetic of division
and remainder. `DebtInv`: the debt covers every completion in excess, and one
more when the stream refuses everything; without it neither half of
`OnlyAfterTimeout` (`DropPaid`, `TearOnlyInDebt`) is inductive. `FrameIsShown`
needs `PromptInv` besides, about the behaviours with a prompt DMA: the stream is
idle between two blocks and the thread waits for the very block in flight
(`IdleInv`), so a wait never times out; the panel's pointer is where the transfers
have come to, and everything before it already holds the framebuffer (`GramInv`).

**SdHotplugProofs** (`TypeCorrect`, `ThreadsTakeTurns`, `MountHasDevice`,
`LoadFindsMount`).
`TakeTurns` counts requests, answers and the work in progress; it is almost
inductive. `NoDanglingMount` needs `DeviceInv`: "sd0" exists only with
`host->card`, and a card is probed only when there is none. `LoadFindsMount` is
`WaitsForMount` for every `MainDelay > MaxInit + 2`: `LoadInv` follows the card of
a patient user through its stations (`Approach`, `Detection`, `Mounting`,
`Mounted`) and says how much of `main()`'s delay is left at each. The two units
besides the initialisation are the first 200 ms of `sd_mount` and the sleep
before the poll that sees the card; the inequality is strict because a load and a
mount that are due at the same time may come in either order. With
`MainDelay = MaxInit + 2` TLC finds the load before the mount, so that the bound
is sharp. In the firmware the delay is five units, so that the theorem covers
cards that are initialised within two (400 ms).

What `main()` does after that wait is proved in the same module, which extends
`LiveMain` too (`LiveTypeCorrect`, `OnlyTwoLeaks`, `AnimsInFull`), for any
animations, file sizes, faults, period and largest int, provided that `IntMax + 1` is
a multiple of `Period` (`LoopAssumption`). `AnimsInFull` rests on that when `count`
overflows: the wrap then falls on a change of the animation. `FileInv` follows the descriptor, the buffer and `PX_IO_Data` through the
calls: the buffer is allocated exactly while `io` or the read to come knows it.
`RoundInv` ties `shown` to the remainder of `count`, in the first animation to
`count` itself; `NextRemainder`, `SmallRemainder` and `NextCount` are the
arithmetic of the remainder for a divisor that is a parameter.

**KernelSemProofs** (`TypeCorrect`, `QueueIsExact`, `WakeupsKept`,
`TokensDelivered`, `ServedInOrder`, `Refinement`), for any number of threads.
The invariant adds `WaitInv` (a waiting thread has no error yet, and the threads
a release woke are ready takers), `NoLostWakeup` (nobody waits beside a count;
the refinement implies it, so no run checks it by itself) and `DetachInv` (once the detach loop is over
the list stays empty; a detach that meets an empty list earlier halts). `ServedInOrder` needs in addition what each list
operation does to the order of the rest (`TailKeepsOrder`, `RemovalKeepsOrder`,
`AppendKeepsOrder` in `SuspendListLemmas`). `Refinement` maps the semaphore to
`CountingSem`: the counter is `sem->value`, the outcome of a thread's take is
"waiting" while it is suspended, its error once woken and its result after the
return; a release serves or increases, a timeout of a taker expires its wait,
and the return of a take is a stutter.

**KernelMutexProofs** (`TypeCorrect`, `OwnershipHolds`, `InheritanceHolds`), for
any number of threads, mutexes and priorities and any limit of the hold
(`MutexAssumption`). The invariant is stated point by point: `MutexOK` of a
mutex, `ThreadOK` of a thread, `PairOK` of a thread and a mutex, so that a step
disturbs it in one or two points (`LocalStep` for the steps that wake nobody).
Beyond `Ownership` it says that a list holds a thread once, only while it is
suspended in a take of this mutex, and that a hand-over gives one hold. The
suspend list itself is *not* sorted by priority, since a thread on it may be
lent one while it waits. What holds is `Sorted`: nobody who owns nothing stands
behind somebody less urgent; hence the new owner is as urgent as such waiters
when it takes over. `OwnLoan` says why the loan is returned exactly: a thread
that never owned two mutexes noted its own priority.

**KernelMailboxProofs** (`TypeCorrect`, `WakeupsSuffice`, `WaitsInTime`,
`Refinement`), for any finite set of threads (`ThreadsAssumption`; the balance is
counted), any size of the ring and any timeouts (`MailboxAssumption`).
`RingInv`: the offsets lie in the ring, and the write offset is where the mails
end; with it `PutAppends`, `TakeRemoves` and `UrgentPrepends` show that the
modular arithmetic of the offsets does what a sequence does. `CallInv`: the
waits so far and the present one fit into the timeout of the call, from which
`InTime` follows. For `NobodyForgotten`, `ResumeMovesOne` and
`MoveKeepsBalance` count the suspended and the woken threads of a side against
its mails or places. `Refinement` maps the ring to the sequence of its mails
and a thread to its call in `BoundedMailbox`.

**SdioRequestProofs** (`HandshakeHolds`, `TypeCorrect`, `ReadsAreTruthful`,
`HandoverIsClean`, `WritesAreRequested`), for any number of threads, sectors and
retries, and whatever the controller does. `BusInv` (the bus lock and its queue,
the kind of the command, the retries, `sem_ack`) is inductive by itself and gives
`HandshakeHolds`. What is said of the data holds in the states with `~stray`, which
is why the invariant has it as a hypothesis: `CommandInv` ties the controller to
the owner, who waits for the very command it works on and finds no CMDREND pending
when it sends one; a transfer may go on into the poll only when a checksum was
forgiven. `DataInv` follows a block on its way from the card to `cache_buf` and to
the buffer of the request, and a block to be written the other way; `KindInv` is
why the data phase is never retried: a data request starts with no retries.
`BeginKeeps` is the return from `stray`: a request that begins with the controller
at rest has all of this again. `ReadsAreTruthful` also needs `~excused`: with the
mask of line 161 a success may mean that nothing was transferred.

**KernelTimerProofs** (`TypeCorrect`, `HardTimersPunctual`, `StopAlwaysWorks`,
`SleepIsWatched`, and the action property in `TimersInTurn`), for any sets of
timers (`KindAssumption`: a timer is hard or soft, and the thread's own is apart),
any width of the tick and any bounds that fit into half of it
(`TimerAssumption`). First the ticks: `MinusTicks` says that the wrapped
difference of two due ticks is the difference of the times left, whatever the
present tick; `LaterTick`, `DueTick` and `AheadTick` are what the comparisons in
`rt_timer_start`, the checks and `_timer_thread_entry` conclude from the half in
which it lies, and `NextTick` carries that over a tick of the clock. `ListInv`
is the heart of the invariant: every list holds a timer once, in the order of the
time left (`left`, which never wraps), and the due ticks agree with it modulo the
width. `InsertInOrder` and `ArmInOrder` show that the insertion keeps it and puts the
timer behind those due no later; `DueHead`, that a head which is not due means
that nothing is. `HardPunctual` needs `LateInv` besides: the thread's own timer may
be one tick late, but only while the check has not come to it, and a hard timer
never is. `CanBeStopped` needs `RunInv`: a timer in its callback is on no list.
`SoftWatched` needs `SleepInv`, what the timer thread knows at each point between its
look and its sleep. `NobodyMoves` and `ArmedTakesPlace` give the order of calls.

Only model-checked: all liveness properties, `RefreshReturns`, `MountFollowsSlot`,
`DetectReturns`, `RequestReturns`, `AllPlayed`, `TimedWaitsEnd` and `SoftServed`,
since fairness is out of the prover's reach. Every invariant and every action
property of the passing runs is a theorem.

## 6. Where code and comments disagree

* **A boot without a card** (`sd_boot_empty`). `sd_mount` waits for an answer
  that `mmcsd_detect` never sends when nothing answers (`mmcsd_core.c:668`), so
  a card inserted later is never mounted. `filesystem.c:9` announces hot plug
  detection. The same happens when an unreadable card is pulled: the removal is
  taken for an insertion.
* **A failed write reports success** (`sdio_write`). The status command that
  follows reuses `cmd` and overwrites its error (`block_dev.c:173`).
* **An old command answers the next one** (`sdio_late`). After the five-second
  timeout the data path is not stopped (`drv_sdio.c:142`), and a CMDREND that was
  masked stays pending. The next command is completed by that bit as soon as line
  220 enables it, or by the old transfer's interrupt, and a read returns before
  its own data moved (`ReadAfterTimeout`).
* **A priority given back too early** (`mutex_inversion`). A thread that owns
  two mutexes and releases one falls back to the priority noted when it took
  that one (`ipc.c:1120`), although a more urgent thread waits for the other:
  the unbounded inversion that `ipc.c:740` wants to exclude. `Inheritance` says
  what is left: with one mutex at a time all is well.

Observed without a run of its own. A block command whose answer has a wrong
checksum counts as successful (`drv_sdio.c:161`, see `SdioRequest` above), and a
read then returns what `cache_buf` held before; `ReadTruthful` and
`ReadsAreTruthful` name it as their exception (`excused`), and without that
exception TLC finds the read. A detach whose last waiter leaves between the look
at the list and the pop stops the kernel (`ipc.c:213`); `TimedWaitsEnd` names it
(`halt`). A transfer that outlives its request can carry another thread's
`cache_buf` to the card: `OnlyRequestedWrites` holds only until a wait is given up,
and without `~stray` TLC breaks it in fourteen steps. With a card that takes four units (800 ms) to
initialise, `main()` loads before the mount and plays nothing; the first
animation gets six renders instead of eight because `count` starts at 1
(`main.c:142`); an empty file is allocated and not freed (`main.c:80`) and a
failed allocation leaves the file open (`main.c:56`), which `OnlyKnownLeaks`
states as exceptions; a thread whose priority changes while it waits keeps its
place in a list that `ipc.c:90` says is in order of priority (`thread.c:734`).
Taking out a card with two partitions keeps `mmcsd_detect` in the loop of
`rt_mmcsd_blk_remove` for ever (`block_dev.c:499`; `DetectReturns` states it as
its exception). The timer thread may sleep past a soft timer that is started or
becomes due between its look and its sleep (`timer.c:757`), or that is due at the
tick `RT_TICK_MAX` (`timer.c:758`); it then sleeps on until its own older timer or the
next start of a soft timer, which `SoftWatched` and `SoftServed` except by
`slipped`. A period of zero ticks keeps `rt_timer_check` in its loop with
interrupts off (`timer.c:602`). `RT_TIMER_CTRL_SET_ONESHOT` in the callback of a
periodic timer leaves the timer marked as active though it is on no list
(`timer.c:548`), which is harmless, as a stop of it changes nothing more.

## 7. Not modelled, and the plan

Left out for good: vendored HAL and CMSIS (but for the DMA start and interrupt),
FatFs, lwIP, USB, the shell's text handling, register set-up of the other
drivers, board start-up. PainterEngine is a submodule without contents here; it
appears as a choice among pictures and as the result of the import.

Next, in this order:

1. Event and message queue of `ipc.c`, each with an abstract object it refines
   (`SdioRequest` uses the event abstractly); detaching a mutex or a mailbox.
2. `KernelSched`: the ready queue, the time slice, start and end of threads.
3. `SmallMem` and `MemPool`: free-list integrity, merging, blocking allocation.
4. The descriptor table of DFS, and `dfs_elm_unmount` under an open file
   (`dfs_elm.c:189`); the serial receive ring; timers that change their kind.
5. Proofs beyond what the runs check: the data of a request once late transfers
   are stopped, and the new modules above.
