# A TLA+ model of 86Box

86Box emulates PC hardware. One emulation thread runs the CPU and every device; helper threads copy
frames, mix sound, move network packets and render 3D; the user interface has threads of its own.
This project models the parts on which all the others rest, checks them with TLC on small instances
and proves their invariants with TLAPS for every value of the constants.

## The system's parts

| Part | Source | Here |
|---|---|---|
| Timers: one sorted list, cached deadline, callbacks | `timer.c`, `include/86box/timer.h` | `TimerQueue`, abstract `AlarmClock` |
| Interrupt controllers: two cascaded 8259s | `pic.c`, `include/86box/pic.h` | `Pic` |
| Frame hand-over from the emulation thread to the user interface | `video/video.c`, `thread.cpp`, `vnc.c` | `Blit`, abstract `FrameSlot` |
| I/O APIC and local APIC | `ioapic*.c`, `lapic*.c`, `cpu/cpu_lapic.c` | `Apic` |
| Network queues and the SLiRP driver's thread | `network/network.c`, `network/net_slirp.c` | `NetQueue` over `PacketRing`, abstract `PacketPath` |
| Voodoo command FIFO, render threads, buffer swaps | `video/vid_voodoo*.c` | `VoodooFifo` |
| Pause and hard reset | `86box.c`, `qt/qt_main.cpp`, `qt/qt_platform.cpp`, `qt/qt_mainwindow.cpp` | `Pause` |
| Asynchronous IDE reads | `disk/hdc_ide.c` | planned (1) |
| PCI interrupt steering | `pci.c` | planned (2), composed with `Pic` and `Apic` |
| Byte FIFO | `utils/fifo.c` | planned (3) |
| PIT, DMA, keyboard controller, serial port, floppy controller, RTC | `pit.c`, `dma.c`, `device/`, `floppy/fdc.c`, `nvr.c` | candidates |
| Recompiler's block lists, memory mappings, port handlers, device framework | `codegen/`, `mem/mem.c`, `io.c`, `device.c` | candidates |
| Automation server, GDB stub, debugger, unit tester | `automation.c`, `gdbstub.c`, `debugger.c`, `device/unittester.c` | candidates (they have documented protocols) |
| CPU instructions, code generation, rasterisers, sound chips, disk and CD images, machine tables, configuration | `cpu/`, `codegen/`, `video/`, `sound/`, `disk/`, `cdrom/`, `machine/`, `config.c` | not modelled: data, pure I/O or out of a model checker's reach |

They meet as follows. Every device arms timers; the CPU loop calls `timer_process()` when the counter
reaches the cached deadline, and callbacks raise interrupts through `picint()`, whose outcome the CPU
fetches with `picinterrupt()`, or through the I/O APIC's inputs, which the local APIC takes. A video
card's timer callback ends a frame and posts it to the blit thread; a Voodoo's makes the retraces for
which buffer swaps wait. A network card's timer moves packets to and from a host thread. Between its
blocks the emulation thread looks at the flags by which the user interface pauses and resets it.
`PROJECT.json` lists every part, the hazards found in reading, and for each definition the lines it
translates.

## Timers (`TimerQueue`, `AlarmClock`)

State: `queue` is the linked list, `enabled` and `split` are the flag bits, kept apart from the list as
in the code so that their agreement is something to prove. Stamps are unsigned words of `2*Half` values
(2^64 in the code) compared by the sign of the difference; fractions have `Frac` values. `pc` says
what the one thread does: `run` (an instruction), `process` (inside `timer_process()`), `callback`, or
`fault` (a NULL head was followed). Actions are the functions of `timer.c` as devices call them, the
three parts of `timer_process()`'s loop, the CPU loop's check, and power on and off. Periods are whole
microseconds instead of doubles. `due` is history: when a period was asked to end.

`AlarmClock` is what the subsystem promises, without list, cache or counter: alarms go off only when
due, the most overdue first, once per arming, and the CPU runs only with nothing due.

Assumptions, all in `RangeAssumption`: delays and single steps are far shorter than half the counter's
range; permanent delays and periods are positive. `sound_reset()`'s two timers are re-armed by their
callbacks. A device resumes a timer with `timer_advance_u64()` only from that timer's callback: devices
that resume a timer disabled long before are outside the model. The guest writes the counter while an
instruction executes.

| Run | Shows |
|---|---|
| `timers` | `TypeOK`, `LinkedIffEnabled`, `Sorted`, `TargetNotLate`, `NoFault`, `PeriodExact`, and `ImplementsClock` |
| `timers_live` | `ProcessTerminates`, `PollsForever` |
| `timers_rearm` | violation of `PeriodExact`: `timer_on_auto()` outside the callback, with a part of a split period left, adds to the old deadline |

Bounds: twelve stamps with delays below three, so the counter wraps constantly while the window stays
below half; one device timer, one split timer and both permanent ones, so each position in the list and
each pair of kinds occurs; periods of one and three parts. `timers_live` leaves out the split timer and
zero delays: a callback that re-arms itself with delay zero really does livelock `timer_process()`.

Fairness: callbacks return and the loop goes on (weak, for the emulation thread's own steps); an
instruction completes even if devices keep calling `timer_process()` (strong, for `CpuStep`), as each
such call is made by an instruction; the machine is turned on (weak).

## Interrupt controllers (`Pic`)

State: two `pic_t` records with sets of inputs for IRR, ISR, IMR and ELCR, the count of holders per
line, and the flag bits that the code keeps in `dev->interrupt` as fields. Everything runs on one
thread, so one handler is one action, `pic_notify()` included. Actions: edge and level sources,
pinning, ICW1-4, OCW1, the forms of OCW2, OCW3, the poll read, the ELCR, the CPU's acknowledge, reset.
`stale` and `nest` are history too: a change not resolved by `pic_notify()`, and the order of acceptance.

Restrictions: AT cascade with a 286 or later; initialisation with ICW3 and ICW4 in 8086 mode; the
guest polls with interrupts off and switches the ELCR of a line at rest; level sources share no line
with edge sources. `Uses` selects what guest and board do. A reset makes the controllers forget who
holds a line, while a device without a reset handler (`scsi_ncr53c8xx.c`, for one) keeps its
`irq_state`; `forgotten` (history) names the lines concerned. For these `LevelFollowsSources` promises
only that a request never outlives its holders: until all of them let go, it may be missing, because
a second raise is no change and one device's unmatched lower takes away another's count.

| Run | Shows |
|---|---|
| `pic` | `PendingCurrent`, `SlaveBacksCascade`, `LevelFollowsSources`, `IntrReported`, from reset, with initialisation, polls, ELCR and further resets |
| `pic_priority` | `NonSpecificEndsLatest`, `PinnedNotDelivered` with rotation, set priority, automatic EOI, special mask mode, pinning and acknowledges without a request; the controllers are already programmed |
| `pic_pinned` | violation of `PinnedNotDelivered`: ICW1 clears the mask bits of pinned lines |
| `pic_poll` | violation of `FrozenOnlyDuringPoll`: an OCW3 after a poll command leaves the controller frozen |

Two windows are excused by `stale`: changes made while the master is frozen by a poll, and the end of
initialisation. In both the code does not call `pic_notify()`, and a request waits for the next event.

Bounds: three inputs per controller (one above, one at and one below the cascade); an edge source and
two devices sharing a slave line, which are interchangeable (symmetry); or two edge sources, one of
them set to IRQ 2. Two sharing devices suffice for a count that wraps or drops a holder.

## Frame hand-over (`Blit`, `FrameSlot`)

One step is one access to a flag or event that another thread may look at. The emulation thread waits
for the buffer, draws, waits for the last blit, posts, wakes; the blit thread waits, resets, calls the
blit function, signals; the user interface replaces the blit function under `startblit()`'s mutex;
a monitor is closed and opened again. `FrameSlot` is the promise: a slot for one frame.

Run `blit`: `NoTearing`, `ImplementsSlot`, `FrameLeaves`, `CloseReturns`, over all
interleavings, with two different frames (enough to tell one from the next). Fairness is weak, for each
thread: a thread that can go on does; an event that stays set is seen. Nothing is assumed of who gets
the mutex.

The run sets `CleanSwitch`: the user interface removes the blit function only with no blit under way.
The code does not ensure it. With `CleanSwitch = FALSE` TLC reports a deadlock: `vnc_close()` sets
`blit_func` to NULL while a posted blit has not been taken, `blit_thread()` skips it, nobody calls
`video_blit_complete_monitor()`, and the emulation thread waits for the buffer for ever. No document
promises otherwise, so this is a listed hazard, and `FrameLeaves`, `CloseReturns` hold under the
assumption. `NoTearing` and `ImplementsSlot` are proved without it, and so is `WakeupsKept` but for the
wait in question.

## I/O APIC and local APIC (`Apic`)

One processor; entries with fixed delivery and a logical destination. State: the redirection table and,
apart from it, the sets of inputs that are asserted, Send Pending and have Remote IRR; the local APIC's
enable bit, address, TPR, IRR, ISR, TMR. All of it runs on the emulation thread, but one guest access
may send many messages, and what the first does decides what the next one meets. So the loops of
`ioapic_retry_pending_transaction()` and `ioapic_eoi()` take one step for each input (`Poll`,
`Broadcast`); `step`, `at`, `todo` and `ending` say what is left, and nothing else happens meanwhile. An
edge source pulses its wire in two steps. `owed` (edges seen and not taken) and `orphan` (inputs whose
EOI the guest gave up) are history.

Assumed of the guest: edge, level and local sources use different vectors, as the TMR has one bit for
each. Entries may share a vector otherwise.

| Run | Shows |
|---|---|
| `apic` | `TypeOK`, `RefusedIsUntakeable`, `LevelIsSent`, `EoiWillCome`, `EdgesKept` |

Bounds: three inputs, which with a local source compete for the two slots of one class; one can be edge
or level, two share an edge vector and two a level vector; one more level vector is of another class.

`orphan` excuses what the code cannot repair: after an INIT, or a rewritten vector, no EOI comes for a
Remote IRR that is set. Two further ways to make the local APIC take more, writing its ID and enabling
it in the base MSR, retry nothing; they are not modelled and a listed hazard. The order in which entries
get a slot is no property: the poll's start moves past inputs in service too (`ioapic.c:492`), where the
comment has it follow the last one sent.

## Network queues (`NetQueue`, `PacketRing`, `PacketPath`)

`PacketRing` is `netqueue_t` with its buffer swaps; a slot outside of tail..head holds a `Spare` buffer.
`NetQueue` has the four rings, `queued_pkt`, both mutexes, the pipe `tx_event`, the driver's flags
and the two threads. A step is what a thread does under one lock, or between two accesses to what
the other uses; loops under a lock step once for each packet. SLiRP is external: it may send a packet
whenever it is polled or handed one. The user pulls and restores the cable at any moment, and the card
is closed and attached again. The pipe holds `EventCap` bytes; 1 is Windows' auto-reset event.

`PacketPath` is the promise for one direction: first in, first out; refused only when full or the link
is down; lost only with the link down. `RxInOrder` and `TxInOrder` are refinements of it, in which the
path is the concatenation of the places a packet may be in.

Run `net`: `RoomIsAnnounced`, `RxInOrder`, `TxInOrder`, `RxServed`, `TxServed`, `CloseReturns`.
Bounds: rings of four slots (three usable), loops of two, five packets in all while a card is attached:
enough to fill a ring, refuse, defer and wrap. They are too few for a later packet to meet a deferred one
with the ring free again; there the theorem `RxIsFifo`, which has no bounds, is the evidence.

Fairness: the timer keeps firing and both threads are scheduled; a thread that waits for a lock gets it
in the end, and a card does not refuse for ever (strong). Nothing is assumed of SLiRP's sockets,
the user or the guest's transmissions: the thread may sleep in `poll()` until it is notified.

## Voodoo command FIFO (`VoodooFifo`)

State: the FIFO's entries, the places of the CPU thread and the FIFO thread, `fifo_mutex`, the events,
flags and the wake timer, the buffer turned to and the one displayed, the swap that is pending, and for each
render thread its triangles. Entries are a pixel, a triangle, a swap at once and a swap at a
retrace; other registers and textures behave like a pixel without the wait. `took` is history: how often
the head has taken effect. The same actions run entries on either thread (`EntryStep(t)`), as in the code.

Merged into one step: sections under `swap_mutex`; a thread's wait, reset and busy flag; drawing a
triangle and the signal after it; appending an entry and the test of `voodoo_busy`; what `voodoo_flush()`
does before the lock; a retrace and its wake-up. Another thread's step between the parts could only make
a wake-up needless. `fifo_not_full_event` is left out, as its only wait ends after a millisecond;
`swap_interval` too, as a retrace that is too early changes only a count.

Assumed of the guest: it draws into the back buffer, and with three buffers swaps at retraces only.

Run `voodoo`: `FlushSeesAll`, `NoTearing`, `SwapsCounted`, `EachOnce`, `Progress`, `CloseReturns`. A closed
card stops, so deadlock is not checked; `Progress` says that nobody is stuck before. Bounds: a
FIFO full at two entries and a ring of one triangle, so that both are full most of the time; one
render thread.

Fairness: every thread goes on while it can (weak), *without* the timeout of the wait for a swap, so
that `Progress` shows no wake-up is lost and not only that a backstop repairs it. Timers run again and
again while the CPU thread is in no access (strong, for retraces and the wake timer). The guest polls
the status register: a command written while the FIFO thread is about to sleep starts no wake timer
(`if (!voodoo->voodoo_busy)`), and is run at the next status read. The wait for idle render threads
does not meet them in their empty rounds for ever (strong).

`CloseReturns` excepts a FIFO that holds a swap at a retrace: `voodoo_card_close()` then joins a thread
that waits for a retrace which only the joining thread could make. `SwapsCounted` bounds the count
from above only: with `FIFO_FULL` line 371 of `vid_voodoo_fifo.c` may subtract one swap twice.

## Pause and hard reset (`Pause`)

State: `dopause`, `do_pause_ack`, `pause_ack`, `hard_reset_pending`, `cpu_thread_run`, where the emulation
thread is in `main_thread_fn()` and `pc_run()`, where the Qt thread is in `plat_pause()` and `do_pause()`,
and the version of the settings, of those a reset read and of those the machine is built from (mixed
if they changed in between). The users of a pause are the menu, the power button and the settings.
`warning()` runs `do_pause(2)` and `do_pause(0)` on the emulation thread, with a box in between that the
Qt thread shows when it is free. `late` is history: blocks begun under a pause. Whether it is time for a
block is left open. Two accesses are one step where no access of the other thread in between matters;
the two stores of `ack_pause()` are one, as the other thread only waits then.

Run `pause`: `AckIsFresh`, `PauseHolds`, `ResetApplies`, `PauseReturns`; a closed program stops, so deadlock
is not checked. The one bound is two changes of the settings: one may fall into the reset for the other.
Fairness: both threads go on (weak); a block and a reset end although devices may warn again and again,
and the time for a block comes (strong). Nothing is assumed of the user, who may leave a box open.

What the properties except or bound does happen in the model:

- The request is posted before `dopause` is stored (`86box.c:2474`). If a block ends in between it
  answers, the loop still reads `dopause` as 0, and one more block runs after `do_pause()` has returned, and
  while `device_power_button()` is called, where a comment says "Wait for CPU acknowledgement before
  changing device state." `PauseHolds` says it is one block at most.
- `do_pause()` never returns if a `warning()` waits for its box, if with an automation client a `warning()`
  clears the answer first, or if the emulation thread ends after `plat_pause()` looked.
- The end of a `warning()` ends whatever pause there is.
- The SDL loop does not answer while paused; put in the Qt loop's place (the variant `IdleSilently`) it
  violates `PauseReturns`.

## What is proved

TLAPS proves these for every value of the constants that satisfies the named assumptions.

| Module | Theorems | Inductive invariant |
|---|---|---|
| `TimerListProofs` | `TypeCorrect`, `LinksCorrect` (`LinkedIffEnabled`), `NoNullHead` (`NoFault`) | `ListInv`: the list has the enabled timers, each once, in whatever order (`Links`); the permanent timers are enabled except the one whose callback runs, and the list is not empty where the code takes its head (`PhaseInv`); a split timer has a part left (`SplitInv`) |
| `TimerQueueProofs` | `ListSorted` (`Sorted`), `TargetCorrect` (`TargetNotLate`), `PeriodsExact` (`PeriodExact`), `Refinement` (`ImplementsClock`); assuming `~RearmWhileRunning` | `IInv`: `ListInv`, and every enabled timer is within `-MaxStep .. MaxDelay` of now (so the wrapping comparison orders like the integers), nothing is overdue while the CPU runs and the cached deadline is not late. For `PeriodsExact`: the deadline and the parts left make up the period asked for. For `Refinement`: each timer's distance from now is the abstract clock's |
| `PicProofs` | `TypeCorrect`, `DecisionsCurrent` (`PendingCurrent`), `CascadeBacked` (`SlaveBacksCascade`), `OutputReported` (`IntrReported`), `LevelsFollow` (`LevelFollowsSources`), `EoiEndsLatest` (`NonSpecificEndsLatest`), `PinnedHeld` and `PinnedHeldResolved` (`PinnedNotDelivered`); the last three with hypotheses, below | the first four together, and: a pending controller is out of initialisation and names an input (`Decided`) above what is in service (`Above`); interrupts in service are nested in the order of priorities (`Nested`); each count of holders agrees with the devices and each level request with its count, and taken-over lines are masked (`Wired`). `NotifyInv` and `QuietInv` carry the argument: a handler either resolves anew or touches nothing that the decision reads |
| `BlitProofs` | `TypeCorrect`, `NeverTears`, `Refinement` (`ImplementsSlot`), `NoWakeupLost` (`WakeupsKept`) | `IInv`: what each flag says of where the other thread is; only the wake-up that closes a monitor comes without a frame. For `NoWakeupLost`: `WInv`, which thread has yet to set what the other waits for, and who holds the mutex meanwhile |
| `ApicProofs` | `TypesHold` (`TypeOK`), `NoneStranded` (`RefusedIsUntakeable`), `LevelsSent`, `EoisCome`, `NoEdgeLost` (`EdgesKept`) | the five together, in the middle of handlers too: what the local APIC could take is still to be tried in this round of the poll (`RInv`); what is Send Pending is unmasked; an EOI's loop has the inputs from `at` on before it (`Shape`). `Fuller` carries the argument: while the local APIC only takes more in, nothing becomes takeable |
| `NetQueueProofs` | `RxIsFifo`, `TxIsFifo` (refinement of `PacketPath`), `RoomAnnounced` | `IInv`: rings hold packets between tail and head, and `recv_on_tx` is set while anything is deferred, without which a later packet would overtake; for `RoomAnnounced` also what each thread has yet to do when the host sleeps (`RInv`). The lemmas on rings turn index arithmetic into sequences |
| `PauseProofs` | `AcksAreFresh`, `PausesHold`, `ResetsApply`, `AnswersKept` (`AnswerKept`) | `IInv`: a request is answered once; until the block begins that `pc_run()` was called for, a pause has seen none; a reset under way read the settings as they are, or another is pending or about to be. For `AnswersKept`: a `warning()` whose box is gone began before the request and leaves it standing |
| `VoodooFifoProofs` | `FlushesSeeAll`, `NothingTears`, `EachRunOnce` (an action property), `CountBounded` (`SwapsCounted`), `NoWakeupLost` (`WakeupsKept`) | `IInv`: who runs entries holds `fifo_mutex`; at each place of the run, what the head entry is and whether it has taken effect; which buffer is displayed while a swap is turned to, posted and shown, for two and for three buffers; a queued triangle's buffer. For `CountBounded`: a swap that a retrace has shown is counted no more although it is still at the head and waited for (`Counted`). For `NoWakeupLost`: the CPU thread runs entries in a flush only, where it waits for no swap (`FInv`), and render threads sleep on empty rings, end after the FIFO thread and have told of their room (`RInv`) |

The assumptions are `RangeAssumption`, `PicAssumption` and so on in each module: positive sizes, finitely
many devices, and what the sections above say of guests.

`WakeupsKept` and `AnswerKept` are stated in the proof modules. They are the part of the liveness
properties that is a matter of states: whoever sleeps, or spins, waits for something that another thread
is on its way to do. In `Blit`, the wait for the buffer needs `CleanSwitch`. In `VoodooFifo`
the timeout of the wait for a swap is shown not to be needed. In `Pause` the theorem says where the
exceptions of `PauseReturns` come from: without an automation client an answer is taken away only by a `warning()` that waits for its box,
and so for the thread that waits for the answer.

Three results on `Pic` need a hypothesis on `Uses`, because without it TLC finds the property violated:

- `EoiEndsLatest` assumes `OrderKept`: the guest does not both poll and move priorities. While a poll has
  the master frozen, a new priority does not resolve the pending interrupt anew, and the poll then
  accepts one that is now below another in service.
- `PinnedHeld` assumes no initialisation (see the run `pic_pinned`) and no poll: a line that is taken over
  while the master is frozen stays pending. `PinnedHeldResolved` allows polls and says that this lasts
  only until priorities are resolved again.

The run `pic_priority` satisfies all of them.

Four results on `TimerQueue` need `~RearmWhileRunning`: `timer_on_auto()` on a timer that runs starts from
its old deadline, so that calls in a row can push it further from now than half the range of the stamps,
where comparisons turn round. With the constants of `timers_rearm` TLC finds not only `PeriodExact`
violated but `Sorted`, `TargetNotLate` and `ImplementsClock` too. What `TimerListProofs` proves holds there
as well: however wrong the order, no timer is linked twice, lost or left behind.

Only model-checked is all liveness (`ProcessTerminates`, `PollsForever`, `FrameLeaves`, `RxServed`,
`TxServed`, `Progress`, `PauseReturns`, `CloseReturns` of frames, network and Voodoo), which with ENABLED is
out of the prover's reach, as are induction over data and RECURSIVE operators; the modules use neither.
`WakeupsKept` and `AnswerKept` are as close as the proofs come: they exclude a wait for what nobody will
do, and leave open whether the other thread is scheduled.

A definition whose comment says Variant is a deliberately wrong form of the one after it, for
mutation: with it in place TLC must find the property violated.

## Not modelled

86Box has about 1.3 million lines, most of them register files, instruction semantics, rasterisers, sound
chips, tables and image formats: sequential, data-heavy code that a model checker does not reach and
unit tests do. The modules here cover some thousands of lines, those where threads, retries and order
decide; the share of the whole stays small whatever is added. `PROJECT.json` gives the reason for each
part left out, and for modelled parts what is missing. The asynchronous IDE read is the one listed hazard
without a property.

## Plan

1. `IdeRead`: the worker against abort and reset.
2. `PciIrq` on top of `Pic`'s level sources and `Apic`'s inputs; several processors with IPIs.
3. `Fifo` against a bounded queue; the Voodoo's CMDFIFO and relaxed frame-buffer reads.
4. `Pause` for the SDL front end, VNC's thread and the lock of `startblit()`, joined with `Blit`.
