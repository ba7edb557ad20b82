-------------------------------- MODULE Pic --------------------------------
(***************************************************************************)
(* The two cascaded 8259 interrupt controllers of an AT-class machine with *)
(* a 286 or later (pic.c), driven by devices, by the guest's writes to     *)
(* their registers and by the CPU's interrupt acknowledge.                 *)
(*                                                                         *)
(* Everything here runs on the emulation thread, one handler at a time.    *)
(* Each handler's changes are computed on a copy of the controllers, and   *)
(* most handlers end in pic_notify(), which resolves priorities anew.      *)
(* The flag bits that the code keeps in dev->interrupt are fields of their *)
(* own: 0x20 is frozen; 0x40 lives only within picinterrupt().             *)
(*                                                                         *)
(* A definition marked Variant is a wrong form of the one that follows it, *)
(* which mutation tests put in its place; no specification uses it.        *)
(***************************************************************************)
EXTENDS Naturals, Sequences, FiniteSets

CONSTANTS
    N,             \* inputs of one controller (8)
    Cascade,       \* the master's input that the slave is wired to (2)
    Redirect,      \* the slave's input that a card set to IRQ 2 reaches (1, IRQ 9)
    LevelSources,  \* devices that hold their line: picint with an irq_state
    EdgeSources,   \* devices that pulse it: picint(), picintc()
    Wire,          \* the IRQ of each source; the slave's are N and up
    Masks,         \* values the guest writes to the mask registers
    PinnedLines,   \* IRQs that a device may take over for its own controller
    Uses           \* what the guest and the board make use of

Inputs == 0 .. N - 1
Irqs == 0 .. 2 * N - 1
Chips == {"pic", "pic2"}
NoIrq == N          \* 0x17

\* One controller. irr, isr and imr are sets of inputs; lines counts the devices that
\* hold an input; nest is history, the inputs in service in the order accepted.
pic_t == [irr : SUBSET Inputs, isr : SUBSET Inputs, imr : SUBSET Inputs, elcr : SUBSET Inputs,
          lines : [Inputs -> Nat], icw3 : {{}, {Cascade}}, i86 : BOOLEAN, aeoi : BOOLEAN,
          state : {"NONE", "ICW2", "ICW3", "ICW4"}, priority : Inputs,
          auto_eoi_rotate : BOOLEAN, special_mask_mode : BOOLEAN, poll : BOOLEAN,
          frozen : BOOLEAN, interrupt : Inputs \cup {NoIrq}, int_pending : BOOLEAN,
          nest : Seq(Inputs)]

ChipOf(irq) == IF irq < N THEN "pic" ELSE "pic2"
InputOf(irq) == IF irq < N THEN irq ELSE irq - N
IrqOf(c, i) == IF c = "pic" THEN i ELSE i + N

Features == {"init", "poll", "ocw3", "smm", "rotate", "setpriority", "aeoi", "elcr", "reset", "extint"}

ASSUME PicAssumption ==
    /\ N \in Nat \ {0} /\ Cascade \in Inputs /\ Redirect \in Inputs
    /\ LevelSources \cap EdgeSources = {} /\ IsFiniteSet(LevelSources)
    /\ Wire \in [LevelSources \cup EdgeSources -> Irqs]
    \* A steered PCI interrupt is never on IRQ 2, and shares no line with an edge.
    /\ \A s \in LevelSources : /\ Wire[s] # Cascade
                               /\ \A e \in EdgeSources : Wire[s] # Wire[e]
                               /\ Cascade \in {Wire[e] : e \in EdgeSources} => Wire[s] # N + Redirect
    /\ Masks \subseteq SUBSET Inputs
    /\ PinnedLines \subseteq Irqs
    /\ Uses \subseteq Features

VARIABLES
    pics,       \* the two pic_t's
    irq_state,  \* the level sources' irq_state
    pinned,     \* pic_pinned_irqs
    forgotten,  \* history: IRQs held by a source that pic_reset() no longer counts
    reported,   \* pic_intr_reported: INTR as the I/O APIC's input sees it
    stale       \* history: a handler changed a controller and did not resolve priorities

vars == <<pics, irq_state, pinned, forgotten, reported, stale>>

(* Who asserts input i of controller c. *)
Asserting(c, i) == {s \in LevelSources : irq_state[s] /\ Wire[s] = IrqOf(c, i)}

LevelInputs(c) == {i \in Inputs : \E s \in LevelSources : Wire[s] = IrqOf(c, i)}

-----------------------------------------------------------------------------
(* One controller, d.                                                      *)

\* Position of input j in the priority order, which starts at d.priority.
Rank(d, j) == IF j >= d.priority THEN j - d.priority ELSE j + N - d.priority

Highest(d, S) ==
    IF S = {} THEN NoIrq ELSE CHOOSE j \in S : \A k \in S : Rank(d, j) <= Rank(d, k)

\* Variant: interrupts in service do not hold back those below them.
BestIgnoringService(d) == Highest(d, {j \in d.irr \ d.imr : d.state = "NONE"})

\* The unmasked request of the highest priority, unless one of higher or the same
\* priority is in service.
find_best_interrupt(d) ==
    Highest(d, {j \in d.irr \ d.imr : /\ d.state = "NONE"
                                      /\ \A k \in d.isr : Rank(d, j) < Rank(d, k)})

Resolved(d) ==
    LET best == find_best_interrupt(d)
    IN  [d EXCEPT !.interrupt = best, !.int_pending = (best # NoIrq), !.frozen = FALSE]

\* q, in which i occurs at most once, without i.
Without(q, i) ==
    LET at == {n \in 1 .. Len(q) : q[n] = i}
        k == CHOOSE n \in at : TRUE
    IN  IF at = {} THEN q ELSE [n \in 1 .. Len(q) - 1 |-> IF n < k THEN q[n] ELSE q[n + 1]]

\* Variant: a level that is still held is dropped.
AcknowledgeDropsLevel(d) ==
    LET i == d.interrupt
    IN  [d EXCEPT !.isr = @ \cup {i}, !.irr = @ \ {i},
                  !.nest = Append(Without(@, i), i)]

\* The request moves into service. A level that is still held stays requested.
pic_acknowledge(d) ==
    LET i == d.interrupt
    IN  [d EXCEPT !.isr = @ \cup {i},
                  !.irr = IF i \in d.elcr /\ d.lines[i] # 0 THEN @ ELSE @ \ {i},
                  !.nest = Append(Without(@, i), i)]

pic_non_specific_find(d) ==
    Highest(d, {j \in d.isr : d.special_mask_mode => j \notin d.imr})

EndService(d, irq) ==
    [d EXCEPT !.isr = @ \ {irq}, !.nest = Without(@, irq)]

\* irq gets the lowest priority. (nest: only when irq was the latest does this keep
\* the order of the others.)
RotateAfter(d, irq) ==
    [d EXCEPT !.priority = IF irq = N - 1 THEN 0 ELSE irq + 1,
              !.nest = IF d.special_mask_mode THEN <<>> ELSE @]

pic_auto_non_specific_eoi(d) ==
    LET irq == pic_non_specific_find(d)
        e == EndService(d, irq)
    IN  IF ~d.aeoi \/ irq = NoIrq THEN d
        ELSE IF d.auto_eoi_rotate THEN RotateAfter(e, irq) ELSE e

-----------------------------------------------------------------------------
(* Both controllers, p.                                                    *)

\* Variant: the slave's request is never withdrawn.
UpdatedNeverClears(p) ==
    LET s == Resolved(p.pic2)
        m == [p.pic EXCEPT !.irr = IF s.int_pending THEN @ \cup {Cascade} ELSE @]
    IN  [p EXCEPT !.pic = Resolved(m), !.pic2 = s]

\* pic_update_pending_at(): the slave's output feeds the master's input.
Updated(p) ==
    LET s == Resolved(p.pic2)
        m == [p.pic EXCEPT !.irr = IF s.int_pending THEN @ \cup {Cascade} ELSE @ \ {Cascade}]
    IN  [p EXCEPT !.pic = Resolved(m), !.pic2 = s]

\* Variant: the output is not reported to the I/O APIC.
NotifyUnreported(p) ==
    /\ UNCHANGED reported
    /\ IF p.pic.frozen THEN pics' = p /\ stale' = TRUE
       ELSE pics' = Updated(p) /\ stale' = FALSE

\* A frozen master keeps both as they are.
pic_notify(p) ==
    IF p.pic.frozen
    THEN pics' = p /\ stale' = TRUE /\ UNCHANGED reported
    ELSE pics' = Updated(p) /\ stale' = FALSE /\ reported' = pics'.pic.int_pending

\* What a handler that ends without pic_notify() leaves.
Quiet(p) == pics' = p /\ UNCHANGED <<stale, reported>>

-----------------------------------------------------------------------------
(* Devices.                                                                *)

\* In cascade mode a raise or a lower of the slave's input goes to IRQ 9.
Routed(irq) == IF irq = Cascade /\ Cascade \in pics.pic.icw3 THEN N + Redirect ELSE irq

Requests(p, irq, set) ==
    LET i == InputOf(irq)
    IN  [p EXCEPT ![ChipOf(irq)].irr = IF set THEN @ \cup {i} ELSE @ \ {i}]

\* picint(), picintc(): the request bit follows the call.
Edge(e, set) ==
    /\ pic_notify(Requests(pics, Routed(Wire[e]), set))
    /\ UNCHANGED <<irq_state, pinned, forgotten>>

\* picint_common() with the source's irq_state. The first source to raise the
\* line and the last one to lower it count; an edge-triggered input also sees
\* every call.
Level(s, set) ==
    LET irq == Wire[s]
        c == ChipOf(irq)
        i == InputOf(irq)
        changes == irq_state[s] # set
        count == IF ~changes THEN pics[c].lines[i]
                 ELSE IF set THEN pics[c].lines[i] + 1
                 ELSE IF pics[c].lines[i] # 0 THEN pics[c].lines[i] - 1 ELSE 0
        counted == [pics EXCEPT ![c].lines[i] = count]
        seen == \/ i \notin pics[c].elcr
                \/ changes /\ count = IF set THEN 1 ELSE 0
    IN  /\ irq_state' = [irq_state EXCEPT ![s] = set]
        /\ forgotten' = IF \E u \in LevelSources : irq_state'[u] /\ Wire[u] = irq
                        THEN forgotten ELSE forgotten \ {irq}
        /\ IF seen THEN pic_notify(Requests(counted, irq, set)) ELSE Quiet(counted)
        /\ UNCHANGED pinned

\* pic_set_line_pinned()
Pin(irq, on) ==
    LET c == ChipOf(irq)
        i == InputOf(irq)
    IN  /\ pinned' = IF on THEN pinned \cup {irq} ELSE pinned \ {irq}
        /\ pic_notify([pics EXCEPT ![c].imr = IF on THEN @ \cup {i} ELSE @ \ {i}])
        /\ UNCHANGED <<irq_state, forgotten>>

-----------------------------------------------------------------------------
(* The guest's writes to the registers of controller c.                    *)

\* Variant: lines taken over by a device are not held masked.
PinnedOfNone(c) == {}

PinnedOf(c) == {i \in Inputs : IrqOf(c, i) \in pinned}

GuestUses(f) == f \in Uses /\ UNCHANGED <<irq_state, pinned, forgotten>>

\* ICW1. Requests are rebuilt from the lines still held.
ICW1(c) ==
    /\ GuestUses("init")
    /\ pic_notify([pics EXCEPT ![c] =
          [@ EXCEPT !.irr = {i \in Inputs : pics[c].lines[i] > 0}, !.imr = {}, !.isr = {},
                    !.nest = <<>>, !.icw3 = {}, !.priority = 0, !.auto_eoi_rotate = FALSE,
                    !.special_mask_mode = FALSE, !.poll = FALSE, !.frozen = FALSE,
                    !.interrupt = NoIrq, !.int_pending = FALSE, !.state = "ICW2"]])

ICW2(c) ==
    /\ GuestUses("init")
    /\ pics[c].state = "ICW2"
    /\ Quiet([pics EXCEPT ![c].state = "ICW3"])

\* For the slave, icw3 = {Cascade} stands for the identity Cascade.
ICW3(c, v) ==
    /\ GuestUses("init")
    /\ pics[c].state = "ICW3"
    /\ Quiet([pics EXCEPT ![c].icw3 = v, ![c].state = "ICW4"])

\* ICW4, in 8086 mode. Requests are accepted again, and not resolved.
ICW4(c, aeoi) ==
    /\ GuestUses("init")
    /\ pics[c].state = "ICW4"
    /\ aeoi => "aeoi" \in Uses
    /\ pics' = [pics EXCEPT ![c].aeoi = aeoi, ![c].i86 = TRUE, ![c].state = "NONE"]
    /\ stale' = TRUE
    /\ UNCHANGED reported

\* Variant: priorities are not resolved after a change of the mask.
OCW1Quiet(c, mask) ==
    /\ UNCHANGED <<irq_state, pinned, forgotten>>
    /\ pics[c].state = "NONE"
    /\ Quiet([pics EXCEPT ![c].imr = mask \cup PinnedOf(c)])

OCW1(c, mask) ==
    /\ UNCHANGED <<irq_state, pinned, forgotten>>
    /\ pics[c].state = "NONE"
    /\ pic_notify([pics EXCEPT ![c].imr = mask \cup PinnedOf(c)])

\* OCW2, non-specific end of interrupt, with or without rotation.
NonSpecificEOI(c, rotate) ==
    LET irq == pic_non_specific_find(pics[c])
        e == EndService(pics[c], irq)
    IN  /\ UNCHANGED <<irq_state, pinned, forgotten>>
        /\ rotate => "rotate" \in Uses
        /\ irq # NoIrq
        /\ pic_notify([pics EXCEPT ![c] = IF rotate THEN RotateAfter(e, irq) ELSE e])

\* OCW2, specific end of interrupt.
SpecificEOI(c, i) ==
    /\ UNCHANGED <<irq_state, pinned, forgotten>>
    /\ pic_notify([pics EXCEPT ![c] = EndService(@, i)])

\* OCW2, set priority, and the same with an end of interrupt.
SetPriority(c, i, eoi) ==
    /\ GuestUses("setpriority")
    /\ pic_notify([pics EXCEPT ![c] =
          [RotateAfter(IF eoi THEN EndService(@, i) ELSE @, i) EXCEPT !.nest = <<>>]])

\* OCW2, rotation in automatic EOI mode.
AutoRotate(c, on) ==
    /\ GuestUses("rotate")
    /\ Quiet([pics EXCEPT ![c].auto_eoi_rotate = on])

\* OCW3 with the poll bit poll, and special mask mode set to smm.
OCW3(c, poll, smm) ==
    /\ GuestUses(IF poll THEN "poll" ELSE "ocw3")
    /\ smm => "smm" \in Uses
    /\ Quiet([pics EXCEPT ![c].poll = poll, ![c].frozen = @ \/ poll,
                          ![c].special_mask_mode = smm])

\* A read in poll mode.
PollRead(c) ==
    LET d == [pics[c] EXCEPT !.frozen = FALSE, !.poll = FALSE]
    IN  /\ GuestUses("poll")
        /\ pics[c].poll
        /\ IF d.int_pending
           THEN pic_notify([pics EXCEPT ![c] = [pic_acknowledge(d) EXCEPT !.int_pending = FALSE]])
           ELSE Quiet([pics EXCEPT ![c] = d])

\* The edge/level register. Software changes the mode of inputs at rest.
WriteElcr(c, level) ==
    /\ GuestUses("elcr")
    /\ \A i \in LevelInputs(c) : (i \in level) # (i \in pics[c].elcr) =>
            i \notin pics[c].irr /\ pics[c].lines[i] = 0
    /\ Quiet([pics EXCEPT ![c].elcr = level])

-----------------------------------------------------------------------------
(* The CPU.                                                                *)

\* picinterrupt(): both acknowledge cycles. Without a pending interrupt it makes
\* up a spurious one on the last input. (The guest polls with interrupts off and
\* enables them once the controllers are in 8086 mode.)
PicInterrupt ==
    LET pending == pics.pic.int_pending
        m == IF pending THEN pics.pic ELSE [pics.pic EXCEPT !.interrupt = N - 1]
        s == pics.pic2
        slave_on == pending /\ m.interrupt \in m.icw3
        marked == slave_on /\ s.int_pending
        answers == marked /\ Cascade \in s.icw3
        m1 == pic_auto_non_specific_eoi(pic_acknowledge(m))
        s1 == IF answers THEN [pic_auto_non_specific_eoi(pic_acknowledge(s)) EXCEPT !.int_pending = FALSE]
              ELSE IF slave_on /\ ~marked THEN [s EXCEPT !.int_pending = TRUE, !.interrupt = N - 1]
              ELSE s
        p == [pics EXCEPT !.pic = [m1 EXCEPT !.interrupt = NoIrq, !.int_pending = FALSE,
                                             !.nest = IF pending THEN @ ELSE <<>>],
                          !.pic2 = IF marked THEN [s1 EXCEPT !.interrupt = NoIrq, !.frozen = FALSE]
                                   ELSE s1]
    IN  /\ pics.pic.i86 /\ ~pics.pic.frozen
        /\ pending \/ "extint" \in Uses
        /\ pic_notify(p)
        /\ UNCHANGED <<irq_state, pinned, forgotten>>

-----------------------------------------------------------------------------
(* pic_reset() and the machine.                                            *)

Reset0(masked) ==
    [irr |-> {}, isr |-> {}, imr |-> masked, lines |-> [i \in Inputs |-> 0], elcr |-> {},
     icw3 |-> {}, i86 |-> FALSE, aeoi |-> FALSE, state |-> "NONE", priority |-> 0,
     auto_eoi_rotate |-> FALSE, special_mask_mode |-> FALSE, poll |-> FALSE,
     frozen |-> FALSE, interrupt |-> NoIrq, int_pending |-> FALSE, nest |-> <<>>]

\* The controllers as firmware programs them; automatic EOI is for the master.
Programmed(aeoi) ==
    [c \in Chips |-> [Reset0({}) EXCEPT !.icw3 = {Cascade}, !.i86 = TRUE,
                                        !.aeoi = aeoi /\ c = "pic"]]

Init ==
    /\ IF "init" \in Uses THEN pics = [c \in Chips |-> Reset0({})]
       ELSE \E aeoi \in BOOLEAN : /\ aeoi => "aeoi" \in Uses
                                 /\ pics = Programmed(aeoi)
    /\ irq_state = [s \in LevelSources |-> FALSE]
    /\ pinned = {} /\ forgotten = {} /\ reported = FALSE /\ stale = FALSE

\* device_reset_all(), then pic_reset(). The devices in kept have no reset handler:
\* their irq_state survives, while the controllers forget who holds a line.
Reset(kept) ==
    /\ "reset" \in Uses
    /\ pics' = [c \in Chips |-> Reset0(PinnedOf(c))]
    /\ irq_state' = [s \in LevelSources |-> irq_state[s] /\ s \in kept]
    /\ forgotten' = {irq \in Irqs : \E s \in kept : irq_state[s] /\ Wire[s] = irq}
    /\ reported' = FALSE /\ stale' = FALSE
    /\ UNCHANGED pinned

Guest(c) ==
    \/ ICW1(c) \/ ICW2(c)
    \/ \E v \in {{}, {Cascade}} : ICW3(c, v)
    \/ \E b \in BOOLEAN : ICW4(c, b)
    \/ \E mask \in Masks : OCW1(c, mask)
    \/ \E b \in BOOLEAN : NonSpecificEOI(c, b)
    \/ \E i \in Inputs : SpecificEOI(c, i)
    \/ \E i \in Inputs, b \in BOOLEAN : SetPriority(c, i, b)
    \/ \E b \in BOOLEAN : AutoRotate(c, b)
    \/ \E b, m \in BOOLEAN : OCW3(c, b, m)
    \/ PollRead(c)
    \/ \E level \in SUBSET LevelInputs(c) : WriteElcr(c, level)

Next ==
    \/ \E e \in EdgeSources, b \in BOOLEAN : Edge(e, b)
    \/ \E s \in LevelSources, b \in BOOLEAN : Level(s, b)
    \/ \E irq \in PinnedLines, b \in BOOLEAN : Pin(irq, b)
    \/ \E c \in Chips : Guest(c)
    \/ PicInterrupt
    \/ \E kept \in SUBSET LevelSources : Reset(kept)

Spec == Init /\ [][Next]_vars

-----------------------------------------------------------------------------
\* Type invariant.
TypeOK ==
    /\ pics \in [Chips -> pic_t]
    /\ irq_state \in [LevelSources -> BOOLEAN]
    /\ pinned \subseteq PinnedLines /\ forgotten \subseteq Irqs
    /\ reported \in BOOLEAN /\ stale \in BOOLEAN

\* find_best_interrupt()'s answer is d's interrupt: requested, unmasked, above
\* whatever is in service and above every other such request.
Current(d) ==
    LET open == {j \in d.irr \ d.imr : \A k \in d.isr : Rank(d, j) < Rank(d, k)}
    IN  IF d.int_pending
        THEN d.state = "NONE" /\ d.interrupt \in open
             /\ \A k \in open : Rank(d, d.interrupt) <= Rank(d, k)
        ELSE d.state # "NONE" \/ open = {}

\* No handler leaves a stale decision behind: whatever devices, guest and CPU did,
\* both controllers' outputs are what their registers imply and the slave's is
\* what the master sees. The exceptions are changes made while the master is
\* frozen and the end of the initialisation sequence (pic.c:817), until the
\* next pic_notify().
PendingCurrent ==
    ~stale => /\ \A c \in Chips : Current(pics[c])
              /\ (Cascade \in pics.pic.irr) = pics.pic2.int_pending

\* "If we are on AT, IRQ 2 is pending, and we cannot find a pending IRQ on PIC 2,
\* fatal out" (pic.c:1389, 1417): the case does not arise, stale or not, when the
\* CPU acknowledges.
SlaveBacksCascade ==
    pics.pic.int_pending /\ ~pics.pic.frozen /\ pics.pic.interrupt \in pics.pic.icw3
        => pics.pic2.int_pending

\* A level-triggered input requests service exactly while some device holds the
\* line, through sharing, acknowledges, polls and re-initialisation; no count
\* wraps, sticks or drops a device. Where a device held its line through a reset
\* the request may be missing until all let go, but it never outlives them.
LevelFollowsSources ==
    \A c \in Chips : \A i \in LevelInputs(c) :
        LET holders == Asserting(c, i)
            requested == i \in pics[c].irr
        IN  /\ pics[c].lines[i] <= Cardinality(holders)
            /\ i \in pics[c].elcr => (requested => holders # {})
            /\ IrqOf(c, i) \notin forgotten =>
                 /\ pics[c].lines[i] = Cardinality(holders)
                 /\ i \in pics[c].elcr => (holders # {} => requested)

\* INTIN0 of the I/O APIC always shows the master's output (pic_intr_report).
IntrReported == reported = pics.pic.int_pending

\* A non-specific EOI, rotating or automatic too, ends the interrupt accepted
\* last: service is nested in the order of priorities. (nest forgets what was
\* accepted before the guest set a priority, and before a spurious interrupt.)
NonSpecificEndsLatest ==
    \A c \in Chips : pics[c].nest # <<>> /\ ~pics[c].special_mask_mode =>
        pic_non_specific_find(pics[c]) = pics[c].nest[Len(pics[c].nest)]

\* "the interrupt controller must not deliver them, whatever the guest writes to
\* its mask register, so those bits are held set here" (pic.c:85).
PinnedNotDelivered ==
    \A c \in Chips : pics[c].int_pending => IrqOf(c, pics[c].interrupt) \notin pinned

\* "Freeze the interrupt until the poll is over" (pic.c:877).
FrozenOnlyDuringPoll == \A c \in Chips : pics[c].frozen => pics[c].poll
=============================================================================
