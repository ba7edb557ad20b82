-------------------------------- MODULE Apic --------------------------------
(***************************************************************************)
(* The I/O APIC (ioapic.c) and the local APIC it sends to (lapic*.c,       *)
(* cpu_lapic.c) on a machine with one processor, for entries with fixed    *)
(* delivery. The I/O APIC turns an input into a message; the local APIC    *)
(* takes it into its IRR if it is enabled, is addressed, and has a slot:   *)
(* two of each priority class, one of each vector. A refused message is    *)
(* held Send Pending and goes again when the local APIC can take it.       *)
(*                                                                         *)
(* All of it runs on the emulation thread. A handler that sends several    *)
(* messages is a sequence of steps here, one for each input it looks at;   *)
(* "step" says what is left of it, and nothing else happens meanwhile.     *)
(*                                                                         *)
(* Polarity is left out: ioapic_wire_drive() and                           *)
(* ioapic_raw_intin_device() apply it twice, and it cancels.               *)
(*                                                                         *)
(* A definition marked Variant is a wrong form of the one that follows it, *)
(* which mutation tests put in its place; no specification uses it.        *)
(***************************************************************************)
EXTENDS Naturals, FiniteSets

CONSTANTS N,             \* the number of inputs (24 on the 82093AA)
          EdgeVectors, LevelVectors,  \* what the guest gives its edge and level entries
          LocalVectors,  \* what the timer and self interrupts use
          TPRs,          \* the task priorities the guest sets
          Addresses,     \* logical addresses
          NoAddress,     \* a logical address that matches no destination: LDR = 0
          Programs       \* the entries the guest writes to each input

Vectors == EdgeVectors \cup LevelVectors \cup LocalVectors

Pins == 0..(N - 1)

Entries == [masked : BOOLEAN, level : BOOLEAN, vector : EdgeVectors \cup LevelVectors,
            dest : Addresses]

\* No vector is shared between edge and level entries, or with the local
\* sources: the local APIC keeps one trigger mode for a vector.
ASSUME ApicAssumption ==
    /\ N \in Nat \ {0}
    /\ Vectors \subseteq 16..255
    /\ EdgeVectors \cap LevelVectors = {} /\ LocalVectors \cap (EdgeVectors \cup LevelVectors) = {}
    /\ TPRs \subseteq 0..255 /\ 0 \in TPRs
    /\ EdgeVectors # {} /\ Addresses # {}
    /\ NoAddress \notin Addresses
    /\ Programs \in [Pins -> SUBSET Entries]
    /\ \A pin \in Pins : \A e \in Programs[pin] :
           e.vector \in (IF e.level THEN LevelVectors ELSE EdgeVectors)

VARIABLES
    redir,        \* the redirection table, without its Remote IRR bits
    remote_irr,   \* the inputs whose entry has Remote IRR set
    line,         \* the asserted inputs
    send_pending, \* the inputs whose message was refused
    poll_next,    \* where the next round of the poll begins
    enabled, address, tpr, irr, isr, tmr,    \* the local APIC
    step,         \* what the running handler is doing, or "idle"
    at, todo,     \* the input it looks at next, and all those it still has to
    ending,       \* the vector whose end is still to be broadcast, or 0
    owed,         \* history: the edges seen for a vector and not yet taken by the processor
    orphan        \* history: the inputs whose EOI the guest has given up

ioapic == <<redir, remote_irr, line, send_pending, poll_next>>
lapic == <<enabled, address, tpr, irr, isr, tmr>>
handler == <<step, at, todo, ending>>
history == <<owed, orphan>>
vars == <<ioapic, lapic, handler, history>>

-----------------------------------------------------------------------------
(* The local APIC's side of the bus.                                       *)

Class(v) == v \div 16

InClass(S, v) == {w \in S : Class(w) = Class(v)}

\* Variant: a vector already pending is taken once more.
SlotFreeMerging(v) == Cardinality(InClass(irr, v)) + Cardinality(InClass(isr, v)) < 2

\* cpu_lapic_slot_free_index()
SlotFree(v) ==
    /\ v \notin irr
    /\ Cardinality(InClass(irr, v)) + Cardinality(InClass(isr, v)) < 2

\* ioapic_redir_select_targets(), lapic_targets_accept_fixed()
Takes(e) == enabled /\ e.dest = address /\ SlotFree(e.vector)

\* Variant: the trigger mode register is not written.
AcceptEdge(v, level) == irr' = irr \cup {v} /\ tmr' = tmr \ {v}

\* cpu_lapic_accept_interrupt_index()
Accept(v, level) ==
    /\ irr' = irr \cup {v}
    /\ tmr' = IF level THEN tmr \cup {v} ELSE tmr \ {v}

-----------------------------------------------------------------------------
(* The I/O APIC's.                                                         *)

\* A message of entry e put on the bus.
Send(pin, e, rirr) ==
    IF Takes(e)
    THEN /\ Accept(e.vector, e.level)
         /\ send_pending' = send_pending \ {pin}
         /\ remote_irr' = IF e.level THEN rirr \cup {pin} ELSE rirr
    ELSE /\ send_pending' = send_pending \cup {pin}
         /\ remote_irr' = rirr
         /\ UNCHANGED <<irr, tmr>>

\* ioapic_deliver_pin(): e is the entry, rirr the inputs with Remote IRR set.
ioapic_deliver_pin(pin, e, rirr, asserted) ==
    IF asserted /\ ~e.masked /\ ~(e.level /\ pin \in rirr)
    THEN Send(pin, e, rirr)
    ELSE /\ send_pending' = IF e.masked \/ (e.level /\ ~asserted)
                            THEN send_pending \ {pin} ELSE send_pending
         /\ remote_irr' = rirr
         /\ UNCHANGED <<irr, tmr>>

\* ioapic_wire_drive(), ioapic_raw_intin_device(): the input is driven
\* high or low. An edge on an entry whose message is still to send is that
\* same message.
Drive(pin, high) ==
    LET e == redir[pin]
        rising == high /\ pin \notin line
    IN  /\ line' = IF high THEN line \cup {pin} ELSE line \ {pin}
        /\ IF e.masked \/ e.level \/ rising
           THEN ioapic_deliver_pin(pin, e, remote_irr, high)
           ELSE UNCHANGED <<send_pending, remote_irr, irr, tmr>>
        /\ owed' = IF rising /\ ~e.masked /\ ~e.level /\ pin \notin send_pending
                   THEN [owed EXCEPT ![e.vector] = @ + 1] ELSE owed
        /\ UNCHANGED <<redir, poll_next, enabled, address, tpr, isr, todo, ending, orphan>>

\* ioapic_wire_set() for a level source: a PCI interrupt, the output of
\* the 8259, or a shared ISA interrupt.
SetLine(pin) ==
    /\ step = "idle" /\ pin \notin line
    /\ Drive(pin, TRUE)
    /\ UNCHANGED <<step, at>>

ClearLine(pin) ==
    /\ step = "idle" /\ pin \in line
    /\ Drive(pin, FALSE)
    /\ UNCHANGED <<step, at>>

\* ioapic_wire_set() for an edge source, which pulses the wire. If another
\* source holds the wire it is driven high twice, and the second time
\* changes nothing.
Pulse(pin) ==
    /\ step = "idle"
    /\ Drive(pin, TRUE)
    /\ IF pin \in line THEN UNCHANGED <<step, at>> ELSE step' = "fall" /\ at' = pin

Fall ==
    /\ step = "fall" /\ step' = "idle"
    /\ Drive(at, FALSE)
    /\ at' = 0

\* A level entry sees its line afresh, an edge entry sends again what was
\* refused. The code may call ioapic_deliver_pin() twice for this; the
\* second call changes nothing.
StoreEntry(pin, e, rirr) ==
    LET old == redir[pin]
        held == pin \in send_pending
        gone(v) == held /\ ~old.level /\ v = old.vector
        here(v) == held /\ ~e.level /\ ~e.masked /\ v = e.vector
    IN  /\ step = "idle"
        /\ redir' = [redir EXCEPT ![pin] = e]
        /\ IF e.masked \/ e.level \/ held
           THEN ioapic_deliver_pin(pin, e, rirr, e.level => pin \in line)
           ELSE remote_irr' = rirr /\ UNCHANGED <<send_pending, irr, tmr>>
        /\ owed' = [v \in EdgeVectors |->
                       (owed[v] + IF here(v) THEN 1 ELSE 0) - IF gone(v) THEN 1 ELSE 0]
        /\ orphan' = IF e.level /\ e.vector = old.vector THEN orphan
                     ELSE (orphan \ {pin}) \cup (rirr \cap {pin})
        /\ UNCHANGED <<line, poll_next, enabled, address, tpr, isr, handler>>

\* Variant: Remote IRR outlives the level entry it belongs to.
WriteRedirKeeping(pin, e) == StoreEntry(pin, e, remote_irr)

\* ioapic_window_write() to either half of an entry.
WriteRedir(pin, e) ==
    StoreEntry(pin, e, IF e.level THEN remote_irr ELSE remote_irr \ {pin})

-----------------------------------------------------------------------------
(* Sending again what was refused.                                         *)

\* The handler goes on to a round of the poll if there is cause to, then to
\* the broadcast of vector v's end, if there is one.
PollIf(cause, v) ==
    /\ step' = IF cause THEN "poll" ELSE IF v # 0 THEN "eoi" ELSE "idle"
    /\ at' = IF cause THEN poll_next ELSE 0
    /\ todo' = IF cause \/ v # 0 THEN Pins ELSE {}
    /\ ending' = v

\* ioapic_retry_deliveries()
ioapic_retry_deliveries == PollIf(send_pending # {}, 0)

\* ioapic_retry_pending_transaction(), one input of the round: an entry
\* with a message to send tries once.
Poll ==
    LET e == redir[at]
        held == at \in send_pending
        following == (at + 1) % N
    IN  /\ step = "poll"
        /\ IF ~e.masked /\ (held \/ (e.level /\ at \in line))
           THEN /\ ioapic_deliver_pin(at, e, remote_irr, e.level => at \in line)
                /\ poll_next' = IF at \in send_pending' THEN poll_next ELSE following
           ELSE UNCHANGED <<send_pending, remote_irr, irr, tmr, poll_next>>
        /\ todo' = IF todo # {at} THEN todo \ {at} ELSE IF ending # 0 THEN Pins ELSE {}
        /\ step' = IF todo # {at} THEN "poll" ELSE IF ending # 0 THEN "eoi" ELSE "idle"
        /\ at' = IF todo # {at} THEN following ELSE 0
        /\ UNCHANGED <<redir, line, enabled, address, tpr, isr, ending, history>>

\* Variant: an input that is still asserted is not looked at.
BroadcastOnly ==
    LET ends == redir[at].vector = ending /\ at \in remote_irr
    IN  /\ step = "eoi"
        /\ remote_irr' = IF ends THEN remote_irr \ {at} ELSE remote_irr
        /\ todo' = todo \ {at}
        /\ IF todo = {at} THEN step' = "idle" /\ at' = 0 /\ ending' = 0
                          ELSE at' = at + 1 /\ UNCHANGED <<step, ending>>
        /\ orphan' = IF ends THEN orphan \ {at} ELSE orphan
        /\ UNCHANGED <<redir, line, send_pending, poll_next, lapic, owed>>

\* ioapic_eoi(), one input of its loop.
Broadcast ==
    LET e == redir[at]
        ends == e.vector = ending /\ at \in remote_irr
    IN  /\ step = "eoi"
        /\ IF ends /\ at \in line
           THEN ioapic_deliver_pin(at, e, remote_irr \ {at}, TRUE)
           ELSE /\ remote_irr' = IF ends THEN remote_irr \ {at} ELSE remote_irr
                /\ UNCHANGED <<send_pending, irr, tmr>>
        /\ todo' = todo \ {at}
        /\ IF todo = {at} THEN step' = "idle" /\ at' = 0 /\ ending' = 0
                          ELSE at' = at + 1 /\ UNCHANGED <<step, ending>>
        /\ orphan' = IF ends THEN orphan \ {at} ELSE orphan
        /\ UNCHANGED <<redir, line, poll_next, enabled, address, tpr, isr, owed>>

\* ioapic_window_write() to the I/O APIC's own ID.
WriteIoapicId ==
    /\ step = "idle"
    /\ PollIf(TRUE, 0)
    /\ UNCHANGED <<ioapic, lapic, history>>

-----------------------------------------------------------------------------
(* The local APIC.                                                         *)

Highest(S) == CHOOSE v \in S : \A w \in S : w <= v

\* cpu_lapic_ppr_value_index(), as far as delivery looks at it.
Priority == IF isr = {} \/ Class(tpr) > Class(Highest(isr)) THEN Class(tpr)
            ELSE Class(Highest(isr))

\* lapic_init_signal(): an INIT message. The I/O APIC keeps its Remote IRR
\* bits, whose EOIs will not come.
InitSignal ==
    /\ step = "idle"
    /\ enabled' = FALSE /\ address' = NoAddress /\ tpr' = 0
    /\ irr' = {} /\ isr' = {} /\ tmr' = {}
    /\ ioapic_retry_deliveries
    /\ owed' = [v \in EdgeVectors |-> IF v \in irr THEN owed[v] - 1 ELSE owed[v]]
    /\ orphan' = remote_irr
    /\ UNCHANGED ioapic

\* Variant: what waits for the vector is not sent again.
PromoteSilently ==
    /\ step = "idle"
    /\ irr # {} /\ enabled /\ Class(Highest(irr)) > Priority
    /\ irr' = irr \ {Highest(irr)} /\ isr' = isr \cup {Highest(irr)}
    /\ owed' = [v \in EdgeVectors |-> IF v = Highest(irr) THEN owed[v] - 1 ELSE owed[v]]
    /\ UNCHANGED <<ioapic, enabled, address, tpr, tmr, handler, orphan>>

\* lapic_promote_irr(): the processor takes an interrupt.
lapic_promote_irr ==
    /\ step = "idle"
    /\ irr # {} /\ enabled /\ Class(Highest(irr)) > Priority
    /\ irr' = irr \ {Highest(irr)} /\ isr' = isr \cup {Highest(irr)}
    /\ ioapic_retry_deliveries
    /\ owed' = [v \in EdgeVectors |-> IF v = Highest(irr) THEN owed[v] - 1 ELSE owed[v]]
    /\ UNCHANGED <<ioapic, enabled, address, tpr, tmr, orphan>>

\* lapic_writel() to EOI. The freed slot is given out first, then the end
\* of a level interrupt is broadcast.
WriteEOI ==
    /\ step = "idle" /\ isr # {}
    /\ isr' = isr \ {Highest(isr)}
    /\ PollIf(send_pending # {}, IF Highest(isr) \in tmr THEN Highest(isr) ELSE 0)
    /\ UNCHANGED <<ioapic, enabled, address, tpr, irr, tmr, history>>

\* lapic_writel() to SVR; to LDR or DFR; to TPR.
WriteSVR(on) ==
    /\ step = "idle"
    /\ enabled' = on
    /\ ioapic_retry_deliveries
    /\ UNCHANGED <<ioapic, address, tpr, irr, isr, tmr, history>>

WriteLDR(a) ==
    /\ step = "idle"
    /\ address' = a
    /\ ioapic_retry_deliveries
    /\ UNCHANGED <<ioapic, enabled, tpr, irr, isr, tmr, history>>

WriteTPR(t) ==
    /\ step = "idle"
    /\ tpr' = t
    /\ UNCHANGED <<ioapic, enabled, address, irr, isr, tmr, handler, history>>

\* lapic_timer_callback(): the timer needs no slot.
TimerFires(v) ==
    /\ step = "idle" /\ enabled
    /\ Accept(v, FALSE)
    /\ UNCHANGED <<ioapic, enabled, address, tpr, isr, handler, history>>

\* lapic_icr_fixed_write() for a self interrupt, which needs no slot and no
\* enabled APIC, and the poll that follows every write of the ICR.
SelfInterrupt(v) ==
    /\ step = "idle"
    /\ Accept(v, FALSE)
    /\ PollIf(TRUE, 0)
    /\ UNCHANGED <<ioapic, enabled, address, tpr, isr, history>>

-----------------------------------------------------------------------------
\* ioapic_reset()
Idle == [masked |-> TRUE, level |-> FALSE, vector |-> CHOOSE v \in EdgeVectors : TRUE,
         dest |-> CHOOSE a \in Addresses : TRUE]

Init ==
    /\ redir = [pin \in Pins |-> Idle] /\ remote_irr = {} /\ line = {}
    /\ send_pending = {} /\ poll_next = 0
    /\ enabled = FALSE /\ address = NoAddress /\ tpr = 0 /\ irr = {} /\ isr = {} /\ tmr = {}
    /\ step = "idle" /\ at = 0 /\ todo = {} /\ ending = 0
    /\ owed = [v \in EdgeVectors |-> 0] /\ orphan = {}

Reset ==
    /\ step = "idle"
    /\ redir' = [pin \in Pins |-> Idle] /\ remote_irr' = {} /\ line' = {}
    /\ send_pending' = {} /\ poll_next' = 0
    /\ enabled' = FALSE /\ address' = NoAddress /\ tpr' = 0 /\ irr' = {} /\ isr' = {} /\ tmr' = {}
    /\ UNCHANGED handler
    /\ owed' = [v \in EdgeVectors |-> 0] /\ orphan' = {}

Inputs == \E pin \in Pins :
    \/ SetLine(pin) \/ ClearLine(pin) \/ Pulse(pin)
    \/ \E e \in Programs[pin] : WriteRedir(pin, e)

Next ==
    \/ Inputs \/ Fall \/ Poll \/ Broadcast \/ WriteIoapicId
    \/ InitSignal \/ lapic_promote_irr \/ WriteEOI \/ Reset
    \/ \E on \in BOOLEAN : WriteSVR(on)
    \/ \E a \in Addresses \cup {NoAddress} : WriteLDR(a)
    \/ \E t \in TPRs : WriteTPR(t)
    \/ \E v \in LocalVectors : TimerFires(v) \/ SelfInterrupt(v)

Spec == Init /\ [][Next]_vars

-----------------------------------------------------------------------------
(* What the two controllers promise.                                       *)

\* Types, and what the code says without words: only a level entry has
\* Remote IRR, and never together with Send Pending.
TypeOK ==
    /\ redir \in [Pins -> Entries]
    /\ line \subseteq Pins /\ send_pending \subseteq Pins /\ poll_next \in Pins
    /\ remote_irr \subseteq {pin \in Pins \ send_pending : redir[pin].level}
    /\ enabled \in BOOLEAN /\ address \in Addresses \cup {NoAddress} /\ tpr \in TPRs
    /\ irr \subseteq Vectors /\ isr \subseteq Vectors /\ tmr \subseteq LevelVectors
    /\ step \in {"idle", "fall", "poll", "eoi"}
    /\ at \in Pins /\ todo \subseteq Pins /\ ending \in LevelVectors \cup {0}
    /\ owed \in [EdgeVectors -> Nat] /\ orphan \subseteq remote_irr

\* No refused message waits for nothing: between handlers, every entry
\* that is Send Pending has a message the local APIC could not take now.
\* Every step of the local APIC that lets it take more (an EOI, an
\* interrupt taken by the processor, an INIT, writes to SVR, LDR and DFR)
\* sends the refused messages again.
RefusedIsUntakeable ==
    step = "idle" => \A pin \in send_pending : ~Takes(redir[pin])

\* No level request is dropped: an asserted input with an unmasked level
\* entry is Send Pending or awaits its EOI, whatever is masked, rewritten,
\* pulsed or polled in between, and only an asserted one is Send Pending
\* (ioapic_deliver_pin(), ioapic_eoi(), ioapic_window_write()).
LevelIsSent == \A pin \in Pins :
    ~redir[pin].masked /\ redir[pin].level =>
        /\ pin \in line => pin \in send_pending \cup remote_irr
        /\ pin \in send_pending => pin \in line

\* Remote IRR is always ended: the local APIC holds the vector, with its
\* trigger mode bit, until the EOI whose broadcast clears the bit; unless
\* the guest gave the EOI up by an INIT or by another vector
\* (cpu_lapic_eoi_index(), ioapic_eoi()).
EoiWillCome == \A pin \in remote_irr \ orphan :
    LET v == redir[pin].vector IN
    \/ v \in (irr \cup isr) \cap tmr
    \/ v = ending /\ (step = "eoi" => pin \in todo)

\* No edge is lost and none is delivered twice: the edges seen for a vector
\* and not yet taken by the processor are those held Send Pending and one
\* in the IRR (cpu_lapic_slot_free_index(): "it is retried rather than
\* merged and lost").
EdgesKept == \A v \in EdgeVectors :
    owed[v] = Cardinality({pin \in send_pending : ~redir[pin].level /\ redir[pin].vector = v})
              + (IF v \in irr THEN 1 ELSE 0)
=============================================================================
