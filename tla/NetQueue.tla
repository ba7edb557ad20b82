------------------------------ MODULE NetQueue ------------------------------
(***************************************************************************)
(* The packet queues between an emulated network card and the thread of    *)
(* its SLiRP host driver (network.c, net_slirp.c). The emulation thread    *)
(* offers received packets to the card and passes on transmitted ones in   *)
(* the handler of a periodic timer, network_rx_queue(); the host thread    *)
(* sleeps in poll() until its sockets or the pipe tx_event wake it.        *)
(*                                                                         *)
(* What SLiRP answers while it takes a transmitted packet, and all that    *)
(* follows until that has gone, is deferred in a ring of its own.          *)
(*                                                                         *)
(* A step is what a thread does under one lock, or between two accesses to *)
(* what the other thread uses; the loops that move packets under a lock    *)
(* take a step for each packet.                                            *)
(***************************************************************************)
EXTENDS PacketRing

CONSTANTS NET_QUEUE_LEN,  \* packets moved by one run of a loop
          EventCap,       \* bytes the pipe holds; 1 is the event of Windows
          MaxPackets      \* bound: packets made while a card is attached

ASSUME NetAssumption ==
    /\ NET_QUEUE_LEN \in Nat /\ NET_QUEUE_LEN >= 2
    /\ EventCap \in Nat \ {0} /\ MaxPackets \in Nat
    /\ Spare \notin Nat

VARIABLES
    rx, tx_vm, tx_host, rx_on_tx,   \* netcard_t: queues
    queued_pkt,                     \* a packet the card refused, Spare if none
    rx_deferred_pending,
    rx_mutex, tx_mutex,
    link_down,                      \* net_cards_conf[].link_state, set by the user
    tx_event, stop_event,           \* net_slirp_t
    during_tx, recv_on_tx, pkt_tx_v,
    ready,                          \* the events poll() found set
    emu, host,                      \* where the threads are
    i, rx_bytes, rx_pending,        \* locals of network_rx_queue()
    made_rx, last_rx,               \* history: packets that SLiRP made, and the
    made_tx, last_tx                \* last one delivered; the same for the card

queues == <<rx, tx_vm, tx_host, rx_on_tx, queued_pkt, pkt_tx_v>>
locals == <<i, rx_bytes, rx_pending>>
history == <<made_rx, last_rx, made_tx, last_tx>>
flags == <<rx_deferred_pending, during_tx, recv_on_tx>>
events == <<tx_event, stop_event, ready>>
vars == <<queues, locals, history, flags, events, rx_mutex, tx_mutex, link_down, emu, host>>

\* network_attach() and net_slirp_init(), after a calloc()
Init ==
    /\ rx = EmptyRing /\ tx_vm = EmptyRing /\ tx_host = EmptyRing /\ rx_on_tx = EmptyRing
    /\ queued_pkt = Spare /\ pkt_tx_v = <<>>
    /\ rx_deferred_pending = FALSE
    /\ during_tx = FALSE /\ recv_on_tx = FALSE
    /\ rx_mutex = "free" /\ tx_mutex = "free"
    /\ tx_event = 0 /\ stop_event = FALSE /\ ready = {}
    /\ emu = "idle" /\ host = "poll"
    /\ i = 0 /\ rx_bytes = FALSE /\ rx_pending = FALSE
    /\ made_rx = 0 /\ last_rx = 0 /\ made_tx = 0 /\ last_tx = 0
    /\ link_down = FALSE

EmuGoes(from, to) == emu = from /\ emu' = to /\ UNCHANGED <<host, link_down>>
HostGoes(from, to) ==
    /\ host = from /\ host' = to
    /\ UNCHANGED <<emu, link_down, locals, queued_pkt, stop_event, tx_vm,
                   made_tx, last_rx>>

-----------------------------------------------------------------------------
(* The emulation thread.                                                   *)

\* The card transmits a packet; a full ring drops it.
network_tx ==
    /\ EmuGoes("idle", "idle")
    /\ made_rx + made_tx < MaxPackets /\ made_tx' = made_tx + 1
    /\ tx_vm' = IF network_queue_full(tx_vm) THEN tx_vm ELSE Put(tx_vm, made_tx + 1)
    /\ UNCHANGED <<rx, tx_host, rx_on_tx, queued_pkt, pkt_tx_v, locals, made_rx, last_rx,
                   last_tx, flags, events, rx_mutex, tx_mutex>>

\* The timer calls network_rx_queue(), which begins with the packet it kept.
Tick ==
    /\ EmuGoes("idle", IF queued_pkt = Spare THEN "get" ELSE "offer")
    /\ i' = 0 /\ rx_bytes' = FALSE /\ rx_pending' = FALSE
    /\ UNCHANGED <<queues, history, rx_deferred_pending, during_tx, recv_on_tx, events,
                   rx_mutex, tx_mutex>>

\* Variant: the flag of the deferred packets is read with the first packet only.
RxGetKeepsFlag ==
    /\ EmuGoes("get", IF network_queue_empty(rx) THEN "move" ELSE "offer")
    /\ rx_mutex = "free"
    /\ rx_pending' = IF i = 0 THEN rx_deferred_pending ELSE rx_pending
    /\ i' = IF network_queue_empty(rx) THEN 0 ELSE i
    /\ IF network_queue_empty(rx) THEN UNCHANGED <<rx, queued_pkt>>
       ELSE queued_pkt' = Oldest(rx) /\ rx' = Get(rx)
    /\ UNCHANGED <<tx_vm, tx_host, rx_on_tx, pkt_tx_v, rx_bytes, history, flags, events,
                   rx_mutex, tx_mutex>>

\* A packet is fetched under rx_mutex, with the flag of the deferred ones.
RxGet ==
    /\ EmuGoes("get", IF network_queue_empty(rx) THEN "move" ELSE "offer")
    /\ rx_mutex = "free"
    /\ rx_pending' = rx_deferred_pending
    /\ i' = IF network_queue_empty(rx) THEN 0 ELSE i
    /\ IF network_queue_empty(rx) THEN UNCHANGED <<rx, queued_pkt>>
       ELSE queued_pkt' = Oldest(rx) /\ rx' = Get(rx)
    /\ UNCHANGED <<tx_vm, tx_host, rx_on_tx, pkt_tx_v, rx_bytes, history, flags, events,
                   rx_mutex, tx_mutex>>

CardAccepts ==
    /\ EmuGoes("offer", IF i + 1 < NET_QUEUE_LEN THEN "get" ELSE "move")
    /\ last_rx' = queued_pkt /\ queued_pkt' = Spare
    /\ rx_bytes' = TRUE
    /\ i' = IF i + 1 < NET_QUEUE_LEN THEN i + 1 ELSE 0
    /\ UNCHANGED <<rx, tx_vm, tx_host, rx_on_tx, pkt_tx_v, rx_pending, made_rx, made_tx,
                   last_tx, flags, events, rx_mutex, tx_mutex>>

CardRefuses ==
    /\ EmuGoes("offer", "move")
    /\ i' = 0
    /\ UNCHANGED <<queues, rx_bytes, rx_pending, history, flags, events, rx_mutex, tx_mutex>>

Moving == i < NET_QUEUE_LEN /\ CanMove(tx_host, tx_vm)

TxMove ==
    /\ EmuGoes("move", "move")
    /\ tx_mutex # "host" /\ tx_mutex' = "emu"
    /\ Moving
    /\ tx_host' = Put(tx_host, Oldest(tx_vm)) /\ tx_vm' = Get(tx_vm)
    /\ i' = i + 1
    /\ UNCHANGED <<rx, rx_on_tx, queued_pkt, pkt_tx_v, rx_bytes, rx_pending, history, flags,
                   events, rx_mutex>>

\* Variant: the host is not told again of packets that it left behind.
TxMovedTellsOfNew ==
    /\ EmuGoes("move", IF i > 0 \/ (rx_bytes /\ rx_pending) THEN "notify" ELSE "idle")
    /\ tx_mutex # "host" /\ tx_mutex' = "free"
    /\ ~Moving
    /\ i' = 0 /\ rx_bytes' = FALSE /\ rx_pending' = FALSE
    /\ UNCHANGED <<queues, history, flags, events, rx_mutex>>

\* The host is told of packets to send, and of room for deferred ones.
TxMoved ==
    /\ EmuGoes("move", IF ~network_queue_empty(tx_host) \/ (rx_bytes /\ rx_pending)
                         THEN "notify" ELSE "idle")
    /\ tx_mutex # "host" /\ tx_mutex' = "free"
    /\ ~Moving
    /\ i' = 0 /\ rx_bytes' = FALSE /\ rx_pending' = FALSE
    /\ UNCHANGED <<queues, history, flags, events, rx_mutex>>

\* net_slirp_in_available(): a full pipe takes no more.
Notify ==
    /\ EmuGoes("notify", "idle")
    /\ tx_event' = IF tx_event < EventCap THEN tx_event + 1 ELSE tx_event
    /\ UNCHANGED <<queues, locals, history, flags, stop_event, ready, rx_mutex, tx_mutex>>

\* netcard_close() stops the timer and tells the host thread to end ...
Close ==
    /\ EmuGoes("idle", "join")
    /\ stop_event' = TRUE
    /\ UNCHANGED <<queues, locals, history, flags, tx_event, ready, rx_mutex, tx_mutex>>

\* ... and frees the queues when it has. The card is attached anew.
Reattach ==
    /\ emu = "join" /\ host = "exited"
    /\ rx' = EmptyRing /\ tx_vm' = EmptyRing /\ tx_host' = EmptyRing /\ rx_on_tx' = EmptyRing
    /\ queued_pkt' = Spare /\ pkt_tx_v' = <<>>
    /\ rx_deferred_pending' = FALSE
    /\ during_tx' = FALSE /\ recv_on_tx' = FALSE
    /\ rx_mutex' = "free" /\ tx_mutex' = "free"
    /\ tx_event' = 0 /\ stop_event' = FALSE /\ ready' = {}
    /\ emu' = "idle" /\ host' = "poll"
    /\ i' = 0 /\ rx_bytes' = FALSE /\ rx_pending' = FALSE
    /\ made_rx' = 0 /\ last_rx' = 0 /\ made_tx' = 0 /\ last_tx' = 0
    /\ UNCHANGED link_down

-----------------------------------------------------------------------------
(* The host thread.                                                        *)

\* Variant: poll() is not given the event that stops the thread.
PollTxOnly ==
    /\ HostGoes("poll", "sockets")
    /\ tx_event > 0
    /\ ready' = {"tx"}
    /\ UNCHANGED <<rx, tx_host, rx_on_tx, pkt_tx_v, made_rx, last_tx, rx_deferred_pending,
                   during_tx, recv_on_tx, tx_event, rx_mutex, tx_mutex>>

\* poll() returns for an event that is set,
PollEvent ==
    /\ HostGoes("poll", "sockets")
    /\ tx_event > 0 \/ stop_event
    /\ ready' = (IF tx_event > 0 THEN {"tx"} ELSE {}) \cup (IF stop_event THEN {"stop"} ELSE {})
    /\ UNCHANGED <<rx, tx_host, rx_on_tx, pkt_tx_v, made_rx, last_tx, rx_deferred_pending,
                   during_tx, recv_on_tx, tx_event, rx_mutex, tx_mutex>>

\* or for a socket or a timeout of SLiRP.
PollSocket ==
    /\ HostGoes("poll", "sockets")
    /\ tx_event = 0 /\ ~stop_event
    /\ ready' = {}
    /\ UNCHANGED <<rx, tx_host, rx_on_tx, pkt_tx_v, made_rx, last_tx, rx_deferred_pending,
                   during_tx, recv_on_tx, tx_event, rx_mutex, tx_mutex>>

\* SLiRP makes a packet; a full ring drops it.
net_slirp_send_packet ==
    /\ made_rx + made_tx < MaxPackets /\ made_rx' = made_rx + 1
    /\ IF link_down THEN UNCHANGED <<rx, rx_on_tx, recv_on_tx>>
       ELSE IF during_tx \/ recv_on_tx
       THEN /\ rx_on_tx' = IF network_queue_full(rx_on_tx) THEN rx_on_tx
                           ELSE Put(rx_on_tx, made_rx + 1)
            /\ recv_on_tx' = TRUE /\ UNCHANGED rx
       ELSE /\ rx' = IF network_queue_full(rx) THEN rx ELSE Put(rx, made_rx + 1)
            /\ UNCHANGED <<rx_on_tx, recv_on_tx>>

\* slirp_pollfds_poll()
SocketPacket ==
    /\ HostGoes("sockets", "sockets")
    /\ net_slirp_send_packet
    /\ UNCHANGED <<tx_host, pkt_tx_v, last_tx, rx_deferred_pending, during_tx, tx_event, ready,
                   rx_mutex, tx_mutex>>

SocketsDone ==
    /\ HostGoes("sockets", IF "stop" \in ready THEN "exited"
                           ELSE IF "tx" \in ready THEN "clear" ELSE "deferred")
    /\ UNCHANGED <<rx, tx_host, rx_on_tx, pkt_tx_v, made_rx, last_tx, rx_deferred_pending,
                   during_tx, recv_on_tx, tx_event, ready, rx_mutex, tx_mutex>>

\* net_event_clear() reads one byte.
TxClear ==
    /\ HostGoes("clear", "pop")
    /\ tx_event' = tx_event - 1
    /\ during_tx' = TRUE
    /\ UNCHANGED <<rx, tx_host, rx_on_tx, pkt_tx_v, made_rx, last_tx, rx_deferred_pending,
                   recv_on_tx, ready, rx_mutex, tx_mutex>>

\* network_tx_popv()
Popping == Len(pkt_tx_v) < NET_QUEUE_LEN /\ ~network_queue_empty(tx_host)

PopPacket ==
    /\ HostGoes("pop", "pop")
    /\ tx_mutex # "emu" /\ tx_mutex' = "host"
    /\ Popping
    /\ pkt_tx_v' = Append(pkt_tx_v, Oldest(tx_host)) /\ tx_host' = Get(tx_host)
    /\ UNCHANGED <<rx, rx_on_tx, made_rx, last_tx, rx_deferred_pending, during_tx, recv_on_tx,
                   tx_event, ready, rx_mutex>>

Popped ==
    /\ HostGoes("pop", "link")
    /\ tx_mutex # "emu" /\ tx_mutex' = "free"
    /\ ~Popping
    /\ UNCHANGED <<rx, tx_host, rx_on_tx, pkt_tx_v, made_rx, last_tx, rx_deferred_pending,
                   during_tx, recv_on_tx, tx_event, ready, rx_mutex>>

\* With the link down the packets go nowhere.
TestLink ==
    /\ HostGoes("link", "input")
    /\ pkt_tx_v' = IF link_down THEN <<>> ELSE pkt_tx_v
    /\ UNCHANGED <<rx, tx_host, rx_on_tx, made_rx, last_tx, rx_deferred_pending, during_tx,
                   recv_on_tx, tx_event, ready, rx_mutex, tx_mutex>>

\* Variant: the packets of a batch go out from its end.
InputBackwards ==
    /\ host \in {"input", "answers"} /\ HostGoes(host, "answers")
    /\ pkt_tx_v # <<>>
    /\ last_tx' = pkt_tx_v[Len(pkt_tx_v)] /\ pkt_tx_v' = SubSeq(pkt_tx_v, 1, Len(pkt_tx_v) - 1)
    /\ UNCHANGED <<rx, tx_host, rx_on_tx, made_rx, rx_deferred_pending, during_tx, recv_on_tx,
                   tx_event, ready, rx_mutex, tx_mutex>>

\* slirp_input() takes a packet, and may answer it at once.
Input ==
    /\ host \in {"input", "answers"} /\ HostGoes(host, "answers")
    /\ pkt_tx_v # <<>>
    /\ last_tx' = Head(pkt_tx_v) /\ pkt_tx_v' = Tail(pkt_tx_v)
    /\ UNCHANGED <<rx, tx_host, rx_on_tx, made_rx, rx_deferred_pending, during_tx, recv_on_tx,
                   tx_event, ready, rx_mutex, tx_mutex>>

Answer ==
    /\ HostGoes("answers", "answers")
    /\ net_slirp_send_packet
    /\ UNCHANGED <<tx_host, pkt_tx_v, last_tx, rx_deferred_pending, during_tx, tx_event, ready,
                   rx_mutex, tx_mutex>>

InputDone ==
    /\ host \in {"input", "answers"} /\ HostGoes(host, "deferred")
    /\ pkt_tx_v = <<>>
    /\ during_tx' = FALSE
    /\ UNCHANGED <<rx, tx_host, rx_on_tx, pkt_tx_v, made_rx, last_tx, rx_deferred_pending,
                   recv_on_tx, tx_event, ready, rx_mutex, tx_mutex>>

\* Variant: what is deferred stays in its ring.
DeferredWaits ==
    /\ HostGoes("deferred", "poll")
    /\ ready' = {}
    /\ UNCHANGED <<rx, tx_host, rx_on_tx, pkt_tx_v, made_rx, last_tx, rx_deferred_pending,
                   during_tx, recv_on_tx, tx_event, rx_mutex, tx_mutex>>

\* net_slirp_rx_deferred_packets(): with the link down they are thrown away.
Deferred ==
    /\ HostGoes("deferred", IF recv_on_tx THEN "flush" ELSE "poll")
    /\ rx_on_tx' = IF recv_on_tx /\ link_down
                   THEN [packets |-> [s \in Slots |-> Spare],
                         head |-> rx_on_tx.head, tail |-> rx_on_tx.head]
                   ELSE rx_on_tx
    /\ ready' = {}
    /\ UNCHANGED <<rx, tx_host, pkt_tx_v, made_rx, last_tx, rx_deferred_pending, during_tx,
                   recv_on_tx, tx_event, rx_mutex, tx_mutex>>

\* network_rx_on_tx_flush()
FlushMove ==
    /\ HostGoes("flush", "flush")
    /\ rx_mutex' = "host"
    /\ CanMove(rx, rx_on_tx)
    /\ rx' = Put(rx, Oldest(rx_on_tx)) /\ rx_on_tx' = Get(rx_on_tx)
    /\ UNCHANGED <<tx_host, pkt_tx_v, made_rx, last_tx, rx_deferred_pending, during_tx,
                   recv_on_tx, tx_event, ready, tx_mutex>>

Flushed ==
    /\ HostGoes("flush", "poll")
    /\ rx_mutex' = "free"
    /\ ~CanMove(rx, rx_on_tx)
    /\ recv_on_tx' = ~network_queue_empty(rx_on_tx)
    /\ rx_deferred_pending' = ~network_queue_empty(rx_on_tx)
    /\ UNCHANGED <<rx, tx_host, rx_on_tx, pkt_tx_v, made_rx, last_tx, during_tx, tx_event,
                   ready, tx_mutex>>

-----------------------------------------------------------------------------
\* The user pulls the cable or puts it back: network_connect().
network_connect ==
    /\ link_down' = ~link_down
    /\ UNCHANGED <<queues, locals, history, flags, events, rx_mutex, tx_mutex, emu, host>>

EmuStep ==
    \/ Tick \/ RxGet \/ CardRefuses \/ TxMove \/ TxMoved \/ Notify \/ Reattach

HostStep ==
    \/ PollEvent \/ SocketsDone \/ TxClear \/ PopPacket \/ Popped \/ TestLink \/ Input
    \/ InputDone \/ Deferred \/ FlushMove \/ Flushed

Next ==
    \/ EmuStep \/ CardAccepts \/ network_tx \/ Close
    \/ HostStep \/ PollSocket \/ SocketPacket \/ Answer
    \/ network_connect

Spec == Init /\ [][Next]_vars

\* The timer keeps running and both threads are scheduled; a thread that waits for a
\* lock gets it in the end, and a card does not refuse a packet for ever. Nothing is
\* assumed of SLiRP's sockets, of the user or of what the guest transmits.
FairSpec ==
    /\ Spec
    /\ SF_vars(EmuStep \/ CardAccepts) /\ SF_vars(CardAccepts)
    /\ SF_vars(HostStep)

-----------------------------------------------------------------------------
Packets == Nat \cup {Spare}

\* Type invariant.
TypeOK ==
    /\ rx \in Rings(Packets) /\ tx_vm \in Rings(Packets) /\ tx_host \in Rings(Packets)
    /\ rx_on_tx \in Rings(Packets)
    /\ queued_pkt \in Packets /\ pkt_tx_v \in Seq(Packets)
    /\ \A x \in {rx_deferred_pending, link_down, stop_event, during_tx,
                 recv_on_tx, rx_bytes, rx_pending} : x \in BOOLEAN
    /\ rx_mutex \in {"free", "host"} /\ tx_mutex \in {"free", "emu", "host"}
    /\ tx_event \in 0..EventCap
    /\ ready \in SUBSET {"tx", "stop"}
    /\ i \in 0..NET_QUEUE_LEN
    /\ emu \in {"idle", "get", "offer", "move", "notify", "join"}
    /\ host \in {"poll", "sockets", "clear", "pop", "link", "input", "answers", "deferred",
                 "flush", "exited"}
    /\ made_rx \in Nat /\ last_rx \in Packets /\ made_tx \in Nat /\ last_tx \in Packets

\* The packets on their way to the card, and to SLiRP.
Kept == IF queued_pkt = Spare THEN <<>> ELSE <<queued_pkt>>
RxWaiting == Kept \o Contents(rx) \o Contents(rx_on_tx)
TxWaiting == pkt_tx_v \o Contents(tx_host) \o Contents(tx_vm)

RxPath == INSTANCE PacketPath WITH Capacity <- NET_QUEUE_CAPACITY - 1,
    waiting <- RxWaiting, made <- made_rx, last <- last_rx

TxPath == INSTANCE PacketPath WITH Capacity <- NET_QUEUE_CAPACITY - 1,
    waiting <- TxWaiting, made <- made_tx, last <- last_tx

\* The card is offered the packets in the order SLiRP made them, although some go
\* through the ring of deferred packets and others do not, and although a refused
\* one is kept aside (network.c:450, net_slirp.c:194).
RxInOrder == RxPath!Spec

\* SLiRP takes the packets in the order the card sent them, and every one unless a
\* ring was full or the link down (network.c:482, net_slirp.c:485).
TxInOrder == TxPath!Spec

\* When the host thread sleeps with packets deferred, their room is announced: the
\* ring for the card is full still, or the thread is being woken, or the timer's
\* handler has yet to offer the packet it made room with (network.c:492).
RoomIsAnnounced ==
    (host = "poll" /\ ~network_queue_empty(rx_on_tx)) =>
        \/ network_queue_full(rx) \/ tx_event > 0 \/ emu = "notify"
        \/ queued_pkt # Spare
        \/ emu = "get" /\ rx_bytes
        \/ emu = "move" /\ rx_bytes /\ rx_pending
        \/ emu = "join"

\* Packets waiting for the card keep leaving, also the deferred ones: the host thread
\* does not sleep through the room that is made for them. As they leave in order, each
\* of them does.
RxServed == []<>(RxWaiting = <<>>) \/ []<><<RxWaiting' # RxWaiting /\ made_rx' = made_rx>>_vars

\* The same for the packets waiting for SLiRP, although it is woken once for several
\* and takes NET_QUEUE_LEN of them at a time.
TxServed == []<>(TxWaiting = <<>>) \/ []<><<TxWaiting' # TxWaiting /\ made_tx' = made_tx>>_vars

\* netcard_close() returns: the host thread sees the event and ends.
CloseReturns == emu = "join" ~> emu = "idle"
=============================================================================
