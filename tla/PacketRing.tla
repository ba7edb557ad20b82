----------------------------- MODULE PacketRing -----------------------------
(***************************************************************************)
(* netqueue_t: a ring of packets in which one slot always stays unused, so *)
(* that a full ring differs from an empty one (network.c). A packet is     *)
(* moved by exchanging it for the buffer of the slot it goes to; a slot    *)
(* outside of tail..head holds such a Spare buffer, whose contents nobody  *)
(* reads.                                                                  *)
(*                                                                         *)
(* A definition marked Variant is a wrong form of the one that follows it, *)
(* which mutation tests put in its place; no specification uses it.        *)
(***************************************************************************)
EXTENDS Integers, Sequences

CONSTANTS NET_QUEUE_CAPACITY, Spare

ASSUME CapacityAssumption == NET_QUEUE_CAPACITY \in Nat /\ NET_QUEUE_CAPACITY > 1

Slots == 0..(NET_QUEUE_CAPACITY - 1)

\* (i + 1) & NET_QUEUE_MASK, the capacity being a power of two
Following(i) == (i + 1) % NET_QUEUE_CAPACITY

\* network_queue_init(), network_queue_clear()
EmptyRing == [packets |-> [i \in Slots |-> Spare], head |-> 0, tail |-> 0]

\* Variant: all of the slots are used.
FullAtCapacity(q) == q.head = q.tail /\ q.packets[q.tail] # Spare

network_queue_full(q) == Following(q.head) = q.tail

network_queue_empty(q) == q.head = q.tail

\* network_queue_put(), network_queue_put_swap(), for a ring that is not full
Put(q, p) == [packets |-> [q.packets EXCEPT ![q.head] = p],
              head |-> Following(q.head), tail |-> q.tail]

Oldest(q) == q.packets[q.tail]

\* network_queue_get_swap(), for a ring that is not empty
Get(q) == [packets |-> [q.packets EXCEPT ![q.tail] = Spare],
           head |-> q.head, tail |-> Following(q.tail)]

\* network_queue_move() moves a packet.
CanMove(dst, src) == ~network_queue_empty(src) /\ ~network_queue_full(dst)

\* The number of packets in the ring, and the packets, the oldest first.
Count(q) == (q.head - q.tail) % NET_QUEUE_CAPACITY
Contents(q) == [i \in 1..Count(q) |-> q.packets[(q.tail + i - 1) % NET_QUEUE_CAPACITY]]

Rings(P) == [packets : [Slots -> P], head : Slots, tail : Slots]
=============================================================================
