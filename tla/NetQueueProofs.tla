--------------------------- MODULE NetQueueProofs ---------------------------
(***************************************************************************)
(* Proofs about NetQueue: for rings of every capacity, loops of every      *)
(* length above one and any number of packets, both directions are         *)
(* first-in first-out paths, and the host thread does not sleep while      *)
(* there is room for a packet it defers.                                   *)
(***************************************************************************)
EXTENDS NetQueue, SequenceTheorems, TLAPS

-----------------------------------------------------------------------------
(* Rings.                                                                  *)

\* Index arithmetic stays within one turn of the ring.
LEMMA Turn ==
  ASSUME NEW a \in Int
  PROVE  /\ 0 <= a /\ a < NET_QUEUE_CAPACITY => a % NET_QUEUE_CAPACITY = a
         /\ NET_QUEUE_CAPACITY <= a /\ a < 2 * NET_QUEUE_CAPACITY
              => a % NET_QUEUE_CAPACITY = a - NET_QUEUE_CAPACITY
         /\ -NET_QUEUE_CAPACITY <= a /\ a < 0
              => a % NET_QUEUE_CAPACITY = a + NET_QUEUE_CAPACITY
<1> DEFINE N == NET_QUEUE_CAPACITY
<1>1. N \in Nat /\ N > 0
  BY CapacityAssumption
<1> HIDE DEF N
<1>2. 0 <= a /\ a < N => a % N = a
  BY <1>1
<1>3. N <= a /\ a < 2 * N => a % N = a - N
  BY <1>1
<1>4. -N <= a /\ a < 0 => a % N = a + N
  BY <1>1
<1> QED
  BY <1>2, <1>3, <1>4 DEF N

\* A ring all of whose packets are packets.
Holds(q) == q \in Rings(Packets) /\ Contents(q) \in Seq(Nat)


\* The way from tail t to head h, and the position k steps behind the tail.
Way(h, t) == IF t <= h THEN h - t ELSE h - t + NET_QUEUE_CAPACITY
After(t, k) == IF t + k < NET_QUEUE_CAPACITY THEN t + k ELSE t + k - NET_QUEUE_CAPACITY

\* The indices of a ring.
LEMMA Indices ==
  ASSUME NEW q \in Rings(Packets)
  PROVE  /\ q.head \in Slots /\ q.tail \in Slots
         /\ Following(q.head) = After(q.head, 1) /\ Following(q.tail) = After(q.tail, 1)
<1>1. q.head \in Slots /\ q.tail \in Slots
  BY DEF Rings
<1>2. ASSUME NEW h \in Slots PROVE Following(h) = After(h, 1)
  BY CapacityAssumption, Turn DEF Following, After, Slots
<1> QED
  BY <1>1, <1>2

\* A step of the head makes the way longer, a step of the tail makes it shorter.
LEMMA Ways ==
  ASSUME NEW h \in Slots, NEW t \in Slots
  PROVE  /\ Way(h, t) \in Slots /\ After(h, 1) \in Slots
         /\ Way(h, t) = 0 <=> h = t
         /\ After(h, 1) = t <=> Way(h, t) = NET_QUEUE_CAPACITY - 1
         /\ After(h, 1) # t => Way(After(h, 1), t) = Way(h, t) + 1
         /\ h # t => Way(h, After(t, 1)) = Way(h, t) - 1
         /\ After(t, Way(h, t)) = h
  BY CapacityAssumption DEF Way, After, Slots

\* The slots on the way are not the head, and only the first is the tail.
LEMMA Along ==
  ASSUME NEW h \in Slots, NEW t \in Slots
  PROVE  /\ \A k \in Nat : k < Way(h, t) => After(t, k) \in Slots /\ After(t, k) # h
         /\ \A k \in Nat : k >= 1 /\ k < Way(h, t) => After(t, k) # t
         /\ \A k \in Nat : k + 1 < Way(h, t) => After(After(t, 1), k) = After(t, k + 1)
  BY CapacityAssumption DEF Way, After, Slots

\* Contents lists the slots from the tail on.
LEMMA Listed ==
  ASSUME NEW q \in Rings(Packets)
  PROVE  /\ Contents(q) = [k \in 1..Way(q.head, q.tail) |-> q.packets[After(q.tail, k - 1)]]
         /\ Len(Contents(q)) = Way(q.head, q.tail)
<1> DEFINE N == NET_QUEUE_CAPACITY
           w == Way(q.head, q.tail)
<1>1. q.head \in Slots /\ q.tail \in Slots /\ w \in Slots
  BY Indices, Ways
<1>2. Count(q) = w
  <2>1. q.head - q.tail \in Int /\ N \in Nat /\ q.head \in 0..(N - 1) /\ q.tail \in 0..(N - 1)
    BY <1>1, CapacityAssumption DEF Slots
  <2>2. CASE q.tail <= q.head
    BY <2>1, <2>2, Turn DEF Way, Count
  <2>3. CASE ~(q.tail <= q.head)
    BY <2>1, <2>3, Turn DEF Way, Count
  <2> QED
    BY <2>2, <2>3
<1> HIDE DEF w
<1>3. ASSUME NEW k \in 1..w PROVE (q.tail + k - 1) % N = After(q.tail, k - 1)
  <2> DEFINE a == q.tail + k - 1
  <2>1. /\ a \in Int /\ 0 <= a /\ a < 2 * N
        /\ q.tail \in Int /\ k \in Int /\ N \in Int
    BY <1>1, CapacityAssumption DEF Slots
  <2>2. After(q.tail, k - 1) = IF a < N THEN a ELSE a - N
    BY ONLY <2>1 DEF After
  <2> HIDE DEF a
  <2>3. a % N = IF a < N THEN a ELSE a - N
    BY <2>1, Turn
  <2> QED
    BY <2>2, <2>3 DEF a
<1>4. Contents(q) = [k \in 1..w |-> q.packets[After(q.tail, k - 1)]]
  BY <1>2, <1>3 DEF Contents
<1>5. w \in Nat
  BY <1>1 DEF Slots
<1> QED
  BY <1>4, <1>5 DEF w

\* A ring is empty when it holds no packet, and a full one holds all it can.
LEMMA EmptyOrFull ==
  ASSUME NEW q \in Rings(Packets)
  PROVE  /\ network_queue_empty(q) <=> Contents(q) = <<>>
         /\ network_queue_full(q) <=> Len(Contents(q)) = NET_QUEUE_CAPACITY - 1
<1> DEFINE w == Way(q.head, q.tail)
<1>1. q.head \in Slots /\ q.tail \in Slots
  BY Indices
<1>2. w = 0 <=> q.head = q.tail
  BY <1>1, Ways
<1>3. w \in Nat /\ Len(Contents(q)) = w /\ (w = 0 <=> Contents(q) = <<>>)
  <2>1. w \in Nat
    <3>1. w \in Slots
      BY <1>1, Ways
    <3> QED
      BY <3>1, CapacityAssumption DEF Slots
  <2>2. /\ Contents(q) = [k \in 1..w |-> q.packets[After(q.tail, k - 1)]]
        /\ Len(Contents(q)) = w
    BY Listed
  <2> HIDE DEF w
  <2> QED
    BY <2>1, <2>2
<1>4. Following(q.head) = q.tail <=> w = NET_QUEUE_CAPACITY - 1
  BY <1>1, Indices, Ways
<1> QED
  BY <1>2, <1>3, <1>4 DEF network_queue_empty, network_queue_full

\* network_queue_put() adds the packet behind those of the ring.
LEMMA RingPut ==
  ASSUME NEW q, Holds(q), ~network_queue_full(q), NEW p \in Nat
  PROVE  /\ Holds(Put(q, p))
         /\ Contents(Put(q, p)) = Append(Contents(q), p)
         /\ ~network_queue_empty(Put(q, p))
<1> DEFINE r == Put(q, p)
           c == Contents(q)
           h == q.head
           t == q.tail
           w == Way(h, t)
<1>1. h \in Slots /\ t \in Slots /\ q \in Rings(Packets) /\ c \in Seq(Nat)
  BY Indices DEF Holds
<1>2. After(h, 1) \in Slots /\ After(h, 1) # t /\ Following(h) = After(h, 1)
  BY <1>1, Ways, Indices DEF network_queue_full
<1>3. /\ r.head = After(h, 1) /\ r.tail = t
      /\ r.packets = [q.packets EXCEPT ![h] = p]
  BY <1>2 DEF Put
<1>4. q.packets \in [Slots -> Packets] /\ r.packets \in [Slots -> Packets]
  BY <1>1, <1>3 DEF Rings, Packets
<1>5. r \in Rings(Packets)
  BY <1>1, <1>2, <1>4, <1>3 DEF Put, Rings
<1>6. Way(r.head, r.tail) = w + 1 /\ w \in Nat
  <2>1. Way(After(h, 1), t) = w + 1 /\ w \in Slots
    BY <1>1, <1>2, Ways
  <2> QED
    BY <1>3, <2>1, CapacityAssumption DEF Slots
<1>7. Contents(r) = [k \in 1..(w + 1) |-> r.packets[After(t, k - 1)]]
  BY Zenon, <1>3, <1>5, <1>6, Listed
<1>8. c = [k \in 1..w |-> q.packets[After(t, k - 1)]] /\ Len(c) = w
  BY <1>1, Listed
<1>14. After(t, w) = h
  BY Zenon, <1>1, Ways
<1>9. ASSUME NEW k \in 1..(w + 1)
      PROVE  r.packets[After(t, k - 1)] = IF k = w + 1 THEN p ELSE c[k]
  <2>1. CASE k = w + 1
    <3>1. After(t, k - 1) = h
      <4>1. k - 1 = w
        BY <2>1, <1>6
      <4> QED
        BY <4>1, <1>14
    <3> QED
      BY <1>1, <1>3, <1>4, <2>1, <3>1
  <2>2. CASE k # w + 1
    <3>1. k - 1 \in Nat /\ k - 1 < w /\ k \in 1..w
      BY <1>6, <2>2
    <3>2. After(t, k - 1) \in Slots /\ After(t, k - 1) # h
      BY <1>1, <3>1, Along
    <3> HIDE DEF w, c, h, t, r
    <3> QED
      BY <1>1, <1>3, <1>4, <1>8, <2>2, <3>1, <3>2
  <2> QED
    BY <2>1, <2>2
<1> HIDE DEF w, c, h, t, r
<1>10. Append(c, p) = [k \in 1..(w + 1) |-> IF k = w + 1 THEN p ELSE c[k]]
  <2>1. c \in Seq(Nat) /\ Len(c) = w
    BY Zenon, <1>1, <1>8
  <2> QED
    <3>1. Append(c, p) \in Seq(Nat) /\ Len(Append(c, p)) = w + 1
      BY <2>1
    <3>2. \A k \in 1..(w + 1) : Append(c, p)[k] = IF k = w + 1 THEN p ELSE c[k]
      BY <2>1
    <3>3. Append(c, p) = [k \in 1..(w + 1) |-> Append(c, p)[k]]
      <4>1. Append(c, p) \in [1..(w + 1) -> Nat]
        BY Zenon, <3>1, LenProperties
      <4> QED
        BY ONLY Zenon, <4>1
    <3> QED
      BY ONLY <3>2, <3>3, Zenon
<1>11. Contents(r) = Append(c, p)
  BY <1>7, <1>9, <1>10
<1>12. Append(c, p) \in Seq(Nat)
  BY <1>1
<1>13. ~network_queue_empty(r)
  BY <1>2, <1>3 DEF network_queue_empty
<1> QED
  BY <1>5, <1>11, <1>12, <1>13 DEF Holds, r, c

\* network_queue_get_swap() takes the first packet of the ring.
LEMMA RingGet ==
  ASSUME NEW q, Holds(q), ~network_queue_empty(q)
  PROVE  /\ Holds(Get(q))
         /\ Contents(q) # <<>> /\ Oldest(q) = Head(Contents(q)) /\ Oldest(q) \in Nat
         /\ Contents(Get(q)) = Tail(Contents(q))
         /\ ~network_queue_full(Get(q))
<1> DEFINE r == Get(q)
           c == Contents(q)
           h == q.head
           t == q.tail
           w == Way(h, t)
<1>1. h \in Slots /\ t \in Slots /\ q \in Rings(Packets) /\ c \in Seq(Nat)
  BY Indices DEF Holds
<1>2. After(t, 1) \in Slots /\ h # t /\ Following(t) = After(t, 1)
  BY <1>1, Ways, Indices DEF network_queue_empty
<1>3. /\ r.head = h /\ r.tail = After(t, 1)
      /\ r.packets = [q.packets EXCEPT ![t] = Spare]
  BY <1>2 DEF Get
<1>4. q.packets \in [Slots -> Packets] /\ r.packets \in [Slots -> Packets]
  BY <1>1, <1>3 DEF Rings, Packets
<1>5. r \in Rings(Packets)
  BY <1>1, <1>2, <1>4, <1>3 DEF Get, Rings
<1>6. Way(r.head, r.tail) = w - 1 /\ w \in Nat /\ w - 1 \in Nat /\ w < NET_QUEUE_CAPACITY
  <2>1. Way(h, After(t, 1)) = w - 1 /\ w \in Slots /\ w # 0
    BY Zenon, <1>1, <1>2, Ways
  <2> QED
    BY <1>3, <2>1, CapacityAssumption DEF Slots
<1>7. /\ Contents(r) = [k \in 1..(w - 1) |-> r.packets[After(After(t, 1), k - 1)]]
      /\ Len(Contents(r)) = w - 1
  BY Zenon, <1>3, <1>5, <1>6, Listed
<1>8. c = [k \in 1..w |-> q.packets[After(t, k - 1)]] /\ Len(c) = w
  BY <1>1, Listed
<1>9. ASSUME NEW k \in 1..(w - 1)
      PROVE  r.packets[After(After(t, 1), k - 1)] = c[k + 1]
  <2>1. k \in Nat /\ k >= 1 /\ k < w /\ (k - 1) + 1 = k /\ (k + 1) - 1 = k /\ k + 1 \in 1..w
        /\ k - 1 \in Nat /\ (k - 1) + 1 < w
    BY <1>6
  <2>2. After(After(t, 1), k - 1) = After(t, k)
    <3>1. After(After(t, 1), k - 1) = After(t, (k - 1) + 1)
      BY <1>1, <2>1, Along
    <3> QED
      BY <2>1, <3>1
  <2>3. After(t, k) \in Slots /\ After(t, k) # t
    BY <1>1, <2>1, Along
  <2>4. c[k + 1] = q.packets[After(t, k)]
    <3> HIDE DEF c, w, t, h
    <3>1. c[k + 1] = q.packets[After(t, (k + 1) - 1)]
      BY <1>8, <2>1
    <3> QED
      BY <2>1, <3>1
  <2> HIDE DEF c, w, t, h, r
  <2> QED
    BY <1>1, <1>3, <1>4, <2>2, <2>3, <2>4
<1>10. c[1] = q.packets[t]
  <2>1. After(t, 1 - 1) = t
    BY <1>1, CapacityAssumption DEF After, Slots
  <2>2. 1 \in 1..w
    BY <1>6
  <2> HIDE DEF c, w, t, h
  <2> QED
    BY <1>8, <2>1, <2>2
<1> HIDE DEF w, c, h, t, r
<1>11. c # <<>> /\ Head(c) = c[1] /\ Head(c) \in Nat /\ Tail(c) \in Seq(Nat)
  BY SMTT(60), <1>1, <1>6, <1>8
<1>12. Tail(c) = [k \in 1..(w - 1) |-> c[k + 1]]
  <2>1. c \in Seq(Nat) /\ Len(c) = w /\ c # <<>>
    BY Zenon, <1>1, <1>8, <1>11
  <2>2. Tail(c) \in Seq(Nat) /\ Len(Tail(c)) = w - 1
    BY <2>1
  <2>3. \A k \in 1..(w - 1) : Tail(c)[k] = c[k + 1]
    BY <2>1
  <2>4. Tail(c) = [k \in 1..(w - 1) |-> Tail(c)[k]]
    <3>1. Tail(c) \in [1..(w - 1) -> Nat]
      BY Zenon, <2>2, LenProperties
    <3> QED
      BY ONLY Zenon, <3>1
  <2> QED
    BY ONLY <2>3, <2>4, Zenon
<1>13. Contents(r) = Tail(c)
  BY <1>7, <1>9, <1>12
<1>14. ~network_queue_full(r)
  <2>1. Len(Contents(r)) # NET_QUEUE_CAPACITY - 1
    BY <1>6, <1>7, CapacityAssumption
  <2> QED
    BY <1>5, <2>1, EmptyOrFull
<1> QED
  BY <1>5, <1>10, <1>11, <1>13, <1>14 DEF Holds, r, c, t, Oldest

-----------------------------------------------------------------------------
(* Sequences.                                                              *)

\* Packets added behind, or taken from the front, of two sequences in a row.
LEMMA Rows ==
  ASSUME NEW a \in Seq(Nat), NEW b \in Seq(Nat)
  PROVE  /\ a \o b \in Seq(Nat) /\ Len(a \o b) = Len(a) + Len(b)
         /\ \A x \in Nat : a \o Append(b, x) = Append(a \o b, x)
         /\ a # <<>> => /\ a \o b # <<>> /\ Head(a \o b) = Head(a)
                        /\ Tail(a \o b) = Tail(a) \o b
         /\ SubSeq(a \o b, 1, Len(a)) = a
         /\ SubSeq(a \o b, Len(a) + 1, Len(a \o b)) = b
         /\ a \o <<>> = a /\ <<>> \o a = a
<1>1. a \o b \in Seq(Nat) /\ Len(a \o b) = Len(a) + Len(b)
  OBVIOUS
<1>2. \A x \in Nat : a \o Append(b, x) = Append(a \o b, x)
  OBVIOUS
<1>3. a # <<>> => a \o b # <<>> /\ Head(a \o b) = Head(a) /\ Tail(a \o b) = Tail(a) \o b
  OBVIOUS
<1>4. SubSeq(a \o b, 1, Len(a)) = a
  OBVIOUS
<1>5. SubSeq(a \o b, Len(a) + 1, Len(a \o b)) = b
  OBVIOUS
<1>6. a \o <<>> = a /\ <<>> \o a = a
  OBVIOUS
<1> QED
  BY Zenon, <1>1, <1>2, <1>3, <1>4, <1>5, <1>6

\* Concatenation is associative.
LEMMA Regroup ==
  \A a, b, c \in Seq(Nat) : (a \o b) \o c = a \o (b \o c)
<1> TAKE a, b, c \in Seq(Nat)
<1> QED
  BY SMTT(60), ConcatAssociative

\* A packet moved from the front of a sequence to the end of the one before it.
LEMMA Passed ==
  ASSUME NEW a \in Seq(Nat), NEW b \in Seq(Nat), b # <<>>
  PROVE  Append(a, Head(b)) \o Tail(b) = a \o b
<1>1. b = <<Head(b)>> \o Tail(b) /\ Head(b) \in Nat /\ Tail(b) \in Seq(Nat)
  OBVIOUS
<1>2. <<Head(b)>> \in Seq(Nat)
  BY <1>1
<1>3. Append(a, Head(b)) = a \o <<Head(b)>>
  BY <1>1, AppendIsConcat
<1> HIDE <1>1
<1>4. (a \o <<Head(b)>>) \o Tail(b) = a \o (<<Head(b)>> \o Tail(b))
  BY SMTT(60), <1>1, <1>2, ConcatAssociative
<1> QED
  BY ONLY <1>1, <1>3, <1>4, Zenon

-----------------------------------------------------------------------------
(* The invariant.                                                          *)

\* What the rings hold are packets, a packet is offered when there is one, and
\* packets are deferred only while recv_on_tx says so.
IInv ==
    /\ Holds(rx) /\ Holds(tx_vm) /\ Holds(tx_host) /\ Holds(rx_on_tx)
    /\ pkt_tx_v \in Seq(Nat) /\ queued_pkt \in Packets
    /\ made_rx \in Nat /\ made_tx \in Nat
    /\ emu = "get" => queued_pkt = Spare
    /\ emu = "offer" => queued_pkt # Spare
    /\ ~network_queue_empty(rx_on_tx) => recv_on_tx

\* The ring of a card that was just attached, and one that was emptied.
LEMMA Cleared ==
  /\ Holds(EmptyRing) /\ network_queue_empty(EmptyRing)
  /\ \A h \in Slots : LET q == [packets |-> [s \in Slots |-> Spare], head |-> h, tail |-> h]
                      IN  Holds(q) /\ network_queue_empty(q)
<1>1. ASSUME NEW h \in Slots
      PROVE  LET q == [packets |-> [s \in Slots |-> Spare], head |-> h, tail |-> h]
             IN  Holds(q) /\ network_queue_empty(q)
  <2> DEFINE q == [packets |-> [s \in Slots |-> Spare], head |-> h, tail |-> h]
  <2>1. q \in Rings(Packets)
    BY DEF Rings, Packets
  <2>2. network_queue_empty(q)
    BY DEF network_queue_empty
  <2> HIDE DEF q
  <2>3. Contents(q) = <<>>
    BY <2>1, <2>2, EmptyOrFull
  <2>4. Contents(q) \in Seq(Nat)
    BY <2>3
  <2> QED
    BY <2>1, <2>2, <2>4 DEF Holds, q
<1>2. 0 \in Slots
  BY CapacityAssumption DEF Slots
<1> QED
  BY <1>1, <1>2 DEF EmptyRing

\* A packet passes from one ring to another.
LEMMA Move ==
  ASSUME NEW d, NEW q, Holds(d), Holds(q), CanMove(d, q)
  PROVE  /\ Holds(Put(d, Oldest(q))) /\ Holds(Get(q))
         /\ Contents(Put(d, Oldest(q))) \o Contents(Get(q)) = Contents(d) \o Contents(q)
<1>1. ~network_queue_full(d) /\ ~network_queue_empty(q)
  BY DEF CanMove
<1>2. /\ Contents(q) # <<>> /\ Oldest(q) = Head(Contents(q)) /\ Oldest(q) \in Nat
      /\ Contents(Get(q)) = Tail(Contents(q)) /\ Holds(Get(q))
  BY ONLY <1>1, RingGet, Holds(q)
<1>3. /\ Contents(Put(d, Oldest(q))) = Append(Contents(d), Oldest(q))
      /\ Holds(Put(d, Oldest(q)))
  BY ONLY <1>1, <1>2, RingPut, Holds(d)
<1>4. Contents(d) \in Seq(Nat) /\ Contents(q) \in Seq(Nat)
  BY DEF Holds
<1>5. Append(Contents(d), Head(Contents(q))) \o Tail(Contents(q)) = Contents(d) \o Contents(q)
  BY ONLY Zenon, <1>2, <1>4, Passed
<1> QED
  BY Zenon, <1>2, <1>3, <1>5

\* The initial state satisfies the invariant.
LEMMA InitInv == Init => IInv
  BY Cleared DEF Init, IInv, Packets

\* A step of the emulation thread preserves the invariant.
LEMMA EmuInv == IInv /\ (EmuStep \/ CardAccepts \/ network_tx \/ Close) => IInv'
<1> SUFFICES ASSUME IInv, EmuStep \/ CardAccepts \/ network_tx \/ Close PROVE IInv'
  OBVIOUS
<1> USE DEF IInv, EmuGoes
<1>1. ASSUME network_tx PROVE IInv'
  BY <1>1, RingPut DEF network_tx, flags
<1>2. ASSUME Tick PROVE IInv'
  BY <1>2 DEF Tick, queues, history
<1>3. ASSUME RxGet PROVE IInv'
  <2>1. Spare \notin Nat
    BY NetAssumption
  <2> QED
    BY <1>3, <2>1, RingGet DEF RxGet, history, flags, Packets
<1>4. ASSUME CardAccepts PROVE IInv'
  BY <1>4 DEF CardAccepts, flags, Packets
<1>5. ASSUME CardRefuses PROVE IInv'
  BY <1>5 DEF CardRefuses, queues, history, flags
<1>6. ASSUME TxMove PROVE IInv'
  BY <1>6, Move DEF TxMove, Moving, history, flags
<1>7. ASSUME TxMoved PROVE IInv'
  BY <1>7 DEF TxMoved, queues, history, flags
<1>8. ASSUME Notify PROVE IInv'
  BY <1>8 DEF Notify, queues, history, flags
<1>9. ASSUME Close PROVE IInv'
  BY <1>9 DEF Close, queues, history, flags
<1>10. ASSUME Reattach PROVE IInv'
  BY <1>10, Cleared DEF Reattach, Packets
<1> QED
  BY <1>1, <1>2, <1>3, <1>4, <1>5, <1>6, <1>7, <1>8, <1>9, <1>10 DEF EmuStep

\* A packet that SLiRP makes keeps the invariant.
LEMMA SendInv ==
  ASSUME IInv, net_slirp_send_packet
  PROVE  /\ Holds(rx') /\ Holds(rx_on_tx') /\ made_rx' \in Nat
         /\ ~network_queue_empty(rx_on_tx') => recv_on_tx'
  BY RingPut DEF IInv, net_slirp_send_packet

\* A step of the host thread preserves the invariant.
LEMMA HostInv == IInv /\ (HostStep \/ PollSocket \/ SocketPacket \/ Answer) => IInv'
<1> SUFFICES ASSUME IInv, HostStep \/ PollSocket \/ SocketPacket \/ Answer PROVE IInv'
  OBVIOUS
<1> USE DEF IInv, HostGoes
<1>1. ASSUME PollEvent PROVE IInv'
  BY <1>1 DEF PollEvent
<1>2. ASSUME PollSocket PROVE IInv'
  BY <1>2 DEF PollSocket
<1>3. ASSUME SocketPacket \/ Answer PROVE IInv'
  BY <1>3, SendInv DEF SocketPacket, Answer
<1>4. ASSUME SocketsDone PROVE IInv'
  BY <1>4 DEF SocketsDone
<1>5. ASSUME TxClear PROVE IInv'
  BY <1>5 DEF TxClear
<1>6. ASSUME PopPacket PROVE IInv'
  BY <1>6, RingGet DEF PopPacket, Popping
<1>7. ASSUME Popped PROVE IInv'
  BY <1>7 DEF Popped
<1>8. ASSUME TestLink PROVE IInv'
  BY <1>8 DEF TestLink
<1>9. ASSUME Input PROVE IInv'
  BY <1>9 DEF Input
<1>10. ASSUME InputDone PROVE IInv'
  BY <1>10 DEF InputDone
<1>11. ASSUME Deferred PROVE IInv'
  <2>1. rx_on_tx.head \in Slots
    BY Indices DEF Holds
  <2> QED
    BY <1>11, <2>1, Cleared DEF Deferred
<1>12. ASSUME FlushMove PROVE IInv'
  <2>1. recv_on_tx
    BY <1>12 DEF FlushMove, CanMove
  <2> QED
    BY <1>12, <2>1, Move DEF FlushMove
<1>13. ASSUME Flushed PROVE IInv'
  BY Zenon, <1>13 DEF Flushed
<1> QED
  BY <1>1, <1>2, <1>3, <1>4, <1>5, <1>6, <1>7, <1>8, <1>9, <1>10, <1>11, <1>12, <1>13
     DEF HostStep

\* The inductive invariant holds in every reachable state.
THEOREM Invariance == Spec => []IInv
<1>1. IInv /\ [Next]_vars => IInv'
  <2>1. ASSUME IInv, UNCHANGED vars PROVE IInv'
    BY <2>1 DEF IInv, vars, queues, history, flags
  <2>2. ASSUME IInv, network_connect PROVE IInv'
    BY <2>2 DEF IInv, network_connect, queues, history, flags
  <2> QED
    BY <2>1, <2>2, EmuInv, HostInv DEF Next
<1> QED
  BY InitInv, <1>1, PTL DEF Spec

-----------------------------------------------------------------------------
(* The path to the card.                                                   *)

RxFrame == <<rx, rx_on_tx, queued_pkt, made_rx, last_rx>>

\* A step that touches nothing of the path leaves it alone, whatever the link does.
LEMMA RxStutter ==
  ASSUME UNCHANGED RxFrame
  PROVE  UNCHANGED <<RxWaiting, made_rx, last_rx>>
  BY DEF RxFrame, RxWaiting, Kept

\* What waits for the card is a sequence of packets.
LEMMA RxParts ==
  ASSUME IInv
  PROVE  /\ Kept \in Seq(Nat) /\ Contents(rx) \in Seq(Nat) /\ Contents(rx_on_tx) \in Seq(Nat)
         /\ Kept \o Contents(rx) \in Seq(Nat) /\ RxWaiting \in Seq(Nat)
         /\ Len(Kept \o Contents(rx)) = Len(Kept) + Len(Contents(rx))
         /\ Len(RxWaiting) = Len(Kept) + Len(Contents(rx)) + Len(Contents(rx_on_tx))
<1>1. Kept \in Seq(Nat)
  BY DEF IInv, Kept, Packets
<1>2. Contents(rx) \in Seq(Nat) /\ Contents(rx_on_tx) \in Seq(Nat)
  BY DEF IInv, Holds
<1>3. Kept \o Contents(rx) \in Seq(Nat) /\ Len(Kept \o Contents(rx)) = Len(Kept) + Len(Contents(rx))
  BY ONLY <1>1, <1>2, Rows
<1>4. RxWaiting \in Seq(Nat)
      /\ Len(RxWaiting) = Len(Kept \o Contents(rx)) + Len(Contents(rx_on_tx))
  BY ONLY <1>2, <1>3, Rows DEF RxWaiting
<1> QED
  BY <1>1, <1>2, <1>3, <1>4

\* The packet that network_rx_queue() fetches was the first to wait.
LEMMA RxGetStep == IInv /\ RxGet => UNCHANGED <<RxWaiting, made_rx, last_rx, link_down>>
<1> SUFFICES ASSUME IInv, RxGet PROVE UNCHANGED <<RxWaiting, made_rx, last_rx, link_down>>
  OBVIOUS
<1>1. UNCHANGED <<rx_on_tx, made_rx, last_rx, link_down>>
  BY DEF RxGet, history, EmuGoes
<1>2. CASE network_queue_empty(rx)
  BY <1>1, <1>2 DEF RxGet, RxWaiting, Kept
<1>3. CASE ~network_queue_empty(rx)
  <2>1. queued_pkt = Spare /\ queued_pkt' = Oldest(rx) /\ rx' = Get(rx)
    BY <1>3 DEF RxGet, IInv, EmuGoes
  <2>2. /\ Contents(rx) # <<>> /\ Oldest(rx) = Head(Contents(rx)) /\ Oldest(rx) \in Nat
        /\ Contents(Get(rx)) = Tail(Contents(rx))
    <3>1. Holds(rx)
      BY DEF IInv
    <3> QED
      BY ONLY <1>3, <3>1, RingGet
  <2>3. Kept = <<>> /\ Kept' = <<Head(Contents(rx))>> /\ Contents(rx)' = Tail(Contents(rx))
    BY <2>1, <2>2, NetAssumption DEF Kept
  <2>4. <<Head(Contents(rx))>> \o Tail(Contents(rx)) = <<>> \o Contents(rx)
    BY <2>2, RxParts
  <2>5. Contents(rx_on_tx)' = Contents(rx_on_tx)
    BY <1>1
  <2> QED
    BY Zenon, <1>1, <2>3, <2>4, <2>5 DEF RxWaiting
<1> QED
  BY <1>2, <1>3

\* The packet the card accepts is the first that waits.
LEMMA CardAcceptsStep == IInv /\ CardAccepts => RxPath!Deliver
<1> SUFFICES ASSUME IInv, CardAccepts PROVE RxPath!Deliver
  OBVIOUS
<1> DEFINE c == Contents(rx)
           d == Contents(rx_on_tx)
<1>1. UNCHANGED <<rx, rx_on_tx, made_rx, link_down>> /\ last_rx' = queued_pkt /\ queued_pkt' = Spare
  BY DEF CardAccepts, EmuGoes
<1>2. queued_pkt \in Nat /\ queued_pkt # Spare
  BY DEF CardAccepts, EmuGoes, IInv, Packets
<1>3. Kept = <<queued_pkt>> /\ Kept' = <<>>
  BY <1>1, <1>2 DEF Kept
<1>4. c \in Seq(Nat) /\ d \in Seq(Nat) /\ <<queued_pkt>> \in Seq(Nat) /\ Kept \o c \in Seq(Nat)
  BY <1>2, RxParts
<1>5. c' = c /\ d' = d
  BY <1>1
<1> HIDE DEF c, d
<1>6. /\ Kept \o c # <<>> /\ Head(Kept \o c) = queued_pkt
      /\ Tail(Kept \o c) = <<>> \o c
  BY SMTT(30), <1>3, <1>4, Rows
<1>7. /\ (Kept \o c) \o d # <<>> /\ Head((Kept \o c) \o d) = queued_pkt
      /\ Tail((Kept \o c) \o d) = (<<>> \o c) \o d
  <2> DEFINE e == Kept \o c
  <2>1. e \in Seq(Nat) /\ d \in Seq(Nat) /\ e # <<>>
    BY <1>4, <1>6
  <2> HIDE DEF e
  <2>2. e \o d # <<>> /\ Head(e \o d) = Head(e) /\ Tail(e \o d) = Tail(e) \o d
    BY ONLY <2>1, Rows
  <2> QED
    BY <1>6, <2>2, Zenon DEF e
<1> QED
  BY <1>1, <1>3, <1>5, <1>7 DEF RxPath!Deliver, RxWaiting, c, d

\* A packet from SLiRP goes behind all others, or is dropped by a full ring or for
\* want of a link.
LEMMA SendStep ==
  ASSUME IInv, net_slirp_send_packet, UNCHANGED <<queued_pkt, last_rx, link_down>>
  PROVE  RxPath!Take \/ RxPath!Refuse
<1> DEFINE a == Kept \o Contents(rx)
           c == Contents(rx)
           d == Contents(rx_on_tx)
           x == made_rx + 1
<1>1. made_rx' = x /\ x \in Nat /\ Kept' = Kept
  BY DEF net_slirp_send_packet, IInv, Kept
<1>2. CASE UNCHANGED <<rx, rx_on_tx>>
  <2>1. UNCHANGED RxWaiting
    BY <1>1, <1>2 DEF RxWaiting
  <2>2. link_down \/ network_queue_full(rx) \/ network_queue_full(rx_on_tx)
    <3>1. ASSUME ~network_queue_full(rx_on_tx) PROVE rx_on_tx # Put(rx_on_tx, x)
      <4>1. Contents(Put(rx_on_tx, x)) = Append(d, x)
        BY <1>1, <3>1, RingPut DEF IInv
      <4>2. Append(d, x) # d
        BY <1>1, RxParts
      <4> QED
        BY <4>1, <4>2
    <3>2. ASSUME ~network_queue_full(rx) PROVE rx # Put(rx, x)
      <4>1. Contents(Put(rx, x)) = Append(c, x)
        BY <1>1, <3>2, RingPut DEF IInv
      <4>2. Append(c, x) # c
        BY <1>1, RxParts
      <4> QED
        BY <4>1, <4>2
    <3> QED
      BY <1>2, <3>1, <3>2 DEF net_slirp_send_packet
  <2>3. link_down \/ Len(RxWaiting) >= NET_QUEUE_CAPACITY - 1
    <3>1. network_queue_full(rx) => Len(c) = NET_QUEUE_CAPACITY - 1
      BY EmptyOrFull DEF IInv, Holds
    <3>2. network_queue_full(rx_on_tx) => Len(d) = NET_QUEUE_CAPACITY - 1
      BY EmptyOrFull DEF IInv, Holds
    <3>3. Len(Kept) \in Nat /\ Len(c) \in Nat /\ Len(d) \in Nat
      BY RxParts
    <3>4. Len(RxWaiting) = Len(Kept) + Len(c) + Len(d)
      BY RxParts
    <3> QED
      BY <2>2, <3>1, <3>2, <3>3, <3>4, CapacityAssumption
  <2> QED
    BY <1>1, <2>1, <2>3 DEF RxPath!Refuse
<1>3. CASE ~network_queue_full(rx_on_tx) /\ rx_on_tx' = Put(rx_on_tx, x) /\ UNCHANGED rx
  <2>1. d' = Append(d, x)
    BY <1>1, <1>3, RingPut DEF IInv
  <2>2. a \in Seq(Nat) /\ d \in Seq(Nat)
    BY RxParts
  <2>3. a' = a
    BY <1>1, <1>3
  <2> HIDE DEF a, d
  <2>4. a \o Append(d, x) = Append(a \o d, x)
    BY SMTT(30), <1>1, <2>2, Rows
  <2> QED
    BY <1>1, <2>1, <2>3, <2>4 DEF RxPath!Take, RxWaiting, a, d
<1>4. CASE /\ ~network_queue_full(rx) /\ rx' = Put(rx, x) /\ UNCHANGED rx_on_tx
           /\ ~recv_on_tx
  <2>1. c' = Append(c, x)
    BY <1>1, <1>4, RingPut DEF IInv
  <2>2. d = <<>> /\ d' = <<>>
    BY <1>4, EmptyOrFull DEF IInv, Holds
  <2>3. Kept \in Seq(Nat) /\ c \in Seq(Nat) /\ a \in Seq(Nat)
    BY RxParts
  <2> HIDE DEF c, d
  <2>4. Kept \o Append(c, x) = Append(Kept \o c, x)
    <3>1. x \in Nat /\ Kept \in Seq(Nat) /\ c \in Seq(Nat)
      BY <1>1, <2>3
    <3> HIDE DEF x
    <3> QED
      BY ONLY <3>1, Rows, SMTT(40)
  <2>5. Kept \o c \in Seq(Nat) /\ Append(Kept \o c, x) \in Seq(Nat)
    BY <1>1, <2>3 DEF c
  <2>6. (Kept \o c) \o <<>> = Kept \o c /\ Append(Kept \o c, x) \o <<>> = Append(Kept \o c, x)
    BY ONLY <2>5, Rows
  <2>7. RxWaiting = (Kept \o c) \o <<>> /\ RxWaiting' = (Kept \o Append(c, x)) \o <<>>
    BY <1>1, <2>1, <2>2 DEF RxWaiting, c, d
  <2> QED
    BY <1>1, <2>4, <2>6, <2>7 DEF RxPath!Take
<1>5. \/ UNCHANGED <<rx, rx_on_tx>>
      \/ ~network_queue_full(rx_on_tx) /\ rx_on_tx' = Put(rx_on_tx, x) /\ UNCHANGED rx
      \/ /\ ~network_queue_full(rx) /\ rx' = Put(rx, x) /\ UNCHANGED rx_on_tx
         /\ ~recv_on_tx
  BY DEF net_slirp_send_packet
<1> HIDE DEF x
<1> QED
  BY <1>2, <1>3, <1>4, <1>5

\* Deferred packets are thrown away only with the link down.
LEMMA DeferredStep ==
  ASSUME IInv, Deferred
  PROVE  \/ UNCHANGED <<RxWaiting, made_rx, last_rx, link_down>>
         \/ \E m \in 0..Len(RxWaiting) : \E n \in (m + 1)..(Len(RxWaiting) + 1) : RxPath!Lose(m, n)
<1> DEFINE a == Kept \o Contents(rx)
           d == Contents(rx_on_tx)
<1>1. UNCHANGED <<rx, queued_pkt, made_rx, last_rx, link_down>>
  BY DEF Deferred, HostGoes
<1>2. CASE UNCHANGED rx_on_tx
  BY <1>1, <1>2 DEF RxWaiting, Kept
<1>3. CASE ~UNCHANGED rx_on_tx
  <2>1. link_down
    BY <1>3 DEF Deferred
  <2>2. rx_on_tx.head \in Slots
    BY Indices DEF IInv, Holds
  <2>3. Holds(rx_on_tx') /\ network_queue_empty(rx_on_tx')
    BY <1>3, <2>2, Cleared DEF Deferred
  <2>4. d' = <<>>
    BY <2>3, EmptyOrFull DEF Holds
  <2>5. a \in Seq(Nat) /\ d \in Seq(Nat) /\ a' = a
    BY <1>1, RxParts DEF Kept
  <2>6. RxWaiting = a \o d /\ RxWaiting' = a \o <<>>
    BY <2>4, <2>5 DEF RxWaiting
  <2> HIDE DEF a, d
  <2>7. SubSeq(RxWaiting, 1, Len(a)) = a /\ Len(RxWaiting) = Len(a) + Len(d)
    BY <2>5, <2>6, Rows
  <2>8. SubSeq(RxWaiting, Len(RxWaiting) + 1, Len(RxWaiting)) = <<>>
    BY <2>5, <2>7, SubSeqEmpty
  <2>9. RxPath!Lose(Len(a), Len(RxWaiting) + 1)
    BY <1>1, <2>1, <2>6, <2>7, <2>8 DEF RxPath!Lose
  <2>10. Len(a) \in 0..Len(RxWaiting)
         /\ Len(RxWaiting) + 1 \in (Len(a) + 1)..(Len(RxWaiting) + 1)
    BY <2>5, <2>7
  <2> QED
    BY <2>9, <2>10
<1> QED
  BY <1>2, <1>3

\* Every step is a step of the path to the card, or none.
LEMMA RxNext == IInv /\ [Next]_vars => [RxPath!Next]_(RxPath!vars)
<1> SUFFICES ASSUME IInv, [Next]_vars PROVE [RxPath!Next]_(RxPath!vars)
  OBVIOUS
<1>a. UNCHANGED <<RxWaiting, made_rx, last_rx, link_down>> => [RxPath!Next]_(RxPath!vars)
  BY DEF RxPath!vars
<1>b. UNCHANGED RxFrame /\ UNCHANGED link_down => [RxPath!Next]_(RxPath!vars)
  BY <1>a, RxStutter
<1>1. CASE RxGet
  BY <1>1, <1>a, RxGetStep
<1>2. CASE CardAccepts
  BY <1>2, CardAcceptsStep DEF RxPath!Next
<1>3. CASE SocketPacket \/ Answer
  <2>1. net_slirp_send_packet /\ UNCHANGED <<queued_pkt, last_rx, link_down>>
    BY <1>3 DEF SocketPacket, Answer, HostGoes
  <2> QED
    BY <2>1, SendStep DEF RxPath!Next
<1>4. CASE Deferred
  BY <1>4, <1>a, DeferredStep DEF RxPath!Next
<1>5. CASE FlushMove
  <2>1. UNCHANGED <<queued_pkt, made_rx, last_rx, link_down>>
    BY <1>5 DEF FlushMove, HostGoes
  <2>2. Contents(rx') \o Contents(rx_on_tx') = Contents(rx) \o Contents(rx_on_tx)
    BY Zenon, <1>5, Move DEF FlushMove, IInv
  <2>3. /\ Kept \in Seq(Nat) /\ Kept' = Kept
        /\ Contents(rx) \in Seq(Nat) /\ Contents(rx_on_tx) \in Seq(Nat)
        /\ Contents(rx') \in Seq(Nat) /\ Contents(rx_on_tx') \in Seq(Nat)
    <3>1. IInv'
      BY <1>5, HostInv DEF HostStep
    <3> QED
      BY <2>1, <3>1, RxParts DEF Kept, IInv, Holds
  <2>4. /\ RxWaiting = Kept \o (Contents(rx) \o Contents(rx_on_tx))
        /\ RxWaiting' = Kept \o (Contents(rx') \o Contents(rx_on_tx'))
    <3>1. RxWaiting' = (Kept \o Contents(rx')) \o Contents(rx_on_tx')
      BY <2>3, ZenonT(60) DEF RxWaiting
    <3> QED
      BY <2>3, <3>1, Regroup, ZenonT(60) DEF RxWaiting
  <2> QED
    BY <1>a, <2>1, <2>2, <2>4
<1>6. CASE network_connect
  <2>1. UNCHANGED RxFrame /\ link_down' = ~link_down
    BY <1>6 DEF network_connect, RxFrame, queues, history
  <2> QED
    BY <2>1, RxStutter DEF RxPath!Next, RxPath!SetLink
<1>7. CASE Reattach
  <2>1. /\ rx' = EmptyRing /\ rx_on_tx' = EmptyRing /\ queued_pkt' = Spare
        /\ made_rx' = 0 /\ last_rx' = 0 /\ UNCHANGED link_down
    BY <1>7 DEF Reattach
  <2>2. Contents(EmptyRing) = <<>>
    BY Cleared, EmptyOrFull DEF Holds
  <2>3. RxWaiting' = <<>>
    BY <2>1, <2>2 DEF RxWaiting, Kept
  <2> QED
    BY <2>1, <2>3 DEF RxPath!Next, RxPath!Reattach
<1>8. CASE network_tx \/ Tick \/ CardRefuses \/ TxMove \/ TxMoved \/ Notify \/ Close
  <2>1. UNCHANGED RxFrame /\ UNCHANGED link_down
    BY <1>8 DEF network_tx, Tick, CardRefuses, TxMove, TxMoved, Notify, Close, EmuGoes, RxFrame,
                queues, history
  <2> QED
    BY <1>b, <2>1
<1>9. CASE \/ PollEvent \/ PollSocket \/ SocketsDone \/ TxClear \/ PopPacket \/ Popped \/ TestLink
           \/ Input \/ InputDone \/ Flushed
  <2>1. UNCHANGED RxFrame /\ UNCHANGED link_down
    BY Zenon, <1>9 DEF PollEvent, PollSocket, SocketsDone, TxClear, PopPacket, Popped, TestLink, Input,
                InputDone, Flushed, HostGoes, RxFrame
  <2> QED
    BY <1>b, <2>1
<1>10. CASE UNCHANGED vars
  <2>1. UNCHANGED RxFrame /\ UNCHANGED link_down
    BY <1>10 DEF vars, queues, history, RxFrame
  <2> QED
    BY <1>b, <2>1
<1> QED
  BY <1>1, <1>2, <1>3, <1>4, <1>5, <1>6, <1>7, <1>8, <1>9, <1>10 DEF Next, EmuStep, HostStep

\* The card is offered packets in the order in which SLiRP made them, for rings of
\* every capacity: the deferred packets are not overtaken, a refused packet keeps its
\* place, and none is lost unless a ring is full or the link is down.
THEOREM RxIsFifo == Spec => RxInOrder
<1>1. Init => RxPath!Init
  <2>1. Contents(EmptyRing) = <<>>
    BY Cleared, EmptyOrFull DEF Holds
  <2> QED
    BY <2>1 DEF Init, RxPath!Init, RxWaiting, Kept
<1> QED
  BY <1>1, RxNext, Invariance, PTL DEF Spec, RxInOrder, RxPath!Spec

-----------------------------------------------------------------------------
(* The path to SLiRP.                                                      *)

TxFrame == <<pkt_tx_v, tx_host, tx_vm, made_tx, last_tx>>

\* A step that moves no packet of the sending side is none of its path.
LEMMA TxStutter ==
  ASSUME UNCHANGED TxFrame
  PROVE  UNCHANGED <<TxWaiting, made_tx, last_tx>>
  BY DEF TxFrame, TxWaiting

\* What waits for SLiRP is a sequence of packets.
LEMMA TxParts ==
  ASSUME IInv
  PROVE  /\ pkt_tx_v \in Seq(Nat) /\ Contents(tx_host) \in Seq(Nat) /\ Contents(tx_vm) \in Seq(Nat)
         /\ pkt_tx_v \o Contents(tx_host) \in Seq(Nat) /\ TxWaiting \in Seq(Nat)
         /\ Contents(tx_host) \o Contents(tx_vm) \in Seq(Nat)
         /\ TxWaiting = pkt_tx_v \o (Contents(tx_host) \o Contents(tx_vm))
         /\ Len(TxWaiting) = Len(pkt_tx_v \o Contents(tx_host)) + Len(Contents(tx_vm))
<1>1. pkt_tx_v \in Seq(Nat) /\ Contents(tx_host) \in Seq(Nat) /\ Contents(tx_vm) \in Seq(Nat)
  BY DEF IInv, Holds
<1>2. pkt_tx_v \o Contents(tx_host) \in Seq(Nat) /\ Contents(tx_host) \o Contents(tx_vm) \in Seq(Nat)
  BY ONLY <1>1, Rows
<1>3. TxWaiting \in Seq(Nat)
      /\ Len(TxWaiting) = Len(pkt_tx_v \o Contents(tx_host)) + Len(Contents(tx_vm))
  BY ONLY <1>1, <1>2, Rows DEF TxWaiting
<1>4. TxWaiting = pkt_tx_v \o (Contents(tx_host) \o Contents(tx_vm))
  BY ONLY <1>1, ConcatAssociative DEF TxWaiting
<1> QED
  BY <1>1, <1>2, <1>3, <1>4

\* A packet the card sends goes behind all others, or is dropped by a full ring.
LEMMA TransmitStep == IInv /\ network_tx => TxPath!Take \/ TxPath!Refuse
<1> SUFFICES ASSUME IInv, network_tx PROVE TxPath!Take \/ TxPath!Refuse
  OBVIOUS
<1> DEFINE a == pkt_tx_v \o Contents(tx_host)
           c == Contents(tx_vm)
           x == made_tx + 1
<1>1. /\ UNCHANGED <<pkt_tx_v, tx_host, last_tx, link_down>> /\ made_tx' = x /\ x \in Nat
      /\ a' = a /\ a \in Seq(Nat) /\ c \in Seq(Nat)
  BY TxParts DEF network_tx, EmuGoes, IInv
<1>2. CASE network_queue_full(tx_vm)
  <2>1. UNCHANGED TxWaiting
    BY <1>1, <1>2 DEF network_tx, TxWaiting
  <2>2. Len(c) = NET_QUEUE_CAPACITY - 1
    BY <1>2, EmptyOrFull DEF IInv, Holds
  <2>3. Len(TxWaiting) = Len(a) + Len(c)
    BY TxParts
  <2> HIDE DEF a, c
  <2>4. Len(TxWaiting) >= NET_QUEUE_CAPACITY - 1
    BY <1>1, <2>2, <2>3, CapacityAssumption
  <2> QED
    BY <1>1, <2>1, <2>4 DEF TxPath!Refuse
<1>3. CASE ~network_queue_full(tx_vm)
  <2>1. c' = Append(c, x)
    BY <1>1, <1>3, RingPut DEF network_tx, IInv
  <2>2. a \o Append(c, x) = Append(a \o c, x)
    <3>1. a \in Seq(Nat) /\ c \in Seq(Nat) /\ x \in Nat
      BY <1>1
    <3> HIDE DEF a, c, x
    <3> QED
      BY ONLY <3>1, Rows
  <2> QED
    BY Zenon, <1>1, <2>1, <2>2 DEF TxPath!Take, TxWaiting
<1> QED
  BY <1>2, <1>3

\* SLiRP takes the first packet of the batch, and a batch is dropped only with the link
\* down.
LEMMA BatchStep ==
  ASSUME IInv, Input \/ TestLink
  PROVE  \/ UNCHANGED <<TxWaiting, made_tx, last_tx, link_down>>
         \/ TxPath!Deliver
         \/ \E m \in 0..Len(TxWaiting) : \E n \in (m + 1)..(Len(TxWaiting) + 1) : TxPath!Lose(m, n)
<1> DEFINE d == Contents(tx_host) \o Contents(tx_vm)
           v == pkt_tx_v
<1>1. UNCHANGED <<tx_host, tx_vm, made_tx, link_down>>
  BY DEF Input, TestLink, HostGoes
<1>2. /\ d' = d /\ d \in Seq(Nat) /\ v \in Seq(Nat) /\ TxWaiting = v \o d
      /\ TxWaiting' = v' \o d
  <2>1. IInv'
    BY HostInv DEF HostStep
  <2>2. d' = d
    BY <1>1
  <2>3. TxWaiting' = v' \o d'
    <3>1. pkt_tx_v' \in Seq(Nat) /\ Contents(tx_host') \in Seq(Nat) /\ Contents(tx_vm') \in Seq(Nat)
      BY <2>1 DEF IInv, Holds
    <3>2. (pkt_tx_v' \o Contents(tx_host')) \o Contents(tx_vm')
            = pkt_tx_v' \o (Contents(tx_host') \o Contents(tx_vm'))
      BY ONLY <3>1, Regroup, ZenonT(60)
    <3> QED
      BY <3>2 DEF TxWaiting
  <2> QED
    BY Zenon, <2>2, <2>3, TxParts
<1>3. CASE Input
  <2>1. v # <<>> /\ last_tx' = Head(v) /\ v' = Tail(v)
    BY <1>3 DEF Input
  <2> HIDE DEF d
  <2>2. v \o d # <<>> /\ Head(v \o d) = Head(v) /\ Tail(v \o d) = Tail(v) \o d
    BY ONLY Zenon, <1>2, <2>1, Rows
  <2>3. TxPath!Deliver
    BY Zenon, <1>1, <1>2, <2>1, <2>2 DEF TxPath!Deliver
  <2> QED
    BY <2>3
<1>4. CASE TestLink /\ ~link_down
  BY Zenon, <1>1, <1>2, <1>4 DEF TestLink
<1>5. CASE TestLink /\ link_down
  <2>1. v' = <<>> /\ last_tx' = last_tx
    BY <1>5 DEF TestLink
  <2> HIDE DEF d
  <2>2. /\ SubSeq(TxWaiting, Len(v) + 1, Len(TxWaiting)) = d
        /\ Len(TxWaiting) = Len(v) + Len(d)
    BY <1>2, Rows
  <2>3. SubSeq(TxWaiting, 1, 0) = <<>>
    BY SubSeqEmpty
  <2>4. TxPath!Lose(0, Len(v) + 1)
    BY <1>1, <1>2, <1>5, <2>1, <2>2, <2>3 DEF TxPath!Lose
  <2>5. 0 \in 0..Len(TxWaiting) /\ Len(v) + 1 \in (0 + 1)..(Len(TxWaiting) + 1)
    BY <1>2, <2>2
  <2> QED
    BY <2>4, <2>5
<1> QED
  BY <1>3, <1>4, <1>5

\* Every step is a step of the path to SLiRP, or none.
LEMMA TxNext == IInv /\ [Next]_vars => [TxPath!Next]_(TxPath!vars)
<1> SUFFICES ASSUME IInv, [Next]_vars PROVE [TxPath!Next]_(TxPath!vars)
  OBVIOUS
<1>a. UNCHANGED <<TxWaiting, made_tx, last_tx, link_down>> => [TxPath!Next]_(TxPath!vars)
  BY DEF TxPath!vars
<1>b. UNCHANGED TxFrame /\ UNCHANGED link_down => [TxPath!Next]_(TxPath!vars)
  BY <1>a, TxStutter
<1>1. CASE network_tx
  BY <1>1, TransmitStep DEF TxPath!Next
<1>2. CASE Input \/ TestLink
  BY <1>2, <1>a, BatchStep DEF TxPath!Next
<1>3. CASE TxMove
  <2>1. UNCHANGED <<pkt_tx_v, made_tx, last_tx, link_down>>
    BY <1>3 DEF TxMove, EmuGoes, history
  <2>2. Contents(tx_host') \o Contents(tx_vm') = Contents(tx_host) \o Contents(tx_vm)
    BY Zenon, <1>3, Move DEF TxMove, Moving, IInv
  <2>3. IInv'
    BY <1>3, EmuInv DEF EmuStep
  <2>4. TxWaiting' = pkt_tx_v' \o (Contents(tx_host') \o Contents(tx_vm'))
    <3>1. pkt_tx_v' \in Seq(Nat) /\ Contents(tx_host') \in Seq(Nat) /\ Contents(tx_vm') \in Seq(Nat)
      BY <2>3 DEF IInv, Holds
    <3>2. (pkt_tx_v' \o Contents(tx_host')) \o Contents(tx_vm')
            = pkt_tx_v' \o (Contents(tx_host') \o Contents(tx_vm'))
      BY ONLY <3>1, Regroup, ZenonT(60)
    <3> QED
      BY <3>2 DEF TxWaiting
  <2> QED
    BY Zenon, <1>a, <2>1, <2>2, <2>4, TxParts
<1>4. CASE PopPacket
  <2>1. UNCHANGED <<tx_vm, made_tx, last_tx, link_down>>
    BY <1>4 DEF PopPacket, HostGoes
  <2>2. /\ Contents(tx_host) # <<>> /\ Contents(tx_host') = Tail(Contents(tx_host))
        /\ pkt_tx_v' = Append(pkt_tx_v, Head(Contents(tx_host)))
    BY <1>4, RingGet DEF PopPacket, Popping, IInv
  <2>3. pkt_tx_v' \o Contents(tx_host') = pkt_tx_v \o Contents(tx_host)
    BY ZenonT(60), <2>2, TxParts, Passed
  <2> QED
    BY <1>a, <2>1, <2>3 DEF TxWaiting
<1>5. CASE network_connect
  <2>1. UNCHANGED TxFrame /\ link_down' = ~link_down
    BY <1>5 DEF network_connect, TxFrame, queues, history
  <2> QED
    BY <2>1, TxStutter DEF TxPath!Next, TxPath!SetLink
<1>6. CASE Reattach
  <2>1. /\ tx_host' = EmptyRing /\ tx_vm' = EmptyRing /\ pkt_tx_v' = <<>>
        /\ made_tx' = 0 /\ last_tx' = 0 /\ UNCHANGED link_down
    BY <1>6 DEF Reattach
  <2>2. Contents(EmptyRing) = <<>>
    BY Cleared, EmptyOrFull DEF Holds
  <2>3. TxWaiting' = <<>>
    BY <2>1, <2>2 DEF TxWaiting
  <2> QED
    BY <2>1, <2>3 DEF TxPath!Next, TxPath!Reattach
<1>7. CASE \/ Tick \/ RxGet \/ CardAccepts \/ CardRefuses \/ TxMoved \/ Notify \/ Close
  <2>1. UNCHANGED TxFrame /\ UNCHANGED link_down
    BY Zenon, <1>7 DEF Tick, RxGet, CardAccepts, CardRefuses, TxMoved, Notify, Close, EmuGoes, TxFrame,
                queues, history
  <2> QED
    BY <1>b, <2>1
<1>8. CASE \/ PollEvent \/ PollSocket \/ SocketPacket \/ Answer \/ SocketsDone \/ TxClear
           \/ Popped \/ InputDone \/ Deferred \/ FlushMove \/ Flushed
  <2>1. UNCHANGED TxFrame /\ UNCHANGED link_down
    BY Zenon, <1>8 DEF PollEvent, PollSocket, SocketPacket, Answer, SocketsDone, TxClear, Popped,
                InputDone, Deferred, FlushMove, Flushed, HostGoes, TxFrame
  <2> QED
    BY <1>b, <2>1
<1>9. CASE UNCHANGED vars
  <2>1. UNCHANGED TxFrame /\ UNCHANGED link_down
    BY <1>9 DEF vars, queues, history, TxFrame
  <2> QED
    BY <1>b, <2>1
<1> QED
  BY <1>1, <1>2, <1>3, <1>4, <1>5, <1>6, <1>7, <1>8, <1>9 DEF Next, EmuStep, HostStep

\* SLiRP takes packets in the order in which the card sent them, for rings of every
\* capacity and batches of every size: none is lost between the three places where it
\* waits unless a ring is full or the link is down.
THEOREM TxIsFifo == Spec => TxInOrder
<1>1. Init => TxPath!Init
  <2>1. Contents(EmptyRing) = <<>>
    BY Cleared, EmptyOrFull DEF Holds
  <2> QED
    BY <2>1 DEF Init, TxPath!Init, TxWaiting
<1> QED
  BY <1>1, TxNext, Invariance, PTL DEF Spec, TxInOrder, TxPath!Spec

-----------------------------------------------------------------------------
(* Room for deferred packets.                                              *)

\* Where the timer's handler is when it has made room, or holds the packet it will
\* make room with. A packet kept from an earlier run is offered with i = 0, and then
\* the loop reads the flag before it ends, as NET_QUEUE_LEN is above one.
RoomNoted ==
    \/ network_queue_full(rx) \/ tx_event > 0 \/ emu \in {"notify", "join"}
    \/ emu = "get" /\ rx_bytes
    \/ emu = "move" /\ rx_bytes /\ rx_pending
    \/ emu = "offer" /\ (i = 0 \/ rx_pending)
    \/ emu \in {"idle", "move"} /\ queued_pkt # Spare

\* The flags agree with the ring of deferred packets when the host thread sleeps.
RInv ==
    /\ IInv
    /\ tx_event \in Nat /\ i \in Nat
    /\ host = "clear" \/ (host = "sockets" /\ "tx" \in ready) => tx_event > 0
    /\ rx_deferred_pending => recv_on_tx
    /\ host = "poll" => (rx_deferred_pending <=> ~network_queue_empty(rx_on_tx))
    /\ host = "poll" /\ rx_deferred_pending => RoomNoted

\* A step of the emulation thread preserves the invariant.
LEMMA EmuRoom ==
  RInv /\ (EmuStep \/ CardAccepts \/ network_tx \/ Close) => RInv'
<1> SUFFICES ASSUME RInv, EmuStep \/ CardAccepts \/ network_tx \/ Close PROVE RInv'
  OBVIOUS
<1>0. IInv /\ IInv'
  BY EmuInv DEF RInv
<1>1. ASSUME network_tx PROVE RInv'
  BY <1>0, <1>1 DEF network_tx, EmuGoes, locals, flags, events, RInv, RoomNoted
<1>2. ASSUME Tick PROVE RInv'
  BY <1>0, <1>2 DEF Tick, EmuGoes, queues, events, RInv, RoomNoted
<1>3. ASSUME RxGet PROVE RInv'
  <2>1. network_queue_full(rx) => ~network_queue_empty(rx)
    <3>1. rx \in Rings(Packets)
      BY <1>0 DEF IInv, Holds
    <3>2. ASSUME network_queue_empty(rx) PROVE Len(Contents(rx)) = 0
      BY <3>1, <3>2, EmptyOrFull
    <3>3. network_queue_full(rx) => Len(Contents(rx)) = NET_QUEUE_CAPACITY - 1
      BY ONLY <3>1, EmptyOrFull
    <3> QED
      BY <3>2, <3>3, CapacityAssumption
  <2> QED
    BY <1>0, <1>3, <2>1 DEF RxGet, EmuGoes, flags, events, RInv, RoomNoted
<1>4. ASSUME CardAccepts PROVE RInv'
  BY <1>0, <1>4, NetAssumption DEF CardAccepts, EmuGoes, flags, events, RInv, RoomNoted
<1>5. ASSUME CardRefuses PROVE RInv'
  BY <1>0, <1>5 DEF CardRefuses, EmuGoes, queues, flags, events, RInv, RoomNoted, IInv
<1>6. ASSUME TxMove PROVE RInv'
  BY <1>0, <1>6 DEF TxMove, EmuGoes, flags, events, RInv, RoomNoted
<1>7. ASSUME TxMoved PROVE RInv'
  BY <1>0, <1>7 DEF TxMoved, EmuGoes, queues, flags, events, RInv, RoomNoted
<1>8. ASSUME Notify PROVE RInv'
  <2>1. tx_event' \in Nat /\ tx_event' > 0
    BY <1>8, NetAssumption DEF Notify, RInv
  <2> QED
    BY <1>0, <1>8, <2>1 DEF Notify, EmuGoes, queues, locals, flags, RInv, RoomNoted
<1>9. ASSUME Close PROVE RInv'
  BY <1>0, <1>9 DEF Close, EmuGoes, queues, locals, flags, RInv, RoomNoted
<1>10. ASSUME Reattach PROVE RInv'
  BY <1>0, <1>10, Cleared DEF Reattach, RInv
<1> QED
  BY <1>1, <1>2, <1>3, <1>4, <1>5, <1>6, <1>7, <1>8, <1>9, <1>10 DEF EmuStep

\* A step of the host thread preserves the invariant.
LEMMA HostRoom ==
  RInv /\ (HostStep \/ PollSocket \/ SocketPacket \/ Answer) => RInv'
<1> SUFFICES ASSUME RInv, HostStep \/ PollSocket \/ SocketPacket \/ Answer PROVE RInv'
  OBVIOUS
<1>0. IInv /\ IInv'
  BY HostInv DEF RInv
<1>1. ASSUME Deferred PROVE RInv'
  <2>1. ~recv_on_tx => network_queue_empty(rx_on_tx) /\ ~rx_deferred_pending
    BY <1>0 DEF RInv, IInv
  <2> QED
    BY <1>0, <1>1, <2>1 DEF Deferred, HostGoes, locals, RInv
<1>2. ASSUME Flushed PROVE RInv'
  BY Zenon, <1>0, <1>2 DEF Flushed, HostGoes, locals, CanMove, RInv, RoomNoted
<1>3. ASSUME SocketPacket \/ Answer PROVE RInv'
  <2>1. /\ UNCHANGED <<rx_deferred_pending, tx_event, i>> /\ host' # "poll"
        /\ recv_on_tx => recv_on_tx'
        /\ UNCHANGED <<host, ready>>
    BY <1>3, Zenon DEF SocketPacket, Answer, net_slirp_send_packet, HostGoes, locals
  <2> QED
    BY <1>0, <2>1, Zenon DEF RInv
<1>4. ASSUME TxClear PROVE RInv'
  BY <1>0, <1>4 DEF TxClear, HostGoes, locals, RInv
<1>5. ASSUME \/ PollEvent \/ PollSocket \/ SocketsDone \/ PopPacket \/ Popped \/ TestLink
             \/ Input \/ InputDone \/ FlushMove
      PROVE  RInv'
  <2>1. /\ UNCHANGED <<rx_deferred_pending, recv_on_tx, tx_event, i>> /\ host' # "poll"
    BY Zenon, <1>5 DEF PollEvent, PollSocket, SocketsDone, PopPacket, Popped, TestLink, Input,
                InputDone, FlushMove, HostGoes, locals
  <2>2. CASE PollEvent \/ PollSocket \/ SocketsDone
    <3>1. host' = "clear" \/ (host' = "sockets" /\ "tx" \in ready') => tx_event > 0
      BY <2>2 DEF PollEvent, PollSocket, SocketsDone, HostGoes, RInv
    <3> QED
      BY <1>0, <2>1, <3>1 DEF RInv
  <2>3. CASE \/ PopPacket \/ Popped \/ TestLink \/ Input \/ InputDone \/ FlushMove
    <3>1. host' \notin {"clear", "sockets"}
      BY <2>3 DEF PopPacket, Popped, TestLink, Input, InputDone, FlushMove, HostGoes
    <3> QED
      BY <1>0, <2>1, <3>1 DEF RInv
  <2> QED
    BY <1>5, <2>2, <2>3
<1> QED
  BY <1>1, <1>2, <1>3, <1>4, <1>5 DEF HostStep

\* The host thread does not sleep while there is room for a packet it defers, unless
\* it is being told: for every capacity, every NET_QUEUE_LEN above one, and however
\* few notifications tx_event can hold.
THEOREM RoomAnnounced == Spec => []RoomIsAnnounced
<1>1. Init => RInv
  BY InitInv, Cleared DEF Init, RInv
<1>2. RInv /\ [Next]_vars => RInv'
  <2>1. ASSUME RInv, UNCHANGED vars PROVE RInv'
    BY <2>1 DEF RInv, IInv, RoomNoted, vars, queues, locals, history, flags, events
  <2>2. ASSUME RInv, network_connect PROVE RInv'
    BY <2>2 DEF RInv, IInv, RoomNoted, network_connect, queues, locals, history, flags, events
  <2> QED
    BY <2>1, <2>2, EmuRoom, HostRoom DEF Next
<1>3. RInv => RoomIsAnnounced
  BY Zenon DEF RInv, IInv, RoomNoted, RoomIsAnnounced
<1> QED
  BY <1>1, <1>2, <1>3, PTL DEF Spec
=============================================================================
