----------------------------- MODULE PacketPath -----------------------------
(***************************************************************************)
(* What the queues between an emulated network card and its host driver    *)
(* promise for one direction: a first-in first-out path for packets. A     *)
(* packet is refused only when the path is full or the link is down, and   *)
(* one that was taken is lost only while the link is down.                 *)
(***************************************************************************)
EXTENDS Naturals, Sequences

CONSTANT Capacity   \* so many packets are taken at least

VARIABLES waiting,  \* the packets on the path, the oldest first
          made,     \* the number of packets offered so far; a packet is its number
          last,     \* the packet delivered last
          link_down

vars == <<waiting, made, last, link_down>>

Init == waiting = <<>> /\ made = 0 /\ last = 0 /\ link_down = FALSE

Take ==
    /\ made' = made + 1
    /\ waiting' = Append(waiting, made + 1)
    /\ UNCHANGED <<last, link_down>>

Refuse ==
    /\ link_down \/ Len(waiting) >= Capacity
    /\ made' = made + 1
    /\ UNCHANGED <<waiting, last, link_down>>

Deliver ==
    /\ waiting # <<>>
    /\ waiting' = Tail(waiting) /\ last' = Head(waiting)
    /\ UNCHANGED <<made, link_down>>

\* The packets between i and j are thrown away.
Lose(i, j) ==
    /\ link_down
    /\ waiting' = SubSeq(waiting, 1, i) \o SubSeq(waiting, j, Len(waiting))
    /\ UNCHANGED <<made, last, link_down>>

SetLink == link_down' = ~link_down /\ UNCHANGED <<waiting, made, last>>

\* The card is closed, with packets on the path perhaps, and attached anew.
Reattach == waiting' = <<>> /\ made' = 0 /\ last' = 0 /\ UNCHANGED link_down

Next ==
    \/ Take \/ Refuse \/ Deliver \/ SetLink \/ Reattach
    \/ \E i \in 0..Len(waiting) : \E j \in (i + 1)..(Len(waiting) + 1) : Lose(i, j)

Spec == Init /\ [][Next]_vars
=============================================================================
