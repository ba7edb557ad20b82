----------------------------- MODULE ApicProofs -----------------------------
(***************************************************************************)
(* The invariants of Apic for any number of inputs, any vectors and any    *)
(* programming of the entries. They are proved together: IInv adds to them *)
(* what holds in the middle of a handler.                                  *)
(***************************************************************************)
EXTENDS Apic, WellFoundedInduction, FiniteSetTheorems, TLAPS

\* The entries whose message the local APIC would take now.
Takeable == {e \in Entries : Takes(e)}

\* The edge entries for vector v with a message to send.
Held(v) == {pin \in send_pending : ~redir[pin].level /\ redir[pin].vector = v}

WellFormed(e) == e \in Entries /\ e.vector \in (IF e.level THEN LevelVectors ELSE EdgeVectors)

Shape ==
    /\ \A pin \in Pins : WellFormed(redir[pin])
    /\ \A pin \in send_pending : ~redir[pin].masked
    /\ step \in {"idle", "fall"} => todo = {} /\ ending = 0
    /\ step = "eoi" => ending # 0 /\ todo = at..(N - 1)

\* In a round of the poll, the entries not yet tried may be takeable.
RInv == \A pin \in send_pending : redir[pin] \in Takeable => step = "poll" /\ pin \in todo

IInv == TypeOK /\ Shape /\ RInv /\ LevelIsSent /\ EoiWillCome /\ EdgesKept

-----------------------------------------------------------------------------
(* The local APIC.                                                         *)

\* Highest() is what the code's search from the top finds.
LEMMA HighestIsIn ==
    ASSUME NEW S \in SUBSET Vectors, S # {}
    PROVE  Highest(S) \in S
<1> DEFINE T == {256 - v : v \in S}
<1>1. S \subseteq 16..255  BY ApicAssumption
<1>2. PICK i \in T : \A j \in T : i <= j
  <2> DEFINE W == {p \in Nat \X Nat : p[1] < p[2]}
  <2>1. IsWellFoundedOn(W, Nat)
    BY Zenon, NatLessThanWellFounded DEF OpToRel
  <2>2. T \subseteq Nat /\ T # {}
    <3>1. \A v \in S : 256 - v \in Nat  BY <1>1
    <3> QED  BY Zenon, <3>1
  <2> HIDE DEF T
  <2>3. PICK x \in T : \A y \in T : ~(<<y, x>> \in W)
    <3> HIDE DEF W
    <3> QED  BY Zenon, <2>1, <2>2, WFMin
  <2>4. x \in Nat /\ \A y \in T : y \in Nat /\ ~(y < x)
    BY ONLY <2>2, <2>3
  <2> QED  BY ONLY <2>2, <2>3, <2>4
<1>3. PICK v \in S : i = 256 - v  BY <1>2
<1>4. \A w \in S : 256 - w \in T  OBVIOUS
<1>5. \A w \in S : w <= v
  <2> SUFFICES ASSUME NEW w \in S PROVE w <= v  OBVIOUS
  <2>1. i <= 256 - w  BY <1>2, <1>4
  <2> QED  BY <2>1, <1>1, <1>3
<1> QED  BY <1>5 DEF Highest

\* There are finitely many vectors.
LEMMA VectorsFinite == IsFiniteSet(Vectors)
<1>1. PICK a \in Int, b \in Int : a = 16 /\ b = 255  OBVIOUS
<1>2. IsFiniteSet(a..b)  BY FS_Interval
<1>3. Vectors \subseteq a..b  BY <1>1, ApicAssumption
<1> QED  BY Zenon, <1>2, <1>3, FS_Subset

\* No entry's vector is 0.
LEMMA VectorNotZero == \A e : WellFormed(e) => e.vector \in Vectors /\ e.vector # 0
<1> SUFFICES ASSUME NEW e, WellFormed(e) PROVE e.vector \in Vectors /\ e.vector # 0
  OBVIOUS
<1>1. e.vector \in Vectors  BY DEF WellFormed, Vectors
<1>2. e.vector \in 16..255  BY Zenon, <1>1, ApicAssumption
<1> QED  BY <1>1, <1>2

\* What waits for a slot, for the APIC to be enabled or for an address
\* waits on while the local APIC only takes more in.
LEMMA Fuller ==
    ASSUME irr \subseteq irr', irr' \subseteq Vectors, isr \subseteq Vectors,
           isr' = isr, enabled' = enabled, address' = address
    PROVE  Takeable' \subseteq Takeable
<1> SUFFICES ASSUME NEW e \in Entries, Takes(e)' PROVE Takes(e)
  BY DEF Takeable
<1> DEFINE v == e.vector
           I == InClass(irr, v)
           J == InClass(irr', v)
           K == InClass(isr, v)
<1>2. IsFiniteSet(Vectors)  BY VectorsFinite
<1>1. v \notin irr' /\ enabled /\ e.dest = address /\ Cardinality(J) + Cardinality(K) < 2
  BY DEF Takes, SlotFree, InClass
<1>3. IsFiniteSet(J) /\ IsFiniteSet(K)
  <2>1. J \subseteq Vectors /\ K \subseteq Vectors  BY DEF InClass
  <2> QED  BY <2>1, <1>2, FS_Subset
<1>4. I \subseteq J  BY DEF InClass
<1>5. IsFiniteSet(I) /\ Cardinality(I) <= Cardinality(J)
  <2> HIDE DEF I, J
  <2> QED  BY <1>3, <1>4, FS_Subset
<1>6. Cardinality(I) \in Nat /\ Cardinality(J) \in Nat /\ Cardinality(K) \in Nat
  BY <1>3, <1>5, FS_CardinalityType
<1>7. Cardinality(I) + Cardinality(K) < 2
  <2> HIDE DEF I, J, K
  <2> QED  BY <1>1, <1>5, <1>6
<1> QED  BY <1>1, <1>7 DEF Takes, SlotFree

\* The same local APIC takes the same messages.
LEMMA Unmoved ==
    ASSUME UNCHANGED <<enabled, address, irr, isr>>
    PROVE  Takeable' = Takeable
BY DEF Takeable, Takes, SlotFree, InClass

-----------------------------------------------------------------------------
(* What becomes of a message.                                              *)

Taken(pin, e, rirr) ==
    /\ e \in Takeable /\ e.vector \notin irr /\ ~e.masked
    /\ irr' = irr \cup {e.vector}
    /\ tmr' = IF e.level THEN tmr \cup {e.vector} ELSE tmr \ {e.vector}
    /\ send_pending' = send_pending \ {pin}
    /\ remote_irr' = IF e.level THEN rirr \cup {pin} ELSE rirr

Refused(pin, e, rirr) ==
    /\ e \notin Takeable /\ ~e.masked /\ ~(e.level /\ pin \in rirr)
    /\ send_pending' = send_pending \cup {pin}
    /\ remote_irr' = rirr /\ irr' = irr /\ tmr' = tmr

Dropped(pin, e, rirr) ==
    /\ send_pending' = send_pending \ {pin}
    /\ remote_irr' = rirr /\ irr' = irr /\ tmr' = tmr

NotSent(rirr) ==
    send_pending' = send_pending /\ remote_irr' = rirr /\ irr' = irr /\ tmr' = tmr

\* ioapic_deliver_pin() has four outcomes.
LEMMA Outcomes ==
    ASSUME NEW pin \in Pins, NEW e \in Entries, NEW rirr, NEW asserted \in BOOLEAN,
           ioapic_deliver_pin(pin, e, rirr, asserted)
    PROVE  \/ asserted /\ Taken(pin, e, rirr)
           \/ asserted /\ Refused(pin, e, rirr)
           \/ (e.masked \/ (e.level /\ ~asserted)) /\ Dropped(pin, e, rirr)
           \/ /\ ~e.masked /\ (IF e.level THEN asserted /\ pin \in rirr ELSE ~asserted)
              /\ NotSent(rirr)
<1> USE DEF ioapic_deliver_pin
<1>1. CASE asserted /\ ~e.masked /\ ~(e.level /\ pin \in rirr)
  <2>1. CASE Takes(e)
    <3>1. e.vector \notin irr  BY <2>1 DEF Takes, SlotFree
    <3> QED  BY <1>1, <2>1, <3>1 DEF Send, Accept, Taken, Takeable
  <2>2. CASE ~Takes(e)
    BY <1>1, <2>2 DEF Send, Refused, Takeable
  <2> QED  BY <2>1, <2>2
<1>2. CASE ~(asserted /\ ~e.masked /\ ~(e.level /\ pin \in rirr))
  <2>1. CASE e.masked \/ (e.level /\ ~asserted)  BY <1>2, <2>1 DEF Dropped
  <2>2. CASE ~(e.masked \/ (e.level /\ ~asserted))  BY <1>2, <2>2 DEF NotSent, Entries
  <2> QED  BY <2>1, <2>2
<1> QED  BY <1>1, <1>2

-----------------------------------------------------------------------------
(* Types, and the shape of the state in the middle of a handler.           *)

RegsOK ==
    /\ redir \in [Pins -> Entries] /\ \A pin \in Pins : WellFormed(redir[pin])
    /\ line \subseteq Pins /\ poll_next \in Pins
    /\ send_pending \subseteq {pin \in Pins : ~redir[pin].masked}
    /\ remote_irr \subseteq {pin \in Pins \ send_pending : redir[pin].level}
    /\ enabled \in BOOLEAN /\ address \in Addresses \cup {NoAddress} /\ tpr \in TPRs
    /\ irr \subseteq Vectors /\ isr \subseteq Vectors /\ tmr \subseteq LevelVectors
    /\ orphan \subseteq remote_irr

HandlerOK ==
    /\ step \in {"idle", "fall", "poll", "eoi"}
    /\ at \in Pins /\ todo \subseteq Pins /\ ending \in LevelVectors \cup {0}
    /\ step \in {"idle", "fall"} => todo = {} /\ ending = 0
    /\ step = "eoi" => ending # 0 /\ todo = at..(N - 1)

\* EdgesKept gives the type of owed.
LEMMA TypeParts ==
    /\ TypeOK /\ Shape => RegsOK /\ HandlerOK
    /\ RegsOK /\ HandlerOK /\ owed \in [EdgeVectors -> Nat] => TypeOK /\ Shape
<1>1. TypeOK /\ Shape => RegsOK /\ HandlerOK
  BY DEF TypeOK, Shape, RegsOK, HandlerOK
<1>2. RegsOK /\ HandlerOK /\ owed \in [EdgeVectors -> Nat] => TypeOK /\ Shape
  BY DEF TypeOK, Shape, RegsOK, HandlerOK
<1> QED  BY <1>1, <1>2

\* The same in the next state.
LEMMA TypePartsNext ==
    (RegsOK /\ HandlerOK /\ owed \in [EdgeVectors -> Nat])' => (TypeOK /\ Shape)'
BY DEF TypeOK, Shape, RegsOK, HandlerOK

\* A message sent, refused or dropped for input pin under entry e keeps the
\* registers' types.
LEMMA SentRegs ==
    ASSUME RegsOK, NEW pin \in Pins, NEW e, WellFormed(e), NEW rirr, NEW asserted \in BOOLEAN,
           rirr \subseteq Pins \ send_pending,
           pin \in rirr => e.level,
           \A q \in rirr : q # pin => redir[q].level,
           e.masked => ~(pin \in send_pending'),
           redir' = [redir EXCEPT ![pin] = e],
           \/ Taken(pin, e, rirr) \/ Refused(pin, e, rirr) \/ Dropped(pin, e, rirr)
           \/ NotSent(rirr),
           line' \subseteq Pins, poll_next' \in Pins,
           enabled' \in BOOLEAN, address' \in Addresses \cup {NoAddress}, tpr' \in TPRs,
           isr' = isr, orphan' \subseteq remote_irr'
    PROVE  RegsOK'
<1> USE DEF RegsOK
<1>1. e \in Entries /\ e.vector \in Vectors /\ (e.level => e.vector \in LevelVectors)
  BY DEF WellFormed, Entries, Vectors
<1>2. redir' \in [Pins -> Entries]  BY <1>1
<1>3. \A q \in Pins : redir'[q] = IF q = pin THEN e ELSE redir[q]  OBVIOUS
<1>4. \A q \in Pins : WellFormed(redir'[q])  BY <1>3
<1>5. irr' \subseteq Vectors /\ tmr' \subseteq LevelVectors
  BY <1>1 DEF Taken, Refused, Dropped, NotSent
<1>6. send_pending' \subseteq {q \in Pins : ~redir'[q].masked}
  BY <1>3 DEF Taken, Refused, Dropped, NotSent
<1>7. remote_irr' \subseteq {q \in Pins \ send_pending' : redir'[q].level}
  <2>1. \A q \in remote_irr' : q \in Pins /\ redir'[q].level
    BY <1>1, <1>3 DEF Taken, Refused, Dropped, NotSent
  <2>2. \A q \in remote_irr' : q \notin send_pending'
    BY DEF Taken, Refused, Dropped, NotSent
  <2> QED  BY <2>1, <2>2
<1>8. (\A q \in Pins : WellFormed(redir[q]))'
  BY <1>4 DEF WellFormed, Entries, Pins
<1> QED  BY <1>2, <1>5, <1>6, <1>7, <1>8

-----------------------------------------------------------------------------
(* The four actions that send. Each is told as one message sent for input  *)
(* pin under entry e; "rirr" are the Remote IRR bits before it.            *)

Sends(pin, e, rirr, on) ==
    \/ on /\ Taken(pin, e, rirr)
    \/ on /\ Refused(pin, e, rirr)
    \/ (e.masked \/ (e.level /\ ~on)) /\ Dropped(pin, e, rirr)
    \/ /\ pin \in send_pending => redir[pin] = e /\ (step # "poll") /\ ~e.masked /\ (e.level => on)
       /\ ~e.masked /\ e.level /\ on => pin \in rirr \cup send_pending
       /\ NotSent(rirr)

\* The entry's message was taken, or is held.
Kept(pin, e, rirr) ==
    Taken(pin, e, rirr) \/ Refused(pin, e, rirr) \/ (NotSent(rirr) /\ pin \in send_pending)

\* Drive() sends under the entry as it is.
LEMMA DriveSends ==
    ASSUME IInv, NEW pin \in Pins, NEW high \in BOOLEAN, Drive(pin, high), step # "poll"
    PROVE  /\ Sends(pin, redir[pin], remote_irr, high)
           /\ ~redir[pin].level =>
                  (Kept(pin, redir[pin], remote_irr) <=>
                      pin \in send_pending \/ (high /\ pin \notin line /\ ~redir[pin].masked))
           /\ pin \in line' <=> high
           /\ \A q \in Pins : q # pin => (q \in line' <=> q \in line)
<1> DEFINE e == redir[pin]
<1>1. RegsOK  BY TypeParts DEF IInv
<1>2. e \in Entries /\ e.masked \in BOOLEAN /\ e.level \in BOOLEAN  BY <1>1 DEF RegsOK, Entries
<1>3. pin \in send_pending => ~e.masked /\ pin \notin remote_irr  BY <1>1 DEF RegsOK
<1>0. /\ pin \in line' <=> high
      /\ \A q \in Pins : q # pin => (q \in line' <=> q \in line)
  BY DEF Drive
<1>4. CASE e.masked \/ e.level \/ (high /\ pin \notin line)
  <2>1. ioapic_deliver_pin(pin, e, remote_irr, high)  BY <1>4 DEF Drive
  <2> HIDE DEF e
  <2>2. \/ high /\ Taken(pin, e, remote_irr)
        \/ high /\ Refused(pin, e, remote_irr)
        \/ (e.masked \/ (e.level /\ ~high)) /\ Dropped(pin, e, remote_irr)
        \/ /\ ~e.masked /\ (IF e.level THEN high /\ pin \in remote_irr ELSE ~high)
           /\ NotSent(remote_irr)
    BY <2>1, <1>2, Outcomes
  <2>3. Sends(pin, e, remote_irr, high)  BY <2>2, <1>2, <1>3, <1>4 DEF Sends, e
  <2>4. ~e.level => (Kept(pin, e, remote_irr) <=>
                        pin \in send_pending \/ (high /\ pin \notin line /\ ~e.masked))
    BY <2>2, <1>2, <1>3, <1>4 DEF Kept, Taken, Refused, Dropped, NotSent
  <2> QED  BY <2>3, <2>4, <1>0 DEF e
<1>5. CASE ~(e.masked \/ e.level \/ (high /\ pin \notin line))
  <2>1. NotSent(remote_irr)  BY <1>5 DEF Drive, NotSent
  <2>2. Sends(pin, e, remote_irr, high)  BY <2>1, <1>2, <1>3, <1>5 DEF Sends
  <2>3. Kept(pin, e, remote_irr) <=> pin \in send_pending
    BY <2>1, <1>2 DEF Kept, Taken, Refused, NotSent
  <2> QED  BY <2>2, <2>3, <1>0, <1>5
<1> QED  BY <1>4, <1>5

\* WriteRedir() sends under the new entry, without the Remote IRR of an
\* entry that is no longer level.
LEMMA StoreSends ==
    ASSUME IInv, NEW pin \in Pins, NEW e \in Programs[pin], WriteRedir(pin, e),
           NEW rirr, rirr = IF e.level THEN remote_irr ELSE remote_irr \ {pin}
    PROVE  /\ Sends(pin, e, rirr, e.level => pin \in line) /\ WellFormed(e)
           /\ ~e.level => (Kept(pin, e, rirr) <=> pin \in send_pending /\ ~e.masked)
<1>1. RegsOK  BY TypeParts DEF IInv
<1>2. e \in Entries /\ WellFormed(e)  BY ApicAssumption DEF WellFormed
<1>3. e.masked \in BOOLEAN /\ e.level \in BOOLEAN  BY <1>2 DEF Entries
<1>4. pin \in send_pending => pin \notin remote_irr  BY <1>1 DEF RegsOK
<1>5. StoreEntry(pin, e, rirr)  BY DEF WriteRedir
<1>6. CASE e.masked \/ e.level \/ pin \in send_pending
  <2>1. ioapic_deliver_pin(pin, e, rirr, e.level => pin \in line)  BY <1>5, <1>6 DEF StoreEntry
  <2> DEFINE on == e.level => pin \in line
  <2>2. on \in BOOLEAN  OBVIOUS
  <2> HIDE DEF on
  <2>3. \/ on /\ Taken(pin, e, rirr)
        \/ on /\ Refused(pin, e, rirr)
        \/ (e.masked \/ (e.level /\ ~on)) /\ Dropped(pin, e, rirr)
        \/ /\ ~e.masked /\ (IF e.level THEN on /\ pin \in rirr ELSE ~on)
           /\ NotSent(rirr)
    BY Zenon, <2>1, <2>2, <1>2, Outcomes DEF on
  <2>4. Sends(pin, e, rirr, on)  BY <2>3, <1>3, <1>4 DEF Sends, on
  <2>5. ~e.level => on  BY DEF on
  <2>6. ~e.level => (Kept(pin, e, rirr) <=> pin \in send_pending /\ ~e.masked)
    BY <2>3, <2>5, <1>3, <1>6 DEF Kept, Taken, Refused, Dropped, NotSent
  <2> QED  BY <2>4, <2>6, <1>2 DEF on
<1>7. CASE ~(e.masked \/ e.level \/ pin \in send_pending)
  <2>1. NotSent(rirr)  BY <1>5, <1>7 DEF StoreEntry, NotSent
  <2>2. ~Kept(pin, e, rirr)  BY <2>1, <1>7 DEF Kept, Taken, Refused, NotSent
  <2> QED  BY <2>1, <2>2, <1>2, <1>3, <1>7 DEF Sends
<1> QED  BY <1>6, <1>7

\* A step of the poll sends under the entry as it is.
LEMMA PollSends ==
    ASSUME IInv, Poll
    PROVE  /\ Sends(at, redir[at], remote_irr, redir[at].level => at \in line)
           /\ ~redir[at].level => (Kept(at, redir[at], remote_irr) <=> at \in send_pending)
<1> DEFINE e == redir[at]
           on == e.level => at \in line
<1>1. RegsOK /\ HandlerOK  BY TypeParts DEF IInv
<1>2. /\ at \in Pins /\ e \in Entries
      /\ e.masked \in BOOLEAN /\ e.level \in BOOLEAN /\ on \in BOOLEAN
  BY <1>1 DEF RegsOK, HandlerOK, Entries
<1>3. at \in send_pending => ~e.masked /\ at \notin remote_irr  BY <1>1 DEF RegsOK
<1>4. CASE ~e.masked /\ (at \in send_pending \/ (e.level /\ at \in line))
  <2>1. ioapic_deliver_pin(at, e, remote_irr, on)  BY <1>4 DEF Poll
  <2>2. e.level => at \in line
    BY <1>1, <1>4 DEF IInv, LevelIsSent, HandlerOK
  <2> HIDE DEF e, on
  <2>3. \/ on /\ Taken(at, e, remote_irr)
        \/ on /\ Refused(at, e, remote_irr)
        \/ (e.masked \/ (e.level /\ ~on)) /\ Dropped(at, e, remote_irr)
        \/ /\ ~e.masked /\ (IF e.level THEN on /\ at \in remote_irr ELSE ~on)
           /\ NotSent(remote_irr)
    BY <2>1, <1>2, Outcomes
  <2>4. Sends(at, e, remote_irr, on)  BY <2>2, <2>3, <1>2, <1>3 DEF Sends, on
  <2>5. ~e.level => on  BY DEF on
  <2>6. ~e.level => (Kept(at, e, remote_irr) <=> at \in send_pending)
    BY <2>3, <2>5, <1>2, <1>4 DEF Kept, Taken, Refused, Dropped, NotSent
  <2> QED  BY <2>4, <2>6 DEF e, on
<1>5. CASE ~(~e.masked /\ (at \in send_pending \/ (e.level /\ at \in line)))
  <2>1. NotSent(remote_irr)  BY <1>5 DEF Poll, NotSent
  <2>2. Kept(at, e, remote_irr) <=> at \in send_pending
    BY <2>1, <1>2 DEF Kept, Taken, Refused, NotSent
  <2> QED  BY <2>1, <2>2, <1>2, <1>3, <1>5 DEF Sends
<1> QED  BY <1>4, <1>5

\* A step of the broadcast sends under the entry as it is, with its Remote
\* IRR cleared if it is the one that ends.
LEMMA BroadcastSends ==
    ASSUME IInv, Broadcast, NEW rirr,
           rirr = IF redir[at].vector = ending /\ at \in remote_irr
                  THEN remote_irr \ {at} ELSE remote_irr
    PROVE  /\ Sends(at, redir[at], rirr, at \in line)
           /\ ~redir[at].level => (Kept(at, redir[at], rirr) <=> at \in send_pending)
<1> DEFINE e == redir[at]
           on == at \in line
           ends == e.vector = ending /\ at \in remote_irr
<1>1. RegsOK /\ HandlerOK  BY TypeParts DEF IInv
<1>2. /\ at \in Pins /\ e \in Entries
      /\ e.masked \in BOOLEAN /\ e.level \in BOOLEAN /\ on \in BOOLEAN
  BY <1>1 DEF RegsOK, HandlerOK, Entries
<1>3. at \in send_pending => ~e.masked /\ at \notin remote_irr  BY <1>1 DEF RegsOK
<1>4. ~e.masked /\ e.level => (on => at \in remote_irr \cup send_pending)
                              /\ (at \in send_pending => on)
  BY <1>2 DEF IInv, LevelIsSent
<1>5. step = "eoi"  BY DEF Broadcast
<1>6. CASE ends /\ on
  <2>1. ioapic_deliver_pin(at, e, rirr, TRUE)  BY Zenon, <1>6 DEF Broadcast
  <2>2. at \notin rirr /\ e.level  BY <1>6, <1>1 DEF RegsOK
  <2> HIDE DEF e
  <2>3. \/ Taken(at, e, rirr)
        \/ Refused(at, e, rirr)
        \/ e.masked /\ Dropped(at, e, rirr)
        \/ ~e.masked /\ (IF e.level THEN at \in rirr ELSE FALSE) /\ NotSent(rirr)
    BY Zenon, <2>1, <1>2, Outcomes
  <2>4. Sends(at, e, rirr, on)  BY <2>2, <2>3, <1>6 DEF Sends
  <2> QED  BY <2>2, <2>4 DEF e
<1>7. CASE ~(ends /\ on)
  <2>1. NotSent(rirr)  BY Zenon, <1>7 DEF Broadcast, NotSent
  <2>2. Sends(at, e, rirr, on)  BY Zenon, <2>1, <1>2, <1>3, <1>4, <1>5, <1>7 DEF Sends
  <2>3. Kept(at, e, rirr) <=> at \in send_pending
    BY <2>1, <1>2 DEF Kept, Taken, Refused, NotSent
  <2> QED  BY <2>2, <2>3
<1> QED  BY <1>6, <1>7

-----------------------------------------------------------------------------
(* What a message sent does to each invariant.                             *)

\* Programming an input with the entry it has changes nothing.
LEMMA SameEntry ==
    ASSUME RegsOK, NEW pin \in Pins, redir' = redir
    PROVE  redir' = [redir EXCEPT ![pin] = redir[pin]]
BY DEF RegsOK

\* The registers keep their types.
LEMMA SendRegs ==
    ASSUME RegsOK, NEW pin \in Pins, NEW e, WellFormed(e), NEW rirr, NEW on,
           Sends(pin, e, rirr, on), redir' = [redir EXCEPT ![pin] = e],
           rirr \subseteq Pins \ send_pending,
           pin \in rirr => e.level,
           \A q \in rirr : q # pin => redir[q].level,
           line' \subseteq Pins, poll_next' \in Pins,
           enabled' \in BOOLEAN, address' \in Addresses \cup {NoAddress}, tpr' \in TPRs,
           isr' = isr, orphan' \subseteq remote_irr'
    PROVE  RegsOK'
<1>1. e.masked => ~(pin \in send_pending')
  BY DEF Sends, Taken, Refused, Dropped, NotSent
<1>2. \/ Taken(pin, e, rirr) \/ Refused(pin, e, rirr) \/ Dropped(pin, e, rirr)
      \/ NotSent(rirr)
  BY DEF Sends
<1> QED  BY Zenon, <1>1, <1>2, SentRegs

\* After it, only other entries that were takeable before can still be.
LEMMA SendRefused ==
    ASSUME RegsOK, NEW pin \in Pins, NEW e, WellFormed(e), NEW rirr, NEW on, Sends(pin, e, rirr, on),
           step # "poll" => RInv,
           redir' = [redir EXCEPT ![pin] = e], UNCHANGED <<enabled, address, isr>>
    PROVE  \A q \in send_pending' : redir'[q] \in Takeable' =>
               q # pin /\ q \in send_pending /\ redir[q] \in Takeable
<1> SUFFICES ASSUME NEW q \in send_pending', redir'[q] \in Takeable'
             PROVE  q # pin /\ q \in send_pending /\ redir[q] \in Takeable
  OBVIOUS
<1>1. irr \subseteq irr' /\ irr' \subseteq Vectors /\ isr \subseteq Vectors
  BY DEF Sends, Taken, Refused, Dropped, NotSent, RegsOK, WellFormed, Vectors
<1>2. Takeable' \subseteq Takeable  BY <1>1, Fuller
<1>3. q \in Pins /\ redir'[pin] = e /\ (q # pin => redir'[q] = redir[q])
  BY DEF Sends, Taken, Refused, Dropped, NotSent, RegsOK
<1>4. q # pin
  <2> SUFFICES ASSUME q = pin PROVE FALSE  OBVIOUS
  <2>1. e \in Takeable  BY <1>2, <1>3
  <2>2. ~Taken(pin, e, rirr) /\ ~Refused(pin, e, rirr) /\ ~Dropped(pin, e, rirr)
    BY <2>1 DEF Taken, Refused, Dropped
  <2>3. NotSent(rirr) /\ (pin \in send_pending => redir[pin] = e /\ step # "poll")
    BY <2>2 DEF Sends
  <2> QED  BY <2>1, <2>3 DEF NotSent, RInv
<1> QED  BY <1>2, <1>3, <1>4 DEF Sends, Taken, Refused, Dropped, NotSent

\* A level entry's message is sent, held or not due.
LEMMA SendLevel ==
    ASSUME RegsOK, LevelIsSent, NEW pin \in Pins, NEW e, WellFormed(e), NEW rirr, NEW on,
           Sends(pin, e, rirr, on), redir' = [redir EXCEPT ![pin] = e],
           e.level => (pin \in line' <=> on),
           \A q \in Pins : q # pin => /\ q \in line' <=> q \in line
                                      /\ q \in rirr <=> q \in remote_irr
    PROVE  LevelIsSent'
<1> SUFFICES ASSUME NEW q \in Pins, ~redir'[q].masked, redir'[q].level
             PROVE  /\ q \in line' => q \in send_pending' \cup remote_irr'
                    /\ q \in send_pending' => q \in line'
  BY DEF LevelIsSent, Pins
<1>1. CASE q # pin
  <2>1. redir'[q] = redir[q]  BY <1>1 DEF RegsOK
  <2>2. q \in send_pending' <=> q \in send_pending
    BY <1>1 DEF Sends, Taken, Refused, Dropped, NotSent
  <2>3. q \in remote_irr' <=> q \in remote_irr
    BY <1>1 DEF Sends, Taken, Refused, Dropped, NotSent
  <2> QED  BY <1>1, <2>1, <2>2, <2>3 DEF LevelIsSent
<1>2. CASE q = pin
  <2>1. redir'[q] = e  BY <1>2 DEF RegsOK
  <2>2. CASE on /\ Taken(pin, e, rirr)  BY <1>2, <2>1, <2>2 DEF Taken
  <2>3. CASE on /\ Refused(pin, e, rirr)  BY <1>2, <2>1, <2>3 DEF Refused
  <2>4. CASE (e.masked \/ (e.level /\ ~on)) /\ Dropped(pin, e, rirr)
    BY <1>2, <2>1, <2>4 DEF Dropped
  <2>5. CASE /\ pin \in send_pending => redir[pin] = e /\ (step # "poll") /\ ~e.masked /\ (e.level => on)
             /\ ~e.masked /\ e.level /\ on => pin \in rirr \cup send_pending
             /\ NotSent(rirr)
    BY <1>2, <2>1, <2>5 DEF NotSent
  <2> QED  BY <2>2, <2>3, <2>4, <2>5 DEF Sends
<1> QED  BY <1>1, <1>2

\* Every vector that awaits an EOI stays where it is.
LEMMA SendEoi ==
    ASSUME RegsOK, NEW pin \in Pins, NEW e, WellFormed(e), NEW rirr, NEW on,
           Sends(pin, e, rirr, on), redir' = [redir EXCEPT ![pin] = e], isr' = isr,
           NEW q \in remote_irr', q # pin \/ (q \in rirr /\ redir[q].vector = e.vector),
           q # pin => redir[q].level,
           redir[q].vector \in (irr \cup isr) \cap tmr
    PROVE  redir'[q].vector \in (irr' \cup isr') \cap tmr'
<1>1. redir'[q].vector = redir[q].vector  BY DEF RegsOK
<1>2. irr \subseteq irr'  BY DEF Sends, Taken, Refused, Dropped, NotSent
<1>3. redir[q].vector \in LevelVectors  BY DEF RegsOK
<1>4. ~e.level => e.vector \in EdgeVectors  BY DEF WellFormed
<1>5. redir[q].vector \in tmr'
  BY ZenonT(60), <1>3, <1>4, ApicAssumption DEF Sends, Taken, Refused, Dropped, NotSent
<1> QED  BY <1>1, <1>2, <1>5

\* A level message that is taken awaits its EOI.
LEMMA SendEoiNew ==
    ASSUME NEW pin \in Pins, NEW e, NEW rirr, NEW on, Sends(pin, e, rirr, on),
           pin \in remote_irr', pin \notin rirr
    PROVE  e.vector \in irr' \cap tmr'
BY DEF Sends, Taken, Refused, Dropped, NotSent

Bit(b) == IF b THEN 1 ELSE 0

\* A finite set that gains or loses one element.
LEMMA CountOne ==
    ASSUME NEW S, NEW T, NEW x, IsFiniteSet(S), T \ {x} = S \ {x}
    PROVE  /\ IsFiniteSet(T) /\ Cardinality(S) \in Nat /\ Cardinality(T) \in Nat
           /\ Cardinality(T) + Bit(x \in S) = Cardinality(S) + Bit(x \in T)
<1> DEFINE R == S \ {x}
<1>1. IsFiniteSet(R)  BY FS_Subset
<1>2. x \notin R  OBVIOUS
<1>3. ASSUME NEW U, U \ {x} = R
      PROVE  IsFiniteSet(U) /\ Cardinality(U) = Cardinality(R) + Bit(x \in U)
  <2>1. CASE x \in U
    <3>1. U = R \cup {x}  BY <2>1, <1>3
    <3> HIDE DEF R
    <3>2. IsFiniteSet(U) /\ Cardinality(U) = Cardinality(R) + 1
      BY <1>1, <1>2, <3>1, FS_AddElement
    <3> QED  BY <3>2, <2>1 DEF Bit
  <2>2. CASE x \notin U
    <3>1. U = R  BY <2>2, <1>3
    <3>2. Cardinality(R) \in Nat  BY <1>1, FS_CardinalityType
    <3> HIDE DEF R
    <3> QED  BY <1>1, <2>2, <3>1, <3>2 DEF Bit
  <2> QED  BY <2>1, <2>2
<1>4. Cardinality(S) = Cardinality(R) + Bit(x \in S)  BY <1>3
<1>5. IsFiniteSet(T) /\ Cardinality(T) = Cardinality(R) + Bit(x \in T)  BY <1>3
<1>6. Cardinality(R) \in Nat  BY <1>1, FS_CardinalityType
<1>7. Bit(x \in S) \in Nat /\ Bit(x \in T) \in Nat  BY DEF Bit
<1>8. Cardinality(S) \in Nat /\ Cardinality(T) \in Nat
  BY <1>5, FS_CardinalityType
<1> HIDE DEF R
<1> QED  BY <1>4, <1>5, <1>6, <1>7, <1>8

\* The messages of the edge entries for a vector: one more if the input's
\* is kept under its new entry, one less if it had one under the old.
LEMMA SendEdges ==
    ASSUME RegsOK, NEW pin \in Pins, NEW e, WellFormed(e), NEW rirr, NEW on,
           Sends(pin, e, rirr, on), redir' = [redir EXCEPT ![pin] = e], NEW v \in EdgeVectors
    PROVE  /\ Cardinality(Held(v)) \in Nat /\ Cardinality(Held(v)') \in Nat
           /\ Cardinality(Held(v)') + Bit(v \in irr') + Bit(pin \in Held(v))
                = Cardinality(Held(v)) + Bit(v \in irr)
                  + Bit(Kept(pin, e, rirr) /\ ~e.level /\ e.vector = v)
<1> DEFINE H == Held(v)
           G == Held(v)'
<1>1. IsFiniteSet(H)
  <2>1. IsFiniteSet(0..(N - 1))  BY ApicAssumption, FS_Interval
  <2>2. H \subseteq 0..(N - 1)  BY Zenon DEF Held, RegsOK, Pins
  <2> HIDE DEF H
  <2> QED  BY Zenon, <2>1, <2>2, FS_Subset
<1>2. \A q \in Pins : q # pin => redir'[q] = redir[q]  BY DEF RegsOK
<1>3. \A q : q # pin => (q \in send_pending' <=> q \in send_pending)
  BY DEF Sends, Taken, Refused, Dropped, NotSent
<1>4. G \ {pin} = H \ {pin}
  BY <1>2, <1>3 DEF Held, RegsOK
<1>5. /\ Cardinality(H) \in Nat /\ Cardinality(G) \in Nat
      /\ Cardinality(G) + Bit(pin \in H) = Cardinality(H) + Bit(pin \in G)
  <2> HIDE DEF H, G
  <2> QED  BY <1>1, <1>4, CountOne
<1>6. pin \in G <=> pin \in send_pending' /\ ~e.level /\ e.vector = v
  BY DEF Held, RegsOK
<1>7. Bit(v \in irr') + Bit(pin \in G)
        = Bit(v \in irr) + Bit(Kept(pin, e, rirr) /\ ~e.level /\ e.vector = v)
  <2> HIDE DEF G
  <2>1. e.level => e.vector # v  BY ApicAssumption DEF WellFormed
  <2>2. CASE Taken(pin, e, rirr)
    <3>1. pin \notin G /\ Kept(pin, e, rirr)  BY <2>2, <1>6 DEF Taken, Kept
    <3>2. v \in irr' <=> v \in irr \/ v = e.vector  BY <2>2 DEF Taken
    <3>3. e.vector \notin irr  BY <2>2 DEF Taken
    <3> QED  BY <3>1, <3>2, <3>3, <2>1 DEF Bit
  <2>3. CASE ~Taken(pin, e, rirr)
    <3>1. irr' = irr  BY <2>3 DEF Sends, Refused, Dropped, NotSent
    <3>2. pin \in send_pending' <=> Kept(pin, e, rirr)
      BY <2>3 DEF Sends, Kept, Taken, Refused, Dropped, NotSent
    <3> QED  BY <3>1, <3>2, <1>6 DEF Bit
  <2> QED  BY <2>2, <2>3
<1>8. /\ Bit(v \in irr') \in Nat /\ Bit(pin \in H) \in Nat /\ Bit(v \in irr) \in Nat
      /\ Bit(pin \in G) \in Nat /\ Bit(Kept(pin, e, rirr) /\ ~e.level /\ e.vector = v) \in Nat
  BY DEF Bit
<1> HIDE DEF H, G
<1>9. Cardinality(G) + Bit(v \in irr') + Bit(pin \in H)
        = Cardinality(H) + Bit(v \in irr) + Bit(Kept(pin, e, rirr) /\ ~e.level /\ e.vector = v)
  BY <1>5, <1>7, <1>8
<1> QED  BY <1>5, <1>9 DEF H, G

-----------------------------------------------------------------------------
(* The invariant, action by action.                                        *)

\* EdgesKept in the words of the lemmas.
LEMMA EdgeSums ==
    /\ EdgesKept <=> \A v \in EdgeVectors : owed[v] = Cardinality(Held(v)) + Bit(v \in irr)
    /\ EdgesKept' <=> \A v \in EdgeVectors : owed'[v] = Cardinality(Held(v)') + Bit(v \in irr')
BY DEF EdgesKept, Held, Bit

\* The parts of the invariant in the next state.
LEMMA Assemble ==
    ASSUME RegsOK', HandlerOK', RInv', LevelIsSent', EoiWillCome',
           owed' \in [EdgeVectors -> Int],
           \A v \in EdgeVectors : /\ Cardinality(Held(v)') \in Nat
                                  /\ owed'[v] = Cardinality(Held(v)') + Bit(v \in irr')
    PROVE  IInv'
<1>1. EdgesKept'  BY EdgeSums
<1>2. \A v \in EdgeVectors : owed'[v] \in Nat  BY DEF Bit
<1>3. owed' \in [EdgeVectors -> Nat]  BY <1>2
<1>4. (TypeOK /\ Shape)'  BY <1>3, TypePartsNext
<1> QED  BY <1>1, <1>4 DEF IInv

\* An input is driven: SetLine, ClearLine, Pulse, Fall.
LEMMA DriveInv ==
    ASSUME IInv, NEW pin \in Pins, NEW high \in BOOLEAN, Drive(pin, high),
           step \in {"idle", "fall"}, step' \in {"idle", "fall"}, at' \in Pins
    PROVE  IInv'
<1> DEFINE e == redir[pin]
<1>1. RegsOK /\ HandlerOK  BY TypeParts DEF IInv
<1>2. WellFormed(e) /\ e \in Entries  BY <1>1 DEF RegsOK
<1>3. redir' = [redir EXCEPT ![pin] = e]  BY <1>1, SameEntry DEF Drive
<1>4. step # "poll"  OBVIOUS
<1>5. /\ Sends(pin, e, remote_irr, high)
      /\ ~e.level => (Kept(pin, e, remote_irr) <=>
                         pin \in send_pending \/ (high /\ pin \notin line /\ ~e.masked))
      /\ pin \in line' <=> high
      /\ \A q \in Pins : q # pin => (q \in line' <=> q \in line)
  BY <1>4, DriveSends
<1>6. /\ UNCHANGED <<enabled, address, tpr, isr, todo, ending, orphan, poll_next>>
      /\ line' \subseteq Pins
  BY <1>1 DEF Drive, RegsOK
<1>7. /\ remote_irr \subseteq Pins \ send_pending
      /\ pin \in remote_irr => e.level
      /\ \A q \in remote_irr : q \in Pins /\ redir[q].level
  BY <1>1 DEF RegsOK
<1> HIDE DEF e
<1>8. remote_irr \subseteq remote_irr'  BY <1>5 DEF Sends, Taken, Refused, Dropped, NotSent
<1>9. RegsOK'
  <2>1. enabled' \in BOOLEAN /\ address' \in Addresses \cup {NoAddress} /\ tpr' \in TPRs
        /\ poll_next' \in Pins /\ orphan' \subseteq remote_irr'
    BY <1>1, <1>6, <1>8 DEF RegsOK
  <2> QED  BY Zenon, <1>1, <1>2, <1>3, <1>5, <1>6, <1>7, <2>1, SendRegs
<1>10. HandlerOK'
  <2>1. todo' = {} /\ ending' = 0  BY <1>1, <1>6 DEF HandlerOK
  <2> QED  BY <2>1 DEF HandlerOK, Pins
<1>11. RInv'
  <2>1. \A q \in send_pending' : redir'[q] \in Takeable' =>
               q # pin /\ q \in send_pending /\ redir[q] \in Takeable
    BY Zenon, <1>1, <1>2, <1>3, <1>5, <1>6, SendRefused DEF IInv
  <2> QED  BY <2>1, <1>4 DEF IInv, RInv
<1>12. LevelIsSent'
  BY Zenon, <1>1, <1>2, <1>3, <1>5, SendLevel DEF IInv
<1>13. EoiWillCome'
  <2> SUFFICES ASSUME NEW q \in remote_irr', q \notin orphan'
               PROVE  redir'[q].vector \in (irr' \cup isr') \cap tmr'
    BY DEF EoiWillCome
  <2>1. CASE q \in remote_irr
    <3>1. ending = 0 /\ redir[q].vector # 0
      BY <1>1, <2>1, VectorNotZero DEF HandlerOK, RegsOK
    <3>2. redir[q].vector \in (irr \cup isr) \cap tmr
      BY <2>1, <3>1, <1>6 DEF IInv, EoiWillCome
    <3>3. q # pin \/ (q \in remote_irr /\ redir[q].vector = e.vector)  BY <2>1 DEF e
    <3> QED  BY Zenon, <1>1, <1>2, <1>3, <1>5, <1>6, <1>7, <2>1, <3>2, <3>3, SendEoi
  <2>2. CASE q \notin remote_irr
    <3>1. q = pin  BY <2>2, <1>5 DEF Sends, Taken, Refused, Dropped, NotSent
    <3>2. e.vector \in irr' \cap tmr'  BY <2>2, <3>1, <1>5, SendEoiNew
    <3>3. redir'[q] = e  BY <3>1, <1>1, <1>3 DEF RegsOK
    <3> QED  BY <3>2, <3>3
  <2> QED  BY <2>1, <2>2
<1>14. owed' \in [EdgeVectors -> Int]
       /\ \A v \in EdgeVectors : /\ Cardinality(Held(v)') \in Nat
                                 /\ owed'[v] = Cardinality(Held(v)') + Bit(v \in irr')
  <2> DEFINE new == high /\ pin \notin line /\ ~e.masked /\ ~e.level /\ pin \notin send_pending
  <2>1. owed' = IF new THEN [owed EXCEPT ![e.vector] = @ + 1] ELSE owed  BY DEF Drive, e
  <2>2. owed \in [EdgeVectors -> Nat]  BY DEF IInv, TypeOK
  <2>3. ~e.level => e.vector \in EdgeVectors  BY <1>2 DEF WellFormed
  <2>4. \A v \in EdgeVectors : owed'[v] = owed[v] + Bit(new /\ v = e.vector)
    BY <2>1, <2>2, <2>3 DEF Bit
  <2>5. owed' \in [EdgeVectors -> Int]  BY <2>1, <2>2, <2>3
  <2>6. ASSUME NEW v \in EdgeVectors
        PROVE  /\ Cardinality(Held(v)') \in Nat
               /\ owed'[v] = Cardinality(Held(v)') + Bit(v \in irr')
    <3> DEFINE h == Bit(pin \in Held(v))
    <3> DEFINE m == Bit(new /\ v = e.vector)
    <3> DEFINE k == Bit(Kept(pin, e, remote_irr) /\ ~e.level /\ e.vector = v)
    <3>1. /\ Cardinality(Held(v)) \in Nat /\ Cardinality(Held(v)') \in Nat
          /\ Cardinality(Held(v)') + Bit(v \in irr') + h = Cardinality(Held(v)) + Bit(v \in irr) + k
      BY ZenonT(60), <1>1, <1>2, <1>3, <1>5, SendEdges
    <3>2. owed[v] = Cardinality(Held(v)) + Bit(v \in irr)  BY Zenon, EdgeSums DEF IInv
    <3>3. pin \in Held(v) <=> pin \in send_pending /\ ~e.level /\ e.vector = v
      BY DEF Held, e
    <3>4. k = h + m  BY <3>3, <1>5 DEF Bit
    <3>5. /\ Bit(v \in irr') \in Int /\ Bit(v \in irr) \in Int
          /\ h \in Int /\ k \in Int /\ m \in Int
      BY DEF Bit
    <3>6. owed'[v] = owed[v] + m  BY <2>4
    <3>7. owed'[v] \in Int /\ owed[v] \in Int  BY <2>2, <2>5
    <3> HIDE DEF new, h, k, m
    <3>8. Cardinality(Held(v)) \in Int /\ Cardinality(Held(v)') \in Int  BY ONLY <3>1
    <3>9. PICK c \in Int, d \in Int, i \in Int, j \in Int, o \in Int, p \in Int :
               /\ c = Cardinality(Held(v)) /\ d = Cardinality(Held(v)')
               /\ i = Bit(v \in irr) /\ j = Bit(v \in irr') /\ o = owed[v] /\ p = owed'[v]
      BY ONLY <3>5, <3>7, <3>8, Zenon
    <3>10. PICK a \in Int, b \in Int, g \in Int : a = h /\ b = m /\ g = k
      BY ONLY <3>5, Zenon
    <3>11. d + j + a = c + i + g /\ g = a + b /\ o = c + i /\ p = o + b
      BY ONLY <3>1, <3>2, <3>4, <3>6, <3>9, <3>10, Zenon
    <3>12. p = d + j
      BY ONLY <3>11, c \in Int, d \in Int, i \in Int, j \in Int, o \in Int, p \in Int,
              a \in Int, b \in Int, g \in Int
    <3> QED  BY ONLY <3>1, <3>9, <3>12, Zenon
  <2> QED  BY <2>5, <2>6
<1> QED  BY <1>9, <1>10, <1>11, <1>12, <1>13, <1>14, Assemble

\* The guest writes an entry.
LEMMA StoreInv ==
    ASSUME IInv, NEW pin \in Pins, NEW e \in Programs[pin], WriteRedir(pin, e)
    PROVE  IInv'
<1> DEFINE rirr == IF e.level THEN remote_irr ELSE remote_irr \ {pin}
           on == e.level => pin \in line
           old == redir[pin]
<1>1. RegsOK /\ HandlerOK  BY TypeParts DEF IInv
<1>2. StoreEntry(pin, e, rirr)  BY DEF WriteRedir
<1>3. /\ step = "idle" /\ redir' = [redir EXCEPT ![pin] = e]
      /\ UNCHANGED <<line, poll_next, enabled, address, tpr, isr, step, at, todo, ending>>
  BY Zenon, <1>2 DEF StoreEntry, handler
<1>4. /\ Sends(pin, e, rirr, on) /\ WellFormed(e)
      /\ ~e.level => (Kept(pin, e, rirr) <=> pin \in send_pending /\ ~e.masked)
  BY Zenon, StoreSends
<1>5. /\ rirr \subseteq Pins \ send_pending
      /\ pin \in rirr => e.level
      /\ \A q \in rirr : q # pin => redir[q].level
      /\ \A q \in Pins : q # pin => (q \in rirr <=> q \in remote_irr)
      /\ rirr \subseteq remote_irr
  BY Zenon, <1>1 DEF RegsOK
<1>6. orphan' = IF e.level /\ e.vector = old.vector THEN orphan
                ELSE (orphan \ {pin}) \cup (rirr \cap {pin})
  BY Zenon, <1>2 DEF StoreEntry
<1>7. orphan \subseteq remote_irr  BY Zenon, <1>1 DEF RegsOK
<1>8. orphan' \subseteq rirr  BY <1>6, <1>7
<1>9. e.level => (pin \in line' <=> on)  BY <1>3
<1> HIDE DEF rirr, on
<1>10. rirr \subseteq remote_irr'  BY Zenon, <1>4 DEF Sends, Taken, Refused, Dropped, NotSent
<1>11. RegsOK'
  <2>1. /\ enabled' \in BOOLEAN /\ address' \in Addresses \cup {NoAddress} /\ tpr' \in TPRs
        /\ poll_next' \in Pins /\ line' \subseteq Pins /\ orphan' \subseteq remote_irr' /\ isr' = isr
    BY <1>1, <1>3, <1>8, <1>10 DEF RegsOK
  <2> QED  BY Zenon, <1>1, <1>3, <1>4, <1>5, <2>1, SendRegs
<1>12. HandlerOK'
  BY <1>1, <1>3 DEF HandlerOK, Pins
<1>13. RInv'
  <2>1. \A q \in send_pending' : redir'[q] \in Takeable' =>
               q # pin /\ q \in send_pending /\ redir[q] \in Takeable
    BY Zenon, <1>1, <1>3, <1>4, SendRefused DEF IInv
  <2> QED  BY <2>1, <1>3 DEF IInv, RInv
<1>14. LevelIsSent'
  BY Zenon, <1>1, <1>3, <1>4, <1>5, <1>9, SendLevel DEF IInv
<1>15. EoiWillCome'
  <2> SUFFICES ASSUME NEW q \in remote_irr', q \notin orphan'
               PROVE  redir'[q].vector \in (irr' \cup isr') \cap tmr'
    BY DEF EoiWillCome
  <2>1. CASE q \in rirr
    <3>1. q \in Pins /\ q \in remote_irr /\ (q = pin => e.level /\ e.vector = redir[q].vector)
          /\ q \notin orphan
      BY Zenon, <2>1, <1>5, <1>6
    <3>2. ending = 0 /\ redir[q].vector # 0
      BY <1>1, <1>3, <3>1, VectorNotZero DEF HandlerOK, RegsOK
    <3>3. redir[q].vector \in (irr \cup isr) \cap tmr
      BY <3>1, <3>2 DEF IInv, EoiWillCome
    <3>4. q # pin \/ (q \in rirr /\ redir[q].vector = e.vector)  BY <2>1, <3>1
    <3>5. q # pin => redir[q].level  BY <2>1, <1>5
    <3> QED  BY Zenon, <1>1, <1>3, <1>4, <3>3, <3>4, <3>5, SendEoi
  <2>2. CASE q \notin rirr
    <3>1. q = pin  BY Zenon, <2>2, <1>4 DEF Sends, Taken, Refused, Dropped, NotSent
    <3>2. e.vector \in irr' \cap tmr'  BY Zenon, <2>2, <3>1, <1>4, SendEoiNew
    <3>3. redir'[q] = e  BY <3>1, <1>1, <1>3 DEF RegsOK
    <3> QED  BY <3>2, <3>3
  <2> QED  BY <2>1, <2>2
<1>16. owed' \in [EdgeVectors -> Int]
       /\ \A v \in EdgeVectors : /\ Cardinality(Held(v)') \in Nat
                                 /\ owed'[v] = Cardinality(Held(v)') + Bit(v \in irr')
  <2> DEFINE here(v) == pin \in send_pending /\ ~e.level /\ ~e.masked /\ v = e.vector
             gone(v) == pin \in send_pending /\ ~old.level /\ v = old.vector
  <2>1. owed' = [v \in EdgeVectors |-> (owed[v] + Bit(here(v))) - Bit(gone(v))]
    BY Zenon, <1>2 DEF StoreEntry, Bit
  <2>2. owed \in [EdgeVectors -> Nat]  BY Zenon DEF IInv, TypeOK
  <2>3. \A v \in EdgeVectors : Bit(here(v)) \in Nat /\ Bit(gone(v)) \in Nat  BY DEF Bit
  <2>4. ASSUME NEW v \in EdgeVectors
        PROVE  /\ Cardinality(Held(v)') \in Nat
               /\ owed'[v] = Cardinality(Held(v)') + Bit(v \in irr')
    <3> DEFINE h == Bit(gone(v))
    <3> DEFINE k == Bit(here(v))
    <3>1. /\ Cardinality(Held(v)) \in Nat /\ Cardinality(Held(v)') \in Nat
          /\ Cardinality(Held(v)') + Bit(v \in irr') + Bit(pin \in Held(v))
               = Cardinality(Held(v)) + Bit(v \in irr)
                 + Bit(Kept(pin, e, rirr) /\ ~e.level /\ e.vector = v)
      BY Zenon, <1>1, <1>3, <1>4, SendEdges
    <3>2. owed[v] = Cardinality(Held(v)) + Bit(v \in irr)  BY Zenon, EdgeSums DEF IInv
    <3>3. Bit(pin \in Held(v)) = h  BY DEF Held, Bit
    <3>4. Bit(Kept(pin, e, rirr) /\ ~e.level /\ e.vector = v) = k  BY Zenon, <1>4 DEF Bit
    <3>5. Bit(v \in irr') \in Int /\ Bit(v \in irr) \in Int /\ h \in Int /\ k \in Int  BY DEF Bit
    <3>6. owed'[v] = (owed[v] + k) - h  BY <2>1
    <3> HIDE DEF here, gone, h, k
    <3>7. owed[v] \in Int  BY <2>2
    <3>8. owed'[v] \in Int  BY ONLY <3>5, <3>6, <3>7
    <3>9. Cardinality(Held(v)) \in Int /\ Cardinality(Held(v)') \in Int  BY ONLY <3>1
    <3>10. Cardinality(Held(v)') + Bit(v \in irr') + h = Cardinality(Held(v)) + Bit(v \in irr) + k
      BY ONLY <3>1, <3>3, <3>4, Zenon
    <3>11. PICK c \in Int, d \in Int, i \in Int, j \in Int, o \in Int, p \in Int :
               /\ c = Cardinality(Held(v)) /\ d = Cardinality(Held(v)')
               /\ i = Bit(v \in irr) /\ j = Bit(v \in irr') /\ o = owed[v] /\ p = owed'[v]
      BY ONLY <3>5, <3>7, <3>8, <3>9, Zenon
    <3>12. PICK a \in Int, g \in Int : a = h /\ g = k
      BY ONLY <3>5, Zenon
    <3>13. d + j + a = c + i + g /\ o = c + i /\ p = (o + g) - a
      BY ONLY <3>2, <3>6, <3>10, <3>11, <3>12, Zenon
    <3>14. p = d + j
      BY ONLY <3>13, c \in Int, d \in Int, i \in Int, j \in Int, o \in Int, p \in Int,
              a \in Int, g \in Int
    <3> QED  BY ONLY <3>1, <3>11, <3>14, Zenon
  <2>5. owed' \in [EdgeVectors -> Int]
    <3> HIDE DEF here, gone
    <3> QED  BY <2>1, <2>2, <2>3
  <2> QED  BY <2>4, <2>5
<1> QED  BY <1>11, <1>12, <1>13, <1>14, <1>15, <1>16, Assemble

\* A send that leaves the edges owed alone keeps their count, if a message
\* is kept exactly when there was one.
LEMMA SendKeepsEdges ==
    ASSUME IInv, RegsOK, NEW pin \in Pins, NEW rirr, NEW on,
           Sends(pin, redir[pin], rirr, on), redir' = redir, owed' = owed,
           ~redir[pin].level => (Kept(pin, redir[pin], rirr) <=> pin \in send_pending)
    PROVE  /\ owed' \in [EdgeVectors -> Int]
           /\ \A v \in EdgeVectors : /\ Cardinality(Held(v)') \in Nat
                                     /\ owed'[v] = Cardinality(Held(v)') + Bit(v \in irr')
<1> DEFINE e == redir[pin]
<1>0. Sends(pin, e, rirr, on)  OBVIOUS
<1>1. owed' \in [EdgeVectors -> Int]  BY DEF IInv, TypeOK
<1>2. ASSUME NEW v \in EdgeVectors
      PROVE  /\ Cardinality(Held(v)') \in Nat
             /\ owed'[v] = Cardinality(Held(v)') + Bit(v \in irr')
  <2> DEFINE h == Bit(pin \in Held(v))
  <2> DEFINE k == Bit(Kept(pin, e, rirr) /\ ~e.level /\ e.vector = v)
  <2>1. WellFormed(e) /\ redir' = [redir EXCEPT ![pin] = e]  BY SameEntry DEF RegsOK
  <2>2. owed[v] = Cardinality(Held(v)) + Bit(v \in irr)  BY EdgeSums DEF IInv
  <2>3. k = h  BY DEF Held, Bit
  <2>4. Bit(v \in irr') \in Int /\ Bit(v \in irr) \in Int /\ h \in Int /\ k \in Int  BY DEF Bit
  <2>5. owed[v] \in Int /\ owed'[v] = owed[v]  BY DEF IInv, TypeOK
  <2> HIDE DEF e
  <2>6. /\ Cardinality(Held(v)) \in Nat /\ Cardinality(Held(v)') \in Nat
        /\ Cardinality(Held(v)') + Bit(v \in irr') + h = Cardinality(Held(v)) + Bit(v \in irr) + k
    BY ONLY RegsOK, pin \in Pins, v \in EdgeVectors, <1>0, <2>1, SendEdges, Zenon
  <2> HIDE DEF h, k
  <2>7. Cardinality(Held(v)) \in Int /\ Cardinality(Held(v)') \in Int  BY ONLY <2>6
  <2>8. PICK c \in Int, d \in Int, i \in Int, j \in Int, o \in Int, a \in Int :
             /\ c = Cardinality(Held(v)) /\ d = Cardinality(Held(v)')
             /\ i = Bit(v \in irr) /\ j = Bit(v \in irr') /\ o = owed[v] /\ a = h
    BY ONLY <2>4, <2>5, <2>7, Zenon
  <2>9. d + j + a = c + i + a /\ o = c + i
    BY ONLY <2>2, <2>3, <2>6, <2>8, Zenon
  <2>10. o = d + j
    BY ONLY <2>9, c \in Int, d \in Int, i \in Int, j \in Int, o \in Int, a \in Int
  <2> QED  BY ONLY <2>5, <2>6, <2>8, <2>10, Zenon
<1> QED  BY <1>1, <1>2

\* An input of a round of the poll.
LEMMA PollInv ==
    ASSUME IInv, Poll
    PROVE  IInv'
<1> DEFINE e == redir[at]
           on == e.level => at \in line
<1>1. RegsOK /\ HandlerOK  BY TypeParts DEF IInv
<1>2. at \in Pins /\ WellFormed(e)  BY <1>1 DEF RegsOK, HandlerOK
<1>3. /\ UNCHANGED <<redir, line, enabled, address, tpr, isr, ending, owed, orphan>>
      /\ redir' = [redir EXCEPT ![at] = e] /\ step = "poll"
  BY Zenon, <1>1, <1>2, SameEntry DEF Poll, history
<1>4. /\ Sends(at, e, remote_irr, on)
      /\ ~e.level => (Kept(at, e, remote_irr) <=> at \in send_pending)
  BY PollSends
<1>5. /\ remote_irr \subseteq Pins \ send_pending
      /\ at \in remote_irr => e.level
      /\ \A q \in remote_irr : redir[q].level
      /\ orphan \subseteq remote_irr
  BY <1>1 DEF RegsOK
<1>6. e.level => (at \in line' <=> on)  BY <1>3
<1>7. (at + 1) % N \in Pins  BY <1>2, ApicAssumption DEF Pins
<1>8. poll_next' \in Pins  BY <1>1, <1>7 DEF Poll, RegsOK
<1>9. /\ todo' = IF todo # {at} THEN todo \ {at} ELSE IF ending # 0 THEN Pins ELSE {}
      /\ step' = IF todo # {at} THEN "poll" ELSE IF ending # 0 THEN "eoi" ELSE "idle"
      /\ at' = IF todo # {at} THEN (at + 1) % N ELSE 0
  BY DEF Poll
<1> HIDE DEF e, on
<1>10. remote_irr \subseteq remote_irr'  BY Zenon, <1>4 DEF Sends, Taken, Refused, Dropped, NotSent
<1>11. RegsOK'
  <2>1. /\ enabled' \in BOOLEAN /\ address' \in Addresses \cup {NoAddress} /\ tpr' \in TPRs
        /\ line' \subseteq Pins /\ orphan' \subseteq remote_irr' /\ isr' = isr
    BY <1>1, <1>3, <1>5, <1>10 DEF RegsOK
  <2> QED  BY Zenon, <1>1, <1>2, <1>3, <1>4, <1>5, <1>8, <2>1, SendRegs
<1>12. HandlerOK'
  <2>1. 0 \in Pins /\ Pins = 0..(N - 1)  BY ApicAssumption DEF Pins
  <2> QED  BY Zenon, <1>1, <1>3, <1>7, <1>9, <2>1 DEF HandlerOK, Pins
<1>13. RInv'
  <2>1. \A q \in send_pending' : redir'[q] \in Takeable' =>
               q # at /\ q \in send_pending /\ redir[q] \in Takeable
    BY Zenon, <1>1, <1>2, <1>3, <1>4, SendRefused DEF IInv
  <2> QED  BY <2>1, <1>9 DEF IInv, RInv
<1>14. LevelIsSent'
  BY Zenon, <1>1, <1>2, <1>3, <1>4, <1>5, <1>6, SendLevel DEF IInv
<1>15. EoiWillCome'
  <2> SUFFICES ASSUME NEW q \in remote_irr', q \notin orphan'
               PROVE  \/ redir'[q].vector \in (irr' \cup isr') \cap tmr'
                      \/ redir'[q].vector = ending' /\ (step' = "eoi" => q \in todo')
    BY DEF EoiWillCome
  <2>1. CASE q \in remote_irr /\ redir[q].vector \in (irr \cup isr) \cap tmr
    <3>1. q # at \/ (q \in remote_irr /\ redir[q].vector = e.vector)  BY <2>1 DEF e
    <3> QED  BY Zenon, <1>1, <1>2, <1>3, <1>4, <1>5, <2>1, <3>1, SendEoi
  <2>2. CASE q \in remote_irr /\ redir[q].vector \notin (irr \cup isr) \cap tmr
    <3>1. redir[q].vector = ending  BY <2>2, <1>3 DEF IInv, EoiWillCome
    <3>2. q \in Pins /\ redir[q].vector # 0  BY <1>1, <2>2, VectorNotZero DEF RegsOK
    <3>3. step' = "eoi" => todo' = Pins  BY <1>9
    <3> QED  BY <1>3, <3>1, <3>2, <3>3
  <2>3. CASE q \notin remote_irr
    <3>1. q = at  BY Zenon, <2>3, <1>4 DEF Sends, Taken, Refused, Dropped, NotSent
    <3>2. e.vector \in irr' \cap tmr'  BY <2>3, <3>1, <1>2, <1>4, SendEoiNew
    <3>3. redir'[q] = e  BY <3>1, <1>1, <1>2, <1>3 DEF RegsOK
    <3> QED  BY <3>2, <3>3
  <2> QED  BY Zenon, <2>1, <2>2, <2>3
<1>16. /\ owed' \in [EdgeVectors -> Int]
       /\ \A v \in EdgeVectors : /\ Cardinality(Held(v)') \in Nat
                                 /\ owed'[v] = Cardinality(Held(v)') + Bit(v \in irr')
  BY Zenon, <1>1, <1>2, <1>3, <1>4, SendKeepsEdges DEF e
<1> QED  BY <1>11, <1>12, <1>13, <1>14, <1>15, <1>16, Assemble

\* An input of the broadcast of an EOI.
LEMMA BroadcastInv ==
    ASSUME IInv, Broadcast
    PROVE  IInv'
<1> DEFINE e == redir[at]
           on == at \in line
           ends == e.vector = ending /\ at \in remote_irr
           rirr == IF ends THEN remote_irr \ {at} ELSE remote_irr
<1>1. RegsOK /\ HandlerOK  BY TypeParts DEF IInv
<1>2. at \in Pins /\ WellFormed(e)  BY <1>1 DEF RegsOK, HandlerOK
<1>3. /\ UNCHANGED <<redir, line, poll_next, enabled, address, tpr, isr, owed>>
      /\ redir' = [redir EXCEPT ![at] = e] /\ step = "eoi"
  BY <1>1, <1>2, SameEntry DEF Broadcast
<1>4. /\ Sends(at, e, rirr, on)
      /\ ~e.level => (Kept(at, e, rirr) <=> at \in send_pending)
  BY BroadcastSends
<1>5. /\ rirr \subseteq Pins \ send_pending
      /\ at \in rirr => e.level
      /\ \A q \in rirr : redir[q].level
      /\ \A q \in Pins : q # at => (q \in rirr <=> q \in remote_irr)
      /\ rirr \subseteq remote_irr
  BY <1>1 DEF RegsOK
<1>6. orphan' = IF ends THEN orphan \ {at} ELSE orphan  BY Zenon DEF Broadcast
<1>7. orphan' \subseteq rirr  BY <1>1, <1>6 DEF RegsOK
<1>8. at \in rirr => e.vector # ending  OBVIOUS
<1>9. at \in line' <=> on  BY <1>3
<1>10. /\ todo' = todo \ {at}
       /\ IF todo = {at} THEN step' = "idle" /\ at' = 0 /\ ending' = 0
                         ELSE at' = at + 1 /\ step' = step /\ ending' = ending
  BY DEF Broadcast
<1>11. \A q \in rirr : q \notin orphan' => q \notin orphan  BY <1>6
<1> HIDE DEF e, on, ends, rirr
<1>12. rirr \subseteq remote_irr'  BY Zenon, <1>4 DEF Sends, Taken, Refused, Dropped, NotSent
<1>13. RegsOK'
  <2>1. /\ enabled' \in BOOLEAN /\ address' \in Addresses \cup {NoAddress} /\ tpr' \in TPRs
        /\ poll_next' \in Pins /\ line' \subseteq Pins /\ orphan' \subseteq remote_irr' /\ isr' = isr
    BY <1>1, <1>3, <1>7, <1>12 DEF RegsOK
  <2> QED  BY Zenon, <1>1, <1>2, <1>3, <1>4, <1>5, <2>1, SendRegs
<1>14. HandlerOK'
  <2>1. 0 \in Pins /\ N \in Nat  BY ApicAssumption DEF Pins
  <2>2. todo = at..(N - 1) /\ at \in 0..(N - 1)  BY <1>1, <1>3 DEF HandlerOK, Pins
  <2>3. CASE todo = {at}  BY <1>10, <2>1, <2>3 DEF HandlerOK, Pins
  <2>4. CASE todo # {at}
    <3>1. at + 1 \in 0..(N - 1) /\ todo' = (at + 1)..(N - 1)  BY <1>10, <2>1, <2>2, <2>4
    <3> QED  BY Zenon, <1>1, <1>3, <1>10, <2>4, <3>1 DEF HandlerOK, Pins
  <2> QED  BY <2>3, <2>4
<1>15. RInv'
  <2>1. \A q \in send_pending' : redir'[q] \in Takeable' =>
               q # at /\ q \in send_pending /\ redir[q] \in Takeable
    BY Zenon, <1>1, <1>2, <1>3, <1>4, SendRefused DEF IInv
  <2> QED  BY <2>1, <1>3 DEF IInv, RInv
<1>16. LevelIsSent'
  BY Zenon, <1>1, <1>2, <1>3, <1>4, <1>5, <1>9, SendLevel DEF IInv
<1>17. EoiWillCome'
  <2> SUFFICES ASSUME NEW q \in remote_irr', q \notin orphan'
               PROVE  \/ redir'[q].vector \in (irr' \cup isr') \cap tmr'
                      \/ redir'[q].vector = ending' /\ (step' = "eoi" => q \in todo')
    BY DEF EoiWillCome
  <2>1. CASE q \in rirr /\ redir[q].vector \in (irr \cup isr) \cap tmr
    <3>1. q # at \/ (q \in rirr /\ redir[q].vector = e.vector)  BY <2>1 DEF e
    <3> QED  BY Zenon, <1>1, <1>2, <1>3, <1>4, <1>5, <2>1, <3>1, SendEoi
  <2>2. CASE q \in rirr /\ redir[q].vector \notin (irr \cup isr) \cap tmr
    <3>1. q \in remote_irr /\ q \notin orphan  BY <2>2, <1>5, <1>11
    <3>2. redir[q].vector = ending /\ q \in todo
      BY <2>2, <3>1, <1>3 DEF IInv, EoiWillCome
    <3>3. q # at  BY <2>2, <3>2, <1>8 DEF e
    <3>4. todo # {at} /\ q \in todo'  BY <3>2, <3>3, <1>10
    <3> QED  BY <3>2, <3>4, <1>3, <1>10
  <2>3. CASE q \notin rirr
    <3>1. q = at  BY Zenon, <2>3, <1>4 DEF Sends, Taken, Refused, Dropped, NotSent
    <3>2. e.vector \in irr' \cap tmr'  BY <2>3, <3>1, <1>2, <1>4, SendEoiNew
    <3>3. redir'[q] = e  BY <3>1, <1>1, <1>2, <1>3 DEF RegsOK
    <3> QED  BY <3>2, <3>3
  <2> QED  BY Zenon, <2>1, <2>2, <2>3
<1>18. /\ owed' \in [EdgeVectors -> Int]
       /\ \A v \in EdgeVectors : /\ Cardinality(Held(v)') \in Nat
                                 /\ owed'[v] = Cardinality(Held(v)') + Bit(v \in irr')
  BY Zenon, <1>1, <1>2, <1>3, <1>4, SendKeepsEdges DEF e
<1> QED  BY <1>13, <1>14, <1>15, <1>16, <1>17, <1>18, Assemble

-----------------------------------------------------------------------------
(* The actions of the local APIC.                                          *)

\* The number of edge messages held is a number.
LEMMA HeldCount ==
    ASSUME RegsOK, NEW v
    PROVE  Cardinality(Held(v)) \in Nat
<1>1. IsFiniteSet(0..(N - 1))  BY ApicAssumption, FS_Interval
<1>2. Held(v) \subseteq 0..(N - 1)  BY Zenon DEF Held, RegsOK, Pins
<1>3. IsFiniteSet(Held(v))  BY Zenon, <1>1, <1>2, FS_Subset
<1> QED  BY <1>3, FS_CardinalityType

\* The I/O APIC keeps its state: LevelIsSent holds as it did, and the
\* edges owed follow the IRR.
LEMMA QuietInv ==
    ASSUME IInv, UNCHANGED ioapic, HandlerOK', RInv', EoiWillCome',
           enabled' \in BOOLEAN, address' \in Addresses \cup {NoAddress}, tpr' \in TPRs,
           irr' \subseteq Vectors, isr' \subseteq Vectors, tmr' \subseteq LevelVectors,
           orphan' \subseteq remote_irr, owed' \in [EdgeVectors -> Int],
           \A v \in EdgeVectors : owed'[v] + Bit(v \in irr) = owed[v] + Bit(v \in irr')
    PROVE  IInv'
<1>1. RegsOK  BY TypeParts DEF IInv
<1>2. UNCHANGED <<redir, remote_irr, line, send_pending, poll_next>>  BY DEF ioapic
<1>3. RegsOK'
  <2>1. (\A q \in Pins : WellFormed(redir[q]))'
    BY Zenon, <1>1, <1>2 DEF RegsOK, WellFormed, Entries, Pins
  <2> QED  BY <1>1, <1>2, <2>1 DEF RegsOK
<1>4. LevelIsSent'  BY <1>2 DEF IInv, LevelIsSent, Pins
<1>5. ASSUME NEW v \in EdgeVectors
      PROVE  /\ Cardinality(Held(v)') \in Nat
             /\ owed'[v] = Cardinality(Held(v)') + Bit(v \in irr')
  <2>1. Held(v)' = Held(v)  BY Zenon, <1>2 DEF Held
  <2>2. Cardinality(Held(v)) \in Nat  BY <1>1, HeldCount
  <2>3. owed[v] = Cardinality(Held(v)) + Bit(v \in irr)  BY EdgeSums DEF IInv
  <2>4. owed'[v] \in Int /\ Bit(v \in irr) \in Nat /\ Bit(v \in irr') \in Nat  BY DEF Bit
  <2>5. owed'[v] = Cardinality(Held(v)) + Bit(v \in irr')  BY <2>2, <2>3, <2>4
  <2> QED  BY <2>1, <2>2, <2>5
<1> QED  BY <1>3, <1>4, <1>5, Assemble

\* A handler that goes on with a poll if anything waits.
LEMMA PollIfHandler ==
    ASSUME IInv, NEW cause \in BOOLEAN, NEW v \in LevelVectors \cup {0}, PollIf(cause, v),
           send_pending # {} => cause, UNCHANGED send_pending
    PROVE  HandlerOK' /\ RInv' /\ (step' = "eoi" => todo' = Pins) /\ ending' = v
<1>1. RegsOK  BY TypeParts DEF IInv
<1>2. 0 \in Pins /\ Pins = 0..(N - 1) /\ poll_next \in Pins
  BY <1>1, ApicAssumption DEF Pins, RegsOK
<1>3. HandlerOK'  BY <1>2 DEF PollIf, HandlerOK, Pins
<1>4. RInv'  BY <1>1 DEF PollIf, RInv, RegsOK
<1> QED  BY <1>3, <1>4 DEF PollIf

\* Between handlers every awaited EOI is of a vector in the IRR or the ISR.
LEMMA IdleEoi ==
    ASSUME IInv, step = "idle", NEW q \in remote_irr \ orphan
    PROVE  redir[q].vector \in (irr \cup isr) \cap tmr
<1>1. RegsOK /\ HandlerOK  BY TypeParts DEF IInv
<1>2. ending = 0 /\ redir[q].vector # 0  BY <1>1, VectorNotZero DEF HandlerOK, RegsOK
<1> QED  BY <1>2 DEF IInv, EoiWillCome

\* The writes that change what the local APIC takes, or nothing at all,
\* and then poll.
LEMMA RetryInv ==
    ASSUME IInv, step = "idle", UNCHANGED ioapic, UNCHANGED <<irr, isr, tmr, history>>,
           enabled' \in BOOLEAN, address' \in Addresses \cup {NoAddress}, tpr' \in TPRs,
           NEW cause \in BOOLEAN, PollIf(cause, 0), send_pending # {} => cause
    PROVE  IInv'
<1>1. RegsOK  BY TypeParts DEF IInv
<1>2. UNCHANGED <<redir, remote_irr, send_pending, owed, orphan>>  BY DEF ioapic, history
<1>3. 0 \in LevelVectors \cup {0}  OBVIOUS
<1>4. HandlerOK' /\ RInv'  BY <1>2, <1>3, PollIfHandler
<1>5. EoiWillCome'  BY <1>2, IdleEoi DEF EoiWillCome
<1>6. /\ irr' \subseteq Vectors /\ isr' \subseteq Vectors /\ tmr' \subseteq LevelVectors
      /\ orphan' \subseteq remote_irr
  BY <1>1, <1>2 DEF RegsOK
<1>7. /\ owed' \in [EdgeVectors -> Int]
      /\ \A v \in EdgeVectors : owed'[v] + Bit(v \in irr) = owed[v] + Bit(v \in irr')
  BY <1>2 DEF IInv, TypeOK
<1> QED  BY <1>4, <1>5, <1>6, <1>7, QuietInv

\* Vectors of the local sources come in: nobody waits for them.
LEMMA LocalInv ==
    ASSUME IInv, step = "idle", NEW v \in LocalVectors, Accept(v, FALSE), HandlerOK', RInv',
           UNCHANGED <<ioapic, enabled, address, tpr, isr, history>>
    PROVE  IInv'
<1>1. RegsOK  BY TypeParts DEF IInv
<1>2. UNCHANGED <<redir, remote_irr, owed, orphan>>  BY DEF ioapic, history
<1>3. v \notin EdgeVectors /\ v \notin LevelVectors  BY ApicAssumption
<1>4. irr' = irr \cup {v} /\ tmr' = tmr \ {v}  BY DEF Accept
<1>5. EoiWillCome'
  <2> SUFFICES ASSUME NEW q \in remote_irr', q \notin orphan'
               PROVE  redir'[q].vector \in (irr' \cup isr') \cap tmr'
    BY DEF EoiWillCome
  <2>1. redir[q].vector \in (irr \cup isr) \cap tmr  BY <1>2, IdleEoi
  <2>2. redir[q].vector \in LevelVectors  BY <1>1, <2>1 DEF RegsOK
  <2> QED  BY <1>2, <1>3, <1>4, <2>1, <2>2
<1>6. /\ irr' \subseteq Vectors /\ isr' \subseteq Vectors /\ tmr' \subseteq LevelVectors
      /\ orphan' \subseteq remote_irr
      /\ enabled' \in BOOLEAN /\ address' \in Addresses \cup {NoAddress} /\ tpr' \in TPRs
  BY <1>1, <1>2, <1>4 DEF RegsOK, Vectors
<1>7. owed' \in [EdgeVectors -> Int]  BY <1>2 DEF IInv, TypeOK
<1>8. \A w \in EdgeVectors : owed'[w] + Bit(w \in irr) = owed[w] + Bit(w \in irr')
  <2> SUFFICES ASSUME NEW w \in EdgeVectors
               PROVE  owed'[w] + Bit(w \in irr) = owed[w] + Bit(w \in irr')
    BY Zenon
  <2>1. w \in irr' <=> w \in irr  BY <1>3, <1>4
  <2> QED  BY <1>2, <2>1 DEF Bit
<1> QED  BY <1>5, <1>6, <1>7, <1>8, QuietInv

\* lapic_timer_callback()
LEMMA TimerInv ==
    ASSUME IInv, NEW v \in LocalVectors, TimerFires(v)
    PROVE  IInv'
<1>1. RegsOK /\ HandlerOK  BY TypeParts DEF IInv
<1>2. /\ step = "idle" /\ Accept(v, FALSE)
      /\ UNCHANGED <<ioapic, enabled, address, tpr, isr, handler, history>>
  BY Zenon DEF TimerFires
<1>3. UNCHANGED <<redir, send_pending, step, at, todo, ending>>  BY <1>2 DEF ioapic, handler
<1>4. HandlerOK'  BY <1>1, <1>3 DEF HandlerOK, Pins
<1>5. Takeable' \subseteq Takeable
  <2>1. irr \subseteq irr' /\ irr' \subseteq Vectors /\ isr \subseteq Vectors
    BY <1>1, <1>2 DEF Accept, RegsOK, Vectors
  <2> QED  BY <1>2, <2>1, Fuller
<1>6. RInv'  BY <1>2, <1>3, <1>5 DEF IInv, RInv
<1> QED  BY Zenon, <1>2, <1>4, <1>6, LocalInv

\* lapic_icr_fixed_write()
LEMMA SelfInv ==
    ASSUME IInv, NEW v \in LocalVectors, SelfInterrupt(v)
    PROVE  IInv'
<1>1. send_pending' = send_pending /\ 0 \in LevelVectors \cup {0}  BY DEF SelfInterrupt, ioapic
<1>2. PollIf(TRUE, 0)  BY Zenon DEF SelfInterrupt
<1>3. HandlerOK' /\ RInv'  BY Zenon, <1>1, <1>2, PollIfHandler
<1> QED  BY Zenon, <1>3, LocalInv DEF SelfInterrupt

\* The processor takes an interrupt.
LEMMA PromoteInv ==
    ASSUME IInv, lapic_promote_irr
    PROVE  IInv'
<1> DEFINE v == Highest(irr)
<1>1. RegsOK  BY TypeParts DEF IInv
<1>2. v \in irr /\ v \in Vectors  BY Zenon, <1>1, HighestIsIn DEF lapic_promote_irr, RegsOK
<1> HIDE DEF v
<1>3. /\ step = "idle" /\ irr' = irr \ {v} /\ isr' = isr \cup {v}
      /\ owed' = [w \in EdgeVectors |-> IF w = v THEN owed[w] - 1 ELSE owed[w]]
      /\ PollIf(send_pending # {}, 0)
      /\ UNCHANGED <<ioapic, enabled, address, tpr, tmr, orphan>>
  BY DEF lapic_promote_irr, ioapic_retry_deliveries, v
<1>4. UNCHANGED <<redir, remote_irr, send_pending>>  BY <1>3 DEF ioapic
<1>5. 0 \in LevelVectors \cup {0} /\ (send_pending # {}) \in BOOLEAN  OBVIOUS
<1>6. HandlerOK' /\ RInv'  BY Zenon, <1>3, <1>4, <1>5, PollIfHandler
<1>7. EoiWillCome'  BY Zenon, <1>3, <1>4, IdleEoi DEF EoiWillCome
<1>8. /\ irr' \subseteq Vectors /\ isr' \subseteq Vectors /\ tmr' \subseteq LevelVectors
      /\ orphan' \subseteq remote_irr
      /\ enabled' \in BOOLEAN /\ address' \in Addresses \cup {NoAddress} /\ tpr' \in TPRs
  BY Zenon, <1>1, <1>2, <1>3 DEF RegsOK
<1>9. owed \in [EdgeVectors -> Nat]  BY DEF IInv, TypeOK
<1>10. owed' \in [EdgeVectors -> Int]  BY <1>3, <1>9
<1>11. \A w \in EdgeVectors : owed'[w] + Bit(w \in irr) = owed[w] + Bit(w \in irr')
  BY <1>2, <1>3, <1>9 DEF Bit
<1> QED  BY <1>3, <1>6, <1>7, <1>8, <1>10, <1>11, QuietInv

\* An EOI: a level vector leaves the ISR for the broadcast.
LEMMA EoiInv ==
    ASSUME IInv, WriteEOI
    PROVE  IInv'
<1> DEFINE v == Highest(isr)
           b == IF v \in tmr THEN v ELSE 0
<1>1. RegsOK  BY TypeParts DEF IInv
<1>2. /\ step = "idle" /\ isr' = isr \ {v} /\ PollIf(send_pending # {}, b)
      /\ UNCHANGED <<ioapic, enabled, address, tpr, irr, tmr, history>>
  BY DEF WriteEOI
<1>3. UNCHANGED <<redir, remote_irr, send_pending, owed, orphan>>  BY <1>2 DEF ioapic, history
<1>4. b \in LevelVectors \cup {0} /\ (v \in tmr => b = v)  BY <1>1 DEF RegsOK
<1> HIDE DEF v, b
<1>5. (send_pending # {}) \in BOOLEAN  OBVIOUS
<1>6. HandlerOK' /\ RInv' /\ (step' = "eoi" => todo' = Pins) /\ ending' = b
  BY Zenon, <1>2, <1>3, <1>4, <1>5, PollIfHandler
<1>7. EoiWillCome'
  <2> SUFFICES ASSUME NEW q \in remote_irr', q \notin orphan'
               PROVE  \/ redir'[q].vector \in (irr' \cup isr') \cap tmr'
                      \/ redir'[q].vector = ending' /\ (step' = "eoi" => q \in todo')
    BY DEF EoiWillCome
  <2>1. redir[q].vector \in (irr \cup isr) \cap tmr  BY Zenon, <1>2, <1>3, IdleEoi
  <2>2. q \in Pins  BY <1>1, <1>3 DEF RegsOK
  <2>3. CASE redir[q].vector = v  BY <2>1, <2>2, <2>3, <1>3, <1>4, <1>6
  <2>4. CASE redir[q].vector # v  BY <2>1, <2>4, <1>2, <1>3
  <2> QED  BY Zenon, <2>3, <2>4
<1>8. /\ irr' \subseteq Vectors /\ isr' \subseteq Vectors /\ tmr' \subseteq LevelVectors
      /\ orphan' \subseteq remote_irr
      /\ enabled' \in BOOLEAN /\ address' \in Addresses \cup {NoAddress} /\ tpr' \in TPRs
  BY <1>1, <1>2, <1>3 DEF RegsOK
<1>9. /\ owed' \in [EdgeVectors -> Int]
      /\ \A w \in EdgeVectors : owed'[w] + Bit(w \in irr) = owed[w] + Bit(w \in irr')
  BY <1>2, <1>3 DEF IInv, TypeOK
<1> QED  BY <1>2, <1>6, <1>7, <1>8, <1>9, QuietInv

\* An INIT: nothing is taken, and every awaited EOI is given up.
LEMMA InitSignalInv ==
    ASSUME IInv, InitSignal
    PROVE  IInv'
<1>1. RegsOK  BY TypeParts DEF IInv
<1>2. /\ step = "idle" /\ irr' = {} /\ isr' = {} /\ tmr' = {} /\ orphan' = remote_irr
      /\ enabled' = FALSE /\ address' = NoAddress /\ tpr' = 0
      /\ owed' = [w \in EdgeVectors |-> IF w \in irr THEN owed[w] - 1 ELSE owed[w]]
      /\ PollIf(send_pending # {}, 0) /\ UNCHANGED ioapic
  BY DEF InitSignal, ioapic_retry_deliveries
<1>3. UNCHANGED <<redir, remote_irr, send_pending>>  BY <1>2 DEF ioapic
<1>4. 0 \in LevelVectors \cup {0} /\ (send_pending # {}) \in BOOLEAN  OBVIOUS
<1>5. HandlerOK' /\ RInv'  BY Zenon, <1>2, <1>3, <1>4, PollIfHandler
<1>6. EoiWillCome'  BY <1>2, <1>3 DEF EoiWillCome
<1>7. /\ irr' \subseteq Vectors /\ isr' \subseteq Vectors /\ tmr' \subseteq LevelVectors
      /\ orphan' \subseteq remote_irr
      /\ enabled' \in BOOLEAN /\ address' \in Addresses \cup {NoAddress} /\ tpr' \in TPRs
  BY Zenon, <1>2, ApicAssumption
<1>8. owed \in [EdgeVectors -> Nat]  BY DEF IInv, TypeOK
<1>9. owed' \in [EdgeVectors -> Int]  BY <1>2, <1>8
<1>10. \A w \in EdgeVectors : owed'[w] + Bit(w \in irr) = owed[w] + Bit(w \in irr')
  BY <1>2, <1>8 DEF Bit
<1> QED  BY Zenon, <1>2, <1>5, <1>6, <1>7, <1>9, <1>10, QuietInv

-----------------------------------------------------------------------------
(* The invariant.                                                          *)

\* The state after a reset, Init but for the place of an idle handler.
Blank ==
    /\ redir = [pin \in Pins |-> Idle] /\ remote_irr = {} /\ line = {}
    /\ send_pending = {} /\ poll_next = 0
    /\ enabled = FALSE /\ address = NoAddress /\ tpr = 0 /\ irr = {} /\ isr = {} /\ tmr = {}
    /\ step = "idle" /\ at \in Pins /\ todo = {} /\ ending = 0
    /\ owed = [v \in EdgeVectors |-> 0] /\ orphan = {}

\* A reset machine satisfies the invariant.
LEMMA BlankInv == Blank => IInv
<1> SUFFICES ASSUME Blank PROVE IInv  OBVIOUS
<1> USE DEF Blank
<1>1. 0 \in Pins /\ 0 \in TPRs  BY ApicAssumption DEF Pins
<1>2. WellFormed(Idle) /\ Idle.masked /\ Idle \in Entries
  <2>1. (CHOOSE v \in EdgeVectors : TRUE) \in EdgeVectors  BY ApicAssumption
  <2>2. (CHOOSE a \in Addresses : TRUE) \in Addresses  BY ApicAssumption
  <2> QED  BY Zenon, <2>1, <2>2 DEF Idle, WellFormed, Entries
<1>3. RegsOK /\ HandlerOK /\ owed \in [EdgeVectors -> Nat]
  BY Zenon, <1>1, <1>2 DEF RegsOK, HandlerOK
<1>4. EdgesKept
  <2> SUFFICES ASSUME NEW v \in EdgeVectors
               PROVE  owed[v] = Cardinality(Held(v)) + Bit(v \in irr)
    BY EdgeSums
  <2>1. Held(v) = {}  BY DEF Held
  <2>2. Cardinality(Held(v)) = 0  BY <2>1, FS_EmptySet
  <2> QED  BY <2>2 DEF Bit
<1>5. LevelIsSent  BY <1>2 DEF LevelIsSent
<1>6. RInv /\ EoiWillCome  BY DEF RInv, EoiWillCome
<1> QED  BY <1>3, <1>4, <1>5, <1>6, TypeParts DEF IInv

\* Init is such a state, and Reset leads to one.
LEMMA Blanks ==
    /\ Init => Blank
    /\ IInv /\ Reset => Blank'
<1>1. Init => Blank
  BY ApicAssumption DEF Init, Blank, Pins
<1>2. IInv /\ Reset => Blank'
  <2> SUFFICES ASSUME IInv, Reset PROVE Blank'  OBVIOUS
  <2>1. HandlerOK  BY TypeParts DEF IInv
  <2>2. /\ step' = "idle" /\ at' \in Pins /\ todo' = {} /\ ending' = 0
    BY <2>1 DEF Reset, handler, HandlerOK
  <2> QED  BY Zenon, <2>2 DEF Reset, Blank, Idle, Pins
<1> QED  BY <1>1, <1>2

\* Nothing changes, but perhaps the task priority.
LEMMA TprInv ==
    ASSUME IInv, UNCHANGED <<ioapic, enabled, address, irr, isr, tmr, handler, history>>, tpr' \in TPRs
    PROVE  IInv'
<1>1. RegsOK /\ HandlerOK  BY TypeParts DEF IInv
<1>2. UNCHANGED <<redir, remote_irr, send_pending, step, at, todo, ending, owed, orphan>>
  BY DEF ioapic, handler, history
<1>3. HandlerOK'  BY <1>1, <1>2 DEF HandlerOK, Pins
<1>4. Takeable' = Takeable  BY Unmoved
<1>5. RInv'  BY <1>2, <1>4 DEF IInv, RInv
<1>6. EoiWillCome'  BY <1>2 DEF IInv, EoiWillCome
<1>7. /\ irr' \subseteq Vectors /\ isr' \subseteq Vectors /\ tmr' \subseteq LevelVectors
      /\ orphan' \subseteq remote_irr
      /\ enabled' \in BOOLEAN /\ address' \in Addresses \cup {NoAddress}
  BY <1>1, <1>2 DEF RegsOK
<1>8. /\ owed' \in [EdgeVectors -> Int]
      /\ \A w \in EdgeVectors : owed'[w] + Bit(w \in irr) = owed[w] + Bit(w \in irr')
  BY <1>2 DEF IInv, TypeOK
<1> QED  BY <1>3, <1>5, <1>6, <1>7, <1>8, QuietInv

\* Every step but a reset preserves the invariant.
LEMMA StepInv ==
    ASSUME IInv, [Next]_vars, ~Reset
    PROVE  IInv'
<1>1. HandlerOK /\ RegsOK /\ 0 \in Pins  BY TypeParts, ApicAssumption DEF IInv, Pins
<1>2. ASSUME NEW pin \in Pins, SetLine(pin) PROVE IInv'
  <2>1. Drive(pin, TRUE) /\ step = "idle" /\ step' = step /\ at' \in Pins
    BY Zenon, <1>1, <1>2 DEF SetLine, HandlerOK
  <2> QED  BY Zenon, <2>1, DriveInv
<1>3. ASSUME NEW pin \in Pins, ClearLine(pin) PROVE IInv'
  <2>1. Drive(pin, FALSE) /\ step = "idle" /\ step' = step /\ at' \in Pins
    BY Zenon, <1>1, <1>3 DEF ClearLine, HandlerOK
  <2> QED  BY Zenon, <2>1, DriveInv
<1>4. ASSUME NEW pin \in Pins, Pulse(pin) PROVE IInv'
  <2>1. Drive(pin, TRUE) /\ step = "idle" /\ step' \in {"idle", "fall"} /\ at' \in Pins
    BY Zenon, <1>1, <1>4 DEF Pulse, HandlerOK
  <2> QED  BY Zenon, <2>1, DriveInv
<1>5. CASE Fall
  <2>1. at \in Pins /\ Drive(at, FALSE) /\ step = "fall" /\ step' = "idle" /\ at' \in Pins
    BY Zenon, <1>1, <1>5 DEF Fall, HandlerOK
  <2> QED  BY Zenon, <2>1, DriveInv
<1>6. CASE WriteIoapicId
  <2>1. /\ step = "idle" /\ PollIf(TRUE, 0) /\ UNCHANGED ioapic
        /\ UNCHANGED <<irr, isr, tmr, history>> /\ UNCHANGED <<enabled, address, tpr>>
    BY Zenon, <1>6 DEF WriteIoapicId, lapic
  <2>2. enabled' \in BOOLEAN /\ address' \in Addresses \cup {NoAddress} /\ tpr' \in TPRs
    BY <1>1, <2>1 DEF RegsOK
  <2> QED  BY Zenon, <2>1, <2>2, RetryInv
<1>7. ASSUME NEW on \in BOOLEAN, WriteSVR(on) PROVE IInv'
  <2>1. /\ step = "idle" /\ PollIf(send_pending # {}, 0) /\ UNCHANGED ioapic
        /\ UNCHANGED <<irr, isr, tmr, history>> /\ UNCHANGED <<address, tpr>> /\ enabled' = on
    BY <1>7 DEF WriteSVR, ioapic_retry_deliveries
  <2>2. enabled' \in BOOLEAN /\ address' \in Addresses \cup {NoAddress} /\ tpr' \in TPRs
    BY <1>1, <2>1 DEF RegsOK
  <2>3. (send_pending # {}) \in BOOLEAN  OBVIOUS
  <2> QED  BY Zenon, <2>1, <2>2, <2>3, RetryInv
<1>8. ASSUME NEW a \in Addresses \cup {NoAddress}, WriteLDR(a) PROVE IInv'
  <2>1. /\ step = "idle" /\ PollIf(send_pending # {}, 0) /\ UNCHANGED ioapic
        /\ UNCHANGED <<irr, isr, tmr, history>> /\ UNCHANGED <<enabled, tpr>> /\ address' = a
    BY <1>8 DEF WriteLDR, ioapic_retry_deliveries
  <2>2. enabled' \in BOOLEAN /\ address' \in Addresses \cup {NoAddress} /\ tpr' \in TPRs
    BY <1>1, <2>1 DEF RegsOK
  <2>3. (send_pending # {}) \in BOOLEAN  OBVIOUS
  <2> QED  BY Zenon, <2>1, <2>2, <2>3, RetryInv
<1>9. ASSUME NEW t \in TPRs, WriteTPR(t) PROVE IInv'
  BY <1>9, TprInv DEF WriteTPR
<1>10. CASE UNCHANGED vars
  <2>1. UNCHANGED <<ioapic, enabled, address, irr, isr, tmr, handler, history>> /\ tpr' \in TPRs
    BY <1>1, <1>10 DEF vars, lapic, RegsOK
  <2> QED  BY <2>1, TprInv
<1>11. CASE Inputs  BY Zenon, <1>11, <1>2, <1>3, <1>4, StoreInv DEF Inputs
<1> QED
  BY <1>5, <1>6, <1>7, <1>8, <1>9, <1>10, <1>11, PollInv, BroadcastInv, InitSignalInv, PromoteInv,
     EoiInv, TimerInv, SelfInv DEF Next

\* The invariant of the two controllers, for every number of inputs and
\* every programming of their entries.
THEOREM Invariance == Spec => []IInv
<1>1. Init => IInv  BY Blanks, BlankInv
<1>2. IInv /\ [Next]_vars => IInv'
  <2>1. IInv /\ [Next]_vars /\ ~Reset => IInv'  BY StepInv
  <2>2. IInv /\ Reset => Blank'  BY Blanks
  <2>3. Blank' => IInv'  BY BlankInv, PTL
  <2> QED  BY <2>1, <2>2, <2>3
<1> QED  BY <1>1, <1>2, PTL DEF Spec

\* The types, and that only a level entry has Remote IRR and never with
\* Send Pending.
THEOREM TypesHold == Spec => []TypeOK
<1>1. IInv => TypeOK  BY DEF IInv
<1> QED  BY <1>1, Invariance, PTL

\* No refused message waits for nothing: whatever frees the local APIC to
\* take it sends it again (ioapic_retry_deliveries()).
THEOREM NoneStranded == Spec => []RefusedIsUntakeable
<1>1. IInv => RefusedIsUntakeable
  <2> SUFFICES ASSUME IInv, step = "idle", NEW pin \in send_pending, Takes(redir[pin])
               PROVE  FALSE
    BY DEF RefusedIsUntakeable
  <2>1. redir[pin] \in Entries  BY DEF IInv, TypeOK
  <2>2. redir[pin] \in Takeable  BY <2>1 DEF Takeable
  <2> QED  BY <2>2 DEF IInv, RInv
<1> QED  BY <1>1, Invariance, PTL

\* No level request is dropped (ioapic_deliver_pin(), ioapic_eoi()).
THEOREM LevelsSent == Spec => []LevelIsSent
<1>1. IInv => LevelIsSent  BY DEF IInv
<1> QED  BY <1>1, Invariance, PTL

\* Every Remote IRR bit has its EOI to come (cpu_lapic_eoi_index()).
THEOREM EoisCome == Spec => []EoiWillCome
<1>1. IInv => EoiWillCome  BY DEF IInv
<1> QED  BY <1>1, Invariance, PTL

\* No edge is lost or doubled (cpu_lapic_slot_free_index()).
THEOREM NoEdgeLost == Spec => []EdgesKept
<1>1. IInv => EdgesKept  BY DEF IInv
<1> QED  BY <1>1, Invariance, PTL
=============================================================================
