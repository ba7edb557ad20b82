----------------------------- MODULE PicProofs -----------------------------
(***************************************************************************)
(* Proofs about Pic, for every number of inputs, wiring and set of sources *)
(* and whatever parts of the controllers the guest uses.                   *)
(*                                                                         *)
(* Every handler either ends in pic_notify(), which makes the decision     *)
(* anew, or leaves everything alone that the decision depends on. The two  *)
(* lemmas NotifyInv and QuietInv say so once; the action lemmas show which *)
(* of the two each handler is. Beside the decision each handler keeps the  *)
(* nesting of service (Nested) and the agreement of the line counts and    *)
(* the mask with the devices (Wired).                                      *)
(***************************************************************************)
EXTENDS Pic, WellFoundedInduction, FiniteSetTheorems, TLAPS

-----------------------------------------------------------------------------
(* One controller.                                                         *)

\* Inputs have distinct ranks within 0 .. N-1.
LEMMA RankType ==
    ASSUME NEW d \in pic_t, NEW j \in Inputs
    PROVE  Rank(d, j) \in Inputs /\ Rank(d, j) \in Nat
<1>1. d.priority \in Inputs
  BY DEF pic_t
<1> QED
  BY <1>1, PicAssumption DEF Rank, Inputs

LEMMA RankInjective ==
    ASSUME NEW d \in pic_t, NEW j \in Inputs, NEW k \in Inputs, Rank(d, j) = Rank(d, k)
    PROVE  j = k
<1>1. d.priority \in Inputs
  BY DEF pic_t
<1> QED
  BY <1>1, PicAssumption DEF Rank, Inputs

\* Highest() finds the input of S that comes first in the order of priorities.
LEMMA HighestFirst ==
    ASSUME NEW d \in pic_t, NEW S \in SUBSET Inputs
    PROVE  /\ S = {} => Highest(d, S) = NoIrq
           /\ S # {} => Highest(d, S) \in S /\ \A k \in S : Rank(d, Highest(d, S)) <= Rank(d, k)
           /\ Highest(d, S) = NoIrq <=> S = {}
<1>0. NoIrq \notin Inputs
  BY PicAssumption DEF NoIrq, Inputs
<1>1. CASE S = {}
  BY <1>1 DEF Highest
<1>2. CASE S # {}
  <2> DEFINE R == {Rank(d, j) + 1 : j \in S}
  <2>1. N \in Nat /\ R \in SUBSET (1 .. N) /\ R # {}
    <3>1. N \in Nat
      BY PicAssumption
    <3>2. ASSUME NEW j \in S PROVE Rank(d, j) + 1 \in 1 .. N
      <4>1. Rank(d, j) \in Inputs
        BY RankType
      <4> QED  BY <4>1, <3>1 DEF Inputs
    <3> QED  BY <1>2, <3>1, <3>2
  <2>2. PICK r \in R : \A x \in R : r <= x
    <3> DEFINE W == {p \in Nat \X Nat : p[1] < p[2]}
    <3>1. IsWellFoundedOn(W, Nat)
      BY Zenon, NatLessThanWellFounded DEF OpToRel
    <3>2. R \subseteq Nat /\ R # {}
      BY <2>1
    <3> HIDE DEF R
    <3>3. PICK x \in R : \A y \in R : ~(<<y, x>> \in W)
      <4> HIDE DEF W
      <4> QED  BY Zenon, <3>1, <3>2, WFMin
    <3>4. x \in Nat /\ \A y \in R : y \in Nat /\ ~(y < x)
      BY ONLY <3>2, <3>3
    <3> QED  BY ONLY <3>2, <3>3, <3>4
  <2>3. PICK j \in S : r = Rank(d, j) + 1
    BY <2>2
  <2>4. \A k \in S : Rank(d, j) <= Rank(d, k)
    <3> TAKE k \in S
    <3>1. Rank(d, k) + 1 \in R /\ Rank(d, k) \in Nat /\ Rank(d, j) \in Nat
      BY RankType, PicAssumption DEF Inputs
    <3> QED  BY <3>1, <2>2, <2>3
  <2>5. Highest(d, S) = CHOOSE i \in S : \A k \in S : Rank(d, i) <= Rank(d, k)
    BY <1>2 DEF Highest
  <2>6. Highest(d, S) \in S /\ \A k \in S : Rank(d, Highest(d, S)) <= Rank(d, k)
    BY <2>4, <2>5
  <2> QED  BY <2>6, <1>0, <1>2
<1> QED
  BY <1>1, <1>2

\* A controller's requests, masks and lines are the same.
SameLines(d, e) == e.irr = d.irr /\ e.imr = d.imr /\ e.elcr = d.elcr /\ e.lines = d.lines

\* So is what it has in service, and in what order.
SameService(d, e) == e.isr = d.isr /\ e.priority = d.priority /\ e.nest = d.nest

\* A pending interrupt comes before everything in service.
Above(d) == d.int_pending => \A k \in d.isr : Rank(d, d.interrupt) < Rank(d, k)

\* Resolving makes the decision current, changes nothing it depends on, and
\* releases the controller from a poll.
LEMMA ResolvedCurrent ==
    ASSUME NEW d \in pic_t
    PROVE  /\ Resolved(d) \in pic_t
           /\ Current(Resolved(d))
           /\ Resolved(d).irr = d.irr
           /\ Resolved(d).icw3 = d.icw3
           /\ Resolved(d).state = d.state
           /\ Resolved(d).int_pending => Resolved(d).interrupt \in Resolved(d).irr
           /\ SameLines(d, Resolved(d)) /\ SameService(d, Resolved(d))
           /\ ~Resolved(d).frozen /\ Above(Resolved(d))
<1> DEFINE S == {j \in d.irr \ d.imr : /\ d.state = "NONE"
                                      /\ \A k \in d.isr : Rank(d, j) < Rank(d, k)}
           r == Resolved(d)
           best == find_best_interrupt(d)
<1>1. S \in SUBSET Inputs
  BY DEF pic_t
<1>2. /\ S # {} => best \in S /\ \A k \in S : Rank(d, best) <= Rank(d, k)
      /\ S = {} => best = NoIrq
      /\ best = NoIrq <=> S = {}
  <2>1. best = Highest(d, S)
    BY DEF find_best_interrupt
  <2> HIDE DEF S, best
  <2> QED  BY <1>1, <2>1, HighestFirst
<1> HIDE DEF best
<1>3. best \in Inputs \cup {NoIrq}
  BY <1>1, <1>2
<1>4. r = [d EXCEPT !.interrupt = best, !.int_pending = (best # NoIrq), !.frozen = FALSE]
  BY DEF Resolved, best
<1> HIDE DEF r
<1>5. r \in pic_t
  BY <1>3, <1>4, ZenonT(60) DEF pic_t
<1>6. /\ r.irr = d.irr /\ r.imr = d.imr /\ r.isr = d.isr /\ r.priority = d.priority
      /\ r.state = d.state /\ r.icw3 = d.icw3
      /\ r.interrupt = best /\ r.int_pending = (best # NoIrq)
  BY <1>4 DEF pic_t
<1>7. \A j \in Inputs : Rank(r, j) = Rank(d, j)
  BY <1>6 DEF Rank
<1>8. Current(r)
  <2> DEFINE open == {j \in r.irr \ r.imr : \A k \in r.isr : Rank(r, j) < Rank(r, k)}
  <2>1. \A j \in d.irr, k \in d.isr : Rank(r, j) = Rank(d, j) /\ Rank(r, k) = Rank(d, k)
    BY <1>7 DEF pic_t
  <2>2. S = IF d.state = "NONE" THEN open ELSE {}
    BY <2>1, <1>6
  <2>3. CASE best = NoIrq
    BY Zenon, <2>2, <2>3, <1>2, <1>6 DEF Current
  <2>4. CASE best # NoIrq
    <3>1. best \in S /\ \A k \in S : Rank(d, best) <= Rank(d, k)
      BY <2>4, <1>2
    <3>2. d.state = "NONE" /\ S = open
      BY <2>2, <3>1
    <3>3. \A k \in open : Rank(r, best) <= Rank(r, k)
      BY <3>1, <3>2, <1>1, <1>7
    <3> QED  BY Zenon, <3>1, <3>2, <3>3, <2>4, <1>6 DEF Current
  <2> QED  BY <2>3, <2>4
<1>9. r.int_pending => r.interrupt \in r.irr
  BY Zenon, <1>2, <1>6
<1>10. SameLines(d, r) /\ SameService(d, r) /\ ~r.frozen
  BY <1>4 DEF pic_t, SameLines, SameService
<1>11. Above(r)
  BY <1>8 DEF Current, Above
<1> QED
  BY <1>5, <1>6, <1>8, <1>9, <1>10, <1>11 DEF r

\* Removing an input from the history leaves a sequence of inputs.
LEMMA WithoutType ==
    ASSUME NEW q \in Seq(Inputs), NEW i
    PROVE  Without(q, i) \in Seq(Inputs)
<1> DEFINE at == {n \in 1 .. Len(q) : q[n] = i}
           k == CHOOSE n \in at : TRUE
<1>1. CASE at = {}
  BY <1>1 DEF Without
<1>2. CASE at # {}
  <2>1. Len(q) \in Nat /\ Len(q) - 1 \in Nat /\ k \in 1 .. Len(q)
    BY <1>2
  <2>2. Without(q, i) = [n \in 1 .. Len(q) - 1 |-> IF n < k THEN q[n] ELSE q[n + 1]]
    BY <1>2 DEF Without
  <2> HIDE DEF k
  <2>3. \A n \in 1 .. Len(q) - 1 : q[n] \in Inputs /\ q[n + 1] \in Inputs
    BY <2>1
  <2>4. Without(q, i) \in [1 .. Len(q) - 1 -> Inputs]
    BY <2>2, <2>3
  <2> QED  BY <2>1, <2>4
<1> QED
  BY <1>1, <1>2

\* What the removal does to the order: i is not there, or the rest moves up.
LEMMA WithoutShifts ==
    ASSUME NEW q \in Seq(Inputs), NEW i
    PROVE  \/ Without(q, i) = q /\ \A n \in 1 .. Len(q) : q[n] # i
           \/ \E k \in 1 .. Len(q) :
                 /\ q[k] = i /\ Len(Without(q, i)) = Len(q) - 1
                 /\ \A n \in 1 .. Len(q) - 1 : Without(q, i)[n] = IF n < k THEN q[n] ELSE q[n + 1]
<1> DEFINE at == {n \in 1 .. Len(q) : q[n] = i}
           k == CHOOSE n \in at : TRUE
<1>1. CASE at = {}
  BY <1>1 DEF Without
<1>2. CASE at # {}
  <2>1. Len(q) \in Nat /\ Len(q) - 1 \in Nat /\ k \in 1 .. Len(q) /\ q[k] = i
    BY <1>2
  <2>2. Without(q, i) = [n \in 1 .. Len(q) - 1 |-> IF n < k THEN q[n] ELSE q[n + 1]]
    BY <1>2 DEF Without
  <2> HIDE DEF k
  <2>3. Without(q, i) \in Seq(Inputs) /\ DOMAIN Without(q, i) = 1 .. Len(q) - 1
    BY <2>2, WithoutType
  <2>4. Len(Without(q, i)) = Len(q) - 1
    BY <2>1, <2>3
  <2> QED  BY Zenon, <2>1, <2>2, <2>4
<1> QED
  BY <1>1, <1>2

\* What decides whether a controller asks for service, and for what, is the same.
Same(d, e) ==
    /\ e.irr = d.irr /\ e.imr = d.imr /\ e.isr = d.isr /\ e.priority = d.priority
    /\ e.int_pending = d.int_pending /\ e.interrupt = d.interrupt
    /\ e.state = d.state \/ (d.state # "NONE" /\ e.state # "NONE")

\* What a controller outputs, and whether it is frozen, is the same.
SameOutput(d, e) ==
    /\ e.int_pending = d.int_pending /\ e.interrupt = d.interrupt
    /\ e.state = d.state /\ e.frozen = d.frozen

\* Acknowledging an input that is pending.
LEMMA AcknowledgeType ==
    ASSUME NEW d \in pic_t, d.interrupt \in Inputs
    PROVE  LET a == pic_acknowledge(d)
               i == d.interrupt
           IN  /\ a \in pic_t /\ SameOutput(d, a)
               /\ a.imr = d.imr /\ a.elcr = d.elcr /\ a.lines = d.lines /\ a.priority = d.priority
               /\ a.irr = IF i \in d.elcr /\ d.lines[i] # 0 THEN d.irr ELSE d.irr \ {i}
               /\ a.isr = d.isr \cup {i} /\ a.nest = Append(Without(d.nest, i), i)
<1> DEFINE i == d.interrupt
           irr == IF i \in d.elcr /\ d.lines[i] # 0 THEN d.irr ELSE d.irr \ {i}
           nest == Append(Without(d.nest, i), i)
<1>1. pic_acknowledge(d) = [d EXCEPT !.isr = @ \cup {i}, !.irr = irr, !.nest = nest]
  BY DEF pic_acknowledge, pic_t
<1>2. d.isr \cup {i} \in SUBSET Inputs /\ irr \in SUBSET Inputs
  BY DEF pic_t
<1>3. nest \in Seq(Inputs)
  <2>1. d.nest \in Seq(Inputs)
    BY DEF pic_t
  <2> QED  BY <2>1, WithoutType
<1> HIDE DEF irr, nest
<1>4. /\ pic_acknowledge(d) \in pic_t /\ SameOutput(d, pic_acknowledge(d))
      /\ pic_acknowledge(d).irr = irr /\ pic_acknowledge(d).nest = nest
      /\ pic_acknowledge(d).isr = d.isr \cup {i}
  BY ZenonT(60), <1>1, <1>2, <1>3 DEF pic_t, SameOutput
<1>5. /\ pic_acknowledge(d).imr = d.imr /\ pic_acknowledge(d).elcr = d.elcr
      /\ pic_acknowledge(d).lines = d.lines /\ pic_acknowledge(d).priority = d.priority
  BY <1>1 DEF pic_t
<1> QED
  BY <1>4, <1>5 DEF irr, nest

\* Ending the service of an input.
LEMMA EndServiceType ==
    ASSUME NEW d \in pic_t, NEW irq
    PROVE  LET e == EndService(d, irq)
           IN  /\ e \in pic_t /\ SameOutput(d, e) /\ SameLines(d, e)
               /\ e.isr = d.isr \ {irq} /\ e.nest = Without(d.nest, irq) /\ e.priority = d.priority
               /\ e.special_mask_mode = d.special_mask_mode
<1> DEFINE nest == Without(d.nest, irq)
<1>1. EndService(d, irq) = [d EXCEPT !.isr = @ \ {irq}, !.nest = nest]
  BY DEF EndService, pic_t
<1>2. nest \in Seq(Inputs) /\ d.isr \ {irq} \in SUBSET Inputs
  <2>1. d.nest \in Seq(Inputs) /\ d.isr \in SUBSET Inputs
    BY DEF pic_t
  <2> QED  BY <2>1, WithoutType
<1>3. d.isr \ {irq} = EndService(d, irq).isr /\ nest = EndService(d, irq).nest
  BY <1>1 DEF pic_t
<1> HIDE DEF nest
<1>4. /\ EndService(d, irq) \in pic_t /\ SameOutput(d, EndService(d, irq))
      /\ SameLines(d, EndService(d, irq)) /\ EndService(d, irq).priority = d.priority
      /\ EndService(d, irq).special_mask_mode = d.special_mask_mode
  BY ZenonT(60), <1>1, <1>2 DEF pic_t, SameOutput, SameLines
<1> QED
  BY <1>3, <1>4 DEF nest

\* Giving an input the lowest priority.
LEMMA RotateType ==
    ASSUME NEW d \in pic_t, NEW irq \in Inputs
    PROVE  LET e == RotateAfter(d, irq)
           IN  /\ e \in pic_t /\ SameOutput(d, e) /\ SameLines(d, e) /\ e.isr = d.isr
               /\ e.priority = IF irq = N - 1 THEN 0 ELSE irq + 1
               /\ e.nest = IF d.special_mask_mode THEN <<>> ELSE d.nest
<1> DEFINE low == IF irq = N - 1 THEN 0 ELSE irq + 1
           nest == IF d.special_mask_mode THEN <<>> ELSE d.nest
<1>1. RotateAfter(d, irq) = [d EXCEPT !.priority = low, !.nest = nest]
  BY DEF RotateAfter, pic_t
<1>2. low \in Inputs
  BY PicAssumption DEF Inputs
<1>3. nest \in Seq(Inputs)
  <2>1. d.nest \in Seq(Inputs) /\ <<>> \in Seq(Inputs)
    BY DEF pic_t
  <2> QED  BY <2>1
<1> HIDE DEF low, nest
<1>4. /\ RotateAfter(d, irq) \in pic_t /\ SameOutput(d, RotateAfter(d, irq))
      /\ SameLines(d, RotateAfter(d, irq)) /\ RotateAfter(d, irq).isr = d.isr
      /\ RotateAfter(d, irq).priority = low /\ RotateAfter(d, irq).nest = nest
  BY ZenonT(60), <1>1, <1>2, <1>3 DEF pic_t, SameOutput, SameLines
<1> QED
  BY <1>4 DEF low, nest

\* The automatic end of interrupt does not touch the output.
LEMMA AutoEoiType ==
    ASSUME NEW d \in pic_t
    PROVE  /\ pic_auto_non_specific_eoi(d) \in pic_t
           /\ SameOutput(d, pic_auto_non_specific_eoi(d))
           /\ SameLines(d, pic_auto_non_specific_eoi(d))
<1> DEFINE irq == pic_non_specific_find(d)
           e == EndService(d, irq)
<1>1. irq \in Inputs \cup {NoIrq}
  <2> DEFINE S == {j \in d.isr : d.special_mask_mode => j \notin d.imr}
  <2>1. S \in SUBSET Inputs
    BY DEF pic_t
  <2>2. irq = Highest(d, S)
    BY DEF pic_non_specific_find
  <2> HIDE DEF S, irq
  <2> QED  BY <2>1, <2>2, HighestFirst
<1>2. pic_auto_non_specific_eoi(d) = IF ~d.aeoi \/ irq = NoIrq THEN d
                                    ELSE IF d.auto_eoi_rotate THEN RotateAfter(e, irq) ELSE e
  BY DEF pic_auto_non_specific_eoi
<1> HIDE DEF irq
<1>3. e \in pic_t /\ SameOutput(d, e) /\ SameLines(d, e)
  BY EndServiceType
<1> HIDE DEF e
<1>4. irq # NoIrq => /\ RotateAfter(e, irq) \in pic_t /\ SameOutput(e, RotateAfter(e, irq))
                     /\ SameLines(e, RotateAfter(e, irq))
  BY <1>1, <1>3, RotateType
<1> QED
  BY <1>2, <1>3, <1>4 DEF SameOutput, SameLines

-----------------------------------------------------------------------------
(* Nesting of service.                                                     *)

\* The history lists inputs in service, each above the one accepted before it
\* and above whatever was accepted before the history starts.
Nested(d) ==
    /\ \A n \in 1 .. Len(d.nest) : d.nest[n] \in d.isr
    /\ \A m, n \in 1 .. Len(d.nest) : m < n => Rank(d, d.nest[n]) < Rank(d, d.nest[m])
    /\ \A n \in 1 .. Len(d.nest), k \in d.isr :
          (\A m \in 1 .. Len(d.nest) : d.nest[m] # k) => Rank(d, d.nest[n]) < Rank(d, k)

\* Where service and priorities are the same, so is its nesting.
LEMMA SameNested ==
    ASSUME NEW d, NEW e, SameService(d, e), Nested(d)
    PROVE  Nested(e)
<1>1. \A j : Rank(e, j) = Rank(d, j)
  BY DEF Rank, SameService
<1> QED
  BY <1>1 DEF Nested, SameService

\* A controller without a history.
LEMMA EmptyNested ==
    ASSUME NEW d, d.nest = <<>>
    PROVE  Nested(d)
  BY DEF Nested

\* What is accepted above everything in service goes on top.
LEMMA AcknowledgeNested ==
    ASSUME NEW d \in pic_t, d.interrupt \in Inputs, Nested(d),
           \A k \in d.isr : Rank(d, d.interrupt) < Rank(d, k)
    PROVE  Nested(pic_acknowledge(d))
<1> DEFINE i == d.interrupt
           a == pic_acknowledge(d)
           q == d.nest
<1>1. q \in Seq(Inputs) /\ Len(q) \in Nat /\ d.isr \in SUBSET Inputs
  BY DEF pic_t
<1>2. i \notin d.isr
  <2>1. Rank(d, i) \in Nat
    BY RankType
  <2> QED  BY <2>1
<1>3. \A n \in 1 .. Len(q) : q[n] \in d.isr /\ q[n] # i
  BY <1>2 DEF Nested
<1>4. Without(q, i) = q
  BY <1>1, <1>3, WithoutShifts
<1>5. a.isr = d.isr \cup {i} /\ a.nest = Append(q, i) /\ a.priority = d.priority
  BY Zenon, <1>4, AcknowledgeType
<1>6. /\ Len(a.nest) = Len(q) + 1 /\ a.nest[Len(q) + 1] = i
      /\ \A n \in 1 .. Len(q) : a.nest[n] = q[n]
  BY <1>1, <1>5
<1>7. \A j : Rank(a, j) = Rank(d, j)
  BY <1>5 DEF Rank
<1> HIDE DEF a, q, i
<1>8. \A n \in 1 .. Len(q) + 1 : n \in 1 .. Len(q) \/ n = Len(q) + 1
  BY <1>1
<1>9. \A n \in 1 .. Len(a.nest) : a.nest[n] \in a.isr
  BY <1>3, <1>5, <1>6, <1>8
<1>10. ASSUME NEW m \in 1 .. Len(a.nest), NEW n \in 1 .. Len(a.nest), m < n
       PROVE  Rank(a, a.nest[n]) < Rank(a, a.nest[m])
  <2>1. m \in 1 .. Len(q)
    BY <1>1, <1>6, <1>10
  <2>2. CASE n \in 1 .. Len(q)
    BY Zenon, <2>1, <2>2, <1>6, <1>7, <1>10 DEF Nested, q
  <2>3. CASE n = Len(q) + 1
    BY <2>1, <2>3, <1>3, <1>6, <1>7 DEF i
  <2> QED  BY <2>2, <2>3, <1>6, <1>8
<1>11. ASSUME NEW n \in 1 .. Len(a.nest), NEW k \in a.isr,
              \A m \in 1 .. Len(a.nest) : a.nest[m] # k
       PROVE  Rank(a, a.nest[n]) < Rank(a, k)
  <2>1. k # i /\ k \in d.isr /\ \A m \in 1 .. Len(q) : q[m] # k
    BY <1>1, <1>5, <1>6, <1>11
  <2>2. CASE n \in 1 .. Len(q)
    BY <2>1, <2>2, <1>6, <1>7 DEF Nested, q
  <2>3. CASE n = Len(q) + 1
    BY <2>1, <2>3, <1>6, <1>7 DEF i
  <2> QED  BY <2>2, <2>3, <1>6, <1>8
<1>12. Nested(a)
  BY <1>9, <1>10, <1>11 DEF Nested
<1> QED
  BY <1>12 DEF a

\* Ending the service of any input leaves the others nested.
LEMMA EndServiceNested ==
    ASSUME NEW d \in pic_t, NEW irq, Nested(d)
    PROVE  Nested(EndService(d, irq))
<1> DEFINE e == EndService(d, irq)
           q == d.nest
           w == e.nest
<1> SUFFICES Nested(e)
  OBVIOUS
<1>1. q \in Seq(Inputs) /\ Len(q) \in Nat /\ d.isr \in SUBSET Inputs
  BY DEF pic_t
<1>2. e.isr = d.isr \ {irq} /\ w = Without(q, irq) /\ e.priority = d.priority
  BY EndServiceType
<1>3. \A j : Rank(e, j) = Rank(d, j)
  BY <1>2 DEF Rank
<1>4. \A n \in 1 .. Len(q) : q[n] \in d.isr
  BY DEF Nested
<1>5. CASE w = q /\ \A n \in 1 .. Len(q) : q[n] # irq
  <2> HIDE DEF e, q
  <2>1. /\ \A n \in 1 .. Len(q) : q[n] \in e.isr
        /\ \A m, n \in 1 .. Len(q) : m < n => Rank(e, q[n]) < Rank(e, q[m])
    BY <1>2, <1>3, <1>4, <1>5 DEF Nested, q
  <2>2. \A n \in 1 .. Len(q), k \in e.isr :
           (\A m \in 1 .. Len(q) : q[m] # k) => Rank(e, q[n]) < Rank(e, k)
    BY <1>2, <1>3 DEF Nested, q
  <2> QED  BY <2>1, <2>2, <1>5 DEF Nested
<1>6. ASSUME NEW k \in 1 .. Len(q), q[k] = irq, Len(w) = Len(q) - 1,
             \A n \in 1 .. Len(q) - 1 : w[n] = IF n < k THEN q[n] ELSE q[n + 1]
      PROVE  Nested(e)
  <2> DEFINE f(n) == IF n < k THEN n ELSE n + 1
  <2>1. \A n \in 1 .. Len(w) : f(n) \in 1 .. Len(q) /\ f(n) # k /\ w[n] = q[f(n)]
    BY <1>1, <1>6
  <2>2. \A m, n \in 1 .. Len(w) : m < n => f(m) < f(n)
    BY <1>1, <1>6
  <2>3. \A m \in 1 .. Len(q) : m # k => \E n \in 1 .. Len(w) : w[n] = q[m]
    <3> TAKE m \in 1 .. Len(q)
    <3>1. CASE m < k
      <4>1. m \in 1 .. Len(w) /\ w[m] = q[m]
        BY <3>1, <1>1, <1>6
      <4> QED  BY <4>1
    <3>2. CASE m > k
      <4>1. m - 1 \in 1 .. Len(w) /\ w[m - 1] = q[m]
        BY <3>2, <1>1, <1>6
      <4> QED  BY <4>1
    <3> QED  BY <3>1, <3>2, <1>1
  <2>4. \A m \in 1 .. Len(q) : m # k => q[m] # irq
    <3> TAKE m \in 1 .. Len(q)
    <3>1. \A x \in 1 .. Len(q) : Rank(d, q[x]) \in Nat
      BY <1>1, RankType
    <3>2. m # k => Rank(d, q[m]) < Rank(d, q[k]) \/ Rank(d, q[k]) < Rank(d, q[m])
      <4>1. \A x, y \in 1 .. Len(q) : x < y => Rank(d, q[y]) < Rank(d, q[x])
        BY DEF Nested
      <4>2. m # k => m < k \/ k < m
        BY <1>1
      <4> HIDE DEF q
      <4> QED  BY <4>1, <4>2
    <3>3. Rank(d, q[m]) \in Nat
      BY <3>1
    <3> QED  BY <3>2, <3>3, <1>6
  <2> HIDE DEF f, e, q
  <2>5. \A n \in 1 .. Len(w) : w[n] \in e.isr
    BY <2>1, <2>4, <1>2, <1>4
  <2>6. \A m, n \in 1 .. Len(w) : m < n => Rank(e, w[n]) < Rank(e, w[m])
    BY Zenon, <2>1, <2>2, <1>3 DEF Nested, q
  <2>7. ASSUME NEW n \in 1 .. Len(w), NEW j \in e.isr, \A m \in 1 .. Len(w) : w[m] # j
        PROVE  Rank(e, w[n]) < Rank(e, j)
    <3>1. j \in d.isr /\ \A m \in 1 .. Len(q) : q[m] # j
      BY <2>3, <2>7, <1>2, <1>6
    <3> QED  BY <3>1, <2>1, <1>3 DEF Nested, q
  <2> QED  BY <2>5, <2>6, <2>7 DEF Nested
<1> QED
  <2>1. \/ w = q /\ \A n \in 1 .. Len(q) : q[n] # irq
        \/ \E k \in 1 .. Len(q) :
              /\ q[k] = irq /\ Len(w) = Len(q) - 1
              /\ \A n \in 1 .. Len(q) - 1 : w[n] = IF n < k THEN q[n] ELSE q[n + 1]
    <3> HIDE DEF e, q
    <3>1. w = Without(q, irq)  BY Zenon, <1>2
    <3> HIDE DEF w
    <3> QED  BY ONLY <1>1, <3>1, WithoutShifts, SMT
  <2> HIDE DEF e, q
  <2> QED  BY Zenon, <2>1, <1>5, <1>6

\* Giving irq the lowest priority moves what comes after it up by the same distance.
LEMMA RankRotated ==
    ASSUME NEW d \in pic_t, NEW irq \in Inputs, NEW k \in Inputs, Rank(d, irq) < Rank(d, k)
    PROVE  Rank(RotateAfter(d, irq), k) = Rank(d, k) - Rank(d, irq) - 1
<1>1. RotateAfter(d, irq).priority = IF irq = N - 1 THEN 0 ELSE irq + 1
  BY RotateType
<1>2. d.priority \in Inputs
  BY DEF pic_t
<1> QED
  BY <1>1, <1>2, PicAssumption DEF Rank, Inputs

\* A rotation after an input that came before everything still in service.
LEMMA RotateNested ==
    ASSUME NEW d \in pic_t, NEW irq \in Inputs, Nested(d),
           ~d.special_mask_mode => \A k \in d.isr : Rank(d, irq) < Rank(d, k)
    PROVE  Nested(RotateAfter(d, irq))
<1> DEFINE e == RotateAfter(d, irq)
           q == d.nest
<1> SUFFICES Nested(e)
  OBVIOUS
<1>1. e.isr = d.isr /\ e.nest = IF d.special_mask_mode THEN <<>> ELSE q
  BY RotateType
<1>2. CASE d.special_mask_mode
  BY <1>1, <1>2, EmptyNested
<1>3. CASE ~d.special_mask_mode
  <2>1. /\ \A k \in d.isr : k \in Inputs /\ Rank(d, k) \in Nat
        /\ Rank(d, irq) \in Nat
    BY RankType DEF pic_t
  <2>2. \A k \in d.isr : Rank(e, k) = Rank(d, k) - Rank(d, irq) - 1
    BY <2>1, <1>3, RankRotated
  <2> HIDE DEF e
  <2>3. \A j, k \in d.isr : Rank(d, j) < Rank(d, k) => Rank(e, j) < Rank(e, k)
    BY <2>1, <2>2
  <2>4. \A n \in 1 .. Len(q) : q[n] \in d.isr
    BY DEF Nested
  <2>5. \A m, n \in 1 .. Len(q) : m < n => Rank(d, q[n]) < Rank(d, q[m])
    BY DEF Nested
  <2>6. \A n \in 1 .. Len(q), k \in d.isr :
           (\A m \in 1 .. Len(q) : q[m] # k) => Rank(d, q[n]) < Rank(d, k)
    BY DEF Nested
  <2>7. e.nest = q /\ e.isr = d.isr
    BY <1>1, <1>3
  <2> HIDE DEF q
  <2> QED  BY <2>3, <2>4, <2>5, <2>6, <2>7 DEF Nested
<1> QED
  BY <1>2, <1>3

\* A non-specific end of interrupt, with or without rotation.
LEMMA NonSpecificNested ==
    ASSUME NEW d \in pic_t, pic_non_specific_find(d) # NoIrq
    PROVE  LET irq == pic_non_specific_find(d)
               e == EndService(d, irq)
           IN  /\ irq \in Inputs
               /\ Nested(d) => Nested(e) /\ Nested(RotateAfter(e, irq))
<1> DEFINE irq == pic_non_specific_find(d)
           e == EndService(d, irq)
           S == {j \in d.isr : d.special_mask_mode => j \notin d.imr}
<1>1. S \in SUBSET Inputs /\ d.isr \in SUBSET Inputs
  BY DEF pic_t
<1>2. irq = Highest(d, S) /\ irq # NoIrq
  BY DEF pic_non_specific_find
<1>3. irq \in S /\ \A k \in S : Rank(d, irq) <= Rank(d, k)
  <2> HIDE DEF S, irq
  <2> QED  BY <1>1, <1>2, HighestFirst
<1> HIDE DEF irq
<1>4. irq \in Inputs
  BY <1>1, <1>3
<1>5. /\ e \in pic_t /\ e.isr = d.isr \ {irq} /\ e.priority = d.priority
      /\ e.special_mask_mode = d.special_mask_mode
  BY EndServiceType
<1>6. ASSUME ~e.special_mask_mode, NEW k \in e.isr PROVE Rank(e, irq) < Rank(e, k)
  <2>1. k \in S /\ k # irq /\ k \in Inputs
    BY <1>1, <1>5, <1>6
  <2>2. Rank(d, irq) <= Rank(d, k) /\ Rank(d, irq) # Rank(d, k)
    BY <2>1, <1>3, <1>4, RankInjective
  <2>3. Rank(d, irq) \in Nat /\ Rank(d, k) \in Nat
    BY <2>1, <1>4, RankType
  <2>4. Rank(e, irq) = Rank(d, irq) /\ Rank(e, k) = Rank(d, k)
    BY <1>5 DEF Rank
  <2> QED  BY <2>2, <2>3, <2>4
<1>7. ASSUME Nested(d) PROVE Nested(e) /\ Nested(RotateAfter(e, irq))
  <2>1. Nested(e)
    BY <1>7, EndServiceNested
  <2> HIDE DEF e
  <2> QED  BY <2>1, <1>4, <1>5, <1>6, RotateNested
<1> QED
  BY <1>4, <1>7 DEF irq

\* Outside special mask mode, a non-specific end of interrupt finds the latest of nested
\* service.
LEMMA LatestFirst ==
    ASSUME NEW d \in pic_t, Nested(d), d.nest # <<>>, ~d.special_mask_mode
    PROVE  pic_non_specific_find(d) = d.nest[Len(d.nest)]
<1> DEFINE last == d.nest[Len(d.nest)]
           irq == pic_non_specific_find(d)
<1>1. d.isr \in SUBSET Inputs /\ d.nest \in Seq(Inputs) /\ Len(d.nest) \in 1 .. Len(d.nest)
  BY DEF pic_t
<1>2. last \in d.isr
  BY <1>1 DEF Nested
<1>3. ASSUME NEW k \in d.isr, k # last PROVE Rank(d, last) < Rank(d, k)
  <2>1. CASE \E m \in 1 .. Len(d.nest) : d.nest[m] = k
    <3>1. PICK m \in 1 .. Len(d.nest) : d.nest[m] = k
      BY <2>1
    <3>2. m < Len(d.nest)
      BY <1>1, <1>3, <3>1
    <3> QED  BY <1>1, <3>1, <3>2 DEF Nested
  <2>2. CASE \A m \in 1 .. Len(d.nest) : d.nest[m] # k
    BY <1>1, <2>2 DEF Nested
  <2> QED  BY <2>1, <2>2
<1>4. irq = Highest(d, d.isr)
  <2>1. {j \in d.isr : d.special_mask_mode => j \notin d.imr} = d.isr
    OBVIOUS
  <2> QED  BY Zenon, <2>1 DEF pic_non_specific_find
<1>5. irq \in d.isr /\ Rank(d, irq) <= Rank(d, last)
  BY <1>1, <1>2, <1>4, HighestFirst
<1>6. Rank(d, irq) \in Nat /\ Rank(d, last) \in Nat
  BY <1>1, <1>2, <1>5, RankType
<1> HIDE DEF irq, last
<1>7. irq = last
  BY <1>3, <1>5, <1>6
<1> QED
  BY <1>7 DEF irq, last

\* The automatic end of interrupt.
LEMMA AutoEoiNested ==
    ASSUME NEW d \in pic_t, Nested(d)
    PROVE  Nested(pic_auto_non_specific_eoi(d))
  BY NonSpecificNested DEF pic_auto_non_specific_eoi

-----------------------------------------------------------------------------
(* Lines and masks. st, fg and pn stand for irq_state, forgotten and       *)
(* pinned, before or after a step.                                         *)

Holders(c, i, st) == {s \in LevelSources : st[s] /\ Wire[s] = IrqOf(c, i)}

\* The count of input i is the number of its holders, or less where a reset has
\* forgotten some; a level-triggered input is requested while the count is not 0.
LineOK(c, i, d, st, fg) ==
    /\ i \in d.elcr => (i \in d.irr <=> d.lines[i] > 0)
    /\ d.lines[i] <= Cardinality(Holders(c, i, st))
    /\ IrqOf(c, i) \notin fg => d.lines[i] = Cardinality(Holders(c, i, st))

\* Controller c agrees with its level sources, and masks what a device has taken
\* over unless the guest may initialise it.
Wired(c, d, st, fg, pn) ==
    /\ \A i \in LevelInputs(c) : LineOK(c, i, d, st, fg)
    /\ "init" \notin Uses => \A i \in Inputs : IrqOf(c, i) \in pn => i \in d.imr

\* An IRQ is one input of one controller.
LEMMA IrqPlace ==
    ASSUME NEW irq \in Irqs
    PROVE  /\ ChipOf(irq) \in Chips /\ InputOf(irq) \in Inputs
           /\ \A c \in Chips, i \in Inputs :
                 IrqOf(c, i) = irq <=> c = ChipOf(irq) /\ i = InputOf(irq)
<1>1. ChipOf(irq) \in Chips /\ InputOf(irq) \in Inputs
  BY PicAssumption DEF ChipOf, InputOf, Chips, Inputs, Irqs
<1>2. ASSUME NEW c \in Chips, NEW i \in Inputs
      PROVE  IrqOf(c, i) = irq <=> c = ChipOf(irq) /\ i = InputOf(irq)
  <2>1. CASE c = "pic"
    BY <2>1, PicAssumption DEF IrqOf, ChipOf, InputOf, Inputs, Irqs
  <2>2. CASE c = "pic2"
    BY <2>2, PicAssumption DEF IrqOf, ChipOf, InputOf, Inputs, Irqs
  <2> QED  BY <2>1, <2>2 DEF Chips
<1> QED
  BY <1>1, <1>2

\* Finitely many devices hold an input.
LEMMA HoldersFinite ==
    ASSUME NEW c, NEW i, NEW st
    PROVE  IsFiniteSet(Holders(c, i, st)) /\ Cardinality(Holders(c, i, st)) \in Nat
<1>1. Holders(c, i, st) \in SUBSET LevelSources
  BY DEF Holders
<1>2. IsFiniteSet(LevelSources)
  BY PicAssumption
<1>3. IsFiniteSet(Holders(c, i, st))
  BY <1>1, <1>2, FS_Subset
<1> QED
  BY <1>3, FS_CardinalityType

\* Neither the requests of the level inputs nor anything else that counts changes.
LEMMA SameWired ==
    ASSUME NEW c, NEW d, NEW e, NEW st, NEW fg, NEW pn, Wired(c, d, st, fg, pn),
           e.imr = d.imr, e.elcr = d.elcr, e.lines = d.lines,
           \A i \in LevelInputs(c) : i \in d.elcr => (i \in e.irr <=> i \in d.irr)
    PROVE  Wired(c, e, st, fg, pn)
  BY DEF Wired, LineOK

\* An acknowledge leaves the request of a level that is held.
LEMMA AcknowledgeWired ==
    ASSUME NEW c, NEW d \in pic_t, NEW st, NEW fg, NEW pn, Wired(c, d, st, fg, pn),
           d.interrupt \in Inputs
    PROVE  Wired(c, pic_acknowledge(d), st, fg, pn)
<1> DEFINE a == pic_acknowledge(d)
           j == d.interrupt
<1>1. /\ a.imr = d.imr /\ a.elcr = d.elcr /\ a.lines = d.lines
      /\ a.irr = IF j \in d.elcr /\ d.lines[j] # 0 THEN d.irr ELSE d.irr \ {j}
  BY Zenon, AcknowledgeType
<1>2. ASSUME NEW i \in LevelInputs(c), i \in d.elcr
      PROVE  i \in a.irr <=> i \in d.irr
  <2>1. i \in d.irr <=> d.lines[i] > 0
    BY <1>2 DEF Wired, LineOK
  <2>2. d.lines[i] \in Nat
    BY DEF pic_t, LevelInputs
  <2> QED  BY <2>1, <2>2, <1>1, <1>2
<1> HIDE DEF a
<1>3. Wired(c, a, st, fg, pn)
  BY <1>1, <1>2, SameWired
<1> QED
  BY <1>3 DEF a

\* The count n of a line after a source whose irq_state was was asks for set, and
\* what stays forgotten once the sources are in state st.
Counted(n, was, set) ==
    IF was = set THEN n ELSE IF set THEN n + 1 ELSE IF n # 0 THEN n - 1 ELSE 0

StillForgotten(fg, irq, st) ==
    IF \E u \in LevelSources : st[u] /\ Wire[u] = irq THEN fg ELSE fg \ {irq}

\* The count of the line that s changes, after a call of picint_common().
LEMMA OwnLine ==
    ASSUME NEW st \in [LevelSources -> BOOLEAN], NEW after \in [LevelSources -> BOOLEAN],
           NEW s \in LevelSources, \A u \in LevelSources : u # s => after[u] = st[u],
           NEW c, NEW i, IrqOf(c, i) = Wire[s], NEW fg,
           NEW n \in Nat, n <= Cardinality(Holders(c, i, st)),
           Wire[s] \notin fg => n = Cardinality(Holders(c, i, st))
    PROVE  /\ Counted(n, st[s], after[s]) <= Cardinality(Holders(c, i, after))
           /\ Wire[s] \notin StillForgotten(fg, Wire[s], after) =>
                  Counted(n, st[s], after[s]) = Cardinality(Holders(c, i, after))
<1> DEFINE fg2 == StillForgotten(fg, Wire[s], after)
           count == Counted(n, st[s], after[s])
           H == Holders(c, i, st)
           A == Holders(c, i, after)
<1> SUFFICES /\ count <= Cardinality(A)
             /\ Wire[s] \notin fg2 => count = Cardinality(A)
  OBVIOUS
<1>0. n <= Cardinality(H) /\ (Wire[s] \notin fg => n = Cardinality(H))
  OBVIOUS
<1>1. IsFiniteSet(H) /\ Cardinality(H) \in Nat /\ IsFiniteSet(A) /\ Cardinality(A) \in Nat
  BY HoldersFinite
<1>2. A = {} => Cardinality(A) = 0
  BY FS_EmptySet
<1>3. Wire[s] \in fg /\ Wire[s] \notin fg2 => A = {}
  BY DEF Holders, StillForgotten
<1>4. Wire[s] \notin fg2 => Wire[s] \notin fg \/ Cardinality(A) = 0
  BY <1>2, <1>3
<1>5. CASE st[s] = after[s]
  <2>1. A = H
    BY <1>5 DEF Holders
  <2>3. count = n
    BY <1>5 DEF Counted
  <2> HIDE DEF A, H, fg2, count
  <2> QED  BY <2>1, <2>3, <1>0, <1>1, <1>4
<1>6. CASE ~st[s] /\ after[s]
  <2>1. A = H \cup {s} /\ s \notin H
    BY <1>6 DEF Holders
  <2>2. Cardinality(A) = Cardinality(H) + 1
    BY <2>1, <1>1, FS_AddElement
  <2>3. count = n + 1
    <3>1. st[s] # after[s]
      BY Zenon, <1>6
    <3> QED  BY <3>1, <1>6 DEF Counted
  <2> HIDE DEF A, H, fg2, count
  <2> QED  BY <2>2, <2>3, <1>0, <1>1, <1>4
<1>7. CASE st[s] /\ ~after[s]
  <2>1. A = H \ {s} /\ s \in H
    BY <1>7 DEF Holders
  <2>2. Cardinality(A) = Cardinality(H) - 1
    BY <2>1, <1>1, FS_RemoveElement
  <2>3. count = IF n # 0 THEN n - 1 ELSE 0
    <3>1. st[s] # after[s]
      BY Zenon, <1>7
    <3> QED  BY <3>1, <1>7 DEF Counted
  <2> HIDE DEF A, H, fg2, count
  <2> QED  BY <2>2, <2>3, <1>0, <1>1, <1>4
<1> QED
  BY <1>5, <1>6, <1>7

-----------------------------------------------------------------------------
(* The inductive invariant, and the two ways in which a handler ends.      *)

Decided(d) == d.int_pending => d.state = "NONE" /\ d.interrupt \in Inputs

\* The guest does not both poll and change the order of priorities, so that no
\* frozen decision is overtaken by a rotation.
OrderKept == "poll" \notin Uses \/ ("rotate" \notin Uses /\ "setpriority" \notin Uses)

\* Service is nested, and only a poll freezes a controller.
Ordered(d) ==
    /\ "poll" \notin Uses => ~d.frozen
    /\ OrderKept => Nested(d)

\* Only a poll and an initialisation leave decisions behind that are not resolved.
Settled == "poll" \notin Uses /\ "init" \notin Uses => ~stale

\* The properties, and what makes them inductive: even a decision that is
\* stale was made by a controller out of its initialisation sequence, and comes
\* before what is in service.
IInv ==
    /\ TypeOK
    /\ PendingCurrent
    /\ SlaveBacksCascade
    /\ IntrReported
    /\ Settled
    /\ \A c \in Chips : /\ Decided(pics[c])
                        /\ Wired(c, pics[c], irq_state, forgotten, pinned)
                        /\ Ordered(pics[c])
                        /\ OrderKept => Above(pics[c])

\* The sources and the pinned lines after a step.
Rest == /\ irq_state \in [LevelSources -> BOOLEAN]
        /\ pinned \subseteq PinnedLines /\ forgotten \subseteq Irqs

\* A pending interrupt stays above what is left in service.
LEMMA SameAbove ==
    ASSUME NEW d, NEW e, Above(d), e.int_pending = d.int_pending, e.interrupt = d.interrupt,
           e.priority = d.priority, e.isr \subseteq d.isr
    PROVE  Above(e)
<1>1. \A j : Rank(e, j) = Rank(d, j)
  BY DEF Rank
<1> QED
  BY <1>1 DEF Above

\* A handler that touches neither the service nor the order of priorities.
LEMMA SameOrdered ==
    ASSUME NEW d, NEW e, Ordered(d), SameService(d, e), "poll" \notin Uses => ~e.frozen
    PROVE  Ordered(e)
  BY SameNested DEF Ordered

\* Both controllers resolved, the slave first.
LEMMA UpdatedInv ==
    ASSUME NEW p \in [Chips -> pic_t]
    PROVE  LET u == Updated(p)
           IN  /\ u \in [Chips -> pic_t]
               /\ \A c \in Chips : Current(u[c]) /\ Decided(u[c]) /\ Above(u[c]) /\ ~u[c].frozen
               /\ (Cascade \in u.pic.irr) = u.pic2.int_pending
               /\ u.pic.int_pending /\ u.pic.interrupt \in u.pic.icw3 => u.pic2.int_pending
               /\ \A c \in Chips : /\ SameService(p[c], u[c])
                                   /\ u[c].imr = p[c].imr /\ u[c].elcr = p[c].elcr
                                   /\ u[c].lines = p[c].lines
               /\ u.pic2.irr = p.pic2.irr /\ u.pic.irr \ {Cascade} = p.pic.irr \ {Cascade}
<1> DEFINE s == Resolved(p.pic2)
           irr == IF s.int_pending THEN p.pic.irr \cup {Cascade} ELSE p.pic.irr \ {Cascade}
           m == [p.pic EXCEPT !.irr = irr]
           r == Resolved(m)
<1>1. p.pic \in pic_t /\ p.pic2 \in pic_t
  BY DEF Chips
<1>2. /\ s \in pic_t /\ Current(s) /\ Above(s) /\ ~s.frozen
      /\ s.int_pending => s.interrupt \in s.irr
      /\ SameService(p.pic2, s) /\ SameLines(p.pic2, s)
  BY <1>1, ResolvedCurrent
<1>3. s.int_pending \in BOOLEAN
  BY <1>2 DEF pic_t
<1> HIDE DEF s
<1>4. irr \in SUBSET Inputs /\ (Cascade \in irr) = s.int_pending
  BY <1>1, <1>3, PicAssumption DEF pic_t
<1>4a. irr \ {Cascade} = p.pic.irr \ {Cascade}
  OBVIOUS
<1> HIDE DEF irr
<1>5. /\ m \in pic_t /\ m.irr = irr /\ SameService(p.pic, m)
      /\ m.imr = p.pic.imr /\ m.elcr = p.pic.elcr /\ m.lines = p.pic.lines
  BY Zenon, <1>1, <1>4 DEF pic_t, SameService
<1>6. Updated(p) = [p EXCEPT !.pic = r, !.pic2 = s]
  BY <1>1 DEF Updated, s, irr, pic_t
<1> HIDE DEF m
<1>7. /\ r \in pic_t /\ Current(r) /\ Above(r) /\ ~r.frozen
      /\ r.irr = irr /\ r.icw3 = m.icw3
      /\ r.int_pending => r.interrupt \in r.irr
      /\ SameService(m, r) /\ SameLines(m, r)
  BY <1>5, ResolvedCurrent
<1> HIDE DEF r
<1>8. Decided(r) /\ Decided(s)
  BY Zenon, <1>2, <1>7 DEF Decided, Current, pic_t
<1>9. r.int_pending /\ r.interrupt \in r.icw3 => s.int_pending
  <2>1. r.icw3 \in {{}, {Cascade}}
    BY <1>7 DEF pic_t
  <2> QED  BY Zenon, <2>1, <1>4, <1>7
<1>10. /\ Updated(p) \in [Chips -> pic_t] /\ Updated(p).pic = r /\ Updated(p).pic2 = s
  BY Zenon, <1>2, <1>6, <1>7 DEF Chips
<1>11. /\ SameService(p.pic, r) /\ r.imr = p.pic.imr /\ r.elcr = p.pic.elcr /\ r.lines = p.pic.lines
       /\ SameService(p.pic2, s) /\ s.imr = p.pic2.imr /\ s.elcr = p.pic2.elcr
       /\ s.lines = p.pic2.lines /\ s.irr = p.pic2.irr
  BY <1>2, <1>5, <1>7 DEF SameService, SameLines
<1> QED
  BY Zenon, <1>2, <1>4, <1>4a, <1>7, <1>8, <1>9, <1>10, <1>11 DEF Chips

\* Resolving priorities does not touch the level inputs: none of them is the cascade.
LEMMA UpdatedWired ==
    ASSUME NEW p \in [Chips -> pic_t], NEW c \in Chips, NEW st, NEW fg, NEW pn,
           Wired(c, p[c], st, fg, pn)
    PROVE  Wired(c, Updated(p)[c], st, fg, pn)
<1> DEFINE u == Updated(p)
<1>1. /\ u[c].imr = p[c].imr /\ u[c].elcr = p[c].elcr /\ u[c].lines = p[c].lines
      /\ u["pic2"].irr = p["pic2"].irr /\ u["pic"].irr \ {Cascade} = p["pic"].irr \ {Cascade}
  BY Zenon, UpdatedInv
<1>2. \A i \in LevelInputs(c) : i \in u[c].irr <=> i \in p[c].irr
  <2>1. CASE c = "pic2"
    BY <2>1, <1>1
  <2>2. CASE c = "pic"
    <3>1. \A i \in LevelInputs(c) : i # Cascade
      BY <2>2, PicAssumption DEF LevelInputs, IrqOf
    <3> QED  BY <3>1, <2>2, <1>1
  <2> QED  BY <2>1, <2>2 DEF Chips
<1> HIDE DEF u
<1>3. Wired(c, u[c], st, fg, pn)
  BY <1>1, <1>2, SameWired
<1> QED
  BY <1>3 DEF u

\* A handler that ends in pic_notify(). If the master is frozen it has not touched
\* the master's output.
LEMMA NotifyInv ==
    ASSUME NEW p \in [Chips -> pic_t], pic_notify(p), reported \in BOOLEAN, Rest',
           \A c \in Chips : Wired(c, p[c], irq_state', forgotten', pinned') /\ Ordered(p[c]),
           p.pic.frozen => /\ p.pic.int_pending = reported
                           /\ \A c \in Chips : Decided(p[c]) /\ (OrderKept => Above(p[c]))
    PROVE  IInv'
<1>1. CASE p.pic.frozen
  <2>1. pics' = p /\ stale' = TRUE /\ reported' = reported
    BY <1>1 DEF pic_notify
  <2>2. TypeOK'
    BY <2>1 DEF TypeOK, Rest
  <2>3. PendingCurrent' /\ SlaveBacksCascade' /\ IntrReported'
    BY <1>1, <2>1 DEF PendingCurrent, SlaveBacksCascade, IntrReported
  <2>4. \A c \in Chips : /\ Decided(pics'[c]) /\ Ordered(pics'[c])
                         /\ Wired(c, pics'[c], irq_state', forgotten', pinned')
                         /\ OrderKept => Above(pics'[c])
    BY <1>1, <2>1
  <2>5. Settled'
    BY <1>1 DEF Settled, Ordered, Chips
  <2> QED  BY <2>2, <2>3, <2>4, <2>5 DEF IInv
<1>2. CASE ~p.pic.frozen
  <2>1. pics' = Updated(p) /\ stale' = FALSE /\ reported' = pics'.pic.int_pending
    BY <1>2 DEF pic_notify
  <2>2. /\ pics' \in [Chips -> pic_t]
        /\ \A c \in Chips : /\ Current(pics'[c]) /\ Decided(pics'[c]) /\ Above(pics'[c])
                            /\ ~pics'[c].frozen /\ SameService(p[c], pics'[c])
        /\ (Cascade \in pics'.pic.irr) = pics'.pic2.int_pending
        /\ pics'.pic.int_pending /\ pics'.pic.interrupt \in pics'.pic.icw3
              => pics'.pic2.int_pending
    BY Zenon, <2>1, UpdatedInv
  <2>3. pics'.pic.int_pending \in BOOLEAN
    BY Zenon, <2>2 DEF Chips, pic_t
  <2>4. TypeOK'
    BY Zenon, <2>1, <2>2, <2>3 DEF TypeOK, Rest
  <2>5. PendingCurrent' /\ SlaveBacksCascade' /\ IntrReported'
    BY <2>1, <2>2 DEF PendingCurrent, SlaveBacksCascade, IntrReported
  <2>6. \A c \in Chips : Ordered(pics'[c])
    BY <2>2, SameOrdered
  <2>7. \A c \in Chips : Wired(c, pics'[c], irq_state', forgotten', pinned')
    BY <2>1, UpdatedWired
  <2> QED  BY Zenon, <2>1, <2>2, <2>4, <2>5, <2>6, <2>7 DEF IInv, Settled
<1> QED
  BY <1>1, <1>2

\* A handler that ends in pic_notify() and leaves both outputs to it.
LEMMA NotifySameInv ==
    ASSUME IInv, NEW p \in [Chips -> pic_t], pic_notify(p), Rest',
           \A c \in Chips : /\ SameOutput(pics[c], p[c]) /\ Ordered(p[c])
                            /\ Wired(c, p[c], irq_state', forgotten', pinned')
                            /\ pics.pic.frozen /\ OrderKept => Above(p[c])
    PROVE  IInv'
<1>1. reported \in BOOLEAN
  BY DEF IInv, TypeOK
<1>2. p.pic.int_pending = reported /\ p.pic.frozen = pics.pic.frozen
  BY DEF IInv, IntrReported, SameOutput, Chips
<1>3. \A c \in Chips : Decided(p[c])
  BY DEF IInv, Decided, SameOutput
<1> QED
  BY <1>1, <1>2, <1>3, NotifyInv

\* A decision that depends on the same values stays current.
LEMMA SameCurrent ==
    ASSUME NEW d \in pic_t, NEW e \in pic_t, Same(d, e), Current(d)
    PROVE  Current(e)
<1>1. \A j : Rank(e, j) = Rank(d, j)
  BY DEF Rank, Same
<1> QED
  BY <1>1 DEF Current, Same

\* A handler that does not call pic_notify() and need not.
LEMMA QuietInv ==
    ASSUME IInv, NEW p \in [Chips -> pic_t], Quiet(p), Rest',
           \A c \in Chips : /\ Same(pics[c], p[c]) /\ Ordered(p[c])
                            /\ Wired(c, p[c], irq_state', forgotten', pinned'),
           pics.pic.int_pending => /\ p.pic.icw3 = pics.pic.icw3
                                   /\ pics.pic.frozen => p.pic.frozen
    PROVE  IInv'
<1>1. pics' = p /\ stale' = stale /\ reported' = reported
  BY DEF Quiet
<1>2. pics \in [Chips -> pic_t]
  BY DEF IInv, TypeOK
<1>3. TypeOK'
  BY <1>1 DEF IInv, TypeOK, Rest
<1>4. PendingCurrent'
  <2> SUFFICES ASSUME ~stale
               PROVE  /\ \A c \in Chips : Current(p[c])
                      /\ (Cascade \in p.pic.irr) = p.pic2.int_pending
    BY Zenon, <1>1 DEF PendingCurrent
  <2>1. \A c \in Chips : Current(p[c])
    BY <1>2, SameCurrent DEF IInv, PendingCurrent
  <2>2. p.pic.irr = pics.pic.irr /\ p.pic2.int_pending = pics.pic2.int_pending
    BY DEF Same, Chips
  <2> QED  BY <2>1, <2>2 DEF IInv, PendingCurrent
<1>5. SlaveBacksCascade'
  BY Zenon, <1>1, <1>2 DEF IInv, SlaveBacksCascade, Same, Chips, pic_t
<1>6. IntrReported'
  BY Zenon, <1>1 DEF IInv, IntrReported, Same, Chips
<1>7. \A c \in Chips : Decided(p[c])
  BY Zenon DEF IInv, Decided, Same
<1>8. OrderKept => \A c \in Chips : Above(p[c])
  BY SameAbove DEF IInv, Same
<1> QED
  BY <1>1, <1>3, <1>4, <1>5, <1>6, <1>7, <1>8 DEF IInv, Settled

-----------------------------------------------------------------------------
(* Devices.                                                                *)

\* r is p with the request of irq set or cleared, and nothing else changed.
RequestSet(p, r, irq, set) ==
    /\ r \in [Chips -> pic_t]
    /\ \A c \in Chips : /\ SameOutput(p[c], r[c]) /\ SameService(p[c], r[c])
                        /\ r[c].imr = p[c].imr /\ r[c].elcr = p[c].elcr
                        /\ r[c].lines = p[c].lines
    /\ \A c \in Chips, i \in Inputs :
          i \in r[c].irr <=> IF IrqOf(c, i) = irq THEN set ELSE i \in p[c].irr

\* A request bit is set or cleared on the controller it belongs to.
LEMMA RequestsType ==
    ASSUME NEW p \in [Chips -> pic_t], NEW irq \in Irqs, NEW set \in BOOLEAN
    PROVE  RequestSet(p, Requests(p, irq, set), irq, set)
<1> DEFINE x == ChipOf(irq)
           i == InputOf(irq)
           irr == IF set THEN p[x].irr \cup {i} ELSE p[x].irr \ {i}
           e == [p[x] EXCEPT !.irr = irr]
           r == Requests(p, irq, set)
<1>1. /\ x \in Chips /\ i \in Inputs
      /\ \A c \in Chips, j \in Inputs : IrqOf(c, j) = irq <=> c = x /\ j = i
  BY IrqPlace
<1>2. r = [p EXCEPT ![x] = e]
  BY <1>1 DEF Requests, pic_t
<1> HIDE DEF x, i, r
<1>3. p[x] \in pic_t
  BY <1>1
<1>4. irr \in SUBSET Inputs /\ \A j \in Inputs : j \in irr <=> IF j = i THEN set ELSE j \in p[x].irr
  BY <1>1, <1>3 DEF pic_t
<1> HIDE DEF irr
<1>5. /\ e \in pic_t /\ SameOutput(p[x], e) /\ SameService(p[x], e) /\ e.irr = irr
      /\ e.imr = p[x].imr /\ e.elcr = p[x].elcr /\ e.lines = p[x].lines
  BY Zenon, <1>3, <1>4 DEF pic_t, SameOutput, SameService
<1> HIDE DEF e
<1>6. r \in [Chips -> pic_t] /\ r[x] = e /\ \A c \in Chips : c # x => r[c] = p[c]
  BY <1>1, <1>2, <1>5
<1>7. \A c \in Chips : /\ SameOutput(p[c], r[c]) /\ SameService(p[c], r[c])
                       /\ r[c].imr = p[c].imr /\ r[c].elcr = p[c].elcr
                       /\ r[c].lines = p[c].lines
  BY <1>5, <1>6 DEF SameOutput, SameService
<1>8. \A c \in Chips, j \in Inputs :
         j \in r[c].irr <=> IF IrqOf(c, j) = irq THEN set ELSE j \in p[c].irr
  BY <1>1, <1>4, <1>5, <1>6
<1> QED
  BY Zenon, <1>6, <1>7, <1>8 DEF r, RequestSet

\* A device pulses its line, or clears the request: never a line that a level
\* source holds, even where a card's IRQ 2 goes to IRQ 9.
LEMMA EdgeInv ==
    ASSUME IInv, NEW e \in EdgeSources, NEW set \in BOOLEAN, Edge(e, set)
    PROVE  IInv'
<1> DEFINE irq == Routed(Wire[e])
           r == Requests(pics, irq, set)
<1>1. /\ pics \in [Chips -> pic_t] /\ Rest'
      /\ irq_state' = irq_state /\ forgotten' = forgotten /\ pinned' = pinned
  BY DEF Edge, IInv, TypeOK, Rest
<1>2. irq \in Irqs /\ \A s \in LevelSources : Wire[s] # irq
  BY PicAssumption DEF Routed, Irqs, Inputs
<1>3. pic_notify(r)
  BY DEF Edge
<1> HIDE DEF irq
<1>4. /\ r \in [Chips -> pic_t]
      /\ \A c \in Chips : /\ SameOutput(pics[c], r[c]) /\ SameService(pics[c], r[c])
                          /\ r[c].imr = pics[c].imr /\ r[c].elcr = pics[c].elcr
                          /\ r[c].lines = pics[c].lines
      /\ \A c \in Chips, i \in Inputs :
            i \in r[c].irr <=> IF IrqOf(c, i) = irq THEN set ELSE i \in pics[c].irr
  <2>1. RequestSet(pics, r, irq, set)  BY Zenon, <1>1, <1>2, RequestsType
  <2> HIDE DEF r
  <2> QED  BY Zenon, <2>1 DEF RequestSet
<1> HIDE DEF r
<1>5. ASSUME NEW c \in Chips PROVE Wired(c, r[c], irq_state', forgotten', pinned')
  <2>1. \A i \in LevelInputs(c) : i \in r[c].irr <=> i \in pics[c].irr
    BY Zenon, <1>2, <1>4 DEF LevelInputs
  <2>2. Wired(c, pics[c], irq_state, forgotten, pinned)
    BY DEF IInv
  <2> QED  BY Zenon, <2>1, <2>2, <1>1, <1>4, SameWired
<1>6. \A c \in Chips : Ordered(r[c]) /\ (OrderKept => Above(r[c]))
  BY Zenon, <1>4, SameOrdered, SameAbove DEF IInv, SameOutput, SameService, Ordered
<1> QED
  BY Zenon, <1>1, <1>3, <1>4, <1>5, <1>6, NotifySameInv

\* What picint_common() does to the input that s is wired to, and to the others.
LEMMA LevelLine ==
    ASSUME NEW st \in [LevelSources -> BOOLEAN], NEW after \in [LevelSources -> BOOLEAN],
           NEW s \in LevelSources, \A u \in LevelSources : u # s => after[u] = st[u], NEW fg,
           NEW c \in Chips, NEW i \in LevelInputs(c), NEW d \in pic_t, NEW e,
           LineOK(c, i, d, st, fg), e.elcr = d.elcr,
           LET own == IrqOf(c, i) = Wire[s]
               set == after[s]
               count == Counted(d.lines[i], st[s], set)
               seen == i \notin d.elcr \/ (st[s] # set /\ count = IF set THEN 1 ELSE 0)
           IN  /\ e.lines[i] = IF own THEN count ELSE d.lines[i]
               /\ i \in e.irr <=> IF own /\ seen THEN set ELSE i \in d.irr
    PROVE  LineOK(c, i, e, after, StillForgotten(fg, Wire[s], after))
<1> DEFINE set == after[s]
           fg2 == StillForgotten(fg, Wire[s], after)
           n == d.lines[i]
           count == Counted(n, st[s], set)
<1> SUFFICES LineOK(c, i, e, after, fg2)
  OBVIOUS
<1>1. n \in Nat
  BY Zenon DEF pic_t, LevelInputs
<1>2. CASE IrqOf(c, i) # Wire[s]
  <2>1. Holders(c, i, after) = Holders(c, i, st)
    BY Zenon, <1>2 DEF Holders
  <2>2. IrqOf(c, i) \in fg2 <=> IrqOf(c, i) \in fg
    BY Zenon, <1>2 DEF StillForgotten
  <2>3. e.lines[i] = n /\ (i \in e.irr <=> i \in d.irr)
    BY <1>2
  <2> HIDE DEF fg2
  <2> QED  BY Zenon, <2>1, <2>2, <2>3 DEF LineOK
<1>3. CASE IrqOf(c, i) = Wire[s]
  <2>1. /\ n <= Cardinality(Holders(c, i, st))
        /\ Wire[s] \notin fg => n = Cardinality(Holders(c, i, st))
    BY Zenon, <1>3 DEF LineOK
  <2>2. /\ count <= Cardinality(Holders(c, i, after))
        /\ Wire[s] \notin fg2 => count = Cardinality(Holders(c, i, after))
    <3> HIDE DEF n
    <3> QED  BY SMTT(30), <2>1, <1>1, <1>3, OwnLine
  <2>3. e.lines[i] = count
    BY Zenon, <1>3
  <2>4. i \in e.elcr => (i \in e.irr <=> count > 0)
    <3> SUFFICES ASSUME i \in d.elcr PROVE i \in e.irr <=> count > 0
      BY Zenon
    <3>1. i \in d.irr <=> n > 0
      BY Zenon DEF LineOK
    <3>2. i \in e.irr <=> IF st[s] # set /\ count = IF set THEN 1 ELSE 0 THEN set ELSE i \in d.irr
      BY Zenon, <1>3
    <3>3. st[s] \in BOOLEAN /\ set \in BOOLEAN
      OBVIOUS
    <3> HIDE DEF n
    <3> QED  BY SMTT(30), <3>1, <3>2, <3>3, <1>1 DEF Counted
  <2> HIDE DEF fg2, count
  <2> QED  BY Zenon, <2>2, <2>3, <2>4, <1>3 DEF LineOK
<1> QED
  BY Zenon, <1>2, <1>3

\* A device raises or lowers a line it may share.
LEMMA LevelInv ==
    ASSUME IInv, NEW s \in LevelSources, NEW set \in BOOLEAN, Level(s, set)
    PROVE  IInv'
<1> DEFINE irq == Wire[s]
           c == ChipOf(irq)
           i == InputOf(irq)
           count == Counted(pics[c].lines[i], irq_state[s], set)
           counted == [pics EXCEPT ![c].lines[i] = count]
           e == [pics[c] EXCEPT !.lines = [@ EXCEPT ![i] = count]]
           seen == \/ i \notin pics[c].elcr
                   \/ irq_state[s] # set /\ count = IF set THEN 1 ELSE 0
           r == IF seen THEN Requests(counted, irq, set) ELSE counted
<1>1. /\ pics \in [Chips -> pic_t] /\ Rest' /\ pinned' = pinned
      /\ irq_state' = [irq_state EXCEPT ![s] = set]
      /\ irq_state \in [LevelSources -> BOOLEAN] /\ irq_state' \in [LevelSources -> BOOLEAN]
  BY DEF Level, IInv, TypeOK, Rest
<1>2. /\ irq \in Irqs /\ c \in Chips /\ i \in Inputs
      /\ \A x \in Chips, j \in Inputs : IrqOf(x, j) = irq <=> x = c /\ j = i
  <2>1. irq \in Irqs
    BY PicAssumption
  <2> QED  BY <2>1, IrqPlace
<1>3. /\ IF seen THEN pic_notify(Requests(counted, irq, set)) ELSE Quiet(counted)
      /\ forgotten' = StillForgotten(forgotten, irq, irq_state')
  <2>1. count = IF ~(irq_state[s] # set) THEN pics[c].lines[i]
                ELSE IF set THEN pics[c].lines[i] + 1
                ELSE IF pics[c].lines[i] # 0 THEN pics[c].lines[i] - 1 ELSE 0
    BY Zenon DEF Counted
  <2> QED  BY Zenon, <2>1 DEF Level, StillForgotten
<1> HIDE DEF irq, c, i
<1>4. pics[c] \in pic_t /\ pics[c].lines \in [Inputs -> Nat] /\ pics[c].lines[i] \in Nat
  BY ONLY <1>1, <1>2 DEF pic_t
<1>5. count \in Nat
  BY <1>4 DEF Counted
<1> HIDE DEF count, seen
<1>6. /\ e \in pic_t /\ SameOutput(pics[c], e) /\ Same(pics[c], e) /\ SameService(pics[c], e)
      /\ e.icw3 = pics[c].icw3 /\ e.frozen = pics[c].frozen /\ e.elcr = pics[c].elcr
      /\ e.lines = [pics[c].lines EXCEPT ![i] = count]
  BY ZenonT(60), <1>4, <1>5 DEF pic_t, SameOutput, Same, SameService
<1>7. counted = [pics EXCEPT ![c] = e]
  BY <1>1, <1>2, <1>4 DEF pic_t
<1> HIDE DEF counted, e
<1>8. /\ counted \in [Chips -> pic_t]
      /\ \A x \in Chips : /\ SameOutput(pics[x], counted[x]) /\ Same(pics[x], counted[x])
                          /\ SameService(pics[x], counted[x])
                          /\ counted[x].icw3 = pics[x].icw3 /\ counted[x].frozen = pics[x].frozen
                          /\ counted[x].elcr = pics[x].elcr
  BY Zenon, <1>1, <1>2, <1>6, <1>7 DEF SameOutput, Same, SameService
<1>9. \A x \in Chips, j \in Inputs :
         counted[x].lines[j] = IF IrqOf(x, j) = irq THEN count ELSE pics[x].lines[j]
  BY Zenon, <1>1, <1>2, <1>4, <1>6, <1>7
<1>10. /\ Requests(counted, irq, set) \in [Chips -> pic_t]
       /\ \A x \in Chips :
             LET q == Requests(counted, irq, set)[x]
             IN  /\ SameOutput(counted[x], q) /\ SameService(counted[x], q)
                 /\ q.imr = counted[x].imr /\ q.elcr = counted[x].elcr
                 /\ q.lines = counted[x].lines
                 /\ \A j \in Inputs :
                      j \in q.irr <=> IF IrqOf(x, j) = irq THEN set ELSE j \in counted[x].irr
  <2> DEFINE n == Requests(counted, irq, set)
  <2>1. RequestSet(counted, n, irq, set)  BY Zenon, <1>2, <1>8, RequestsType
  <2> SUFFICES /\ n \in [Chips -> pic_t]
               /\ \A x \in Chips :
                     /\ SameOutput(counted[x], n[x]) /\ SameService(counted[x], n[x])
                     /\ n[x].imr = counted[x].imr /\ n[x].elcr = counted[x].elcr
                     /\ n[x].lines = counted[x].lines
                     /\ \A j \in Inputs : j \in n[x].irr <=>
                           IF IrqOf(x, j) = irq THEN set ELSE j \in counted[x].irr
    BY Zenon
  <2> HIDE DEF n
  <2> QED  BY Zenon, <2>1 DEF RequestSet
<1>11. /\ r \in [Chips -> pic_t]
       /\ \A x \in Chips : /\ SameOutput(pics[x], r[x]) /\ SameService(pics[x], r[x])
                           /\ r[x].imr = pics[x].imr /\ r[x].elcr = pics[x].elcr
                           /\ r[x].lines = counted[x].lines
                           /\ \A j \in Inputs : j \in r[x].irr <=>
                                 IF IrqOf(x, j) = irq /\ seen THEN set ELSE j \in pics[x].irr
  <2>1. CASE seen
    <3>1. r = Requests(counted, irq, set)
      BY <2>1
    <3> HIDE DEF r
    <3>2. ASSUME NEW x \in Chips
          PROVE  /\ SameOutput(pics[x], r[x]) /\ SameService(pics[x], r[x])
                 /\ r[x].imr = pics[x].imr /\ r[x].elcr = pics[x].elcr
                 /\ r[x].lines = counted[x].lines
      BY Zenon, <3>1, <3>2, <1>8, <1>10 DEF SameOutput, SameService, Same
    <3>3. ASSUME NEW x \in Chips, NEW j \in Inputs
          PROVE  j \in r[x].irr <=> IF IrqOf(x, j) = irq THEN set ELSE j \in pics[x].irr
      <4>1. counted[x].irr = pics[x].irr
        BY Zenon, <3>3, <1>8 DEF Same
      <4> QED  BY Zenon, <4>1, <3>1, <3>3, <1>10
    <3> QED  BY Zenon, <3>1, <3>2, <3>3, <2>1, <1>10
  <2>2. CASE ~seen
    <3>1. r = counted
      BY <2>2
    <3> HIDE DEF r
    <3> QED  BY Zenon, <3>1, <2>2, <1>8 DEF Same
  <2> QED  BY Zenon, <2>1, <2>2
<1> HIDE DEF r
<1>12. ASSUME NEW x \in Chips, NEW j \in LevelInputs(x)
       PROVE  LineOK(x, j, r[x], irq_state', forgotten')
  <2>1. j \in Inputs /\ pics[x] \in pic_t /\ LineOK(x, j, pics[x], irq_state, forgotten)
    BY <1>1 DEF IInv, Wired, LevelInputs
  <2>2. \A u \in LevelSources : u # s => irq_state'[u] = irq_state[u]
    BY <1>1
  <2>3. irq_state'[s] = set
    BY <1>1
  <2>4. IrqOf(x, j) = irq => x = c /\ j = i
    BY <2>1, <1>2
  <2>5. r[x].lines[j] = IF IrqOf(x, j) = irq THEN Counted(pics[x].lines[j], irq_state[s], set)
                        ELSE pics[x].lines[j]
    BY Zenon, <2>1, <2>4, <1>9, <1>11 DEF count
  <2>6. j \in r[x].irr <=>
           IF /\ IrqOf(x, j) = irq
              /\ \/ j \notin pics[x].elcr
                 \/ irq_state[s] # set /\ Counted(pics[x].lines[j], irq_state[s], set)
                                              = IF set THEN 1 ELSE 0
           THEN set ELSE j \in pics[x].irr
    BY Zenon, <2>1, <2>4, <1>11 DEF count, seen
  <2>7. r[x].elcr = pics[x].elcr
    BY Zenon, <1>11
  <2> QED  BY Zenon, <2>1, <2>2, <2>3, <2>5, <2>6, <2>7, <1>1, <1>3, LevelLine DEF irq
<1>13. \A x \in Chips : Wired(x, r[x], irq_state', forgotten', pinned')
  BY Zenon, <1>1, <1>11, <1>12 DEF IInv, Wired
<1>14. \A x \in Chips : Ordered(r[x]) /\ (OrderKept => Above(r[x]))
  BY Zenon, <1>11, SameOrdered, SameAbove DEF IInv, SameOutput, SameService, Ordered
<1>15. CASE seen
  <2>1. pic_notify(r)
    BY <1>3, <1>15 DEF r
  <2> QED  BY Zenon, <2>1, <1>1, <1>11, <1>13, <1>14, NotifySameInv
<1>16. CASE ~seen
  <2>1. Quiet(r) /\ r = counted
    BY <1>3, <1>16 DEF r
  <2>2. r.pic.icw3 = pics.pic.icw3 /\ r.pic.frozen = pics.pic.frozen
    BY <2>1, <1>8 DEF Chips
  <2> QED  BY Zenon, <2>1, <2>2, <1>1, <1>8, <1>13, <1>14, QuietInv
<1> QED
  BY <1>15, <1>16

\* Taking a line over, or giving it back.
LEMMA PinInv ==
    ASSUME IInv, NEW irq \in PinnedLines, NEW on \in BOOLEAN, Pin(irq, on)
    PROVE  IInv'
<1> DEFINE c == ChipOf(irq)
           i == InputOf(irq)
           imr == IF on THEN pics[c].imr \cup {i} ELSE pics[c].imr \ {i}
           e == [pics[c] EXCEPT !.imr = imr]
           p == [pics EXCEPT ![c] = e]
<1>1. /\ pics \in [Chips -> pic_t] /\ Rest'
      /\ irq_state' = irq_state /\ forgotten' = forgotten
      /\ pinned' = IF on THEN pinned \cup {irq} ELSE pinned \ {irq}
  BY DEF Pin, IInv, TypeOK, Rest
<1>2. /\ c \in Chips /\ i \in Inputs
      /\ \A x \in Chips, j \in Inputs : IrqOf(x, j) = irq <=> x = c /\ j = i
  <2>1. irq \in Irqs
    BY PicAssumption
  <2> QED  BY <2>1, IrqPlace
<1>3. pic_notify(p)
  <2>1. [pics EXCEPT ![c].imr = IF on THEN @ \cup {i} ELSE @ \ {i}] = p
    BY <1>1, <1>2 DEF pic_t
  <2> QED  BY <2>1 DEF Pin
<1> HIDE DEF c, i
<1>4. pics[c] \in pic_t
  BY <1>1, <1>2
<1>5. /\ imr \in SUBSET Inputs
      /\ \A j \in Inputs : j \in imr <=> IF j = i THEN on ELSE j \in pics[c].imr
  BY Zenon, <1>2, <1>4 DEF pic_t
<1> HIDE DEF imr
<1>6. /\ e \in pic_t /\ SameOutput(pics[c], e) /\ SameService(pics[c], e) /\ e.imr = imr
      /\ e.irr = pics[c].irr /\ e.elcr = pics[c].elcr /\ e.lines = pics[c].lines
  BY ZenonT(60), <1>4, <1>5 DEF pic_t, SameOutput, SameService
<1> HIDE DEF e
<1>7. /\ p \in [Chips -> pic_t] /\ p[c] = e /\ \A x \in Chips : x # c => p[x] = pics[x]
      /\ \A x \in Chips : SameOutput(pics[x], p[x]) /\ SameService(pics[x], p[x])
  BY Zenon, <1>1, <1>2, <1>6 DEF SameOutput, SameService
<1> HIDE DEF p
<1>8. ASSUME NEW x \in Chips PROVE Wired(x, p[x], irq_state', forgotten', pinned')
  <2>1. Wired(x, pics[x], irq_state, forgotten, pinned)
    BY DEF IInv
  <2>2. \A j \in LevelInputs(x) : LineOK(x, j, p[x], irq_state', forgotten')
    BY Zenon, <2>1, <1>1, <1>6, <1>7 DEF Wired, LineOK
  <2>3. ASSUME "init" \notin Uses, NEW j \in Inputs, IrqOf(x, j) \in pinned'
        PROVE  j \in p[x].imr
    <3>1. IrqOf(x, j) \in pinned => j \in pics[x].imr
      BY Zenon, <2>1, <2>3 DEF Wired
    <3>2. CASE IrqOf(x, j) = irq
      BY Zenon, <3>2, <2>3, <1>1, <1>2, <1>5, <1>6, <1>7
    <3>3. CASE IrqOf(x, j) # irq
      BY Zenon, <3>1, <3>3, <2>3, <1>1, <1>2, <1>5, <1>6, <1>7
    <3> QED  BY <3>2, <3>3
  <2> QED  BY Zenon, <2>2, <2>3 DEF Wired
<1>9. \A x \in Chips : Ordered(p[x]) /\ (OrderKept => Above(p[x]))
  BY Zenon, <1>7, SameOrdered, SameAbove DEF IInv, SameOutput, SameService, Ordered
<1> QED
  BY <1>1, <1>3, <1>7, <1>8, <1>9, NotifySameInv

-----------------------------------------------------------------------------
(* The guest. A write goes to one controller.                              *)

\* The sources, and what else is not the controllers', are left alone.
Untouched == UNCHANGED <<irq_state, pinned, forgotten>>

\* What a handler makes of controller c agrees with the sources and keeps service nested.
Proper(c, e) == Wired(c, e, irq_state, forgotten, pinned) /\ Ordered(e)

\* The controllers before a guest's write.
LEMMA GuestStart ==
    ASSUME IInv, NEW c \in Chips
    PROVE  /\ pics \in [Chips -> pic_t] /\ pics[c] \in pic_t /\ Decided(pics[c])
           /\ Proper(c, pics[c]) /\ (OrderKept => Above(pics[c]))
           /\ Untouched => Rest'
  BY DEF IInv, TypeOK, Rest, Proper, Untouched

\* A handler that changes no request, mask or line of c, nor its service.
LEMMA SameProper ==
    ASSUME NEW c, NEW d, NEW e, Proper(c, d), SameLines(d, e), SameService(d, e),
           "poll" \notin Uses => ~e.frozen
    PROVE  Proper(c, e)
<1>1. Wired(c, e, irq_state, forgotten, pinned)
  BY SameWired DEF Proper, SameLines
<1>2. Ordered(e)
  BY SameOrdered DEF Proper
<1> QED
  BY <1>1, <1>2 DEF Proper

\* Both controllers after a change of c.
LEMMA ProperChips ==
    ASSUME IInv, NEW c \in Chips, NEW e \in pic_t, Untouched, Proper(c, e)
    PROVE  LET p == [pics EXCEPT ![c] = e]
           IN  /\ Rest' /\ p \in [Chips -> pic_t]
               /\ p[c] = e /\ \A x \in Chips : x # c => p[x] = pics[x]
               /\ \A x \in Chips : Wired(x, p[x], irq_state', forgotten', pinned') /\ Ordered(p[x])
<1> DEFINE p == [pics EXCEPT ![c] = e]
<1>1. Rest' /\ pics \in [Chips -> pic_t]
  BY GuestStart
<1>2. p \in [Chips -> pic_t] /\ p[c] = e /\ \A x \in Chips : x # c => p[x] = pics[x]
  BY <1>1
<1>3. irq_state' = irq_state /\ forgotten' = forgotten /\ pinned' = pinned
  BY DEF Untouched
<1> HIDE DEF p
<1>4. \A x \in Chips : Wired(x, p[x], irq_state, forgotten, pinned) /\ Ordered(p[x])
  BY <1>2 DEF IInv, Proper
<1> QED
  BY <1>1, <1>2, <1>3, <1>4 DEF p

\* A handler changes controller c to e, leaving its output to pic_notify().
LEMMA NotifyChip ==
    ASSUME IInv, NEW c \in Chips, NEW e \in pic_t, SameOutput(pics[c], e), Untouched,
           Proper(c, e), pics.pic.frozen /\ OrderKept => Above(e),
           pic_notify([pics EXCEPT ![c] = e])
    PROVE  IInv'
<1> DEFINE p == [pics EXCEPT ![c] = e]
<1>1. /\ Rest' /\ p \in [Chips -> pic_t] /\ p[c] = e /\ \A x \in Chips : x # c => p[x] = pics[x]
      /\ \A x \in Chips : Wired(x, p[x], irq_state', forgotten', pinned') /\ Ordered(p[x])
  BY ProperChips
<1>2. pic_notify(p)
  OBVIOUS
<1> HIDE DEF p
<1>3. \A x \in Chips : /\ SameOutput(pics[x], p[x])
                       /\ pics.pic.frozen /\ OrderKept => Above(p[x])
  BY <1>1 DEF IInv, SameOutput
<1> QED
  BY <1>1, <1>2, <1>3, NotifySameInv

\* A handler changes controller c to e, without pic_notify().
LEMMA QuietChip ==
    ASSUME IInv, NEW c \in Chips, NEW e \in pic_t, Same(pics[c], e), Untouched, Proper(c, e),
           pics[c].int_pending => /\ e.icw3 = pics[c].icw3
                                  /\ pics[c].frozen => e.frozen,
           Quiet([pics EXCEPT ![c] = e])
    PROVE  IInv'
<1> DEFINE p == [pics EXCEPT ![c] = e]
<1>1. /\ Rest' /\ p \in [Chips -> pic_t] /\ p[c] = e /\ \A x \in Chips : x # c => p[x] = pics[x]
      /\ \A x \in Chips : Wired(x, p[x], irq_state', forgotten', pinned') /\ Ordered(p[x])
  BY ProperChips
<1>2. Quiet(p)
  OBVIOUS
<1> HIDE DEF p
<1>3. \A x \in Chips : Same(pics[x], p[x])
  BY <1>1 DEF Same
<1>4. pics.pic.int_pending => /\ p.pic.icw3 = pics.pic.icw3
                              /\ pics.pic.frozen => p.pic.frozen
  BY <1>1 DEF Chips
<1> QED
  BY <1>1, <1>2, <1>3, <1>4, QuietInv

\* The first word of an initialisation drops the output and ends a poll.
LEMMA ICW1Inv ==
    ASSUME IInv, NEW c \in Chips, ICW1(c)
    PROVE  IInv'
<1> DEFINE irr == {i \in Inputs : pics[c].lines[i] > 0}
           e == [pics[c] EXCEPT
                    !.irr = irr, !.imr = {}, !.isr = {},
                    !.nest = <<>>, !.icw3 = {}, !.priority = 0, !.auto_eoi_rotate = FALSE,
                    !.special_mask_mode = FALSE, !.poll = FALSE, !.frozen = FALSE,
                    !.interrupt = NoIrq, !.int_pending = FALSE, !.state = "ICW2"]
           p == [pics EXCEPT ![c] = e]
<1>1. /\ pics \in [Chips -> pic_t] /\ pics[c] \in pic_t /\ Untouched
      /\ \A x \in Chips : Decided(pics[x]) /\ (OrderKept => Above(pics[x]))
      /\ Wired(c, pics[c], irq_state, forgotten, pinned) /\ "init" \in Uses
  BY GuestStart DEF ICW1, GuestUses, Untouched, Proper
<1>2. irr \in SUBSET Inputs /\ 0 \in Inputs /\ <<>> \in Seq(Inputs)
  BY PicAssumption DEF Inputs
<1>3. pic_notify(p)
  BY <1>1 DEF ICW1
<1>4. \A i \in Inputs : i \in irr <=> pics[c].lines[i] > 0
  OBVIOUS
<1> HIDE DEF irr
<1>5. /\ e \in pic_t /\ ~e.frozen /\ ~e.int_pending
      /\ e.irr = irr /\ e.lines = pics[c].lines /\ e.elcr = pics[c].elcr /\ e.nest = <<>>
  BY ZenonT(60), <1>1, <1>2 DEF pic_t
<1> HIDE DEF e
<1>6. Proper(c, e)
  <2>1. Wired(c, e, irq_state, forgotten, pinned)
    BY Zenon, <1>1, <1>4, <1>5 DEF Wired, LineOK, LevelInputs
  <2>2. Ordered(e)
    BY <1>5, EmptyNested DEF Ordered
  <2> QED  BY <2>1, <2>2 DEF Proper
<1>8. /\ Rest' /\ p \in [Chips -> pic_t] /\ p[c] = e /\ \A x \in Chips : x # c => p[x] = pics[x]
      /\ \A x \in Chips : Wired(x, p[x], irq_state', forgotten', pinned') /\ Ordered(p[x])
  BY Zenon, <1>1, <1>5, <1>6, ProperChips
<1> HIDE DEF p
<1>9. \A x \in Chips : Decided(p[x]) /\ (OrderKept => Above(p[x]))
  BY Zenon, <1>1, <1>5, <1>8 DEF Decided, Above
<1>10. p.pic.frozen => p.pic.int_pending = reported
  BY Zenon, <1>5, <1>8 DEF IInv, IntrReported, Chips
<1>11. reported \in BOOLEAN
  BY DEF IInv, TypeOK
<1> QED
  BY Zenon, <1>3, <1>8, <1>9, <1>10, <1>11, NotifyInv

\* The second word.
LEMMA ICW2Inv ==
    ASSUME IInv, NEW c \in Chips, ICW2(c)
    PROVE  IInv'
<1> DEFINE e == [pics[c] EXCEPT !.state = "ICW3"]
<1>1. /\ pics \in [Chips -> pic_t] /\ pics[c] \in pic_t /\ Untouched
      /\ Proper(c, pics[c])
  BY GuestStart DEF ICW2, GuestUses, Untouched
<1>2. Quiet([pics EXCEPT ![c] = e]) /\ pics[c].state = "ICW2"
  BY <1>1 DEF ICW2
<1>3. /\ e \in pic_t /\ Same(pics[c], e) /\ SameLines(pics[c], e) /\ SameService(pics[c], e)
      /\ e.icw3 = pics[c].icw3 /\ e.frozen = pics[c].frozen
  BY Zenon, <1>1, <1>2 DEF pic_t, Same, SameLines, SameService
<1> HIDE DEF e
<1>4. Proper(c, e)
  BY <1>1, <1>3, SameProper DEF Proper, Ordered
<1> QED
  BY Zenon, <1>1, <1>2, <1>3, <1>4, QuietChip

\* The third word says who is cascaded: nothing is pending then.
LEMMA ICW3Inv ==
    ASSUME IInv, NEW c \in Chips, NEW v \in {{}, {Cascade}}, ICW3(c, v)
    PROVE  IInv'
<1> DEFINE e == [pics[c] EXCEPT !.icw3 = v, !.state = "ICW4"]
<1>1. /\ pics \in [Chips -> pic_t] /\ pics[c] \in pic_t /\ Decided(pics[c]) /\ Untouched
      /\ Proper(c, pics[c])
  BY GuestStart DEF ICW3, GuestUses, Untouched
<1>2. Quiet([pics EXCEPT ![c] = e]) /\ pics[c].state = "ICW3"
  <2>1. [pics EXCEPT ![c].icw3 = v, ![c].state = "ICW4"] = [pics EXCEPT ![c] = e]
    BY Zenon, <1>1
  <2> QED  BY <2>1 DEF ICW3
<1>3. /\ e \in pic_t /\ Same(pics[c], e) /\ SameLines(pics[c], e) /\ SameService(pics[c], e)
      /\ e.frozen = pics[c].frozen
  BY ZenonT(60), <1>1, <1>2 DEF pic_t, Same, SameLines, SameService
<1>4. ~pics[c].int_pending
  BY <1>1, <1>2 DEF Decided
<1> HIDE DEF e
<1>5. Proper(c, e)
  BY <1>1, <1>3, SameProper DEF Proper, Ordered
<1> QED
  BY Zenon, <1>1, <1>2, <1>3, <1>4, <1>5, QuietChip

\* The fourth word ends the sequence: the decision is stale, the output still low.
LEMMA ICW4Inv ==
    ASSUME IInv, NEW c \in Chips, NEW aeoi \in BOOLEAN, ICW4(c, aeoi)
    PROVE  IInv'
<1> DEFINE e == [pics[c] EXCEPT !.aeoi = aeoi, !.i86 = TRUE, !.state = "NONE"]
           p == [pics EXCEPT ![c] = e]
<1>1. /\ pics \in [Chips -> pic_t] /\ pics[c] \in pic_t /\ Decided(pics[c]) /\ Untouched
      /\ Proper(c, pics[c])
  BY GuestStart DEF ICW4, GuestUses, Untouched
<1>2. /\ pics' = p /\ pics[c].state = "ICW4"
      /\ stale' = TRUE /\ reported' = reported
  <2>1. [pics EXCEPT ![c].aeoi = aeoi, ![c].i86 = TRUE, ![c].state = "NONE"] = [pics EXCEPT ![c] = e]
    BY Zenon, <1>1
  <2> QED  BY <2>1 DEF ICW4
<1>3. /\ e \in pic_t /\ e.int_pending = pics[c].int_pending /\ e.frozen = pics[c].frozen
      /\ e.interrupt = pics[c].interrupt /\ e.icw3 = pics[c].icw3
      /\ SameLines(pics[c], e) /\ SameService(pics[c], e)
  BY Zenon, <1>1 DEF pic_t, SameLines, SameService
<1>4. ~e.int_pending
  BY <1>1, <1>2, <1>3 DEF Decided
<1> HIDE DEF e
<1>5. Proper(c, e)
  BY <1>1, <1>3, SameProper DEF Proper, Ordered
<1>6. /\ Rest' /\ p \in [Chips -> pic_t] /\ p[c] = e /\ \A x \in Chips : x # c => p[x] = pics[x]
      /\ \A x \in Chips : Wired(x, p[x], irq_state', forgotten', pinned') /\ Ordered(p[x])
  BY Zenon, <1>1, <1>3, <1>5, ProperChips
<1> HIDE DEF p
<1>7. \A x \in Chips : /\ pics'[x].int_pending = pics[x].int_pending
                       /\ pics'[x].frozen = pics[x].frozen
                       /\ pics'[x].interrupt = pics[x].interrupt
                       /\ pics'[x].icw3 = pics[x].icw3
                       /\ Decided(pics'[x]) /\ (OrderKept => Above(pics'[x]))
  BY Zenon, <1>2, <1>3, <1>4, <1>6 DEF IInv, Decided, Above
<1>8. TypeOK' /\ PendingCurrent'
  BY Zenon, <1>2, <1>6 DEF IInv, TypeOK, PendingCurrent, Rest
<1>9. SlaveBacksCascade' /\ IntrReported'
  BY Zenon, <1>2, <1>7 DEF IInv, SlaveBacksCascade, IntrReported, Chips
<1>10. Settled'
  BY DEF Settled, ICW4, GuestUses
<1> QED
  BY Zenon, <1>2, <1>6, <1>7, <1>8, <1>9, <1>10 DEF IInv

\* A write to the mask register leaves the lines masked that a device has taken over.
LEMMA OCW1Inv ==
    ASSUME IInv, NEW c \in Chips, NEW mask \in Masks, OCW1(c, mask)
    PROVE  IInv'
<1> DEFINE imr == mask \cup PinnedOf(c)
           e == [pics[c] EXCEPT !.imr = imr]
<1>1. /\ pics \in [Chips -> pic_t] /\ pics[c] \in pic_t /\ Untouched
      /\ Proper(c, pics[c]) /\ (OrderKept => Above(pics[c]))
  BY GuestStart DEF OCW1, Untouched
<1>2. imr \in SUBSET Inputs /\ \A i \in Inputs : IrqOf(c, i) \in pinned => i \in imr
  BY PicAssumption DEF PinnedOf
<1>3. pic_notify([pics EXCEPT ![c] = e])
  BY <1>1 DEF OCW1
<1> HIDE DEF imr
<1>4. /\ e \in pic_t /\ SameOutput(pics[c], e) /\ SameService(pics[c], e) /\ e.imr = imr
      /\ e.irr = pics[c].irr /\ e.elcr = pics[c].elcr /\ e.lines = pics[c].lines
  BY Zenon, <1>1, <1>2 DEF pic_t, SameOutput, SameService
<1> HIDE DEF e
<1>5. Proper(c, e)
  <2>1. Wired(c, e, irq_state, forgotten, pinned)
    BY Zenon, <1>1, <1>2, <1>4 DEF Proper, Wired, LineOK
  <2>2. Ordered(e)
    BY <1>1, <1>4, SameOrdered DEF Proper, Ordered, SameOutput
  <2> QED  BY <2>1, <2>2 DEF Proper
<1>6. OrderKept => Above(e)
  BY Zenon, <1>1, <1>4, SameAbove DEF SameOutput, SameService
<1> QED
  BY Zenon, <1>1, <1>3, <1>4, <1>5, <1>6, NotifyChip

\* Non-specific end of interrupt. Where the order of priorities is rotated while the
\* master is frozen, OrderKept does not hold.
LEMMA NonSpecificEOIInv ==
    ASSUME IInv, NEW c \in Chips, NEW rotate \in BOOLEAN, NonSpecificEOI(c, rotate)
    PROVE  IInv'
<1> DEFINE irq == pic_non_specific_find(pics[c])
           e == EndService(pics[c], irq)
           r == IF rotate THEN RotateAfter(e, irq) ELSE e
<1>1. /\ pics \in [Chips -> pic_t] /\ pics[c] \in pic_t /\ Untouched
      /\ Proper(c, pics[c]) /\ (OrderKept => Above(pics[c]))
  BY Zenon, GuestStart DEF NonSpecificEOI, Untouched
<1>2. /\ irq \in Inputs
      /\ Nested(pics[c]) => Nested(e) /\ Nested(RotateAfter(e, irq))
  <2>1. irq # NoIrq
    BY DEF NonSpecificEOI
  <2> QED  BY Zenon, <2>1, <1>1, NonSpecificNested
<1>3. pic_notify([pics EXCEPT ![c] = r]) /\ (rotate => "rotate" \in Uses)
  BY DEF NonSpecificEOI
<1> HIDE DEF irq
<1>4. /\ e \in pic_t /\ SameOutput(pics[c], e) /\ SameLines(pics[c], e)
      /\ e.isr = pics[c].isr \ {irq} /\ e.priority = pics[c].priority
  BY Zenon, <1>1, EndServiceType
<1> HIDE DEF e
<1>5. /\ RotateAfter(e, irq) \in pic_t /\ SameOutput(e, RotateAfter(e, irq))
      /\ SameLines(e, RotateAfter(e, irq))
  BY Zenon, <1>2, <1>4, RotateType
<1>6. /\ r \in pic_t /\ SameOutput(pics[c], r) /\ SameLines(pics[c], r)
      /\ Nested(pics[c]) => Nested(r)
      /\ ~rotate => r = e
  BY Zenon, <1>2, <1>4, <1>5 DEF SameOutput, SameLines
<1> HIDE DEF r
<1>7. Proper(c, r)
  <2>1. Wired(c, r, irq_state, forgotten, pinned)
    BY Zenon, <1>1, <1>6, SameWired DEF Proper, SameLines
  <2>2. Ordered(r)
    BY <1>1, <1>6 DEF Proper, Ordered, SameOutput
  <2> QED  BY <2>1, <2>2 DEF Proper
<1>8. ASSUME pics.pic.frozen, OrderKept PROVE Above(r)
  <2>1. "poll" \in Uses
    BY <1>8 DEF IInv, Ordered, Chips
  <2>2. r = e
    BY <2>1, <1>3, <1>6, <1>8 DEF OrderKept
  <2> QED  BY Zenon, <2>2, <1>1, <1>4, <1>8, SameAbove DEF SameOutput
<1> QED
  BY Zenon, <1>1, <1>3, <1>6, <1>7, <1>8, NotifyChip

\* Specific end of interrupt.
LEMMA SpecificEOIInv ==
    ASSUME IInv, NEW c \in Chips, NEW i \in Inputs, SpecificEOI(c, i)
    PROVE  IInv'
<1> DEFINE e == EndService(pics[c], i)
<1>1. /\ pics \in [Chips -> pic_t] /\ pics[c] \in pic_t /\ Untouched
      /\ Proper(c, pics[c]) /\ (OrderKept => Above(pics[c]))
  BY GuestStart DEF SpecificEOI, Untouched
<1>2. pic_notify([pics EXCEPT ![c] = e])
  BY DEF SpecificEOI
<1>3. /\ e \in pic_t /\ SameOutput(pics[c], e) /\ SameLines(pics[c], e)
      /\ e.isr = pics[c].isr \ {i} /\ e.priority = pics[c].priority
      /\ Nested(pics[c]) => Nested(e)
  BY Zenon, <1>1, EndServiceType, EndServiceNested
<1> HIDE DEF e
<1>4. Proper(c, e)
  <2>1. Wired(c, e, irq_state, forgotten, pinned)
    BY Zenon, <1>1, <1>3, SameWired DEF Proper, SameLines
  <2>2. Ordered(e)
    BY Zenon, <1>1, <1>3 DEF Proper, Ordered, SameOutput
  <2> QED  BY <2>1, <2>2 DEF Proper
<1>5. OrderKept => Above(e)
  BY <1>1, <1>3, SameAbove DEF SameOutput
<1> QED
  BY Zenon, <1>1, <1>2, <1>3, <1>4, <1>5, NotifyChip

\* The guest sets the order of priorities.
LEMMA SetPriorityInv ==
    ASSUME IInv, NEW c \in Chips, NEW i \in Inputs, NEW eoi \in BOOLEAN, SetPriority(c, i, eoi)
    PROVE  IInv'
<1> DEFINE d == IF eoi THEN EndService(pics[c], i) ELSE pics[c]
           r == RotateAfter(d, i)
           e == [r EXCEPT !.nest = <<>>]
<1>1. /\ pics \in [Chips -> pic_t] /\ pics[c] \in pic_t /\ Untouched
      /\ Proper(c, pics[c]) /\ "setpriority" \in Uses
  BY GuestStart DEF SetPriority, GuestUses, Untouched
<1>2. pic_notify([pics EXCEPT ![c] = e])
  BY DEF SetPriority
<1>3. d \in pic_t /\ SameOutput(pics[c], d) /\ SameLines(pics[c], d)
  BY ZenonT(60), <1>1, EndServiceType DEF SameOutput, SameLines
<1> HIDE DEF d
<1>4. r \in pic_t /\ SameOutput(d, r) /\ SameLines(d, r)
  BY Zenon, <1>3, RotateType
<1> HIDE DEF r
<1>5. e \in pic_t /\ SameOutput(pics[c], e) /\ SameLines(pics[c], e) /\ e.nest = <<>>
  <2>1. <<>> \in Seq(Inputs)
    OBVIOUS
  <2> QED  BY ZenonT(60), <1>3, <1>4, <2>1 DEF pic_t, SameOutput, SameLines
<1> HIDE DEF e
<1>6. Proper(c, e)
  <2>1. Wired(c, e, irq_state, forgotten, pinned)
    BY Zenon, <1>1, <1>5, SameWired DEF Proper, SameLines
  <2>2. Ordered(e)
    BY Zenon, <1>1, <1>5, EmptyNested DEF Proper, Ordered, SameOutput
  <2> QED  BY <2>1, <2>2 DEF Proper
<1>7. ~(pics.pic.frozen /\ OrderKept)
  BY <1>1 DEF IInv, Ordered, OrderKept, Chips
<1> QED
  BY Zenon, <1>1, <1>2, <1>5, <1>6, <1>7, NotifyChip

\* Rotation in automatic mode is switched.
LEMMA AutoRotateInv ==
    ASSUME IInv, NEW c \in Chips, NEW on \in BOOLEAN, AutoRotate(c, on)
    PROVE  IInv'
<1> DEFINE e == [pics[c] EXCEPT !.auto_eoi_rotate = on]
<1>1. /\ pics \in [Chips -> pic_t] /\ pics[c] \in pic_t /\ Untouched
      /\ Proper(c, pics[c])
  BY GuestStart DEF AutoRotate, GuestUses, Untouched
<1>2. Quiet([pics EXCEPT ![c] = e])
  BY <1>1 DEF AutoRotate
<1>3. /\ e \in pic_t /\ Same(pics[c], e) /\ SameLines(pics[c], e) /\ SameService(pics[c], e)
      /\ e.icw3 = pics[c].icw3 /\ e.frozen = pics[c].frozen
  BY Zenon, <1>1 DEF pic_t, Same, SameLines, SameService
<1> HIDE DEF e
<1>4. Proper(c, e)
  BY <1>1, <1>3, SameProper DEF Proper, Ordered
<1> QED
  BY Zenon, <1>1, <1>2, <1>3, <1>4, QuietChip

\* OCW3 changes no decision, and may freeze the controller.
LEMMA OCW3Inv ==
    ASSUME IInv, NEW c \in Chips, NEW poll \in BOOLEAN, NEW smm \in BOOLEAN, OCW3(c, poll, smm)
    PROVE  IInv'
<1> DEFINE e == [pics[c] EXCEPT !.poll = poll, !.frozen = @ \/ poll, !.special_mask_mode = smm]
<1>1. /\ pics \in [Chips -> pic_t] /\ pics[c] \in pic_t /\ Untouched
      /\ Proper(c, pics[c]) /\ (poll => "poll" \in Uses)
  BY GuestStart DEF OCW3, GuestUses, Untouched
<1>2. Quiet([pics EXCEPT ![c] = e])
  <2>1. [pics EXCEPT ![c].poll = poll, ![c].frozen = @ \/ poll, ![c].special_mask_mode = smm]
           = [pics EXCEPT ![c] = e]
    BY Zenon, <1>1 DEF pic_t
  <2> QED  BY <2>1 DEF OCW3
<1>3. /\ e \in pic_t /\ Same(pics[c], e) /\ SameLines(pics[c], e) /\ SameService(pics[c], e)
      /\ e.icw3 = pics[c].icw3
      /\ e.frozen <=> pics[c].frozen \/ poll
  <2> DEFINE fr == pics[c].frozen \/ poll
  <2>1. /\ fr \in BOOLEAN
        /\ e = [pics[c] EXCEPT !.poll = poll, !.frozen = fr, !.special_mask_mode = smm]
    BY <1>1 DEF pic_t
  <2> HIDE DEF fr, e
  <2>2. e \in pic_t
    BY <1>1, <2>1, ZenonT(60) DEF pic_t
  <2> USE DEF e
  <2>3. /\ Same(pics[c], e) /\ SameLines(pics[c], e) /\ SameService(pics[c], e)
        /\ e.icw3 = pics[c].icw3
        /\ e.frozen <=> pics[c].frozen \/ poll
    BY <1>1 DEF pic_t, Same, SameLines, SameService
  <2> QED  BY <2>2, <2>3
<1> HIDE DEF e
<1>4. Proper(c, e)
  BY <1>1, <1>3, SameProper DEF Proper, Ordered
<1> QED
  BY Zenon, <1>1, <1>2, <1>3, <1>4, QuietChip

\* A poll takes the pending interrupt, or thaws a controller that has none.
LEMMA PollReadInv ==
    ASSUME IInv, NEW c \in Chips, PollRead(c)
    PROVE  IInv'
<1> DEFINE d == [pics[c] EXCEPT !.frozen = FALSE, !.poll = FALSE]
           a == pic_acknowledge(d)
           e == [a EXCEPT !.int_pending = FALSE]
           p == [pics EXCEPT ![c] = e]
<1>1. /\ pics \in [Chips -> pic_t] /\ pics[c] \in pic_t /\ Untouched
      /\ Proper(c, pics[c])
      /\ \A x \in Chips : Decided(pics[x]) /\ (OrderKept => Above(pics[x]))
  BY GuestStart DEF PollRead, GuestUses, Untouched
<1>2. /\ d \in pic_t /\ Same(pics[c], d) /\ SameLines(pics[c], d) /\ SameService(pics[c], d)
      /\ ~d.frozen
  BY ZenonT(60), <1>1 DEF pic_t, Same, SameLines, SameService
<1>3. IF d.int_pending THEN pic_notify(p) ELSE Quiet([pics EXCEPT ![c] = d])
  BY DEF PollRead
<1> HIDE DEF d
<1>4. Proper(c, d)
  BY <1>1, <1>2, SameProper
<1>5. CASE d.int_pending
  <2>1. d.interrupt \in Inputs
    BY ZenonT(60), <1>1, <1>2, <1>5 DEF Decided, Same
  <2>2. a \in pic_t /\ ~a.frozen /\ Wired(c, a, irq_state, forgotten, pinned)
    BY Zenon, <1>2, <1>4, <2>1, AcknowledgeType, AcknowledgeWired DEF SameOutput, Proper
  <2>3. OrderKept => Nested(a)
    <3> SUFFICES ASSUME OrderKept PROVE Nested(a)
      OBVIOUS
    <3>1. Above(d)
      BY Zenon, <1>1, <1>2, SameAbove DEF Same
    <3>2. \A k \in d.isr : Rank(d, d.interrupt) < Rank(d, k)
      BY <3>1, <1>5 DEF Above
    <3>3. Nested(d)
      BY <1>4 DEF Proper, Ordered
    <3> QED  BY Zenon, <2>1, <3>2, <3>3, <1>2, AcknowledgeNested
  <2> HIDE DEF a
  <2>4. /\ e \in pic_t /\ ~e.frozen /\ ~e.int_pending /\ SameLines(a, e) /\ SameService(a, e)
    BY Zenon, <2>2 DEF pic_t, SameLines, SameService
  <2> HIDE DEF e
  <2>5. Proper(c, e)
    <3>1. Wired(c, e, irq_state, forgotten, pinned)
      BY Zenon, <2>2, <2>4, SameWired DEF SameLines
    <3>2. Ordered(e)
      BY <2>3, <2>4, SameNested DEF Ordered
    <3> QED  BY <3>1, <3>2 DEF Proper
  <2>6. /\ Rest' /\ p \in [Chips -> pic_t] /\ p[c] = e /\ \A x \in Chips : x # c => p[x] = pics[x]
        /\ \A x \in Chips : Wired(x, p[x], irq_state', forgotten', pinned') /\ Ordered(p[x])
    BY <1>1, <2>4, <2>5, ProperChips
  <2> HIDE DEF p
  <2>7. \A x \in Chips : Decided(p[x]) /\ (OrderKept => Above(p[x]))
    BY Zenon, <1>1, <2>4, <2>6 DEF Decided, Above
  <2>8. p.pic.frozen => p.pic.int_pending = reported
    BY Zenon, <2>4, <2>6 DEF IInv, IntrReported, Chips
  <2>9. reported \in BOOLEAN
    BY DEF IInv, TypeOK
  <2> QED  BY Zenon, <1>3, <1>5, <2>6, <2>7, <2>8, <2>9, NotifyInv
<1>6. CASE ~d.int_pending
  <2>1. ~pics[c].int_pending
    BY Zenon, <1>2, <1>6 DEF Same
  <2> QED  BY ZenonT(60), <2>1, <1>1, <1>2, <1>3, <1>4, <1>6, QuietChip
<1> QED
  BY <1>5, <1>6

\* The edge/level register decides nothing by itself; the inputs whose mode it changes
\* are at rest.
LEMMA WriteElcrInv ==
    ASSUME IInv, NEW c \in Chips, NEW level \in SUBSET LevelInputs(c), WriteElcr(c, level)
    PROVE  IInv'
<1> DEFINE e == [pics[c] EXCEPT !.elcr = level]
<1>1. /\ pics \in [Chips -> pic_t] /\ pics[c] \in pic_t /\ Untouched
      /\ Proper(c, pics[c])
  BY GuestStart DEF WriteElcr, GuestUses, Untouched
<1>2. /\ Quiet([pics EXCEPT ![c] = e])
      /\ \A i \in LevelInputs(c) : (i \in level) # (i \in pics[c].elcr) =>
             i \notin pics[c].irr /\ pics[c].lines[i] = 0
  BY <1>1 DEF WriteElcr
<1>3. level \in SUBSET Inputs
  BY DEF LevelInputs
<1>4. /\ e \in pic_t /\ Same(pics[c], e) /\ SameService(pics[c], e)
      /\ e.icw3 = pics[c].icw3 /\ e.frozen = pics[c].frozen /\ e.elcr = level
      /\ e.irr = pics[c].irr /\ e.imr = pics[c].imr /\ e.lines = pics[c].lines
  BY ZenonT(60), <1>1, <1>3 DEF pic_t, Same, SameService
<1> HIDE DEF e
<1>5. Proper(c, e)
  <2>1. \A i \in LevelInputs(c) : i \in level => (i \in pics[c].irr <=> pics[c].lines[i] > 0)
    <3> SUFFICES ASSUME NEW i \in LevelInputs(c), i \in level
                 PROVE  i \in pics[c].irr <=> pics[c].lines[i] > 0
      OBVIOUS
    <3>1. CASE i \in pics[c].elcr
      BY Zenon, <3>1, <1>1 DEF Proper, Wired, LineOK
    <3>2. CASE i \notin pics[c].elcr
      BY <3>2, <1>2
    <3> QED  BY <3>1, <3>2
  <2>2. Wired(c, e, irq_state, forgotten, pinned)
    BY Zenon, <2>1, <1>1, <1>4 DEF Proper, Wired, LineOK
  <2>3. Ordered(e)
    BY Zenon, <1>1, <1>4, SameOrdered DEF Proper, Ordered
  <2> QED  BY <2>2, <2>3 DEF Proper
<1> QED
  BY Zenon, <1>1, <1>2, <1>4, <1>5, QuietChip

-----------------------------------------------------------------------------
(* The CPU and the machine.                                                *)

\* An acknowledge with the automatic end of interrupt, if that is on.
LEMMA AcknowledgeProper ==
    ASSUME NEW c, NEW d \in pic_t, d.interrupt \in Inputs,
           Wired(c, d, irq_state, forgotten, pinned)
    PROVE  LET t == pic_auto_non_specific_eoi(pic_acknowledge(d))
           IN  /\ t \in pic_t /\ t.frozen = d.frozen
               /\ Wired(c, t, irq_state, forgotten, pinned)
               /\ Nested(d) /\ (\A k \in d.isr : Rank(d, d.interrupt) < Rank(d, k)) => Nested(t)
<1> DEFINE a == pic_acknowledge(d)
           t == pic_auto_non_specific_eoi(a)
<1>1. a \in pic_t /\ a.frozen = d.frozen /\ Wired(c, a, irq_state, forgotten, pinned)
  BY Zenon, AcknowledgeType, AcknowledgeWired DEF SameOutput
<1>2. Nested(d) /\ (\A k \in d.isr : Rank(d, d.interrupt) < Rank(d, k)) => Nested(a)
  BY Zenon, AcknowledgeNested
<1> HIDE DEF a
<1>3. t \in pic_t /\ SameOutput(a, t) /\ SameLines(a, t) /\ (Nested(a) => Nested(t))
  BY <1>1, AutoEoiType, AutoEoiNested
<1> HIDE DEF t
<1>4. Wired(c, t, irq_state, forgotten, pinned)
  BY Zenon, <1>1, <1>3, SameWired DEF SameLines
<1> QED
  BY Zenon, <1>1, <1>2, <1>3, <1>4 DEF SameOutput, a, t

\* Both acknowledge cycles.
LEMMA PicInterruptInv ==
    ASSUME IInv, PicInterrupt
    PROVE  IInv'
<1> DEFINE pending == pics.pic.int_pending
           m == IF pending THEN pics.pic ELSE [pics.pic EXCEPT !.interrupt = N - 1]
           s == pics.pic2
           slave_on == pending /\ m.interrupt \in m.icw3
           marked == slave_on /\ s.int_pending
           answers == marked /\ Cascade \in s.icw3
           m1 == pic_auto_non_specific_eoi(pic_acknowledge(m))
           t == pic_auto_non_specific_eoi(pic_acknowledge(s))
           spurious == [s EXCEPT !.int_pending = TRUE, !.interrupt = N - 1]
           s1 == IF answers THEN [t EXCEPT !.int_pending = FALSE]
                 ELSE IF slave_on /\ ~marked THEN spurious
                 ELSE s
           m2 == [m1 EXCEPT !.interrupt = NoIrq, !.int_pending = FALSE,
                            !.nest = IF pending THEN @ ELSE <<>>]
           s2 == IF marked THEN [s1 EXCEPT !.interrupt = NoIrq, !.frozen = FALSE] ELSE s1
           p == [pics EXCEPT !.pic = m2, !.pic2 = s2]
<1>1. /\ pics \in [Chips -> pic_t] /\ pics.pic \in pic_t /\ s \in pic_t
      /\ Decided(pics.pic) /\ Decided(s)
      /\ OrderKept => Above(pics.pic) /\ Above(s)
      /\ Proper("pic", pics.pic) /\ Proper("pic2", s)
      /\ reported \in BOOLEAN
  BY DEF IInv, TypeOK, Chips, Proper
<1>2. Rest' /\ irq_state' = irq_state /\ forgotten' = forgotten /\ pinned' = pinned
  BY DEF PicInterrupt, IInv, TypeOK, Rest
<1>3. pic_notify(p) /\ ~pics.pic.frozen
  BY DEF PicInterrupt
<1>4. N - 1 \in Inputs /\ NoIrq \in Inputs \cup {NoIrq} /\ <<>> \in Seq(Inputs)
  BY PicAssumption DEF Inputs
<1>5. /\ m \in pic_t /\ m.interrupt \in Inputs /\ ~m.frozen
      /\ SameLines(pics.pic, m) /\ (pending => m = pics.pic)
  <2>1. CASE pending
    BY <2>1, <1>1, <1>3 DEF Decided, SameLines
  <2>2. CASE ~pending
    BY ZenonT(60), <2>2, <1>1, <1>3, <1>4 DEF pic_t, SameLines
  <2> QED  BY <2>1, <2>2
<1> HIDE DEF m
<1>6. /\ m1 \in pic_t /\ ~m1.frozen /\ Wired("pic", m1, irq_state, forgotten, pinned)
      /\ OrderKept /\ pending => Nested(m1)
  <2>1. Wired("pic", m, irq_state, forgotten, pinned)
    BY <1>1, <1>5, SameWired DEF Proper, SameLines
  <2>2. OrderKept /\ pending => Nested(m) /\ \A k \in m.isr : Rank(m, m.interrupt) < Rank(m, k)
    BY <1>1, <1>5 DEF Proper, Ordered, Above
  <2> QED  BY Zenon, <2>1, <2>2, <1>5, AcknowledgeProper
<1> HIDE DEF m1
<1>7. /\ m2 \in pic_t /\ ~m2.frozen /\ SameLines(m1, m2)
      /\ m2.isr = m1.isr /\ m2.priority = m1.priority
      /\ m2.nest = IF pending THEN m1.nest ELSE <<>>
  BY ZenonT(60), <1>4, <1>6 DEF pic_t, SameLines
<1> HIDE DEF m2, pending
<1>8. Proper("pic", m2)
  <2>1. Wired("pic", m2, irq_state, forgotten, pinned)
    BY Zenon, <1>6, <1>7, SameWired DEF SameLines
  <2>2. CASE pending
    <3>1. SameService(m1, m2)
      BY <2>2, <1>7 DEF SameService
    <3>2. Ordered(m2)
      BY Zenon, <3>1, <2>2, <1>6, <1>7, SameNested DEF Ordered
    <3> QED  BY <3>2, <2>1 DEF Proper
  <2>3. CASE ~pending
    <3>1. Ordered(m2)
      BY Zenon, <2>3, <1>7, EmptyNested DEF Ordered
    <3> QED  BY <3>1, <2>1 DEF Proper
  <2> QED  BY <2>2, <2>3
<1>9. s.int_pending => /\ t \in pic_t /\ t.frozen = s.frozen
                       /\ Wired("pic2", t, irq_state, forgotten, pinned)
                       /\ OrderKept => Nested(t)
  <2> SUFFICES ASSUME s.int_pending
               PROVE  /\ t \in pic_t /\ t.frozen = s.frozen
                      /\ Wired("pic2", t, irq_state, forgotten, pinned)
                      /\ OrderKept => Nested(t)
    BY Zenon
  <2>1. s.interrupt \in Inputs
    BY <1>1 DEF Decided
  <2>2. OrderKept => Nested(s) /\ \A k \in s.isr : Rank(s, s.interrupt) < Rank(s, k)
    BY <1>1 DEF Proper, Ordered, Above
  <2>3. Wired("pic2", s, irq_state, forgotten, pinned)
    BY <1>1 DEF Proper
  <2> HIDE DEF s
  <2> QED  BY <1>1, <2>1, <2>2, <2>3, AcknowledgeProper
<1> HIDE DEF t, s
<1>10. s1 \in pic_t /\ Proper("pic2", s1)
  <2>1. CASE answers
    <3>1. s1 = [t EXCEPT !.int_pending = FALSE] /\ s.int_pending
      BY <2>1
    <3> HIDE DEF s1
    <3>2. s1 \in pic_t /\ SameLines(t, s1) /\ SameService(t, s1) /\ s1.frozen = s.frozen
      BY Zenon, <3>1, <1>9 DEF pic_t, SameLines, SameService
    <3>3. Wired("pic2", s1, irq_state, forgotten, pinned)
      BY Zenon, <3>1, <3>2, <1>9, SameWired DEF SameLines
    <3>4. Ordered(s1)
      BY <3>1, <3>2, <1>1, <1>9, SameNested DEF Ordered, Proper
    <3> QED  BY Zenon, <3>2, <3>3, <3>4 DEF Proper
  <2>2. CASE ~answers
    <3>1. /\ spurious \in pic_t /\ SameLines(s, spurious) /\ SameService(s, spurious)
          /\ spurious.frozen = s.frozen
      BY Zenon, <1>1, <1>4 DEF pic_t, SameLines, SameService
    <3> HIDE DEF spurious
    <3>2. Proper("pic2", spurious)
      BY <3>1, <1>1, SameProper DEF Proper, Ordered
    <3>3. s1 = spurious \/ s1 = s
      BY <2>2
    <3> HIDE DEF s1
    <3> QED  BY <3>1, <3>2, <3>3, <1>1
  <2> QED  BY <2>1, <2>2
<1> HIDE DEF s1, slave_on, answers, marked
<1>11. s2 \in pic_t /\ Proper("pic2", s2)
  <2> DEFINE f == [s1 EXCEPT !.interrupt = NoIrq, !.frozen = FALSE]
  <2>1. f \in pic_t /\ SameLines(s1, f) /\ SameService(s1, f) /\ ~f.frozen
    BY Zenon, <1>4, <1>10 DEF pic_t, SameLines, SameService
  <2>2. s2 = IF marked THEN f ELSE s1
    OBVIOUS
  <2> HIDE DEF f
  <2>3. Proper("pic2", f)
    BY <2>1, <1>10, SameProper
  <2> QED  BY <2>1, <2>2, <2>3, <1>10
<1> HIDE DEF s2
<1>12. p \in [Chips -> pic_t] /\ ~p.pic.frozen /\ p["pic"] = m2 /\ p["pic2"] = s2
  BY ZenonT(60), <1>1, <1>7, <1>11 DEF Chips
<1> HIDE DEF p
<1>13. \A x \in Chips : Wired(x, p[x], irq_state', forgotten', pinned') /\ Ordered(p[x])
  BY <1>2, <1>8, <1>11, <1>12 DEF Chips, Proper
<1> QED
  BY <1>1, <1>2, <1>3, <1>12, <1>13, NotifyInv

\* A controller after pic_reset().
LEMMA Reset0Type ==
    ASSUME NEW masked \in SUBSET Inputs
    PROVE  /\ Reset0(masked) \in pic_t
           /\ Reset0(masked).irr = {} /\ ~Reset0(masked).int_pending
           /\ Current(Reset0(masked)) /\ Decided(Reset0(masked))
           /\ Reset0(masked).elcr = {} /\ Reset0(masked).lines = [i \in Inputs |-> 0]
           /\ Reset0(masked).imr = masked
           /\ Reset0(masked).nest = <<>> /\ ~Reset0(masked).frozen
<1>1. 0 \in Inputs /\ <<>> \in Seq(Inputs) /\ [i \in Inputs |-> 0] \in [Inputs -> Nat]
  BY PicAssumption DEF Inputs
<1> QED
  BY Zenon, <1>1 DEF Reset0, pic_t, Current, Decided

\* A controller at rest agrees with sources of which none holds a line that is not
\* forgotten.
LEMMA RestWired ==
    ASSUME NEW c, NEW d, NEW st, NEW fg, NEW pn,
           d.elcr = {}, d.lines = [i \in Inputs |-> 0],
           \A s \in LevelSources : st[s] => Wire[s] \in fg,
           \A i \in Inputs : IrqOf(c, i) \in pn => i \in d.imr
    PROVE  Wired(c, d, st, fg, pn)
<1>1. ASSUME NEW i \in LevelInputs(c) PROVE LineOK(c, i, d, st, fg)
  <2>1. d.lines[i] = 0
    BY DEF LevelInputs
  <2>2. Cardinality(Holders(c, i, st)) \in Nat
    BY Zenon, HoldersFinite
  <2>3. IrqOf(c, i) \notin fg => Holders(c, i, st) = {}
    BY Zenon DEF Holders
  <2>4. IrqOf(c, i) \notin fg => Cardinality(Holders(c, i, st)) = 0
    BY Zenon, <2>3, FS_EmptySet
  <2>5. i \notin d.elcr
    OBVIOUS
  <2>6. d.lines[i] <= Cardinality(Holders(c, i, st))
    <3> DEFINE n == Cardinality(Holders(c, i, st))
    <3> HIDE DEF n
    <3>1. n \in Nat => 0 <= n
      OBVIOUS
    <3> QED  BY Zenon, <3>1, <2>1, <2>2 DEF n
  <2> QED  BY Zenon, <2>1, <2>4, <2>5, <2>6 DEF LineOK
<1> QED
  BY Zenon, <1>1 DEF Wired

\* pic_reset(), whichever devices still hold their lines.
LEMMA ResetInv ==
    ASSUME IInv, NEW kept \in SUBSET LevelSources, Reset(kept)
    PROVE  IInv'
<1>1. /\ pics' = [c \in Chips |-> Reset0(PinnedOf(c))]
      /\ irq_state' \in [LevelSources -> BOOLEAN] /\ forgotten' \subseteq Irqs
      /\ reported' = FALSE /\ stale' = FALSE /\ pinned' = pinned
  BY DEF Reset, IInv, TypeOK
<1>2. \A s \in LevelSources : irq_state'[s] => Wire[s] \in forgotten'
  BY ZenonT(60), PicAssumption DEF Reset
<1>3. \A c \in Chips : /\ pics'[c] \in pic_t /\ pics'[c].irr = {} /\ ~pics'[c].int_pending
                       /\ Current(pics'[c]) /\ Decided(pics'[c])
                       /\ Wired(c, pics'[c], irq_state', forgotten', pinned')
                       /\ Ordered(pics'[c]) /\ Above(pics'[c])
  <2> TAKE c \in Chips
  <2>1. PinnedOf(c) \in SUBSET Inputs /\ pics'[c] = Reset0(PinnedOf(c))
    BY <1>1 DEF PinnedOf
  <2>2. \A i \in Inputs : IrqOf(c, i) \in pinned' => i \in PinnedOf(c)
    BY <1>1 DEF PinnedOf
  <2>3. /\ pics'[c] \in pic_t /\ pics'[c].irr = {} /\ ~pics'[c].int_pending
        /\ Current(pics'[c]) /\ Decided(pics'[c])
        /\ pics'[c].elcr = {} /\ pics'[c].lines = [i \in Inputs |-> 0]
        /\ pics'[c].imr = PinnedOf(c) /\ pics'[c].nest = <<>> /\ ~pics'[c].frozen
    BY Zenon, <2>1, Reset0Type
  <2>4. Wired(c, pics'[c], irq_state', forgotten', pinned')
    BY Zenon, <2>2, <2>3, <1>2, RestWired
  <2>5. Ordered(pics'[c]) /\ Above(pics'[c])
    BY <2>3, EmptyNested DEF Ordered, Above
  <2> QED  BY Zenon, <2>3, <2>4, <2>5
<1>4. pics' \in [Chips -> pic_t] /\ "pic" \in Chips /\ "pic2" \in Chips
  BY Zenon, <1>1, <1>3 DEF Chips
<1>5. pics'["pic"].int_pending \in BOOLEAN /\ pics'["pic2"].int_pending \in BOOLEAN
  BY <1>4 DEF pic_t
<1>6. TypeOK'
  BY Zenon, <1>1, <1>4 DEF IInv, TypeOK
<1>7. PendingCurrent' /\ SlaveBacksCascade'
  <2>1. (Cascade \in pics'["pic"].irr) = pics'["pic2"].int_pending
    <3>1. ~ (Cascade \in pics'["pic"].irr) /\ ~pics'["pic2"].int_pending
      BY Zenon, <1>3, <1>4
    <3> QED  BY <3>1, <1>5
  <2>2. PendingCurrent'
    BY Zenon, <2>1, <1>3 DEF PendingCurrent
  <2>3. ~pics'["pic"].int_pending
    BY Zenon, <1>3, <1>4
  <2> QED  BY <2>2, <2>3 DEF SlaveBacksCascade
<1>8. IntrReported'
  BY ZenonT(60), <1>1, <1>3, <1>4, <1>5 DEF IntrReported
<1> QED
  BY Zenon, <1>1, <1>3, <1>6, <1>7, <1>8 DEF IInv, Settled

-----------------------------------------------------------------------------
\* The machine starts with the controllers reset, or as firmware leaves them.
LEMMA InitInv == Init => IInv
<1> SUFFICES ASSUME Init PROVE IInv
  OBVIOUS
<1>1. /\ irq_state = [s \in LevelSources |-> FALSE]
      /\ pinned = {} /\ forgotten = {} /\ reported = FALSE /\ stale = FALSE
  BY DEF Init
<1>2. \A c \in Chips : /\ pics[c] \in pic_t /\ pics[c].irr = {} /\ ~pics[c].int_pending
                       /\ Current(pics[c]) /\ Decided(pics[c])
                       /\ pics[c].elcr = {} /\ pics[c].lines = [i \in Inputs |-> 0]
                       /\ pics[c].nest = <<>> /\ ~pics[c].frozen
  <2> TAKE c \in Chips
  <2> DEFINE d == Reset0({})
  <2>1. /\ d \in pic_t /\ d.irr = {} /\ ~d.int_pending /\ Current(d) /\ Decided(d)
        /\ d.elcr = {} /\ d.lines = [i \in Inputs |-> 0] /\ d.nest = <<>> /\ ~d.frozen
    BY Zenon, Reset0Type
  <2> HIDE DEF d
  <2>2. CASE "init" \in Uses
    <3>1. pics[c] = d
      BY <2>2 DEF Init, d
    <3> QED  BY <2>1, <3>1
  <2>3. CASE "init" \notin Uses
    <3>1. PICK aeoi \in BOOLEAN : pics = Programmed(aeoi)
      BY <2>3 DEF Init
    <3> DEFINE e == [d EXCEPT !.icw3 = {Cascade}, !.i86 = TRUE, !.aeoi = aeoi /\ c = "pic"]
    <3>2. pics[c] = e
      BY Zenon, <3>1 DEF Programmed, d
    <3>3. /\ e \in pic_t /\ e.irr = {} /\ ~e.int_pending
          /\ e.elcr = {} /\ e.lines = d.lines /\ e.nest = <<>> /\ ~e.frozen
      BY ZenonT(60), <2>1 DEF pic_t
    <3> HIDE DEF e
    <3>4. Current(e) /\ Decided(e)
      BY Zenon, <3>3 DEF Current, Decided
    <3> QED  BY Zenon, <2>1, <3>2, <3>3, <3>4
  <2> QED  BY Zenon, <2>2, <2>3
<1>3. \A c \in Chips : /\ Wired(c, pics[c], irq_state, forgotten, pinned)
                       /\ Ordered(pics[c]) /\ Above(pics[c])
  <2> TAKE c \in Chips
  <2>1. Wired(c, pics[c], irq_state, forgotten, pinned)
    BY Zenon, <1>1, <1>2, RestWired
  <2> QED  BY Zenon, <2>1, <1>2, EmptyNested DEF Ordered, Above
<1>4. pics \in [Chips -> pic_t] /\ "pic" \in Chips /\ "pic2" \in Chips
  <2>1. pics = [c \in Chips |-> pics[c]]
    BY Zenon DEF Init, Programmed
  <2> QED  BY <1>2, <2>1 DEF Chips
<1>5. pics["pic"].int_pending \in BOOLEAN /\ pics["pic2"].int_pending \in BOOLEAN
  BY <1>4 DEF pic_t
<1>6. TypeOK
  BY Zenon, <1>1, <1>4 DEF TypeOK
<1>7. PendingCurrent /\ SlaveBacksCascade
  BY <1>2, <1>4, <1>5 DEF PendingCurrent, SlaveBacksCascade
<1>8. IntrReported /\ Settled
  BY Zenon, <1>1, <1>2, <1>4, <1>5 DEF IntrReported, Settled
<1> QED
  BY Zenon, <1>2, <1>3, <1>6, <1>7, <1>8 DEF IInv

\* Every step preserves the invariant.
LEMMA NextInv == ASSUME IInv, [Next]_vars PROVE IInv'
<1>1. CASE UNCHANGED vars
  BY Zenon, <1>1 DEF vars, IInv, TypeOK, PendingCurrent, SlaveBacksCascade, IntrReported, Settled
<1>2. ASSUME NEW c \in Chips, Guest(c) PROVE IInv'
  BY <1>2, ICW1Inv, ICW2Inv, ICW3Inv, ICW4Inv, OCW1Inv, NonSpecificEOIInv, SpecificEOIInv,
     SetPriorityInv, AutoRotateInv, OCW3Inv, PollReadInv, WriteElcrInv, Zenon DEF Guest
<1> QED
  BY <1>1, <1>2, EdgeInv, LevelInv, PinInv, PicInterruptInv, ResetInv, Zenon DEF Next

\* The inductive invariant holds in every reachable state.
THEOREM Invariance == Spec => []IInv
<1>1. IInv /\ [Next]_vars => IInv'
  BY NextInv
<1> QED
  BY InitInv, <1>1, PTL DEF Spec

\* Every register keeps its width, and the history its type.
THEOREM TypeCorrect == Spec => []TypeOK
<1>1. IInv => TypeOK
  BY DEF IInv
<1> QED
  BY Invariance, <1>1, PTL

\* No handler of pic.c leaves a decision behind that its registers contradict, but for
\* changes made while the master is frozen and the end of an initialisation.
THEOREM DecisionsCurrent == Spec => []PendingCurrent
<1>1. IInv => PendingCurrent
  BY DEF IInv
<1> QED
  BY Invariance, <1>1, PTL

\* The acknowledge cycle never finds the cascade input pending and the slave idle:
\* the case in which pic.c makes up a spurious slave interrupt is unreachable.
THEOREM CascadeBacked == Spec => []SlaveBacksCascade
<1>1. IInv => SlaveBacksCascade
  BY DEF IInv
<1> QED
  BY Invariance, <1>1, PTL

\* The I/O APIC is told of every change of the master's output.
THEOREM OutputReported == Spec => []IntrReported
<1>1. IInv => IntrReported
  BY DEF IInv
<1> QED
  BY Invariance, <1>1, PTL

\* A shared level-triggered line is requested exactly while a device holds it: no
\* sequence of raises and lowers by devices that share it, of acknowledges, polls,
\* initialisations and resets makes pic.c lose a device or count one twice.
THEOREM LevelsFollow == Spec => []LevelFollowsSources
<1>1. ASSUME IInv PROVE LevelFollowsSources
  <2> SUFFICES ASSUME NEW c \in Chips, NEW i \in LevelInputs(c)
               PROVE  LET holders == Asserting(c, i)
                          requested == i \in pics[c].irr
                      IN  /\ pics[c].lines[i] <= Cardinality(holders)
                          /\ i \in pics[c].elcr => (requested => holders # {})
                          /\ IrqOf(c, i) \notin forgotten =>
                               /\ pics[c].lines[i] = Cardinality(holders)
                               /\ i \in pics[c].elcr => (holders # {} => requested)
    BY Zenon DEF LevelFollowsSources
  <2> DEFINE H == Asserting(c, i)
  <2>1. H = Holders(c, i, irq_state)
    BY DEF Asserting, Holders
  <2>2. IsFiniteSet(H) /\ Cardinality(H) \in Nat
    BY <2>1, HoldersFinite
  <2>3. Cardinality(H) = 0 <=> H = {}
    BY <2>2, FS_EmptySet
  <2>4. LineOK(c, i, pics[c], irq_state, forgotten)
    BY Zenon, <1>1 DEF IInv, Wired
  <2>5. pics[c].lines[i] \in Nat
    BY <1>1 DEF IInv, TypeOK, pic_t, LevelInputs
  <2> HIDE DEF H
  <2>6. /\ i \in pics[c].elcr => (i \in pics[c].irr <=> pics[c].lines[i] > 0)
        /\ pics[c].lines[i] <= Cardinality(H)
        /\ IrqOf(c, i) \notin forgotten => pics[c].lines[i] = Cardinality(H)
    BY Zenon, <2>1, <2>4 DEF LineOK
  <2>7. pics[c].lines[i] > 0 => H # {}
    BY <2>2, <2>3, <2>5, <2>6
  <2>8. IrqOf(c, i) \notin forgotten /\ H # {} => pics[c].lines[i] > 0
    BY <2>2, <2>3, <2>5, <2>6
  <2> QED  BY Zenon, <2>6, <2>7, <2>8 DEF H
<1> QED
  BY Invariance, <1>1, PTL

\* In service, interrupts are nested in the order of priorities, so that the one a
\* non-specific end of interrupt finds is the one accepted last. A guest that polls
\* and also moves priorities is left out: while the poll has the master frozen the
\* pending interrupt is not resolved anew, and is then accepted below one in service.
THEOREM EoiEndsLatest == ASSUME OrderKept PROVE Spec => []NonSpecificEndsLatest
<1>1. ASSUME IInv PROVE NonSpecificEndsLatest
  <2> SUFFICES ASSUME NEW c \in Chips, pics[c].nest # <<>>, ~pics[c].special_mask_mode
               PROVE  pic_non_specific_find(pics[c]) = pics[c].nest[Len(pics[c].nest)]
    BY DEF NonSpecificEndsLatest
  <2>1. pics[c] \in pic_t /\ Nested(pics[c])
    BY Zenon, <1>1 DEF IInv, TypeOK, Ordered
  <2> QED  BY <2>1, LatestFirst
<1> QED
  BY Invariance, <1>1, PTL

\* What a device has taken over for its own controller is masked here, whatever the
\* guest writes to the mask register, as long as it does not initialise the
\* controller, which clears the mask.
LEMMA PinnedMasked ==
    ASSUME "init" \notin Uses, IInv, NEW c \in Chips, ~stale, pics[c].int_pending
    PROVE  IrqOf(c, pics[c].interrupt) \notin pinned
<1>1. pics[c] \in pic_t /\ Current(pics[c]) /\ Wired(c, pics[c], irq_state, forgotten, pinned)
  BY Zenon DEF IInv, TypeOK, PendingCurrent
<1>2. pics[c].interrupt \in Inputs /\ pics[c].interrupt \notin pics[c].imr
  BY Zenon, <1>1 DEF Current, pic_t
<1> QED
  BY Zenon, <1>1, <1>2 DEF Wired

\* Once priorities are resolved, no line that a device has taken over is delivered.
THEOREM PinnedHeldResolved ==
    ASSUME "init" \notin Uses PROVE Spec => [](stale \/ PinnedNotDelivered)
<1>1. IInv => stale \/ PinnedNotDelivered
  BY PinnedMasked DEF PinnedNotDelivered
<1> QED
  BY Invariance, <1>1, PTL

\* Where the guest does not poll either, no line that a device has taken over is ever
\* delivered. (A line taken over during a poll may be pending until the poll is over.)
THEOREM PinnedHeld ==
    ASSUME "init" \notin Uses, "poll" \notin Uses PROVE Spec => []PinnedNotDelivered
<1>1. IInv => PinnedNotDelivered
  BY PinnedMasked DEF PinnedNotDelivered, IInv, Settled
<1> QED
  BY Invariance, <1>1, PTL
=============================================================================
