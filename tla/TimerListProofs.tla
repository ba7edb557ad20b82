-------------------------- MODULE TimerListProofs ---------------------------
(***************************************************************************)
(* The structure of the list of TimerQueue, for any set of timers and      *)
(* whatever devices ask of them: a timer is linked, once, exactly when it  *)
(* is flagged enabled, and the list is never empty where timer_process()   *)
(* follows its head. Nothing here depends on the order of the deadlines,   *)
(* so that it holds of every way timer_on_auto() is called.                *)
(***************************************************************************)
EXTENDS TimerQueue, WellFoundedInduction, TLAPS

-----------------------------------------------------------------------------
(* Words and fractions.                                                    *)

\* A wrapped sum or difference of two stamps is a stamp.
LEMMA WrapType ==
    ASSUME NEW x \in Int, -M <= x, x < 2 * M
    PROVE  Wrap(x) \in Stamps
BY RangeAssumption DEF Wrap, M, Stamps

\* timer_advance_u64() adds 32:32 fixed-point numbers exactly: the carry test
\* "(frac_delay + timer->ts_frac) < frac_delay" is the carry of the sum.
LEMMA FixedPointSum ==
    ASSUME NEW f \in 0 .. Frac - 1, NEW g \in 0 .. Frac - 1
    PROVE  /\ FracSum(f, g) \in 0 .. Frac - 1
           /\ Carry(f, g) \in {0, 1}
           /\ Frac * Carry(f, g) + FracSum(f, g) = f + g
<1>1. CASE f + g >= Frac
  <2>1. FracSum(f, g) = f + g - Frac /\ Carry(f, g) = 1
    BY <1>1, RangeAssumption DEF FracSum, Carry
  <2> QED  BY <2>1, <1>1, RangeAssumption
<1>2. CASE f + g < Frac
  <2>1. FracSum(f, g) = f + g /\ Carry(f, g) = 0
    BY <1>2, RangeAssumption DEF FracSum, Carry
  <2> QED  BY <2>1, <1>2, RangeAssumption
<1> QED  BY <1>1, <1>2, RangeAssumption
-----------------------------------------------------------------------------
(* What linking and unlinking a timer does to the list.                    *)

Distinct(q) == \A i, j \in 1 .. Len(q) : q[i] = q[j] => i = j

\* Place() is the first position whose timer the new one is not later than.
LEMMA PlaceFirst ==
    ASSUME NEW q \in Seq(Timers), NEW s
    PROVE  /\ Place(q, s) \in 1 .. Len(q) + 1
           /\ \A i \in 1 .. Len(q) : i < Place(q, s) => ~LessThan(s, ts[q[i]])
           /\ Place(q, s) <= Len(q) => LessThan(s, ts[q[Place(q, s)]])
<1> DEFINE later == {i \in 1 .. Len(q) : LessThan(s, ts[q[i]])}
<1>0. Len(q) \in Nat  OBVIOUS
<1>1. CASE later = {}
  <2>1. Place(q, s) = Len(q) + 1  BY <1>1 DEF Place
  <2> QED  BY <2>1, <1>1, <1>0
<1>2. CASE later # {}
  <2>1. \E i \in later : \A j \in later : i <= j
    <3> DEFINE R == {p \in Nat \X Nat : p[1] < p[2]}
    <3>1. IsWellFoundedOn(R, Nat)
      BY Zenon, NatLessThanWellFounded DEF OpToRel
    <3>2. later \subseteq Nat
      BY <1>0
    <3>3. PICK i \in later : \A j \in later : ~(<<j, i>> \in R)
      <4> HIDE DEF R, later
      <4> QED  BY Zenon, <1>2, <3>1, <3>2, WFMin
    <3>4. i \in Nat /\ \A j \in later : j \in Nat /\ ~(j < i)
      <4> HIDE DEF later
      <4> QED  BY <3>2, <3>3
    <3> HIDE DEF later
    <3> QED  BY <3>2, <3>4
  <2>2. Place(q, s) = CHOOSE i \in later : \A j \in later : i <= j
    BY Zenon, <1>2 DEF Place
  <2>3. Place(q, s) \in later /\ \A j \in later : Place(q, s) <= j
    BY Zenon, <2>1, <2>2
  <2> QED  BY <2>3, <1>0
<1> QED  BY <1>1, <1>2

\* Linking t in at k gives a list with t added.
LEMMA LinkAtList ==
    ASSUME NEW q \in Seq(Timers), NEW t \in Timers, NEW k \in 1 .. Len(q) + 1
    PROVE  LET n == LinkAt(q, k, t)
           IN  /\ n \in Seq(Timers)
               /\ Len(n) = Len(q) + 1
               /\ n[k] = t
               /\ \A i \in 1 .. Len(q) : i < k => n[i] = q[i]
               /\ \A i \in 1 .. Len(q) : i >= k => n[i + 1] = q[i]
<1> DEFINE n == LinkAt(q, k, t)
<1>1. Len(q) \in Nat /\ \A i \in 1 .. Len(q) : q[i] \in Timers  OBVIOUS
<1>2. n \in [1 .. Len(q) + 1 -> Timers]
  <2> SUFFICES ASSUME NEW i \in 1 .. Len(q) + 1
               PROVE  (IF i < k THEN q[i] ELSE IF i = k THEN t ELSE q[i - 1]) \in Timers
    BY DEF LinkAt
  <2> QED  BY <1>1
<1>3. n \in Seq(Timers) /\ Len(n) = Len(q) + 1  BY <1>1, <1>2
<1>4. n[k] = t  BY DEF LinkAt
<1>5. \A i \in 1 .. Len(q) : i < k => n[i] = q[i]  BY <1>1 DEF LinkAt
<1>6. \A i \in 1 .. Len(q) : i >= k => n[i + 1] = q[i]  BY <1>1 DEF LinkAt
<1> QED  BY <1>3, <1>4, <1>5, <1>6

\* ... with t added to the set of linked timers, once.
LEMMA LinkAtLinked ==
    ASSUME NEW q \in Seq(Timers), NEW t \in Timers, NEW k \in 1 .. Len(q) + 1
    PROVE  /\ Linked(LinkAt(q, k, t)) = Linked(q) \cup {t}
           /\ Distinct(q) /\ t \notin Linked(q) => Distinct(LinkAt(q, k, t))
<1> DEFINE n == LinkAt(q, k, t)
<1>0. Len(q) \in Nat  OBVIOUS
<1>1. /\ n \in Seq(Timers) /\ Len(n) = Len(q) + 1 /\ n[k] = t
      /\ \A i \in 1 .. Len(q) : i < k => n[i] = q[i]
      /\ \A i \in 1 .. Len(q) : i >= k => n[i + 1] = q[i]
  BY LinkAtList
<1> HIDE DEF n
<1>2. \A i \in 1 .. Len(n) : n[i] = IF i < k THEN q[i] ELSE IF i = k THEN t ELSE q[i - 1]
  <2> TAKE i \in 1 .. Len(n)
  <2>1. CASE i < k  BY <2>1, <1>0, <1>1
  <2>2. CASE i = k  BY <2>2, <1>0, <1>1
  <2>3. CASE i > k
    <3>1. i - 1 \in 1 .. Len(q) /\ i - 1 >= k /\ (i - 1) + 1 = i  BY <2>3, <1>0, <1>1
    <3> QED  BY <3>1, <2>3, <1>1
  <2> QED  BY <2>1, <2>2, <2>3, <1>0, <1>1
<1>3. Linked(n) \subseteq Linked(q) \cup {t}
  <2> SUFFICES ASSUME NEW i \in 1 .. Len(n) PROVE n[i] \in Linked(q) \cup {t}
    BY DEF Linked
  <2>1. CASE i < k  BY <2>1, <1>0, <1>1, <1>2 DEF Linked
  <2>2. CASE i = k  BY <2>2, <1>0, <1>1
  <2>3. CASE i > k
    <3>1. i - 1 \in 1 .. Len(q) /\ n[i] = q[i - 1]  BY <2>3, <1>0, <1>1, <1>2
    <3> QED  BY <3>1 DEF Linked
  <2> QED  BY <2>1, <2>2, <2>3, <1>0, <1>1
<1>4. Linked(q) \cup {t} \subseteq Linked(n)
  <2>1. t \in Linked(n)  BY <1>0, <1>1 DEF Linked
  <2>2. ASSUME NEW i \in 1 .. Len(q) PROVE q[i] \in Linked(n)
    <3>1. CASE i < k  BY <3>1, <1>0, <1>1 DEF Linked
    <3>2. CASE i >= k
      <4>1. i + 1 \in 1 .. Len(n) /\ n[i + 1] = q[i]  BY <3>2, <1>0, <1>1
      <4> QED  BY <4>1 DEF Linked
    <3> QED  BY <3>1, <3>2, <1>0
  <2> QED  BY <2>1, <2>2 DEF Linked
<1>5. ASSUME Distinct(q), t \notin Linked(q) PROVE Distinct(n)
  <2> SUFFICES ASSUME NEW i \in 1 .. Len(n), NEW j \in 1 .. Len(n), n[i] = n[j]
               PROVE  i = j
    BY DEF Distinct
  <2>1. \A m \in 1 .. Len(q) : q[m] # t  BY <1>5 DEF Linked
  <2>2. \A m, l \in 1 .. Len(q) : q[m] = q[l] => m = l  BY <1>5 DEF Distinct
  <2>3. ASSUME NEW m \in 1 .. Len(n), m # k
        PROVE  \E a \in 1 .. Len(q) : n[m] = q[a] /\ m = (IF a < k THEN a ELSE a + 1)
    <3>1. CASE m < k  BY <3>1, <1>0, <1>1, <1>2
    <3>2. CASE m > k
      <4>1. m - 1 \in 1 .. Len(q) /\ n[m] = q[m - 1]  BY <3>2, <1>0, <1>1, <1>2
      <4> QED  BY <4>1, <3>2
    <3> QED  BY <3>1, <3>2, <2>3
  <2>4. CASE i # k /\ j # k
    <3>1. PICK a \in 1 .. Len(q) : n[i] = q[a] /\ i = (IF a < k THEN a ELSE a + 1)
      BY <2>3, <2>4
    <3>2. PICK b \in 1 .. Len(q) : n[j] = q[b] /\ j = (IF b < k THEN b ELSE b + 1)
      BY <2>3, <2>4
    <3> QED  BY Zenon, <3>1, <3>2, <2>2
  <2>5. CASE i = k /\ j # k  BY Zenon, <2>5, <2>3, <2>1, <1>1
  <2>6. CASE i # k /\ j = k  BY <2>6, <2>3, <2>1, <1>1
  <2> QED  BY <2>4, <2>5, <2>6
<1> QED  BY <1>3, <1>4, <1>5 DEF n

\* Removing t from a list of distinct timers that holds it.
LEMMA UnlinkList ==
    ASSUME NEW q \in Seq(Timers), NEW t \in Linked(q), Distinct(q)
    PROVE  LET n == Unlink(q, t)
           IN  /\ n \in Seq(Timers) /\ Len(n) = Len(q) - 1
               /\ Linked(n) = Linked(q) \ {t}
               /\ Distinct(n)
               /\ \A i, j \in 1 .. Len(n) : i < j =>
                      \E a, b \in 1 .. Len(q) : a < b /\ n[i] = q[a] /\ n[j] = q[b]
<1> DEFINE k == CHOOSE i \in 1 .. Len(q) : q[i] = t
           n == [i \in 1 .. Len(q) - 1 |-> IF i < k THEN q[i] ELSE q[i + 1]]
<1>0. Len(q) \in Nat /\ \A i \in 1 .. Len(q) : q[i] \in Timers  OBVIOUS
<1>1. k \in 1 .. Len(q) /\ q[k] = t
  <2>1. \E i \in 1 .. Len(q) : q[i] = t  BY DEF Linked
  <2> QED  BY <2>1
<1>2. Unlink(q, t) = n  BY DEF Unlink
<1> HIDE DEF k
<1>3. n \in Seq(Timers) /\ Len(n) = Len(q) - 1
  <2>1. n \in [1 .. Len(q) - 1 -> Timers]  BY <1>0, <1>1
  <2>2. Len(q) - 1 \in Nat  BY <1>0, <1>1
  <2> QED  BY <2>1, <2>2
<1>4. \A i \in 1 .. Len(n) : n[i] = IF i < k THEN q[i] ELSE q[i + 1]  BY Zenon, <1>3
<1> HIDE DEF n
<1>5. Linked(n) \subseteq Linked(q) \ {t}
  <2> SUFFICES ASSUME NEW i \in 1 .. Len(n) PROVE n[i] \in Linked(q) /\ n[i] # t
    BY DEF Linked
  <2>1. PICK a \in 1 .. Len(q) : a # k /\ n[i] = q[a]
    <3>1. i \in 1 .. Len(q) /\ i + 1 \in 1 .. Len(q)  BY <1>0, <1>3
    <3>2. CASE i < k  BY <3>1, <3>2, <1>1, <1>4
    <3>3. CASE ~(i < k)  BY <3>1, <3>3, <1>1, <1>4
    <3> QED  BY Zenon, <3>2, <3>3
  <2>2. q[a] # q[k]  BY <2>1, <1>1 DEF Distinct
  <2> QED  BY <2>1, <2>2, <1>1 DEF Linked
<1>6. Linked(q) \ {t} \subseteq Linked(n)
  <2> SUFFICES ASSUME NEW a \in 1 .. Len(q), q[a] # t PROVE q[a] \in Linked(n)
    BY DEF Linked
  <2>1. CASE a < k  BY <2>1, <1>0, <1>1, <1>3, <1>4 DEF Linked
  <2>2. CASE a > k
    <3>1. a - 1 \in 1 .. Len(n) /\ n[a - 1] = q[a]  BY <2>2, <1>0, <1>1, <1>3, <1>4
    <3> QED  BY <3>1 DEF Linked
  <2> QED  BY <2>1, <2>2, <1>0, <1>1
<1>7. Distinct(n)
  <2> SUFFICES ASSUME NEW i \in 1 .. Len(n), NEW j \in 1 .. Len(n), n[i] = n[j]
               PROVE  i = j
    BY DEF Distinct
  <2>1. \A m, l \in 1 .. Len(q) : q[m] = q[l] => m = l  BY DEF Distinct
  <2> QED  BY <2>1, <1>0, <1>1, <1>3, <1>4
<1>8. ASSUME NEW i \in 1 .. Len(n), NEW j \in 1 .. Len(n), i < j
      PROVE  \E a, b \in 1 .. Len(q) : a < b /\ n[i] = q[a] /\ n[j] = q[b]
  <2>1. PICK a \in 1 .. Len(q) : n[i] = q[a] /\ a = (IF i < k THEN i ELSE i + 1)
    BY SMTT(60), <1>0, <1>1, <1>3, <1>4
  <2>2. PICK b \in 1 .. Len(q) : n[j] = q[b] /\ b = (IF j < k THEN j ELSE j + 1)
    BY <1>0, <1>1, <1>3, <1>4
  <2> QED  BY <2>1, <2>2, <1>8, <1>1
<1> QED  BY <1>2, <1>3, <1>5, <1>6, <1>7, <1>8

\* Removing the head, as timer_remove_head() does.
LEMMA TailList ==
    ASSUME NEW q \in Seq(Timers), q # <<>>, Distinct(q)
    PROVE  LET n == Tail(q)
           IN  /\ q[1] \in Timers /\ Len(q) \in Nat \ {0}
               /\ n \in Seq(Timers) /\ Len(n) = Len(q) - 1
               /\ Linked(n) = Linked(q) \ {q[1]}
               /\ Distinct(n)
               /\ \A i, j \in 1 .. Len(n) : i < j =>
                      \E a, b \in 1 .. Len(q) : a < b /\ n[i] = q[a] /\ n[j] = q[b]
<1> DEFINE n == Tail(q)
<1>1. Len(q) \in Nat \ {0} /\ \A i \in 1 .. Len(q) : q[i] \in Timers  OBVIOUS
<1>2. /\ n \in Seq(Timers) /\ Len(n) = Len(q) - 1
      /\ \A i \in 1 .. Len(n) : n[i] = q[i + 1]
  OBVIOUS
<1> HIDE DEF n
<1>3. \A m, l \in 1 .. Len(q) : q[m] = q[l] => m = l  BY DEF Distinct
<1>4. Linked(n) = Linked(q) \ {q[1]}
  <2>1. ASSUME NEW i \in 1 .. Len(n) PROVE n[i] \in Linked(q) \ {q[1]}
    <3>1. i + 1 \in 1 .. Len(q) /\ i + 1 # 1 /\ 1 \in 1 .. Len(q)  BY <1>1, <1>2
    <3> QED  BY <3>1, <1>2, <1>3 DEF Linked
  <2>2. ASSUME NEW a \in 1 .. Len(q), q[a] # q[1] PROVE q[a] \in Linked(n)
    <3>1. a - 1 \in 1 .. Len(n) /\ n[a - 1] = q[a]  BY <2>2, <1>1, <1>2
    <3> QED  BY <3>1 DEF Linked
  <2> QED  BY <2>1, <2>2 DEF Linked
<1>5. Distinct(n)
  BY <1>1, <1>2, <1>3 DEF Distinct
<1>6. ASSUME NEW i \in 1 .. Len(n), NEW j \in 1 .. Len(n), i < j
      PROVE  \E a, b \in 1 .. Len(q) : a < b /\ n[i] = q[a] /\ n[j] = q[b]
  <2>1. i + 1 \in 1 .. Len(q) /\ j + 1 \in 1 .. Len(q) /\ i + 1 < j + 1  BY <1>1, <1>2, <1>6
  <2> QED  BY <2>1, <1>2
<1>7. q[1] \in Timers  BY <1>1
<1> QED  BY <1>1, <1>2, <1>4, <1>5, <1>6, <1>7 DEF n


-----------------------------------------------------------------------------
(* The inductive invariant.                                                *)

\* A list q of distinct timers, those flagged in en.
Links(q, en) == q \in Seq(Timers) /\ Linked(q) = en /\ Distinct(q)

\* Who is in the list, and which callback runs, in each phase of the thread.
PhaseInv ==
    /\ pc = "off" => queue = <<>>
    /\ pc # "off" => timer_inited
    /\ pc # "callback" => cb = NoTimer /\ in_callback = {}
    /\ pc \in {"run", "process"} => Permanent \subseteq enabled
    /\ pc = "callback" => /\ cb \in Timers
                          /\ in_callback \subseteq {cb}
                          /\ Permanent \ {cb} \subseteq enabled
    /\ pc # "fault"

\* A timer flagged as having more parts to come has some of its period left.
SplitInv == \A t \in split : period[t] > 0

ListInv == TypeOK /\ Links(queue, enabled) /\ PhaseInv /\ SplitInv

\* Taking a timer out of the list, as timer_disable() does.
LEMMA UnlinkLinks ==
    ASSUME NEW q, NEW en, Links(q, en), NEW t
    PROVE  Links(IF t \in en THEN Unlink(q, t) ELSE q, en \ {t})
<1>1. q \in Seq(Timers) /\ Linked(q) = en /\ Distinct(q)
  BY DEF Links
<1>2. CASE t \in en
  <2>1. Unlink(q, t) \in Seq(Timers) /\ Linked(Unlink(q, t)) = en \ {t} /\ Distinct(Unlink(q, t))
    BY Zenon, <1>1, <1>2, UnlinkList
  <2> QED  BY Zenon, <1>2, <2>1 DEF Links
<1>3. CASE t \notin en
  <2>1. en \ {t} = en
    BY <1>3
  <2> QED  BY Zenon, <1>3, <2>1
<1> QED  BY Zenon, <1>2, <1>3

\* The head of a list that is not empty, and the list without it.
LEMMA TailLinks ==
    ASSUME NEW q, NEW en, Links(q, en), q # <<>>
    PROVE  q[1] \in Timers /\ q[1] \in en /\ Links(Tail(q), en \ {q[1]})
<1>1. q \in Seq(Timers) /\ Linked(q) = en /\ Distinct(q)
  BY DEF Links
<1>2. /\ q[1] \in Timers /\ Len(q) \in Nat \ {0}
      /\ Tail(q) \in Seq(Timers) /\ Linked(Tail(q)) = en \ {q[1]} /\ Distinct(Tail(q))
  BY Zenon, <1>1, TailList
<1>3. q[1] \in en
  <2>1. 1 \in 1 .. Len(q)
    BY <1>2
  <2> QED  BY Zenon, <1>1, <2>1 DEF Linked
<1> QED  BY Zenon, <1>2, <1>3 DEF Links

\* timer_enable() links the timer, once, wherever it finds its place.
LEMMA EnableLinks ==
    ASSUME TypeOK, NEW q, NEW en, Links(q, en), NEW t \in Timers,
           NEW s \in Stamps, NEW f \in 0 .. Frac - 1, timer_enable(q, en, t, s, f)
    PROVE  /\ Links(queue, enabled)'
           /\ enabled' = en \cup {t}
           /\ in_callback' = in_callback \ (en \cap {t})
           /\ ts' \in [Timers -> Stamps] /\ frac' \in [Timers -> 0 .. Frac - 1]
           /\ timer_target' \in Stamps
<1> DEFINE rest == IF t \in en THEN Unlink(q, t) ELSE q
           k == Place(rest, s)
<1>1. Links(rest, en \ {t})
  BY Zenon, UnlinkLinks
<1>2. /\ queue' = LinkAt(rest, k, t) /\ enabled' = en \cup {t}
      /\ in_callback' = in_callback \ (en \cap {t})
      /\ ts' = [ts EXCEPT ![t] = s] /\ frac' = [frac EXCEPT ![t] = f]
      /\ timer_target' = IF k = 1 THEN s ELSE timer_target
  BY Zenon DEF timer_enable
<1> HIDE DEF rest
<1>3. rest \in Seq(Timers) /\ Distinct(rest) /\ Linked(rest) = en \ {t} /\ t \notin Linked(rest)
  BY Zenon, <1>1 DEF Links
<1>4. k \in 1 .. Len(rest) + 1
  BY Zenon, <1>3, PlaceFirst
<1> HIDE DEF k
<1>5. LinkAt(rest, k, t) \in Seq(Timers)
  BY Zenon, <1>3, <1>4, LinkAtList
<1>6. Linked(LinkAt(rest, k, t)) = Linked(rest) \cup {t} /\ Distinct(LinkAt(rest, k, t))
  BY Zenon, <1>3, <1>4, LinkAtLinked
<1>7. (en \ {t}) \cup {t} = en \cup {t}
  OBVIOUS
<1>8. Links(queue', enabled')
  BY Zenon, <1>2, <1>3, <1>5, <1>6, <1>7 DEF Links
<1>9. ts' \in [Timers -> Stamps] /\ frac' \in [Timers -> 0 .. Frac - 1] /\ timer_target' \in Stamps
  BY Zenon, <1>2 DEF TypeOK
<1> QED  BY Zenon, <1>2, <1>8, <1>9 DEF Links, Linked, Distinct

\* With both permanent timers in it the list holds at least two timers.
LEMMA TwoLinked ==
    ASSUME Links(queue, enabled), Permanent \subseteq enabled
    PROVE  Len(queue) \in Nat /\ Len(queue) >= 2 /\ Len(queue) # 1 /\ queue # <<>>
<1>1. PICK i \in 1 .. Len(queue) : queue[i] = MidiPoll
  BY DEF Links, Linked, Permanent
<1>2. PICK j \in 1 .. Len(queue) : queue[j] = SoundPoll
  BY DEF Links, Linked, Permanent
<1>3. i # j  BY <1>1, <1>2, TimersAssumption
<1>4. Len(queue) \in Nat  BY DEF Links
<1>5. queue # <<>>  BY <1>4
<1> DEFINE n == Len(queue)
<1>6. n \in Nat /\ i \in 1 .. n /\ j \in 1 .. n  BY <1>4
<1> HIDE DEF n
<1>7. n >= 2 /\ n # 1  BY <1>3, <1>6
<1> QED  BY <1>4, <1>5, <1>7 DEF n

-----------------------------------------------------------------------------
(* What the timer functions store are words.                               *)

\* Zero is a stamp and a fraction.
LEMMA ZeroTypes == 0 \in Stamps /\ 0 \in 0 .. Frac - 1
BY RangeAssumption DEF Stamps, M

\* timer_set_delay_u64() and timer_advance_u64() store a word and a fraction.
LEMMA StampTypes ==
    ASSUME TypeOK, NEW t \in Timers, NEW d \in Delay
    PROVE  /\ Wrap(tsc + d.int) \in Stamps /\ d.frac \in 0 .. Frac - 1
           /\ Wrap(ts[t] + d.int + Carry(frac[t], d.frac)) \in Stamps
           /\ FracSum(frac[t], d.frac) \in 0 .. Frac - 1
<1>1. d.int \in 0 .. MaxDelay - 1 /\ d.frac \in 0 .. Frac - 1  BY DEF Delay
<1>2. tsc \in 0 .. M - 1 /\ ts[t] \in 0 .. M - 1 /\ frac[t] \in 0 .. Frac - 1
  BY DEF TypeOK, Stamps
<1>3. M \in Nat /\ MaxDelay \in Nat /\ MaxDelay <= M
  BY RangeAssumption DEF M
<1>4. Carry(frac[t], d.frac) \in {0, 1} /\ FracSum(frac[t], d.frac) \in 0 .. Frac - 1
  BY Zenon, <1>1, <1>2, FixedPointSum
<1> DEFINE c == Carry(frac[t], d.frac)
           a == ts[t]
           n == d.int
           x == tsc + n
           y == a + n + c
<1>5. c \in {0, 1} /\ a \in 0 .. M - 1 /\ n \in 0 .. MaxDelay - 1
  BY Zenon, <1>1, <1>2, <1>4
<1> HIDE DEF c, a, n
<1>6. x \in Int /\ -M <= x /\ x < 2 * M /\ y \in Int /\ -M <= y /\ y < 2 * M
  BY <1>2, <1>3, <1>5
<1> HIDE DEF x, y
<1>7. Wrap(x) \in Stamps /\ Wrap(y) \in Stamps
  BY Zenon, <1>6, WrapType
<1> QED  BY Zenon, <1>1, <1>4, <1>7 DEF x, y, a, n, c

\* timer_advance_ex() is one timer_enable(), whatever part of the period it arms, and
\* keeps the part it leaves.
LEMMA AdvanceExLinks ==
    ASSUME TypeOK, SplitInv, NEW q, NEW en, NEW t \in BigTimers, NEW p \in Nat \ {0},
           NEW start \in BOOLEAN, timer_advance_ex(q, en, t, p, start)
    PROVE  /\ \E s \in Stamps, f \in 0 .. Frac - 1 : timer_enable(q, en, t, s, f)
           /\ period' \in [Timers -> Nat]
           /\ split' \subseteq BigTimers
           /\ SplitInv'
<1> DEFINE m == IF p > MAX_USEC THEN MAX_USEC ELSE p
           d == [int |-> m * TIMER_USEC, frac |-> 0]
<1>1. timer_do_period(q, en, t, m, start)  BY Zenon DEF timer_advance_ex
<1>2. m \in 1 .. MAX_USEC  BY RangeAssumption
<1>3. d \in Delay
  <2>1. m * TIMER_USEC \in 1 .. MaxDelay - 1  BY <1>2, RangeAssumption
  <2> DEFINE x == m * TIMER_USEC
  <2>2. x \in 0 .. MaxDelay - 1  BY <2>1
  <2> HIDE DEF x
  <2>3. [int |-> x, frac |-> 0] \in Delay  BY <2>2, ZeroTypes DEF Delay
  <2> QED  BY Zenon, <2>3 DEF x
<1>4. t \in Timers /\ MAX_USEC \in Nat  BY RangeAssumption DEF Timers
<1>5. \E s \in Stamps, f \in 0 .. Frac - 1 : timer_enable(q, en, t, s, f)
  <2>1. \/ timer_set_delay_u64(q, en, t, d)
        \/ timer_advance_u64(q, en, t, d)
    BY Zenon, <1>1 DEF timer_do_period
  <2> HIDE DEF d
  <2> QED  BY Zenon, <2>1, <1>3, <1>4, StampTypes DEF timer_set_delay_u64, timer_advance_u64
<1>6. CASE p > MAX_USEC
  <2>1. period' = [period EXCEPT ![t] = p - MAX_USEC] /\ split' = split \cup {t}
    BY Zenon, <1>6 DEF timer_advance_ex
  <2>2. p - MAX_USEC \in Nat /\ p - MAX_USEC > 0  BY <1>4, <1>6
  <2> QED  BY <2>1, <2>2, <1>4, <1>5 DEF TypeOK, SplitInv
<1>7. CASE ~(p > MAX_USEC)
  <2>1. period' = [period EXCEPT ![t] = 0] /\ split' = split \ {t}
    BY Zenon, <1>7 DEF timer_advance_ex
  <2> QED  BY <2>1, <1>4, <1>5 DEF TypeOK, SplitInv
<1> QED  BY Zenon, <1>6, <1>7

-----------------------------------------------------------------------------
(* Steps that preserve the invariant.                                      *)

\* timer_enable(t) is called on the machine's list.
Enables(t) == \E s \in Stamps, f \in 0 .. Frac - 1 : timer_enable(queue, enabled, t, s, f)

\* Arming a timer, while the CPU executes or in a callback, keeps the structure.
LEMMA EnableStep ==
    ASSUME ListInv, pc \in {"run", "callback"}, NEW t \in Timers, Enables(t),
           UNCHANGED <<tsc, timer_inited, pc, cb>>,
           split' \subseteq BigTimers, period' \in [Timers -> Nat],
           due' \in [Timers -> Stamps], SplitInv'
    PROVE  ListInv'
<1>1. TypeOK /\ Links(queue, enabled) /\ PhaseInv  BY Zenon DEF ListInv
<1>2. /\ Links(queue, enabled)' /\ enabled' = enabled \cup {t}
      /\ in_callback' = in_callback \ (enabled \cap {t})
      /\ ts' \in [Timers -> Stamps] /\ frac' \in [Timers -> 0 .. Frac - 1]
      /\ timer_target' \in Stamps
  BY Zenon, <1>1, EnableLinks DEF Enables
<1>3. TypeOK'
  BY Zenon, <1>1, <1>2 DEF TypeOK, Links
<1>4. PhaseInv'
  BY Zenon, <1>1, <1>2 DEF PhaseInv
<1> QED  BY Zenon, <1>2, <1>3, <1>4 DEF ListInv

\* Taking a timer that is not permanent off the list keeps the structure.
LEMMA DisableStep ==
    ASSUME ListInv, pc \in {"run", "callback"}, NEW t \in Timers \ Permanent,
           queue' = (IF t \in enabled THEN Unlink(queue, t) ELSE queue),
           enabled' = enabled \ {t}, in_callback' \subseteq in_callback,
           split' \subseteq split,
           period' \in [Timers -> Nat], SplitInv', due' \in [Timers -> Stamps],
           UNCHANGED <<tsc, timer_target, timer_inited, ts, frac, pc, cb>>
    PROVE  ListInv'
<1>1. TypeOK /\ Links(queue, enabled) /\ PhaseInv  BY Zenon DEF ListInv
<1>2. Links(queue', enabled')
  BY Zenon, <1>1, UnlinkLinks
<1>3. Links(queue, enabled)'
  BY Zenon, <1>2 DEF Links, Linked, Distinct
<1>4. TypeOK'
  BY Zenon, <1>1, <1>2 DEF TypeOK, Links
<1>5. PhaseInv'
  BY <1>1 DEF PhaseInv
<1> QED  BY Zenon, <1>3, <1>4, <1>5 DEF ListInv

\* The structure holds before timer_init().
LEMMA InitList == Init => ListInv
<1> SUFFICES ASSUME Init PROVE ListInv  OBVIOUS
<1>1. queue \in Seq(Timers) /\ Len(queue) = 0  BY DEF Init
<1>2. TypeOK  BY Zenon, <1>1, ZeroTypes DEF TypeOK, Init
<1>3. Links(queue, enabled)  BY <1>1 DEF Links, Linked, Distinct, Init
<1>4. PhaseInv /\ SplitInv  BY DEF PhaseInv, SplitInv, Init
<1> QED  BY <1>2, <1>3, <1>4 DEF ListInv

\* A step that leaves the timers as they are keeps the structure.
LEMMA SameTimers ==
    ASSUME ListInv, TypeOK', PhaseInv', UNCHANGED <<queue, enabled, split, period>>
    PROVE  ListInv'
<1>1. Links(queue, enabled)'
  BY Zenon DEF ListInv, Links, Linked, Distinct
<1>2. SplitInv'
  BY Zenon DEF ListInv, SplitInv
<1> QED  BY Zenon, <1>1, <1>2 DEF ListInv

\* timer_init() and the start of the two permanent timers establish the structure.
LEMMA PowerOnList == ASSUME ListInv, PowerOn PROVE ListInv'
<1>0. MidiPoll \in Timers /\ SoundPoll \in Timers /\ MidiPoll # SoundPoll
  BY TimersAssumption DEF Timers, Permanent
<1>1. queue' \in Seq(Timers) /\ Len(queue') = 2 /\ queue'[1] = SoundPoll /\ queue'[2] = MidiPoll
  BY <1>0 DEF PowerOn
<1>2. TypeOK'
  BY <1>1, ZeroTypes DEF ListInv, TypeOK, Permanent, Timers, PowerOn
<1>3. Links(queue, enabled)'
  <2>1. Linked(queue)' = enabled'  BY <1>1 DEF Linked, Permanent, PowerOn
  <2>2. Distinct(queue)'  BY <1>0, <1>1 DEF Distinct
  <2> QED  BY Zenon, <1>1, <2>1, <2>2 DEF Links
<1>4. PhaseInv'  BY DEF ListInv, PhaseInv, PowerOn
<1>5. SplitInv'  BY DEF SplitInv, PowerOn
<1> QED  BY Zenon, <1>2, <1>3, <1>4, <1>5 DEF ListInv

\* timer_close() empties the list and the set of enabled timers together.
LEMMA PowerOffList == ASSUME ListInv, PowerOff PROVE ListInv'
<1>1. TypeOK /\ Links(queue, enabled) /\ PhaseInv /\ SplitInv  BY Zenon DEF ListInv
<1>2. queue' \in Seq(Timers) /\ Len(queue') = 0  BY DEF PowerOff
<1>3. enabled' = {}  BY Zenon, <1>1 DEF Links, PowerOff
<1>4. period' \in [Timers -> Nat] /\ SplitInv'
  BY Zenon, <1>1 DEF TypeOK, SplitInv, Timers, PowerOff
<1>5. TypeOK'
  BY Zenon, <1>1, <1>2, <1>3, <1>4, ZeroTypes DEF TypeOK, PowerOff
<1>6. Links(queue, enabled)'
  BY <1>2, <1>3 DEF Links, Linked, Distinct
<1>7. PhaseInv'  BY <1>1 DEF PhaseInv, PowerOff
<1> QED  BY Zenon, <1>4, <1>5, <1>6, <1>7 DEF ListInv

\* timer_process() may be entered from a device at any time.
LEMMA DeviceProcessesList == ASSUME ListInv, DeviceProcesses PROVE ListInv'
<1>1. TypeOK'  BY Zenon DEF ListInv, DeviceProcesses, TypeOK
<1>2. PhaseInv'  BY Zenon DEF ListInv, DeviceProcesses, PhaseInv
<1> QED  BY Zenon, <1>1, <1>2, SameTimers DEF DeviceProcesses

\* Executing an instruction leaves the list alone.
LEMMA CpuStepList == ASSUME ListInv, NEW n \in 1 .. MaxStep, CpuStep(n) PROVE ListInv'
<1>1. tsc' \in Stamps
  <2>1. tsc + n \in Int /\ -M <= tsc + n /\ tsc + n < 2 * M
    BY RangeAssumption DEF ListInv, TypeOK, Stamps, M
  <2> QED  BY Zenon, <2>1, WrapType DEF CpuStep
<1>2. pc' \in {"run", "process"}  BY Zenon DEF CpuStep
<1>3. TypeOK'  BY Zenon, <1>1, <1>2 DEF ListInv, CpuStep, TypeOK
<1>4. PhaseInv'  BY Zenon, <1>2 DEF ListInv, CpuStep, PhaseInv
<1> QED  BY Zenon, <1>3, <1>4, SameTimers DEF CpuStep

\* Starting a callback: the list keeps at least one of the permanent timers.
LEMMA CallBackList == ASSUME ListInv, CallBack PROVE ListInv'
<1>1. TypeOK /\ Links(queue, enabled) /\ SplitInv  BY Zenon DEF ListInv
<1>2. Permanent \subseteq enabled /\ in_callback = {} /\ timer_inited
  BY Zenon DEF ListInv, PhaseInv, CallBack
<1>3. Len(queue) \in Nat /\ Len(queue) # 1 /\ queue # <<>>
  BY Zenon, <1>1, <1>2, TwoLinked
<1> DEFINE h == queue[1]
<1>4. Links(Tail(queue), enabled \ {h}) /\ h \in enabled /\ h \in Timers
  BY Zenon, <1>1, <1>3, TailLinks
<1>5. pc' = "callback" /\ cb' = h /\ in_callback' = {h}
  BY <1>2, <1>3 DEF AfterRemoveHead, CallBack
<1>6. Links(queue, enabled)'
  BY Zenon, <1>4 DEF CallBack, Links, Linked, Distinct
<1>7. TypeOK'
  BY Zenon, <1>1, <1>4, <1>5, <1>6, ZeroTypes DEF CallBack, TypeOK, Links, Forget
<1>8. PhaseInv'
  BY Zenon, <1>2, <1>4, <1>5 DEF CallBack, PhaseInv
<1>9. SplitInv'
  BY Zenon, <1>1 DEF CallBack, SplitInv
<1> QED  BY Zenon, <1>6, <1>7, <1>8, <1>9 DEF ListInv

\* Arming the next part of a long period: the head is taken off and linked again.
LEMMA NextPartList == ASSUME ListInv, NextPart PROVE ListInv'
<1>1. TypeOK /\ Links(queue, enabled) /\ SplitInv  BY Zenon DEF ListInv
<1>2. Permanent \subseteq enabled /\ in_callback = {} /\ timer_inited /\ cb = NoTimer
  BY Zenon DEF ListInv, PhaseInv, NextPart
<1>3. Len(queue) \in Nat /\ Len(queue) # 1 /\ queue # <<>>
  BY Zenon, <1>1, <1>2, TwoLinked
<1> DEFINE h == queue[1]
<1>4. Links(Tail(queue), enabled \ {h}) /\ h \in enabled /\ h \in Timers
  BY Zenon, <1>1, <1>3, TailLinks
<1>5. /\ h \in split /\ timer_advance_ex(Tail(queue), enabled \ {h}, h, period[h], FALSE)
      /\ UNCHANGED <<tsc, timer_inited, cb, due>>
  BY Zenon DEF NextPart
<1>6. pc' = "process"
  BY <1>3 DEF NextPart, AfterRemoveHead
<1> HIDE DEF h
<1>7. h \in BigTimers /\ period[h] \in Nat \ {0}
  <2>1. h \in BigTimers /\ period[h] \in Nat /\ period[h] > 0
    BY Zenon, <1>1, <1>4, <1>5 DEF TypeOK, SplitInv
  <2> QED  BY <2>1
<1>8. /\ \E s \in Stamps, f \in 0 .. Frac - 1 :
             timer_enable(Tail(queue), enabled \ {h}, h, s, f)
      /\ period' \in [Timers -> Nat] /\ split' \subseteq BigTimers /\ SplitInv'
  BY Zenon, <1>1, <1>5, <1>7, AdvanceExLinks
<1>9. /\ Links(queue, enabled)' /\ enabled' = (enabled \ {h}) \cup {h}
      /\ in_callback' = in_callback \ ((enabled \ {h}) \cap {h})
      /\ ts' \in [Timers -> Stamps] /\ frac' \in [Timers -> 0 .. Frac - 1]
      /\ timer_target' \in Stamps
  BY Zenon, <1>1, <1>4, <1>8, EnableLinks
<1>10. enabled' = enabled /\ in_callback' = {}
  BY Zenon, <1>2, <1>4, <1>9
<1>11. TypeOK'
  BY Zenon, <1>1, <1>2, <1>5, <1>6, <1>8, <1>9, <1>10 DEF TypeOK, Links
<1>12. PhaseInv'
  BY Zenon, <1>2, <1>5, <1>6, <1>10 DEF PhaseInv
<1> QED  BY Zenon, <1>8, <1>9, <1>11, <1>12 DEF ListInv

\* The return from a callback: a permanent timer has been armed again by then.
LEMMA CallbackReturnsList == ASSUME ListInv, CallbackReturns PROVE ListInv'
<1>1. Permanent \subseteq enabled /\ in_callback' = {}
  BY Zenon DEF ListInv, PhaseInv, CallbackReturns
<1>2. TypeOK'
  BY Zenon, <1>1 DEF ListInv, CallbackReturns, TypeOK
<1>3. PhaseInv'
  BY Zenon, <1>1 DEF ListInv, CallbackReturns, PhaseInv
<1> QED  BY Zenon, <1>2, <1>3, SameTimers DEF CallbackReturns

\* Processing ends with a head whose deadline can be read.
LEMMA ProcessEndsList == ASSUME ListInv, ProcessEnds PROVE ListInv'
<1>1. TypeOK /\ Links(queue, enabled) /\ PhaseInv  BY Zenon DEF ListInv
<1>2. Permanent \subseteq enabled  BY Zenon, <1>1 DEF PhaseInv, ProcessEnds
<1>3. queue # <<>>  BY Zenon, <1>1, <1>2, TwoLinked
<1>4. pc' = "run" /\ timer_target' = ts[queue[1]]  BY Zenon, <1>3 DEF ProcessEnds
<1>5. queue[1] \in Timers  BY Zenon, <1>1, <1>3, TailLinks
<1>6. TypeOK'  BY Zenon, <1>1, <1>4, <1>5 DEF TypeOK, ProcessEnds
<1>7. PhaseInv'  BY Zenon, <1>1, <1>2, <1>4 DEF PhaseInv, ProcessEnds
<1> QED  BY Zenon, <1>6, <1>7, SameTimers DEF ProcessEnds

\* A step that leaves the periods alone keeps what is known of them.
LEMMA SamePeriods ==
    ASSUME ListInv, UNCHANGED <<split, period>>
    PROVE  split' \subseteq BigTimers /\ period' \in [Timers -> Nat] /\ SplitInv'
BY Zenon DEF ListInv, TypeOK, SplitInv

\* A permanent timer is armed again by its own callback.
LEMMA PollAdvancesList == ASSUME ListInv, PollAdvances PROVE ListInv'
<1>1. TypeOK /\ cb \in Timers /\ cb \in Permanent
  BY Zenon DEF ListInv, PhaseInv, PollAdvances
<1>2. PollDelay[cb] \in Delay  BY Zenon, <1>1, RangeAssumption
<1>3. Enables(cb)
  BY Zenon, <1>1, <1>2, StampTypes DEF PollAdvances, timer_advance_u64, Enables
<1>4. /\ pc \in {"run", "callback"} /\ due' \in [Timers -> Stamps]
      /\ UNCHANGED <<tsc, timer_inited, pc, cb>> /\ UNCHANGED <<split, period>>
  BY Zenon, <1>1 DEF PollAdvances, TypeOK
<1> QED  BY Zenon, <1>1, <1>3, <1>4, SamePeriods, EnableStep

\* A device arms its timer, from now on.
LEMMA SetDelayList ==
    ASSUME ListInv, NEW t \in Devices, NEW d \in Delays, SetDelay(t, d)
    PROVE  ListInv'
<1>1. TypeOK /\ t \in Timers /\ d \in Delay  BY Zenon, RangeAssumption DEF ListInv, Timers
<1>2. Enables(t)
  BY Zenon, <1>1, StampTypes DEF SetDelay, timer_set_delay_u64, Enables
<1>3. /\ pc \in {"run", "callback"} /\ due' \in [Timers -> Stamps]
      /\ UNCHANGED <<tsc, timer_inited, pc, cb>> /\ UNCHANGED <<split, period>>
  BY Zenon, <1>1 DEF SetDelay, DeviceRuns, TypeOK
<1> QED  BY Zenon, <1>1, <1>2, <1>3, SamePeriods, EnableStep

\* A device's callback resumes its timer.
LEMMA AdvanceList == ASSUME ListInv, NEW d \in Delays, Advance(d) PROVE ListInv'
<1>1. TypeOK /\ cb \in Timers /\ d \in Delay
  BY Zenon, RangeAssumption DEF ListInv, PhaseInv, Advance
<1>2. Enables(cb)
  BY Zenon, <1>1, StampTypes DEF Advance, timer_advance_u64, Enables
<1>3. /\ pc \in {"run", "callback"} /\ due' \in [Timers -> Stamps]
      /\ UNCHANGED <<tsc, timer_inited, pc, cb>> /\ UNCHANGED <<split, period>>
  BY Zenon, <1>1 DEF Advance, TypeOK
<1> QED  BY Zenon, <1>1, <1>2, <1>3, SamePeriods, EnableStep

\* timer_disable() unlinks the timer and clears its flag.
LEMMA DisableList ==
    ASSUME ListInv, NEW t \in Devices \cup BigTimers, Disable(t)
    PROVE  ListInv'
<1>1. TypeOK /\ timer_inited /\ pc \in {"run", "callback"}
  BY DEF ListInv, PhaseInv, DeviceRuns, Disable
<1>2. t \in Timers \ Permanent  BY TimersAssumption DEF Timers
<1>3. /\ queue' = (IF t \in enabled THEN Unlink(queue, t) ELSE queue)
      /\ enabled' = enabled \ {t} /\ in_callback' \subseteq in_callback
  BY Zenon, <1>1 DEF timer_disable, Disable
<1>4. due' \in [Timers -> Stamps]
  BY Zenon, <1>1, ZeroTypes DEF TypeOK, Forget, Disable
<1>5. /\ UNCHANGED <<split, period>>
      /\ UNCHANGED <<tsc, timer_target, timer_inited, ts, frac, pc, cb>>
  BY Zenon DEF Disable
<1>6. split' \subseteq split  BY Zenon, <1>5
<1>7. period' \in [Timers -> Nat] /\ SplitInv'  BY Zenon, <1>5, SamePeriods
<1> QED  BY Zenon, <1>1, <1>2, <1>3, <1>4, <1>5, <1>6, <1>7, DisableStep

\* timer_stop() does, too, and forgets the rest of the period.
LEMMA StopList == ASSUME ListInv, NEW t \in BigTimers, Stop(t) PROVE ListInv'
<1>1. TypeOK /\ SplitInv /\ pc \in {"run", "callback"}  BY Zenon DEF ListInv, DeviceRuns, Stop
<1>2. t \in Timers \ Permanent  BY TimersAssumption DEF Timers
<1>3. due' \in [Timers -> Stamps]  BY Zenon, <1>1, ZeroTypes DEF TypeOK, Forget, Stop
<1>4. SplitInv' /\ period' \in [Timers -> Nat]
  BY <1>1, <1>2 DEF SplitInv, TypeOK, Stop
<1>5. /\ queue' = (IF t \in enabled THEN Unlink(queue, t) ELSE queue)
      /\ enabled' = enabled \ {t} /\ in_callback' \subseteq in_callback
      /\ split' \subseteq split
      /\ UNCHANGED <<tsc, timer_target, timer_inited, ts, frac, pc, cb>>
  BY Zenon DEF Stop
<1> QED  BY Zenon, <1>1, <1>2, <1>3, <1>4, <1>5, DisableStep

\* timer_on_auto() arms the timer, also one whose period is still running.
LEMMA OnAutoList ==
    ASSUME ListInv, NEW t \in BigTimers, NEW p \in Periods, OnAuto(t, p)
    PROVE  ListInv'
<1>1. TypeOK /\ SplitInv /\ t \in Timers /\ p \in Nat \ {0}
  BY Zenon, RangeAssumption DEF ListInv, Timers
<1> DEFINE start == period[t] <= 0 /\ t \notin in_callback
<1>2. start \in BOOLEAN /\ timer_advance_ex(queue, enabled, t, p, start)
  BY Zenon DEF OnAuto
<1> HIDE DEF start
<1>3. /\ Enables(t)
      /\ period' \in [Timers -> Nat] /\ split' \subseteq BigTimers /\ SplitInv'
  BY Zenon, <1>1, <1>2, AdvanceExLinks DEF Enables
<1>4. due' \in [Timers -> Stamps]
  <2> DEFINE base == IF t \in in_callback THEN ts[t] ELSE tsc
             c == p * TIMER_USEC
  <2>1. base \in Stamps  BY Zenon, <1>1 DEF TypeOK
  <2>2. c \in Nat /\ c < M  BY <1>1, RangeAssumption
  <2>3. due' = [due EXCEPT ![t] = Wrap(base + c)]  BY Zenon DEF OnAuto
  <2> HIDE DEF base, c
  <2>4. base + c \in Int /\ -M <= base + c /\ base + c < 2 * M
    BY <2>1, <2>2, RangeAssumption DEF Stamps, M
  <2>5. Wrap(base + c) \in Stamps  BY Zenon, <2>4, WrapType
  <2> QED  BY Zenon, <2>3, <2>5, <1>1 DEF TypeOK
<1>5. pc \in {"run", "callback"} /\ UNCHANGED <<tsc, timer_inited, pc, cb>>
  BY Zenon DEF DeviceRuns, OnAuto
<1> QED  BY Zenon, <1>1, <1>3, <1>4, <1>5, EnableStep

\* A write to the counter stores words in every timer of the list.
LEMMA SetNewTscList == ASSUME ListInv, NEW v \in Stamps, SetNewTsc(v) PROVE ListInv'
<1>1. TypeOK /\ Links(queue, enabled)  BY Zenon DEF ListInv
<1>2. Permanent \subseteq enabled  BY Zenon DEF ListInv, PhaseInv, SetNewTsc
<1>3. queue # <<>>  BY Zenon, <1>1, <1>2, TwoLinked
<1> DEFINE moved(s) == Wrap(v + SignedDiff(s, tsc))
<1>4. \A s \in Stamps : moved(s) \in Stamps
  <2> SUFFICES ASSUME NEW s \in Stamps PROVE moved(s) \in Stamps  BY Zenon
  <2>1. tsc \in Stamps  BY Zenon, <1>1 DEF TypeOK
  <2> QED  BY ONLY v \in Stamps, s \in Stamps, <2>1, RangeAssumption
           DEF SignedDiff, Wrap, M, Stamps
<1>5. /\ tsc' = v
      /\ ts' = [t \in Timers |-> IF t \in Linked(queue) THEN moved(ts[t]) ELSE ts[t]]
      /\ timer_target' = moved(ts[queue[1]])
      /\ UNCHANGED <<timer_inited, queue, frac, enabled, split, in_callback, period, pc, cb>>
  BY Zenon, <1>3 DEF SetNewTsc
<1>6. ASSUME NEW x \in Stamps PROVE Wrap(v + Wrap(x - tsc)) \in Stamps
  <2>1. tsc \in Stamps  BY Zenon, <1>1 DEF TypeOK
  <2>2. Wrap(x - tsc) \in Stamps
    BY ONLY x \in Stamps, <2>1, RangeAssumption DEF Wrap, Stamps, M
  <2> DEFINE y == Wrap(x - tsc)
  <2> HIDE DEF y
  <2>3. y \in Stamps  BY Zenon, <2>2 DEF y
  <2>4. Wrap(v + y) \in Stamps
    BY ONLY v \in Stamps, <2>3, RangeAssumption DEF Wrap, Stamps, M
  <2> QED  BY Zenon, <2>4 DEF y
<1> HIDE DEF moved
<1>7. due' \in [Timers -> Stamps]  BY Zenon, <1>1, <1>6 DEF TypeOK, SetNewTsc
<1>8. ts' \in [Timers -> Stamps]  BY Zenon, <1>1, <1>4, <1>5 DEF TypeOK
<1>9. timer_target' \in Stamps
  BY Zenon, <1>1, <1>3, <1>4, <1>5, TailLinks DEF TypeOK
<1>10. TypeOK'  BY Zenon, <1>1, <1>5, <1>7, <1>8, <1>9 DEF TypeOK
<1>11. PhaseInv'  BY Zenon, <1>5 DEF ListInv, PhaseInv
<1> QED  BY Zenon, <1>5, <1>10, <1>11, SameTimers

-----------------------------------------------------------------------------
\* Every step of the machine keeps the structure of the list: one case per action.
LEMMA NextList == ASSUME ListInv, [Next]_vars PROVE ListInv'
<1>1. CASE UNCHANGED vars
  <2>1. TypeOK'  BY Zenon, <1>1 DEF ListInv, vars, TypeOK
  <2>2. PhaseInv'  BY Zenon, <1>1 DEF ListInv, vars, PhaseInv
  <2> QED  BY Zenon, <1>1, <2>1, <2>2, SameTimers DEF vars
<1>2. CASE Next
  BY Zenon, <1>2, PowerOnList, PowerOffList, DeviceProcessesList, CpuStepList, CallBackList,
     NextPartList, CallbackReturnsList, ProcessEndsList, PollAdvancesList, SetDelayList,
     AdvanceList, DisableList, OnAutoList, StopList, SetNewTscList
     DEF Next, Emulation
<1> QED  BY Zenon, <1>1, <1>2

\* The structure of the list is sound in every reachable state, however devices use
\* their timers.
THEOREM ListInvariance == Spec => []ListInv
<1>1. Init => ListInv  BY InitList
<1>2. ListInv /\ [Next]_vars => ListInv'  BY NextList
<1> QED  BY <1>1, <1>2, PTL DEF Spec

\* Types: every stamp and the counter stay machine words.
THEOREM TypeCorrect == Spec => []TypeOK
<1>1. ListInv => TypeOK  BY DEF ListInv
<1> QED  BY <1>1, ListInvariance, PTL

\* The crash tests in timer_enable() and timer_disable() never fire.
THEOREM LinksCorrect == Spec => []LinkedIffEnabled
<1>1. ListInv => LinkedIffEnabled  BY DEF ListInv, Links, Distinct, LinkedIffEnabled
<1> QED  BY <1>1, ListInvariance, PTL

\* timer_head is never NULL where timer_process() and timer_remove_head() follow it.
THEOREM NoNullHead == Spec => []NoFault
<1>1. ListInv => NoFault  BY DEF ListInv, PhaseInv, NoFault
<1> QED  BY <1>1, ListInvariance, PTL
=============================================================================
