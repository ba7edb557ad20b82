-------------------------- MODULE TimerQueueProofs --------------------------
(***************************************************************************)
(* The order of the list of TimerQueue and the deadlines kept in it, for   *)
(* any set of timers, any width of time stamps and any delays within the   *)
(* named bounds, on top of the structure that TimerListProofs proves: the  *)
(* list is sorted, no timer is noticed late, long periods end on time, and *)
(* the whole implements the clock of AlarmClock. First come lemmas about   *)
(* the arithmetic of wrapping time stamps.                                 *)
(***************************************************************************)
EXTENDS TimerListProofs

-----------------------------------------------------------------------------
(* Arithmetic of wrapping time stamps.                                     *)

\* The sizes of words, delays and steps.
LEMMA Sizes ==
    /\ Half \in Nat /\ Frac \in Nat \ {0} /\ M = 2 * Half
    /\ MaxDelay \in Nat \ {0} /\ MaxStep \in Nat \ {0} /\ MaxDelay + MaxStep < Half
BY RangeAssumption DEF M

\* The signed difference lies within half the range on either side.
LEMMA DiffType ==
    ASSUME NEW a \in Stamps, NEW b \in Stamps
    PROVE  SignedDiff(a, b) \in (-Half) .. (Half - 1)
BY Sizes DEF SignedDiff, Wrap, Stamps

\* Adding a distance of less than half the range is undone by SignedDiff.
LEMMA DiffOfSum ==
    ASSUME NEW a \in Stamps, NEW d \in (-Half) .. (Half - 1)
    PROVE  /\ Wrap(a + d) \in Stamps
           /\ SignedDiff(Wrap(a + d), a) = d
BY Sizes DEF SignedDiff, Wrap, Stamps

\* Distances from a common origin subtract, unless they are half the range apart.
LEMMA DiffOfDiffs ==
    ASSUME NEW a \in Stamps, NEW b \in Stamps, NEW c \in Stamps,
           SignedDiff(a, c) - SignedDiff(b, c) \in (-Half) .. (Half - 1)
    PROVE  SignedDiff(a, b) = SignedDiff(a, c) - SignedDiff(b, c)
BY Sizes DEF SignedDiff, Wrap, Stamps

\* The origin moves by n, the distance shrinks by n.
LEMMA DiffMove ==
    ASSUME NEW a \in Stamps, NEW c \in Stamps, NEW n \in Int,
           -Half <= n, n < Half,
           SignedDiff(a, c) - n \in (-Half) .. (Half - 1)
    PROVE  SignedDiff(a, Wrap(c + n)) = SignedDiff(a, c) - n
BY Sizes DEF SignedDiff, Wrap, Stamps

\* The stamp moves by n, the distance grows by n.
LEMMA DiffAdd ==
    ASSUME NEW a \in Stamps, NEW c \in Stamps, NEW n \in Int,
           -Half <= n, n < Half,
           SignedDiff(a, c) + n \in (-Half) .. (Half - 1)
    PROVE  /\ Wrap(a + n) \in Stamps
           /\ SignedDiff(Wrap(a + n), c) = SignedDiff(a, c) + n
BY Sizes DEF SignedDiff, Wrap, Stamps

\* Adding two parts in turn, each wrapped, is adding their sum.
LEMMA WrapTwice ==
    ASSUME NEW a \in Stamps, NEW x \in Nat, NEW y \in Nat, x + y < M
    PROVE  Wrap(Wrap(a + x) + y) = Wrap(a + (x + y))
BY Sizes DEF Wrap, Stamps

\* Moving the origin and a stamp together keeps the sum of the stamp and a distance.
LEMMA WrapMove ==
    ASSUME NEW a \in Stamps, NEW c \in Stamps, NEW v \in Stamps, NEW x \in Nat, x < M
    PROVE  Wrap(Wrap(v + SignedDiff(a, c)) + x) = Wrap(v + Wrap(Wrap(a + x) - c))
<1>1. SignedDiff(a, c) \in {a - c, a - c + M, a - c - M}
         /\ v + SignedDiff(a, c) \in (-M) .. 2 * M - 1
  BY Sizes DEF SignedDiff, Wrap, Stamps
<1> DEFINE n == SignedDiff(a, c)
<1> HIDE DEF n
<1>2. n \in {a - c, a - c + M, a - c - M} /\ v + n \in (-M) .. 2 * M - 1
  BY <1>1 DEF n
<1>3. Wrap(Wrap(v + n) + x) = Wrap(v + Wrap(Wrap(a + x) - c))
  BY <1>2, Sizes DEF Wrap, Stamps
<1> QED  BY <1>3 DEF n

\* Adding whole cycles carries nothing into them.
LEMMA CarryOfWhole ==
    ASSUME NEW f \in 0 .. Frac - 1
    PROVE  Carry(f, 0) = 0
BY Sizes DEF Carry, FracSum

-----------------------------------------------------------------------------
(* The inductive invariant.                                                *)

Window == (-MaxStep) .. MaxDelay

\* What is true of a list q, with flags en, of timers with the given stamps.
GoodList(q, en) ==
    /\ q \in Seq(Timers)
    /\ Linked(q) = en
    /\ Distinct(q)
    /\ \A i, j \in 1 .. Len(q) : i < j => Remaining(q[i]) <= Remaining(q[j])
    /\ \A t \in en : Remaining(t) \in Window

\* A timer whose callback runs keeps its expired stamp until it is armed again;
\* a permanent one is armed by its own callback only.
CallbackInv ==
    pc = "callback" =>
        /\ Remaining(cb) >= -MaxStep
        /\ cb \in in_callback \ enabled => Remaining(cb) <= 0
        /\ cb \in Permanent \ enabled => cb \in in_callback

\* While the CPU executes nothing is overdue and the cached deadline is early.
RunInv ==
    pc = "run" => \A t \in enabled : SignedDiff(timer_target, tsc) \in 0 .. Remaining(t)

IInv == /\ ListInv
        /\ GoodList(queue, enabled)
        /\ CallbackInv
        /\ RunInv

\* What the invariant says of the structure of the list.
LEMMA Structure ==
    ASSUME IInv
    PROVE  /\ TypeOK /\ GoodList(queue, enabled) /\ SplitInv /\ PhaseInv
           /\ Links(queue, enabled)
BY Zenon DEF IInv, ListInv

\* With stamps in the window the wrapping comparison orders as integers do.
LEMMA WindowOrder ==
    ASSUME NEW a \in Stamps, NEW b \in Stamps, NEW c \in Stamps,
           SignedDiff(a, c) \in Window, SignedDiff(b, c) \in Window
    PROVE  LessThan(a, b) <=> SignedDiff(a, c) <= SignedDiff(b, c)
<1>1. SignedDiff(a, c) - SignedDiff(b, c) \in (-Half) .. (Half - 1)
  BY Sizes DEF Window
<1>2. SignedDiff(a, b) = SignedDiff(a, c) - SignedDiff(b, c)
  BY <1>1, DiffOfDiffs
<1> QED  BY <1>2, Sizes DEF LessThan, Window

\* A list without some of its timers is still sorted, and so on.
LEMMA ShorterList ==
    ASSUME NEW q, NEW en, GoodList(q, en), NEW n \in Seq(Timers), NEW t,
           Linked(n) = Linked(q) \ {t}, Distinct(n),
           \A i, j \in 1 .. Len(n) : i < j =>
               \E a, b \in 1 .. Len(q) : a < b /\ n[i] = q[a] /\ n[j] = q[b]
    PROVE  GoodList(n, en \ {t})
<1>1. ASSUME NEW i \in 1 .. Len(n), NEW j \in 1 .. Len(n), i < j
      PROVE  Remaining(n[i]) <= Remaining(n[j])
  <2>1. PICK a \in 1 .. Len(q), b \in 1 .. Len(q) : a < b /\ n[i] = q[a] /\ n[j] = q[b]
    BY <1>1
  <2> QED  BY <2>1 DEF GoodList
<1> QED  BY <1>1 DEF GoodList

\* Taking a timer out of a good list, as timer_disable() does, leaves a good list.
LEMMA UnlinkGood ==
    ASSUME NEW q, NEW en, GoodList(q, en), NEW t \in en
    PROVE  GoodList(Unlink(q, t), en \ {t})
<1>1. q \in Seq(Timers) /\ Distinct(q) /\ t \in Linked(q)  BY DEF GoodList
<1> DEFINE n == Unlink(q, t)
<1>2. /\ n \in Seq(Timers) /\ Linked(n) = Linked(q) \ {t} /\ Distinct(n)
      /\ \A i, j \in 1 .. Len(n) : i < j =>
             \E a, b \in 1 .. Len(q) : a < b /\ n[i] = q[a] /\ n[j] = q[b]
  BY <1>1, UnlinkList
<1> HIDE DEF n
<1>3. GoodList(n, en \ {t})  BY Zenon, <1>2, ShorterList
<1> QED  BY <1>3 DEF n

\* Taking the head off a good list, as timer_remove_head() does, leaves a good list.
LEMMA TailGood ==
    ASSUME NEW q, NEW en, GoodList(q, en), q # <<>>
    PROVE  /\ GoodList(Tail(q), en \ {q[1]})
           /\ q[1] \in en
           /\ \A u \in en : Remaining(q[1]) <= Remaining(u)
<1>1. q \in Seq(Timers) /\ Distinct(q)  BY DEF GoodList
<1> DEFINE n == Tail(q)
<1>2. /\ Len(q) \in Nat \ {0}
      /\ n \in Seq(Timers) /\ Linked(n) = Linked(q) \ {q[1]} /\ Distinct(n)
      /\ \A i, j \in 1 .. Len(n) : i < j =>
             \E a, b \in 1 .. Len(q) : a < b /\ n[i] = q[a] /\ n[j] = q[b]
  BY <1>1, TailList
<1> HIDE DEF n
<1>3. GoodList(n, en \ {q[1]})
  BY <1>2, ShorterList, ZenonT(120)
<1>4. q[1] \in en  BY <1>2 DEF GoodList, Linked
<1>5. ASSUME NEW u \in en PROVE Remaining(q[1]) <= Remaining(u)
  <2>1. PICK j \in 1 .. Len(q) : u = q[j]  BY DEF GoodList, Linked
  <2>2. Remaining(u) \in Window  BY DEF GoodList
  <2>3. CASE j = 1  BY <2>1, <2>2, <2>3 DEF Window
  <2>4. CASE j > 1  BY <2>1, <2>4, <1>2 DEF GoodList
  <2> QED  BY <2>3, <2>4, <1>2
<1> QED  BY <1>3, <1>4, <1>5 DEF n

\* timer_enable() on a good list gives a good list with t in it, whose head is
\* t exactly when the cached deadline was set to t's.
LEMMA EnableGood ==
    ASSUME tsc \in Stamps, ts \in [Timers -> Stamps], tsc' = tsc,
           NEW q, NEW en \in SUBSET Timers, GoodList(q, en),
           NEW t \in Timers, NEW s \in Stamps, NEW f,
           SignedDiff(s, tsc) \in Window,
           timer_enable(q, en, t, s, f)
    PROVE  /\ GoodList(queue, enabled)'
           /\ enabled' = en \cup {t}
           /\ ts' \in [Timers -> Stamps]
           /\ Remaining(t)' = SignedDiff(s, tsc)
           /\ \A u \in Timers \ {t} : Remaining(u)' = Remaining(u)
           /\ \/ /\ timer_target' = s
                 /\ \A u \in en \ {t} : SignedDiff(s, tsc) <= Remaining(u)
              \/ /\ timer_target' = timer_target
                 /\ \E u \in en : Remaining(u) <= SignedDiff(s, tsc)
<1> DEFINE rest == IF t \in en THEN Unlink(q, t) ELSE q
           k == Place(rest, s)
           n == LinkAt(rest, k, t)
           d == SignedDiff(s, tsc)
           After(u) == SignedDiff(ts'[u], tsc)
<1>1. GoodList(rest, en \ {t})
  <2>1. CASE t \in en  BY <2>1, UnlinkGood
  <2>2. CASE t \notin en
    <3>1. en \ {t} = en  BY <2>2
    <3> QED  BY <2>2, <3>1
  <2> QED  BY <2>1, <2>2
<1>2. /\ queue' = n /\ enabled' = en \cup {t} /\ ts' = [ts EXCEPT ![t] = s]
      /\ timer_target' = IF k = 1 THEN s ELSE timer_target
  BY DEF timer_enable
<1> HIDE DEF rest
<1>3. /\ rest \in Seq(Timers) /\ Len(rest) \in Nat /\ Distinct(rest)
      /\ Linked(rest) = en \ {t} /\ t \notin Linked(rest)
      /\ \A i \in 1 .. Len(rest) : rest[i] \in Timers /\ rest[i] \in en /\ rest[i] # t
  <2>1. rest \in Seq(Timers) /\ Distinct(rest) /\ Linked(rest) = en \ {t}
    BY <1>1 DEF GoodList
  <2>2. Len(rest) \in Nat /\ \A i \in 1 .. Len(rest) : rest[i] \in Timers
    BY <2>1
  <2>3. \A i \in 1 .. Len(rest) : rest[i] \in Linked(rest)
    BY DEF Linked
  <2> QED  BY <2>1, <2>2, <2>3
<1>4. /\ k \in 1 .. Len(rest) + 1
      /\ \A i \in 1 .. Len(rest) : i < k => ~LessThan(s, ts[rest[i]])
      /\ k <= Len(rest) => LessThan(s, ts[rest[k]])
  BY <1>3, PlaceFirst
<1> HIDE DEF k
<1>5. \A i \in 1 .. Len(rest) : ts[rest[i]] \in Stamps /\ Remaining(rest[i]) \in Window
  BY <1>1, <1>3 DEF GoodList, Linked
<1>6. \A i \in 1 .. Len(rest) : LessThan(s, ts[rest[i]]) <=> d <= Remaining(rest[i])
  BY <1>5, WindowOrder DEF Remaining
<1>7. \A i \in 1 .. Len(rest) : i < k => Remaining(rest[i]) < d
  <2> TAKE i \in 1 .. Len(rest)
  <2> HAVE i < k
  <2>1. ~(d <= Remaining(rest[i]))  BY <1>4, <1>6
  <2>2. Remaining(rest[i]) \in Int /\ d \in Int  BY <1>5 DEF Window
  <2> HIDE DEF d
  <2> QED  BY <2>1, <2>2
<1>8. \A i \in 1 .. Len(rest) : k <= i => d <= Remaining(rest[i])
  <2> TAKE i \in 1 .. Len(rest)
  <2> HAVE k <= i
  <2>1. k \in 1 .. Len(rest)  BY <1>3, <1>4
  <2>2. d <= Remaining(rest[k])  BY <2>1, <1>4, <1>6
  <2>3. CASE i = k  BY <2>2, <2>3
  <2>4. CASE k < i
    <3>1. Remaining(rest[k]) <= Remaining(rest[i])  BY <2>1, <2>4, <1>1 DEF GoodList
    <3>2. Remaining(rest[k]) \in Int /\ Remaining(rest[i]) \in Int /\ d \in Int
      BY <2>1, <1>5 DEF Window
    <3> HIDE DEF d
    <3> QED  BY <3>1, <3>2, <2>2
  <2> QED  BY <2>3, <2>4, <2>1, <1>3
<1>9. /\ n \in Seq(Timers) /\ Len(n) = Len(rest) + 1 /\ n[k] = t
      /\ \A i \in 1 .. Len(rest) : i < k => n[i] = rest[i]
      /\ \A i \in 1 .. Len(rest) : i >= k => n[i + 1] = rest[i]
  <2>1. rest \in Seq(Timers) /\ k \in 1 .. Len(rest) + 1
    BY <1>3, <1>4, Zenon
  <2> QED  BY ONLY <2>1, t \in Timers, LinkAtList, SMTT(40)
<1>10. Linked(n) = en \cup {t} /\ Distinct(n)
  BY <1>3, <1>4, LinkAtLinked
<1> HIDE DEF n
<1>11. /\ ts' \in [Timers -> Stamps]
       /\ After(t) = d
       /\ \A u \in Timers \ {t} : After(u) = Remaining(u)
  BY <1>2 DEF Remaining
<1> HIDE DEF d
<1> HIDE DEF After
<1>12. \A u \in en \cup {t} : After(u) \in Window
  <2>1. \A u \in en : Remaining(u) \in Window  BY DEF GoodList
  <2> QED  BY <2>1, <1>11 DEF d
<1>13. ASSUME NEW i \in 1 .. Len(n), NEW j \in 1 .. Len(n), i < j
       PROVE  After(n[i]) <= After(n[j])
  <2>1. \A m \in 1 .. Len(rest) : After(rest[m]) = Remaining(rest[m])
    BY <1>3, <1>11
  <2>2. d \in Int /\ \A m \in 1 .. Len(rest) : Remaining(rest[m]) \in Int
    BY <1>5 DEF Window, d
  <2>3. CASE j < k
    <3>1. i \in 1 .. Len(rest) /\ j \in 1 .. Len(rest) /\ n[i] = rest[i] /\ n[j] = rest[j]
      BY <2>3, <1>13, <1>3, <1>4, <1>9
    <3>2. Remaining(rest[i]) <= Remaining(rest[j])  BY Zenon, <3>1, <1>13, <1>1 DEF GoodList
    <3> QED  BY <3>1, <3>2, <2>1
  <2>4. CASE j = k
    <3>1. i \in 1 .. Len(rest) /\ n[i] = rest[i] /\ i < k  BY <2>4, <1>13, <1>3, <1>4, <1>9
    <3> QED  BY <3>1, <2>4, <2>1, <2>2, <1>7, <1>9, <1>11
  <2>5. CASE j > k
    <3>1. j - 1 \in 1 .. Len(rest) /\ n[j] = rest[j - 1] /\ k <= j - 1
      <4>1. j - 1 \in 1 .. Len(rest) /\ k <= j - 1 /\ (j - 1) + 1 = j
        <5>1. Len(rest) \in Nat /\ Len(n) = Len(rest) + 1 /\ k \in 1 .. Len(rest) + 1
          BY <1>3, <1>4, <1>9, Zenon
        <5>2. j \in Int /\ j > k /\ j <= Len(n)
          BY <2>5, <5>1
        <5> QED  BY <5>1, <5>2
      <4> QED  BY Zenon, <4>1, <1>9
    <3>2. CASE i < k
      <4>1. i \in 1 .. Len(rest) /\ n[i] = rest[i] /\ i < j - 1  BY <3>1, <3>2, <1>3, <1>4, <1>9
      <4> QED  BY <4>1, <3>1, <2>1, <1>1 DEF GoodList
    <3>3. CASE i = k  BY <3>1, <3>3, <2>1, <1>8, <1>9, <1>11
    <3>4. CASE i > k
      <4>1. i - 1 \in 1 .. Len(rest) /\ n[i] = rest[i - 1] /\ i - 1 < j - 1
        <5>1. i - 1 \in 1 .. Len(rest) /\ k <= i - 1 /\ (i - 1) + 1 = i /\ i - 1 < j - 1
          BY <3>4, <1>13, <1>3, <1>4, <1>9
        <5> QED  BY Zenon, <5>1, <1>9
      <4> QED  BY Zenon, <4>1, <3>1, <2>1, <1>1 DEF GoodList
    <3> QED  BY <3>2, <3>3, <3>4, <1>3, <1>4, <1>9
  <2> QED  BY <2>3, <2>4, <2>5, <1>3, <1>4, <1>9
<1>14. GoodList(queue, enabled)'
  BY <1>2, <1>9, <1>10, <1>12, <1>13 DEF GoodList, Linked, Distinct, Remaining, After
<1>15. CASE k = 1
  <2>1. \A u \in en \ {t} : d <= Remaining(u)
    BY <1>15, <1>3, <1>8 DEF Linked
  <2> QED  BY <2>1, <1>15, <1>2, <1>11, <1>14 DEF d, Remaining, After
<1>16. CASE k # 1
  <2>1. 1 \in 1 .. Len(rest) /\ 1 < k  BY <1>16, <1>3, <1>4
  <2>2. rest[1] \in en /\ Remaining(rest[1]) < d  BY <2>1, <1>3, <1>7
  <2>3. Remaining(rest[1]) <= d  BY <2>1, <2>2, <1>5 DEF Window, d
  <2> QED  BY <2>2, <2>3, <1>16, <1>2, <1>11, <1>14 DEF d, Remaining, After
<1> QED  BY <1>15, <1>16

-----------------------------------------------------------------------------
(* Stamps the timer functions compute stay in the window.                  *)

\* The stamp that timer_set_delay_u64() computes is a word, within MaxDelay of now.
LEMMA SetDelayStamp ==
    ASSUME tsc \in Stamps, NEW d \in Delay
    PROVE  /\ Wrap(tsc + d.int) \in Stamps
           /\ SignedDiff(Wrap(tsc + d.int), tsc) = d.int
           /\ d.int \in Window /\ d.int >= 0 /\ d.frac \in 0 .. Frac - 1
<1>1. d.int \in 0 .. MaxDelay - 1 /\ d.frac \in 0 .. Frac - 1  BY DEF Delay
<1>2. d.int \in (-Half) .. (Half - 1)  BY <1>1, Sizes
<1> QED  BY <1>1, <1>2, DiffOfSum, Sizes DEF Window

\* The stamp that timer_advance_u64() computes is a word: the sum and its carry wrap once.
LEMMA AdvanceStamp ==
    ASSUME tsc \in Stamps, NEW a \in Stamps, NEW d \in Delay, NEW g \in 0 .. Frac - 1,
           SignedDiff(a, tsc) \in (-MaxStep) .. 0
    PROVE  LET s == Wrap(a + d.int + Carry(g, d.frac))
           IN  /\ s \in Stamps
               /\ SignedDiff(s, tsc) = SignedDiff(a, tsc) + d.int + Carry(g, d.frac)
               /\ SignedDiff(s, tsc) \in Window
               /\ d.int > 0 => SignedDiff(s, tsc) > SignedDiff(a, tsc)
               /\ FracSum(g, d.frac) \in 0 .. Frac - 1
<1>1. d.int \in 0 .. MaxDelay - 1 /\ d.frac \in 0 .. Frac - 1  BY DEF Delay
<1>2. Carry(g, d.frac) \in {0, 1} /\ FracSum(g, d.frac) \in 0 .. Frac - 1
  BY <1>1, FixedPointSum
<1> DEFINE n == d.int + Carry(g, d.frac)
<1>3. n \in 0 .. MaxDelay /\ (d.int > 0 => n > 0)  BY <1>1, <1>2, Sizes
<1>4. a + d.int + Carry(g, d.frac) = a + n
  <2>1. a \in Int  BY Sizes DEF Stamps
  <2> QED  BY <1>1, <1>2, <2>1
<1>5. SignedDiff(a, tsc) + d.int + Carry(g, d.frac) = SignedDiff(a, tsc) + n
  BY <1>1, <1>2
<1> HIDE DEF n
<1>6. /\ Wrap(a + n) \in Stamps
      /\ SignedDiff(Wrap(a + n), tsc) = SignedDiff(a, tsc) + n
  <2>1. n \in Int /\ -Half <= n /\ n < Half  BY <1>3, Sizes
  <2>2. SignedDiff(a, tsc) + n \in (-Half) .. (Half - 1)  BY <1>3, Sizes
  <2> QED  BY <2>1, <2>2, DiffAdd
<1>7. SignedDiff(a, tsc) + n \in Window /\ (n > 0 => SignedDiff(a, tsc) + n > SignedDiff(a, tsc))
  BY <1>3, Sizes DEF Window
<1> QED  BY <1>2, <1>3, <1>4, <1>5, <1>6, <1>7

\* timer_advance_ex() is one timer_enable(), whatever part of the period it arms.
LEMMA AdvanceExEnables ==
    ASSUME TypeOK, NEW q, NEW en, NEW t \in BigTimers, NEW p \in Nat \ {0},
           NEW start \in BOOLEAN,
           ~start => Remaining(t) \in (-MaxStep) .. 0,
           timer_advance_ex(q, en, t, p, start)
    PROVE  \E s \in Stamps, f \in 0 .. Frac - 1 :
               /\ timer_enable(q, en, t, s, f)
               /\ SignedDiff(s, tsc) \in Window
               /\ start => SignedDiff(s, tsc) >= 0
               /\ ~start => SignedDiff(s, tsc) > Remaining(t)
<1> DEFINE m == IF p > MAX_USEC THEN MAX_USEC ELSE p
           d == [int |-> m * TIMER_USEC, frac |-> 0]
           Armed(s, f) == /\ timer_enable(q, en, t, s, f)
                          /\ SignedDiff(s, tsc) \in Window
                          /\ start => SignedDiff(s, tsc) >= 0
                          /\ ~start => SignedDiff(s, tsc) > Remaining(t)
<1>1. timer_do_period(q, en, t, m, start)  BY DEF timer_advance_ex
<1>2. m \in 1 .. MAX_USEC  BY RangeAssumption
<1>3. d \in Delay /\ d.int > 0
  <2>1. m * TIMER_USEC \in 1 .. MaxDelay - 1  BY <1>2, RangeAssumption
  <2> HIDE DEF m
  <2> QED  BY <2>1, ZeroTypes DEF Delay
<1>4. ASSUME start PROVE \E s \in Stamps, f \in 0 .. Frac - 1 : Armed(s, f)
  <2>1. timer_enable(q, en, t, Wrap(tsc + d.int), d.frac)
    BY <1>1, <1>4 DEF timer_do_period, timer_set_delay_u64
  <2> HIDE DEF d
  <2>2. tsc \in Stamps  BY DEF TypeOK
  <2>3. Wrap(tsc + d.int) \in Stamps /\ d.frac \in 0 .. Frac - 1
    BY <1>3, <2>2, SetDelayStamp
  <2>4. Armed(Wrap(tsc + d.int), d.frac)
    BY <1>3, <1>4, <2>1, <2>2, SetDelayStamp
  <2> HIDE DEF Armed
  <2> QED  BY <2>3, <2>4
<1>5. ASSUME ~start PROVE \E s \in Stamps, f \in 0 .. Frac - 1 : Armed(s, f)
  <2>1. timer_enable(q, en, t, Wrap(ts[t] + d.int + Carry(frac[t], d.frac)),
                     FracSum(frac[t], d.frac))
    BY Zenon, <1>1, <1>5 DEF timer_do_period, timer_advance_u64
  <2> HIDE DEF d
  <2>2. tsc \in Stamps /\ ts[t] \in Stamps /\ frac[t] \in 0 .. Frac - 1
    BY DEF TypeOK, Timers
  <2> DEFINE s == Wrap(ts[t] + d.int + Carry(frac[t], d.frac))
  <2>3. /\ s \in Stamps /\ FracSum(frac[t], d.frac) \in 0 .. Frac - 1
        /\ SignedDiff(s, tsc) \in Window /\ SignedDiff(s, tsc) > Remaining(t)
    BY Zenon, <1>3, <1>5, <2>2, AdvanceStamp DEF Remaining
  <2> HIDE DEF s
  <2>4. Armed(s, FracSum(frac[t], d.frac))
    BY Zenon, <1>5, <2>1, <2>3 DEF s
  <2> HIDE DEF Armed
  <2> QED  BY <2>3, <2>4
<1>6. start \/ ~start  OBVIOUS
<1> QED  BY Zenon, <1>4, <1>5, <1>6

-----------------------------------------------------------------------------
(* Steps that preserve the invariant. That they preserve the structure of  *)
(* the list is known.                                                      *)

\* timer_enable(t) is called with a deadline that is in the window, and not in the past
\* while the CPU executes.
Arms(t) ==
    \E s \in Stamps, f \in 0 .. Frac - 1 :
        /\ timer_enable(queue, enabled, t, s, f)
        /\ SignedDiff(s, tsc) \in Window
        /\ pc = "run" => SignedDiff(s, tsc) >= 0

\* Arming a timer, while the CPU executes or in a callback.
LEMMA ArmStep ==
    ASSUME IInv, ListInv', pc \in {"run", "callback"}, NEW t \in Timers, Arms(t),
           UNCHANGED <<tsc, pc, cb>>
    PROVE  IInv'
<1>0. PICK s \in Stamps, f \in 0 .. Frac - 1 :
             /\ timer_enable(queue, enabled, t, s, f)
             /\ SignedDiff(s, tsc) \in Window
             /\ pc = "run" => SignedDiff(s, tsc) >= 0
  BY Zenon DEF Arms
<1>1. TypeOK /\ GoodList(queue, enabled) /\ PhaseInv  BY Zenon, Structure
<1>2. /\ GoodList(queue, enabled)' /\ enabled' = enabled \cup {t}
      /\ Remaining(t)' = SignedDiff(s, tsc)
      /\ \A u \in Timers \ {t} : Remaining(u)' = Remaining(u)
      /\ \/ timer_target' = s /\ (\A u \in enabled \ {t} : SignedDiff(s, tsc) <= Remaining(u))
         \/ /\ timer_target' = timer_target
            /\ \E u \in enabled : Remaining(u) <= SignedDiff(s, tsc)
  BY Zenon, <1>0, <1>1, EnableGood DEF TypeOK
<1>3. in_callback' = in_callback \ (enabled \cap {t})
  BY Zenon, <1>0 DEF timer_enable
<1>4. CallbackInv'
  <2> SUFFICES ASSUME pc = "callback"
               PROVE  /\ Remaining(cb)' >= -MaxStep
                      /\ cb \in (in_callback \ enabled)' => Remaining(cb)' <= 0
                      /\ cb \in Permanent \ enabled' => cb \in in_callback'
    BY Zenon DEF CallbackInv, Remaining
  <2>1. cb \in Timers  BY Zenon, <1>1 DEF PhaseInv
  <2>2. CASE cb = t
    <3>1. Remaining(cb)' = SignedDiff(s, tsc)  BY Zenon, <1>2, <2>2 DEF Remaining
    <3>2. SignedDiff(s, tsc) >= -MaxStep  BY <1>0, Sizes DEF Window
    <3> QED  BY Zenon, <3>1, <3>2, <2>2, <1>2
  <2>3. CASE cb # t
    <3>1. Remaining(cb)' = Remaining(cb)  BY Zenon, <1>2, <2>1, <2>3 DEF Remaining
    <3>2. cb \notin enabled' => cb \notin enabled  BY Zenon, <1>2
    <3>3. cb \in in_callback' <=> cb \in in_callback  BY Zenon, <2>3, <1>3
    <3> QED  BY Zenon, <3>1, <3>2, <3>3, <1>2 DEF IInv, CallbackInv
  <2> QED  BY Zenon, <2>2, <2>3
<1>5. RunInv'
  <2> SUFFICES ASSUME pc = "run", NEW u \in enabled'
               PROVE  SignedDiff(timer_target', tsc) \in 0 .. Remaining(u)'
    BY Zenon DEF RunInv, Remaining
  <2>1. \A w \in enabled : SignedDiff(timer_target, tsc) \in 0 .. Remaining(w)
    BY Zenon DEF IInv, RunInv
  <2>2. \A w \in enabled : Remaining(w) \in Window /\ w \in Timers
    BY Zenon, <1>1 DEF GoodList, TypeOK
  <2>3. SignedDiff(s, tsc) \in Int /\ SignedDiff(s, tsc) >= 0  BY <1>0 DEF Window
  <2>4. u = t \/ (u \in enabled /\ u # t)  BY Zenon, <1>2
  <2>5. Remaining(u)' = IF u = t THEN SignedDiff(s, tsc) ELSE Remaining(u)
    BY Zenon, <2>4, <2>2, <1>2
  <2>6. CASE timer_target' = s /\ (\A w \in enabled \ {t} : SignedDiff(s, tsc) <= Remaining(w))
    BY <2>2, <2>3, <2>4, <2>5, <2>6 DEF Window
  <2>7. CASE /\ timer_target' = timer_target
             /\ \E w \in enabled : Remaining(w) <= SignedDiff(s, tsc)
    <3>1. PICK w \in enabled : Remaining(w) <= SignedDiff(s, tsc)  BY Zenon, <2>7
    <3>2. SignedDiff(timer_target, tsc) \in 0 .. SignedDiff(s, tsc)
      BY <3>1, <2>1, <2>2, <2>3 DEF Window
    <3> QED  BY <3>2, <2>1, <2>4, <2>5, <2>7
  <2> QED  BY Zenon, <2>6, <2>7, <1>2
<1> QED  BY Zenon, <1>2, <1>4, <1>5 DEF IInv

\* Taking a timer that is not permanent off the list.
LEMMA DropStep ==
    ASSUME IInv, ListInv', pc \in {"run", "callback"}, NEW t \in Timers \ Permanent,
           queue' = (IF t \in enabled THEN Unlink(queue, t) ELSE queue),
           enabled' = enabled \ {t},
           in_callback' \in {in_callback, in_callback \ {t}},
           t \in enabled => t \notin in_callback',
           UNCHANGED <<tsc, timer_target, ts, pc, cb>>
    PROVE  IInv'
<1>1. GoodList(queue, enabled)  BY Zenon DEF IInv
<1>2. GoodList(queue', enabled')
  <2>1. CASE t \in enabled  BY Zenon, <2>1, <1>1, UnlinkGood
  <2>2. CASE t \notin enabled
    <3>1. queue' = queue /\ enabled' = enabled  BY <2>2
    <3> QED  BY Zenon, <3>1, <1>1
  <2> QED  BY Zenon, <2>1, <2>2
<1>3. GoodList(queue, enabled)'
  BY Zenon, <1>2 DEF GoodList, Linked, Distinct, Remaining
<1>4. CallbackInv'
  BY DEF IInv, CallbackInv, Remaining
<1>5. RunInv'
  BY Zenon DEF IInv, RunInv, Remaining
<1> QED  BY Zenon, <1>3, <1>4, <1>5 DEF IInv

\* A step that changes neither the list nor the stamps nor the counter keeps the order.
LEMMA SameOrder ==
    ASSUME IInv, UNCHANGED <<queue, enabled, ts, tsc>>
    PROVE  GoodList(queue, enabled)'
BY Zenon DEF IInv, GoodList, Linked, Distinct, Remaining

\* The invariant holds before timer_init().
LEMMA InitInv == Init => IInv
<1> SUFFICES ASSUME Init PROVE IInv  OBVIOUS
<1>1. ListInv  BY Zenon, InitList
<1>2. queue \in Seq(Timers) /\ Len(queue) = 0 /\ enabled = {}  BY DEF Init
<1>3. GoodList(queue, enabled)
  BY <1>2 DEF GoodList, Linked, Distinct
<1>4. CallbackInv /\ RunInv  BY DEF Init, CallbackInv, RunInv
<1> QED  BY Zenon, <1>1, <1>3, <1>4 DEF IInv

\* The invariant says nothing that a stuttering step changes.
LEMMA StutterInv == ASSUME IInv, ListInv', UNCHANGED vars PROVE IInv'
<1>1. GoodList(queue, enabled)'
  BY Zenon, SameOrder DEF vars
<1>2. CallbackInv' /\ RunInv'
  BY Zenon DEF IInv, vars, CallbackInv, RunInv, Remaining
<1> QED  BY Zenon, <1>1, <1>2 DEF IInv

\* timer_init() and the start of the two permanent timers establish the invariant.
LEMMA PowerOnInv == ASSUME IInv, ListInv', PowerOn PROVE IInv'
<1>1. Links(queue', enabled')
  BY Zenon DEF ListInv, Links, Linked, Distinct
<1>2. /\ \A t \in Timers : ts'[t] = 0
      /\ enabled' \subseteq Timers /\ tsc' = 0 /\ timer_target' = 0 /\ pc' = "run"
  BY Zenon DEF PowerOn, Timers
<1>3. SignedDiff(0, 0) = 0 /\ 0 \in Window
  BY Sizes DEF SignedDiff, Wrap, Window
<1>4. \A t \in Timers : Remaining(t)' = 0
  BY Zenon, <1>2, <1>3 DEF Remaining
<1>5. GoodList(queue, enabled)'
  <2>1. queue' \in Seq(Timers) /\ \A i \in (1 .. Len(queue))' : queue'[i] \in Timers
    BY <1>1 DEF Links
  <2>2. ASSUME NEW i \in (1 .. Len(queue))', NEW j \in (1 .. Len(queue))'
        PROVE  Remaining(queue[i])' <= Remaining(queue[j])'
    <3>1. Remaining(queue[i])' = 0 /\ Remaining(queue[j])' = 0
      BY Zenon, <2>1, <1>2, <1>3 DEF Remaining
    <3> QED  BY <3>1
  <2>3. \A t \in enabled' : Remaining(t)' \in Window
    BY Zenon, <1>2, <1>3, <1>4
  <2> QED  BY Zenon, <1>1, <2>2, <2>3 DEF GoodList, Links, Linked, Distinct
<1>6. RunInv'
  <2>1. 0 \in 0 .. 0  OBVIOUS
  <2> QED  BY Zenon, <1>2, <1>3, <1>4, <2>1 DEF RunInv
<1>7. CallbackInv'
  BY <1>2 DEF CallbackInv
<1> QED  BY Zenon, <1>5, <1>6, <1>7 DEF IInv

\* timer_close() empties the list and the set of enabled timers together.
LEMMA PowerOffInv == ASSUME IInv, ListInv', PowerOff PROVE IInv'
<1>1. queue' \in Seq(Timers) /\ Len(queue') = 0 /\ pc' = "off"  BY DEF PowerOff
<1>2. enabled' = {}  BY Zenon, Structure DEF GoodList, PowerOff
<1>3. GoodList(queue, enabled)'
  BY <1>1, <1>2 DEF GoodList, Linked, Distinct
<1>4. CallbackInv' /\ RunInv'  BY <1>1 DEF CallbackInv, RunInv
<1> QED  BY Zenon, <1>3, <1>4 DEF IInv

\* timer_process() may be entered from a device at any time.
LEMMA DeviceProcessesInv == ASSUME IInv, ListInv', DeviceProcesses PROVE IInv'
<1>1. GoodList(queue, enabled)'
  BY Zenon, SameOrder DEF DeviceProcesses
<1>2. pc' = "process"  BY Zenon DEF DeviceProcesses
<1>3. CallbackInv' /\ RunInv'  BY <1>2 DEF CallbackInv, RunInv
<1> QED  BY Zenon, <1>1, <1>3 DEF IInv

\* n cycles bring every deadline, and the cached one, nearer by n.
LEMMA CpuStepDistances ==
    ASSUME IInv, NEW n \in 1 .. MaxStep, CpuStep(n)
    PROVE  /\ Permanent \subseteq enabled /\ queue # <<>>
           /\ \A t \in enabled : /\ t \in Timers /\ Remaining(t) \in 0 .. MaxDelay
                                 /\ SignedDiff(timer_target, tsc) \in 0 .. Remaining(t)
                                 /\ Remaining(t)' = Remaining(t) - n
           /\ SignedDiff(timer_target, tsc') = SignedDiff(timer_target, tsc) - n
<1>0. /\ pc = "run" /\ tsc' = Wrap(tsc + n) /\ ts' = ts /\ enabled' = enabled /\ n \in Int
  BY DEF CpuStep
<1>1. TypeOK /\ GoodList(queue, enabled) /\ PhaseInv /\ Links(queue, enabled)
  BY Zenon, Structure
<1>2. Permanent \subseteq enabled /\ queue # <<>>
  <2>1. Permanent \subseteq enabled  BY Zenon, <1>0, <1>1 DEF PhaseInv
  <2> QED  BY Zenon, <2>1, <1>1, TwoLinked
<1>3. \A t \in enabled : /\ t \in Timers /\ Remaining(t) \in 0 .. MaxDelay
                         /\ SignedDiff(timer_target, tsc) \in 0 .. Remaining(t)
  <2> TAKE t \in enabled
  <2>1. Remaining(t) \in Window /\ t \in Timers  BY Zenon, <1>1 DEF GoodList, TypeOK
  <2>2. SignedDiff(timer_target, tsc) \in 0 .. Remaining(t)  BY Zenon, <1>0 DEF IInv, RunInv
  <2> QED  BY ONLY <2>1, <2>2, Sizes DEF Window
<1>4. ASSUME NEW a \in Stamps, SignedDiff(a, tsc) \in 0 .. MaxDelay
      PROVE  SignedDiff(a, tsc') = SignedDiff(a, tsc) - n
  <2>1. SignedDiff(a, tsc) - n \in (-Half) .. (Half - 1) /\ -Half <= n /\ n < Half
    BY ONLY <1>4, n \in 1 .. MaxStep, Sizes
  <2> QED  BY Zenon, <2>1, <1>0, <1>1, DiffMove DEF TypeOK
<1>5. \A t \in enabled : Remaining(t)' = Remaining(t) - n
  BY Zenon, <1>0, <1>1, <1>3, <1>4 DEF Remaining, TypeOK
<1>6. SignedDiff(timer_target, tsc') = SignedDiff(timer_target, tsc) - n
  <2>1. PICK t \in enabled : TRUE  BY Zenon, <1>2 DEF Permanent
  <2>2. /\ Remaining(t) \in 0 .. MaxDelay
        /\ SignedDiff(timer_target, tsc) \in 0 .. Remaining(t)
    BY Zenon, <2>1, <1>3
  <2>3. SignedDiff(timer_target, tsc) \in 0 .. MaxDelay
    BY ONLY <2>2, Sizes
  <2> QED  BY Zenon, <2>3, <1>1, <1>4 DEF TypeOK
<1> QED  BY Zenon, <1>2, <1>3, <1>5, <1>6

\* Executing n cycles preserves the invariant: the check of the cached deadline lets
\* the loop go on only with nothing due.
LEMMA CpuStepInv == ASSUME IInv, ListInv', NEW n \in 1 .. MaxStep, CpuStep(n) PROVE IInv'
<1>0. /\ pc' = (IF LessThan(timer_target, tsc') /\ queue # <<>> THEN "process" ELSE "run")
      /\ UNCHANGED <<timer_target, queue, ts, enabled>>
  BY Zenon DEF CpuStep
<1>1. GoodList(queue, enabled) /\ n \in Int  BY DEF IInv
<1>2. /\ queue # <<>>
      /\ \A t \in enabled : /\ Remaining(t) \in 0 .. MaxDelay
                            /\ SignedDiff(timer_target, tsc) \in 0 .. Remaining(t)
                            /\ Remaining(t)' = Remaining(t) - n
      /\ SignedDiff(timer_target, tsc') = SignedDiff(timer_target, tsc) - n
  BY Zenon, CpuStepDistances
<1>3. GoodList(queue, enabled)'
  <2>1. \A i \in 1 .. Len(queue) : queue[i] \in enabled  BY Zenon, <1>1 DEF GoodList, Linked
  <2>2. ASSUME NEW i \in 1 .. Len(queue), NEW j \in 1 .. Len(queue), i < j
        PROVE  Remaining(queue[i])' <= Remaining(queue[j])'
    <3>1. Remaining(queue[i]) <= Remaining(queue[j])  BY Zenon, <2>2, <1>1 DEF GoodList
    <3>2. Remaining(queue[i]) \in 0 .. MaxDelay /\ Remaining(queue[j]) \in 0 .. MaxDelay
      BY Zenon, <2>1, <1>2
    <3>3. Remaining(queue[i])' = Remaining(queue[i]) - n
      BY Zenon, <2>1, <1>0, <1>2 DEF Remaining
    <3>4. Remaining(queue[j])' = Remaining(queue[j]) - n
      BY Zenon, <2>1, <1>0, <1>2 DEF Remaining
    <3> QED  BY ONLY <3>1, <3>2, <3>3, <3>4, <1>1
  <2>3. ASSUME NEW t \in enabled PROVE Remaining(t)' \in Window
    <3>1. Remaining(t) \in 0 .. MaxDelay /\ Remaining(t)' = Remaining(t) - n  BY Zenon, <1>2
    <3> QED  BY ONLY <3>1, n \in 1 .. MaxStep, Sizes DEF Window
  <2> QED  BY Zenon, <2>2, <2>3, <1>0, <1>1 DEF GoodList, Linked, Distinct, Remaining
<1>4. RunInv'
  <2> SUFFICES ASSUME pc' = "run", NEW t \in enabled
               PROVE  SignedDiff(timer_target, tsc') \in 0 .. Remaining(t)'
    BY Zenon, <1>0 DEF RunInv, Remaining
  <2>1. ~(SignedDiff(timer_target, tsc') <= 0)
    <3>1. "process" # "run"  OBVIOUS
    <3> QED  BY Zenon, <3>1, <1>0, <1>2 DEF LessThan
  <2>2. /\ Remaining(t) \in 0 .. MaxDelay
        /\ SignedDiff(timer_target, tsc) \in 0 .. Remaining(t)
        /\ Remaining(t)' = Remaining(t) - n
        /\ SignedDiff(timer_target, tsc') = SignedDiff(timer_target, tsc) - n
    BY Zenon, <1>2
  <2> QED  BY ONLY <2>1, <2>2, <1>1, Sizes
<1>5. CallbackInv'
  BY <1>0 DEF CallbackInv
<1> QED  BY Zenon, <1>3, <1>4, <1>5 DEF IInv

\* While timers are processed the head is the timer most overdue, and the list does not
\* become empty when it is taken off.
LEMMA HeadFirst ==
    ASSUME IInv, pc = "process"
    PROVE  /\ Len(queue) # 1 /\ queue # <<>>
           /\ queue[1] \in enabled /\ queue[1] \in Timers /\ Remaining(queue[1]) \in Window
           /\ GoodList(Tail(queue), enabled \ {queue[1]})
           /\ \A u \in enabled : Remaining(queue[1]) <= Remaining(u)
           /\ HeadDue => Remaining(queue[1]) \in (-MaxStep) .. 0
           /\ ~HeadDue => Remaining(queue[1]) \in 1 .. MaxDelay
<1>1. TypeOK /\ GoodList(queue, enabled) /\ PhaseInv /\ Links(queue, enabled)
  BY Zenon, Structure
<1>2. Permanent \subseteq enabled  BY Zenon, <1>1 DEF PhaseInv
<1>3. Len(queue) # 1 /\ queue # <<>>  BY Zenon, <1>1, <1>2, TwoLinked
<1> DEFINE h == queue[1]
<1>4. /\ GoodList(Tail(queue), enabled \ {h}) /\ h \in enabled
      /\ \A u \in enabled : Remaining(h) <= Remaining(u)
  BY Zenon, <1>1, <1>3, TailGood
<1>5. h \in Timers /\ Remaining(h) \in Window
  BY Zenon, <1>1, <1>4 DEF TypeOK, GoodList
<1>6. HeadDue <=> Remaining(h) <= 0
  BY Zenon, <1>3 DEF HeadDue, LessThan, Remaining
<1> HIDE DEF h
<1>7. /\ Remaining(h) <= 0 => Remaining(h) \in (-MaxStep) .. 0
      /\ ~(Remaining(h) <= 0) => Remaining(h) \in 1 .. MaxDelay
  BY ONLY <1>5, Sizes DEF Window
<1> QED  BY Zenon, <1>3, <1>4, <1>5, <1>6, <1>7 DEF h

\* Starting a callback: the timer keeps its expired stamp.
LEMMA CallBackInv == ASSUME IInv, ListInv', CallBack PROVE IInv'
<1> DEFINE h == queue[1]
<1>1. /\ pc = "process" /\ HeadDue /\ queue' = Tail(queue) /\ enabled' = enabled \ {h}
      /\ in_callback' = in_callback \cup {h} /\ cb' = h
      /\ pc' = AfterRemoveHead("callback") /\ UNCHANGED <<tsc, ts>>
  BY Zenon DEF CallBack
<1>2. /\ Len(queue) # 1 /\ h \in Timers /\ GoodList(Tail(queue), enabled \ {h})
      /\ Remaining(h) \in (-MaxStep) .. 0
  BY Zenon, <1>1, HeadFirst
<1> HIDE DEF h
<1>3. pc' = "callback"  BY Zenon, <1>1, <1>2 DEF AfterRemoveHead
<1>4. GoodList(queue, enabled)'
  BY Zenon, <1>1, <1>2 DEF GoodList, Linked, Distinct, Remaining
<1>5. CallbackInv'
  <2>1. Remaining(h) >= -MaxStep /\ Remaining(h) <= 0  BY ONLY <1>2, Sizes
  <2>2. Remaining(cb)' = Remaining(h)  BY Zenon, <1>1 DEF Remaining
  <2>3. cb' \in in_callback'  BY Zenon, <1>1
  <2> QED  BY Zenon, <2>1, <2>2, <2>3 DEF CallbackInv
<1>6. RunInv'
  BY <1>3 DEF RunInv
<1> QED  BY Zenon, <1>4, <1>5, <1>6 DEF IInv

\* Arming the next part of a long period, from the deadline just passed.
LEMMA NextPartArms ==
    ASSUME IInv, NextPart
    PROVE  LET h == queue[1]
           IN  /\ h \in BigTimers /\ h \in enabled /\ h \in Timers
               /\ period[h] \in Nat \ {0}
               /\ timer_advance_ex(Tail(queue), enabled \ {h}, h, period[h], FALSE)
               /\ GoodList(Tail(queue), enabled \ {h})
               /\ Remaining(h) \in (-MaxStep) .. 0
               /\ \E s \in Stamps, f \in 0 .. Frac - 1 :
                      /\ timer_enable(Tail(queue), enabled \ {h}, h, s, f)
                      /\ SignedDiff(s, tsc) \in Window
                      /\ SignedDiff(s, tsc) > Remaining(h)
               /\ pc = "process" /\ pc' = "process" /\ UNCHANGED <<tsc, cb, due>>
<1>1. TypeOK /\ SplitInv  BY Zenon, Structure
<1> DEFINE h == queue[1]
<1>2. /\ pc = "process" /\ HeadDue /\ h \in split
      /\ timer_advance_ex(Tail(queue), enabled \ {h}, h, period[h], FALSE)
      /\ pc' = AfterRemoveHead("process") /\ UNCHANGED <<tsc, cb, due>>
  BY Zenon DEF NextPart
<1>3. /\ Len(queue) # 1 /\ h \in Timers /\ h \in enabled
      /\ GoodList(Tail(queue), enabled \ {h}) /\ Remaining(h) \in (-MaxStep) .. 0
  BY Zenon, <1>2, HeadFirst
<1> HIDE DEF h
<1>4. pc' = "process"  BY Zenon, <1>2, <1>3 DEF AfterRemoveHead
<1>5. h \in BigTimers /\ period[h] \in Nat \ {0}
  <2>1. h \in BigTimers /\ period[h] \in Nat /\ period[h] > 0
    BY Zenon, <1>1, <1>2, <1>3 DEF TypeOK, SplitInv
  <2> QED  BY ONLY <2>1
<1>6. \E s \in Stamps, f \in 0 .. Frac - 1 :
          /\ timer_enable(Tail(queue), enabled \ {h}, h, s, f)
          /\ SignedDiff(s, tsc) \in Window
          /\ SignedDiff(s, tsc) > Remaining(h)
  BY Zenon, <1>1, <1>2, <1>3, <1>5, AdvanceExEnables
<1> QED  BY Zenon, <1>2, <1>3, <1>4, <1>5, <1>6 DEF h

\* That preserves the invariant.
LEMMA NextPartInv == ASSUME IInv, ListInv', NextPart PROVE IInv'
<1>1. PICK h \in Timers, s \in Stamps, f \in 0 .. Frac - 1 :
             /\ timer_enable(Tail(queue), enabled \ {h}, h, s, f)
             /\ SignedDiff(s, tsc) \in Window
             /\ GoodList(Tail(queue), enabled \ {h})
  BY Zenon, NextPartArms
<1>2. pc' = "process" /\ tsc' = tsc  BY Zenon, NextPartArms
<1>3. tsc \in Stamps /\ ts \in [Timers -> Stamps] /\ enabled \ {h} \in SUBSET Timers
  BY Zenon, Structure DEF TypeOK
<1>4. GoodList(queue, enabled)'  BY Zenon, <1>1, <1>2, <1>3, EnableGood
<1>5. CallbackInv' /\ RunInv'  BY <1>2 DEF CallbackInv, RunInv
<1> QED  BY Zenon, <1>4, <1>5 DEF IInv

\* The return from a callback in timer_process() preserves the invariant.
LEMMA CallbackReturnsInv == ASSUME IInv, ListInv', CallbackReturns PROVE IInv'
<1>1. GoodList(queue, enabled)'
  BY Zenon, SameOrder DEF CallbackReturns
<1>2. pc' = "process"  BY Zenon DEF CallbackReturns
<1>3. CallbackInv' /\ RunInv'  BY <1>2 DEF CallbackInv, RunInv
<1> QED  BY Zenon, <1>1, <1>3 DEF IInv

\* Processing ends with nothing due and the head's deadline in the cache.
LEMMA ProcessEndsInv == ASSUME IInv, ListInv', ProcessEnds PROVE IInv'
<1> DEFINE h == queue[1]
<1>0. pc = "process" /\ ~HeadDue  BY Zenon DEF ProcessEnds
<1>1. /\ queue # <<>> /\ Remaining(h) \in 1 .. MaxDelay
      /\ \A u \in enabled : Remaining(h) <= Remaining(u)
  BY Zenon, <1>0, HeadFirst
<1>2. pc' = "run" /\ timer_target' = ts[h] /\ UNCHANGED <<tsc, ts, queue, enabled>>
  BY Zenon, <1>1 DEF ProcessEnds
<1> HIDE DEF h
<1>3. GoodList(queue, enabled)'
  BY Zenon, <1>2, SameOrder
<1>4. RunInv'
  <2> SUFFICES ASSUME NEW u \in enabled
               PROVE  Remaining(h) \in 0 .. Remaining(u)
    BY Zenon, <1>2 DEF RunInv, Remaining
  <2>1. Remaining(u) \in Window  BY Zenon, Structure DEF GoodList
  <2>2. Remaining(h) <= Remaining(u)  BY Zenon, <1>1
  <2> QED  BY ONLY <2>1, <2>2, <1>1, Sizes DEF Window
<1>5. CallbackInv'  BY <1>2 DEF CallbackInv
<1> QED  BY Zenon, <1>3, <1>4, <1>5 DEF IInv

\* A permanent timer re-armed by its own callback gets a deadline in the window.
LEMMA PollAdvancesArms ==
    ASSUME IInv, PollAdvances
    PROVE  /\ cb \in Timers /\ Arms(cb)
           /\ pc \in {"run", "callback"} /\ UNCHANGED <<tsc, pc, cb>>
<1>0. /\ pc = "callback" /\ cb \in Permanent \ enabled
      /\ timer_advance_u64(queue, enabled, cb, PollDelay[cb]) /\ UNCHANGED <<tsc, pc, cb>>
  BY Zenon DEF PollAdvances
<1>1. TypeOK /\ cb \in Timers  BY Zenon, <1>0, Structure DEF PhaseInv
<1>2. PollDelay[cb] \in Delay  BY Zenon, <1>0, RangeAssumption
<1>3. Remaining(cb) \in (-MaxStep) .. 0
  <2>1. Remaining(cb) \in (-Half) .. (Half - 1)
    BY Zenon, <1>1, DiffType DEF Remaining, TypeOK
  <2>2. Remaining(cb) >= -MaxStep /\ Remaining(cb) <= 0
    BY Zenon, <1>0 DEF IInv, CallbackInv
  <2> QED  BY ONLY <2>1, <2>2, Sizes
<1> DEFINE s == Wrap(ts[cb] + PollDelay[cb].int + Carry(frac[cb], PollDelay[cb].frac))
           f == FracSum(frac[cb], PollDelay[cb].frac)
<1>4. s \in Stamps /\ f \in 0 .. Frac - 1 /\ SignedDiff(s, tsc) \in Window
  BY Zenon, <1>1, <1>2, <1>3, AdvanceStamp DEF Remaining, TypeOK
<1>5. timer_enable(queue, enabled, cb, s, f)  BY Zenon, <1>0 DEF timer_advance_u64
<1> HIDE DEF s, f
<1>6. "callback" # "run"  OBVIOUS
<1> QED  BY Zenon, <1>0, <1>1, <1>4, <1>5, <1>6 DEF Arms

\* A device's timer_set_delay_u64() sets a deadline from now on.
LEMMA SetDelayArms ==
    ASSUME IInv, NEW t \in Devices, NEW d \in Delays, SetDelay(t, d)
    PROVE  /\ t \in Timers /\ Arms(t)
           /\ pc \in {"run", "callback"} /\ UNCHANGED <<tsc, pc, cb>>
<1>0. timer_set_delay_u64(queue, enabled, t, d) /\ DeviceRuns /\ UNCHANGED <<tsc, pc, cb>>
  BY Zenon DEF SetDelay
<1>1. TypeOK /\ t \in Timers /\ d \in Delay
  BY Zenon, Structure, RangeAssumption DEF Timers
<1> DEFINE s == Wrap(tsc + d.int)
<1>2. /\ s \in Stamps /\ d.frac \in 0 .. Frac - 1
      /\ SignedDiff(s, tsc) \in Window /\ SignedDiff(s, tsc) >= 0
  BY Zenon, <1>1, SetDelayStamp DEF TypeOK
<1>3. timer_enable(queue, enabled, t, s, d.frac)  BY Zenon, <1>0 DEF timer_set_delay_u64
<1> HIDE DEF s
<1> QED  BY Zenon, <1>0, <1>1, <1>2, <1>3 DEF Arms, DeviceRuns

\* A device's timer_advance_u64() in its callback counts from a deadline just passed.
LEMMA AdvanceArms ==
    ASSUME IInv, NEW d \in Delays, Advance(d)
    PROVE  /\ cb \in Timers /\ Arms(cb)
           /\ pc \in {"run", "callback"} /\ UNCHANGED <<tsc, pc, cb>>
<1>0. /\ pc = "callback" /\ Remaining(cb) <= 0
      /\ timer_advance_u64(queue, enabled, cb, d) /\ UNCHANGED <<tsc, pc, cb>>
  BY Zenon DEF Advance
<1>1. TypeOK /\ cb \in Timers /\ d \in Delay
  BY Zenon, <1>0, Structure, RangeAssumption DEF PhaseInv
<1>2. Remaining(cb) \in (-MaxStep) .. 0
  <2>1. Remaining(cb) \in (-Half) .. (Half - 1)
    BY Zenon, <1>1, DiffType DEF Remaining, TypeOK
  <2>2. Remaining(cb) >= -MaxStep
    BY Zenon, <1>0 DEF IInv, CallbackInv
  <2> QED  BY ONLY <2>1, <2>2, <1>0, Sizes
<1> DEFINE s == Wrap(ts[cb] + d.int + Carry(frac[cb], d.frac))
           f == FracSum(frac[cb], d.frac)
<1>3. s \in Stamps /\ f \in 0 .. Frac - 1 /\ SignedDiff(s, tsc) \in Window
  BY Zenon, <1>1, <1>2, AdvanceStamp DEF Remaining, TypeOK
<1>4. timer_enable(queue, enabled, cb, s, f)  BY Zenon, <1>0 DEF timer_advance_u64
<1> HIDE DEF s, f
<1>5. "callback" # "run"  OBVIOUS
<1> QED  BY Zenon, <1>0, <1>1, <1>3, <1>4, <1>5 DEF Arms

\* A period is started from now, or from the expired deadline in the timer's
\* own callback: in both cases its end is in the window.
LEMMA OnAutoArms ==
    ASSUME ~RearmWhileRunning, IInv, NEW t \in BigTimers, NEW p \in Periods, OnAuto(t, p)
    PROVE  /\ t \in Timers /\ Arms(t)
           /\ pc \in {"run", "callback"} /\ UNCHANGED <<tsc, pc, cb>>
<1> DEFINE start == period[t] <= 0 /\ t \notin in_callback
<1>0. /\ DeviceRuns /\ period[t] = 0 /\ t \notin in_callback \cap enabled
      /\ timer_advance_ex(queue, enabled, t, p, start) /\ UNCHANGED <<tsc, pc, cb>>
  BY Zenon DEF OnAuto
<1>1. TypeOK /\ PhaseInv /\ t \in Timers /\ p \in Nat \ {0}
  BY Zenon, Structure, RangeAssumption DEF Timers
<1>2. start \in BOOLEAN /\ (start <=> t \notin in_callback)
  <2>1. period[t] <= 0  BY ONLY <1>0
  <2> QED  BY Zenon, <2>1
<1> HIDE DEF start
<1>3. pc \in {"run", "callback"}  BY Zenon, <1>0 DEF DeviceRuns
<1>4. ASSUME ~start PROVE pc = "callback" /\ Remaining(t) \in (-MaxStep) .. 0
  <2>1. t \in in_callback /\ t \notin enabled  BY Zenon, <1>0, <1>2, <1>4
  <2>2. pc = "callback" /\ cb = t  BY Zenon, <2>1, <1>1, <1>3 DEF PhaseInv
  <2>3. Remaining(t) \in (-Half) .. (Half - 1)
    BY Zenon, <1>1, DiffType DEF Remaining, TypeOK
  <2>4. Remaining(t) >= -MaxStep /\ Remaining(t) <= 0
    BY Zenon, <2>1, <2>2 DEF IInv, CallbackInv
  <2>5. Remaining(t) \in (-MaxStep) .. 0  BY ONLY <2>3, <2>4, Sizes
  <2> QED  BY Zenon, <2>2, <2>5
<1>5. PICK s \in Stamps, f \in 0 .. Frac - 1 :
             /\ timer_enable(queue, enabled, t, s, f)
             /\ SignedDiff(s, tsc) \in Window
             /\ start => SignedDiff(s, tsc) >= 0
  BY Zenon, <1>0, <1>1, <1>2, <1>4, AdvanceExEnables
<1>6. pc = "run" => SignedDiff(s, tsc) >= 0
  <2>1. "callback" # "run"  OBVIOUS
  <2> QED  BY Zenon, <2>1, <1>4, <1>5
<1> QED  BY Zenon, <1>0, <1>1, <1>3, <1>5, <1>6 DEF Arms

\* timer_disable() takes the timer off the list.
LEMMA DisableDrops ==
    ASSUME IInv, NEW t \in Devices \cup BigTimers, Disable(t)
    PROVE  /\ t \in Timers \ Permanent /\ pc \in {"run", "callback"}
           /\ queue' = (IF t \in enabled THEN Unlink(queue, t) ELSE queue)
           /\ enabled' = enabled \ {t}
           /\ in_callback' \in {in_callback, in_callback \ {t}}
           /\ t \in enabled => t \notin in_callback'
           /\ UNCHANGED <<tsc, timer_target, ts, pc, cb>>
<1>1. pc \in {"run", "callback"}  BY Zenon DEF DeviceRuns, Disable
<1>2. timer_inited  BY <1>1, Structure DEF PhaseInv
<1>3. t \in Timers \ Permanent  BY TimersAssumption DEF Timers
<1>4. /\ queue' = (IF t \in enabled THEN Unlink(queue, t) ELSE queue)
      /\ enabled' = enabled \ {t}
      /\ in_callback' \in {in_callback, in_callback \ {t}}
      /\ t \in enabled => t \notin in_callback'
  BY Zenon, <1>2 DEF timer_disable, Disable
<1> QED  BY Zenon, <1>1, <1>3, <1>4 DEF Disable

\* timer_stop() does, too.
LEMMA StopDrops ==
    ASSUME NEW t \in BigTimers, Stop(t)
    PROVE  /\ t \in Timers \ Permanent /\ pc \in {"run", "callback"}
           /\ queue' = (IF t \in enabled THEN Unlink(queue, t) ELSE queue)
           /\ enabled' = enabled \ {t}
           /\ in_callback' \in {in_callback, in_callback \ {t}}
           /\ t \in enabled => t \notin in_callback'
           /\ UNCHANGED <<tsc, timer_target, ts, pc, cb>>
<1>1. t \in Timers \ Permanent  BY TimersAssumption DEF Timers
<1> QED  BY Zenon, <1>1 DEF Stop, DeviceRuns

\* A write to the counter moves every linked timer with it.
LEMMA SetNewTscDistances ==
    ASSUME IInv, NEW v \in Stamps, SetNewTsc(v)
    PROVE  /\ \A t \in enabled : Remaining(t)' = Remaining(t)
           /\ \E h \in enabled : /\ SignedDiff(timer_target', tsc') = Remaining(h)
                                 /\ \A u \in enabled : Remaining(h) <= Remaining(u)
           /\ pc = "run" /\ UNCHANGED <<queue, enabled, pc, cb>>
<1>1. TypeOK /\ GoodList(queue, enabled) /\ PhaseInv /\ Links(queue, enabled)
  BY Zenon, Structure
<1>2. Permanent \subseteq enabled  BY Zenon, <1>1 DEF PhaseInv, SetNewTsc
<1>3. queue # <<>>  BY Zenon, <1>1, <1>2, TwoLinked
<1> DEFINE moved(s) == Wrap(v + SignedDiff(s, tsc))
           h == queue[1]
<1>4. /\ pc = "run" /\ tsc' = v
      /\ ts' = [t \in Timers |-> IF t \in Linked(queue) THEN moved(ts[t]) ELSE ts[t]]
      /\ timer_target' = moved(ts[h])
      /\ UNCHANGED <<queue, enabled, pc, cb>>
  BY Zenon, <1>3 DEF SetNewTsc
<1>5. \A s \in Stamps : SignedDiff(moved(s), v) = SignedDiff(s, tsc)
  BY Zenon, <1>1, DiffType, DiffOfSum DEF TypeOK
<1> HIDE DEF moved
<1>6. \A t \in enabled : ts[t] \in Stamps /\ ts'[t] = moved(ts[t])
  BY Zenon, <1>1, <1>4 DEF GoodList, TypeOK
<1>7. \A t \in enabled : Remaining(t)' = Remaining(t)
  BY Zenon, <1>4, <1>5, <1>6 DEF Remaining
<1>8. h \in enabled /\ \A u \in enabled : Remaining(h) <= Remaining(u)
  BY Zenon, <1>1, <1>3, TailGood
<1> HIDE DEF h
<1>9. SignedDiff(timer_target', tsc') = Remaining(h)
  BY Zenon, <1>4, <1>5, <1>6, <1>8 DEF Remaining
<1> QED  BY Zenon, <1>4, <1>7, <1>8, <1>9

\* That preserves the invariant.
LEMMA SetNewTscInv == ASSUME IInv, ListInv', NEW v \in Stamps, SetNewTsc(v) PROVE IInv'
<1>1. /\ \A t \in enabled : Remaining(t)' = Remaining(t)
      /\ \E h \in enabled : /\ SignedDiff(timer_target', tsc') = Remaining(h)
                            /\ \A u \in enabled : Remaining(h) <= Remaining(u)
      /\ pc = "run" /\ UNCHANGED <<queue, enabled, pc, cb>>
  BY Zenon, SetNewTscDistances
<1>2. GoodList(queue, enabled)  BY Zenon DEF IInv
<1>3. GoodList(queue, enabled)'
  <2>1. \A i \in 1 .. Len(queue) : queue[i] \in enabled  BY Zenon, <1>2 DEF GoodList, Linked
  <2>2. \A i \in 1 .. Len(queue) : SignedDiff(ts'[queue[i]], tsc') = Remaining(queue[i])
    BY Zenon, <2>1, <1>1 DEF Remaining
  <2>3. \A i, j \in 1 .. Len(queue) : i < j => Remaining(queue[i])' <= Remaining(queue[j])'
    BY Zenon, <2>2, <1>1, <1>2 DEF GoodList, Remaining
  <2>4. \A t \in enabled : Remaining(t)' \in Window
    BY Zenon, <1>1, <1>2 DEF GoodList
  <2> QED  BY ZenonT(60), <2>3, <2>4, <1>1, <1>2 DEF GoodList, Linked, Distinct, Remaining
<1>4. RunInv'
  <2>1. PICK h \in enabled : /\ SignedDiff(timer_target', tsc') = Remaining(h)
                             /\ \A u \in enabled : Remaining(h) <= Remaining(u)
    BY Zenon, <1>1
  <2>2. ASSUME NEW u \in enabled PROVE Remaining(h) \in 0 .. Remaining(u)
    <3>1. Remaining(u) \in Window /\ Remaining(h) \in Window  BY Zenon, <1>2 DEF GoodList
    <3>2. SignedDiff(timer_target, tsc) \in 0 .. Remaining(h)
      BY Zenon, <1>1 DEF IInv, RunInv
    <3>3. Remaining(h) <= Remaining(u)  BY Zenon, <2>1
    <3> QED  BY ONLY <3>1, <3>2, <3>3, Sizes DEF Window
  <2> QED  BY Zenon, <2>1, <2>2, <1>1 DEF RunInv, Remaining
<1>5. CallbackInv'  BY <1>1 DEF CallbackInv
<1> QED  BY Zenon, <1>3, <1>4, <1>5 DEF IInv

-----------------------------------------------------------------------------
\* Every step of the machine preserves the invariant: one case per action.
LEMMA NextInv == ASSUME ~RearmWhileRunning, IInv, [Next]_vars PROVE IInv'
<1>0. ListInv'  BY Zenon, NextList DEF IInv
<1>1. CASE UNCHANGED vars  BY Zenon, <1>0, <1>1, StutterInv
<1>2. CASE PollAdvances  BY Zenon, <1>0, <1>2, PollAdvancesArms, ArmStep
<1>3. ASSUME NEW t \in Devices, NEW d \in Delays, SetDelay(t, d) PROVE IInv'
  BY Zenon, <1>0, <1>3, SetDelayArms, ArmStep
<1>4. ASSUME NEW d \in Delays, Advance(d) PROVE IInv'
  BY Zenon, <1>0, <1>4, AdvanceArms, ArmStep
<1>5. ASSUME NEW t \in BigTimers, NEW p \in Periods, OnAuto(t, p) PROVE IInv'
  BY Zenon, <1>0, <1>5, OnAutoArms, ArmStep
<1>6. ASSUME NEW t \in Devices \cup BigTimers, Disable(t) PROVE IInv'
  BY Zenon, <1>0, <1>6, DisableDrops, DropStep
<1>7. ASSUME NEW t \in BigTimers, Stop(t) PROVE IInv'
  BY Zenon, <1>0, <1>7, StopDrops, DropStep
<1> QED
  BY Zenon, <1>0, <1>1, <1>2, <1>3, <1>4, <1>5, <1>6, <1>7, PowerOnInv, PowerOffInv,
     DeviceProcessesInv, CpuStepInv, CallBackInv, NextPartInv, CallbackReturnsInv,
     ProcessEndsInv, SetNewTscInv
     DEF Next, Emulation

\* The inductive invariant holds of every reachable state, when devices do not
\* re-arm a timer whose period is still being counted in parts.
THEOREM Invariance == ASSUME ~RearmWhileRunning PROVE Spec => []IInv
<1>1. Init => IInv  BY InitInv
<1>2. IInv /\ [Next]_vars => IInv'  BY NextInv
<1> QED  BY <1>1, <1>2, PTL DEF Spec

\* The list is sorted by deadline whatever the counter does.
THEOREM ListSorted == ASSUME ~RearmWhileRunning PROVE Spec => []Sorted
<1>1. IInv => Sorted  BY DEF IInv, GoodList, Sorted
<1> QED  BY <1>1, Invariance, PTL

\* The cached deadline is never later than a timer in the list.
THEOREM TargetCorrect == ASSUME ~RearmWhileRunning PROVE Spec => []TargetNotLate
<1>1. IInv => TargetNotLate
  <2> SUFFICES ASSUME IInv, pc = "run", queue # <<>>
               PROVE  SignedDiff(timer_target, tsc) <= Remaining(queue[1])
    BY Zenon DEF TargetNotLate
  <2>1. queue[1] \in enabled /\ Remaining(queue[1]) \in Window
    BY Zenon, TailGood, Structure DEF GoodList
  <2>2. SignedDiff(timer_target, tsc) \in 0 .. Remaining(queue[1])
    BY Zenon, <2>1 DEF IInv, RunInv
  <2> QED  BY ONLY <2>1, <2>2, Sizes DEF Window
<1> QED  BY <1>1, Invariance, PTL

-----------------------------------------------------------------------------
(* Periods in parts.                                                       *)

\* A period is p microseconds: the part that timer_advance_ex() arms and the part it
\* leaves in timer->period make up the whole.
LEMMA AdvanceExDue ==
    ASSUME TypeOK, NEW q, NEW en, NEW t \in BigTimers, NEW p \in Nat \ {0},
           NEW start \in BOOLEAN, p * TIMER_USEC < M,
           timer_advance_ex(q, en, t, p, start)
    PROVE  /\ period'[t] \in Nat /\ period'[t] * TIMER_USEC < M
           /\ Wrap(ts'[t] + period'[t] * TIMER_USEC)
                 = Wrap((IF start THEN tsc ELSE ts[t]) + p * TIMER_USEC)
           /\ \A u \in Timers \ {t} : ts'[u] = ts[u] /\ period'[u] = period[u]
           /\ enabled' = en \cup {t}
<1> DEFINE m == IF p > MAX_USEC THEN MAX_USEC ELSE p
           base == IF start THEN tsc ELSE ts[t]
           d == [int |-> m * TIMER_USEC, frac |-> 0]
<1>1. t \in Timers /\ MAX_USEC \in Nat /\ TIMER_USEC \in Nat
  BY RangeAssumption DEF Timers
<1>2. m \in Nat /\ p - m \in Nat
  BY <1>1
<1>3. period' = [period EXCEPT ![t] = p - m]
  BY <1>1 DEF timer_advance_ex
<1>4. timer_do_period(q, en, t, m, start)
  BY DEF timer_advance_ex
<1> HIDE DEF m
<1>5. ts' = [ts EXCEPT ![t] = Wrap(base + m * TIMER_USEC)]
  <2>1. d.int = m * TIMER_USEC /\ d.frac = 0
    OBVIOUS
  <2>2. CASE start
    BY Zenon, <2>1, <2>2, <1>4 DEF timer_do_period, timer_set_delay_u64, timer_enable
  <2>3. CASE ~start
    <3>1. Carry(frac[t], 0) = 0
      BY <1>1, CarryOfWhole DEF TypeOK
    <3>2. ts' = [ts EXCEPT ![t] = Wrap(ts[t] + m * TIMER_USEC + Carry(frac[t], 0))]
      BY Zenon, <2>3, <1>4 DEF timer_do_period, timer_advance_u64, timer_enable
    <3>3. ts[t] + m * TIMER_USEC + 0 = ts[t] + m * TIMER_USEC
      <4>1. ts[t] \in Int /\ m * TIMER_USEC \in Int
        BY <1>1, <1>2, Sizes DEF TypeOK, Stamps
      <4> QED  BY <4>1
    <3> QED  BY Zenon, <2>3, <3>1, <3>2, <3>3
  <2> QED  BY <2>2, <2>3
<1>6. base \in Stamps
  BY <1>1 DEF TypeOK
<1> HIDE DEF base
<1> DEFINE x == m * TIMER_USEC
           y == (p - m) * TIMER_USEC
<1>7. x \in Nat /\ y \in Nat /\ x + y = p * TIMER_USEC
  BY ONLY p \in Nat \ {0}, <1>1, <1>2
<1>8. y < M
  BY ONLY <1>7, p * TIMER_USEC < M, Sizes
<1>9. period'[t] = p - m /\ ts'[t] = Wrap(base + x)
  BY <1>1, <1>3, <1>5 DEF TypeOK
<1> HIDE DEF x
<1>10. Wrap(Wrap(base + x) + y) = Wrap(base + p * TIMER_USEC)
  <2> HIDE DEF y
  <2>1. x + y < M
    BY <1>7
  <2> QED  BY <1>6, <1>7, <2>1, WrapTwice
<1>11. \A u \in Timers \ {t} : ts'[u] = ts[u] /\ period'[u] = period[u]
  BY <1>3, <1>5 DEF TypeOK
<1>12. enabled' = en \cup {t}
  BY Zenon, <1>4 DEF timer_do_period, timer_set_delay_u64, timer_advance_u64, timer_enable
<1> QED  BY Zenon, <1>2, <1>8, <1>9, <1>10, <1>11, <1>12 DEF base

\* What makes PeriodExact inductive: no period is longer than the counter's range.
PeriodInv ==
    \A t \in BigTimers : /\ period[t] * TIMER_USEC < M
                         /\ t \in enabled => Wrap(ts[t] + period[t] * TIMER_USEC) = due[t]

\* A step that leaves the stamps and the ends of periods alone, and arms no such timer.
LEMMA PeriodKept ==
    ASSUME TypeOK, PeriodInv, enabled' \cap BigTimers \subseteq enabled,
           \A t \in BigTimers : /\ ts'[t] = ts[t]
                                /\ period'[t] \in {0, period[t]}
                                /\ t \in enabled' => period'[t] = period[t] /\ due'[t] = due[t]
    PROVE  PeriodInv'
<1> SUFFICES ASSUME NEW t \in BigTimers
             PROVE  /\ period'[t] * TIMER_USEC < M
                    /\ t \in enabled' => Wrap(ts'[t] + period'[t] * TIMER_USEC) = due'[t]
  BY Zenon DEF PeriodInv, Wrap, M
<1>1. /\ period[t] * TIMER_USEC < M
      /\ t \in enabled => Wrap(ts[t] + period[t] * TIMER_USEC) = due[t]
  BY Zenon DEF PeriodInv
<1>2. 0 * TIMER_USEC < M
  <2>1. 0 * TIMER_USEC = 0
    BY RangeAssumption
  <2> QED  BY <2>1, Sizes
<1>3. t \in enabled' => t \in enabled
  BY Zenon
<1> QED
  BY Zenon, <1>1, <1>2, <1>3

\* Arming a timer writes its stamp and that of no other timer.
LEMMA ArmsOne ==
    ASSUME TypeOK, NEW t, Arms(t)
    PROVE  /\ enabled' = enabled \cup {t}
           /\ \A u \in Timers \ {t} : ts'[u] = ts[u]
BY DEF Arms, timer_enable, TypeOK

\* Every step keeps the end of every period: parts are armed from the stamp of the
\* part before, and a counter write moves the stamp and the end alike.
LEMMA NextPeriod ==
    ASSUME ~RearmWhileRunning, IInv, PeriodInv, Next
    PROVE  PeriodInv'
<1>0. TypeOK /\ BigTimers \subseteq Timers
  BY Zenon, Structure DEF Timers
<1>1. CASE PowerOn
  <2>1. enabled' \cap BigTimers = {} /\ \A t \in BigTimers : period'[t] = 0
    BY <1>0, <1>1, TimersAssumption DEF PowerOn
  <2>2. 0 * TIMER_USEC = 0 /\ 0 < M
    BY RangeAssumption, Sizes
  <2> QED  BY Zenon, <2>1, <2>2 DEF PeriodInv, M
<1>2. CASE PowerOff
  BY Zenon, <1>0, <1>2, PeriodKept DEF PowerOff
<1>3. CASE DeviceProcesses
  BY Zenon, <1>0, <1>3, PeriodKept DEF DeviceProcesses
<1>4. CASE CallBack
  BY Zenon, <1>0, <1>4, PeriodKept DEF CallBack, Forget, TypeOK
<1>5. CASE NextPart
  <2> DEFINE h == queue[1]
  <2>1. h \in BigTimers /\ period[h] \in Nat \ {0} /\ h \in enabled
    BY Zenon, <1>5, NextPartArms
  <2>2. /\ timer_advance_ex(Tail(queue), enabled \ {h}, h, period[h], FALSE)
        /\ due' = due
    BY Zenon, <1>5, NextPartArms
  <2> HIDE DEF h
  <2>3. /\ period'[h] * TIMER_USEC < M
        /\ Wrap(ts'[h] + period'[h] * TIMER_USEC) = Wrap(ts[h] + period[h] * TIMER_USEC)
        /\ \A u \in Timers \ {h} : ts'[u] = ts[u] /\ period'[u] = period[u]
        /\ enabled' = enabled
    <3>1. period[h] * TIMER_USEC < M  BY <2>1 DEF PeriodInv
    <3>2. /\ period'[h] * TIMER_USEC < M
          /\ Wrap(ts'[h] + period'[h] * TIMER_USEC)
                = Wrap((IF FALSE THEN tsc ELSE ts[h]) + period[h] * TIMER_USEC)
          /\ \A u \in Timers \ {h} : ts'[u] = ts[u] /\ period'[u] = period[u]
          /\ enabled' = (enabled \ {h}) \cup {h}
      BY ZenonT(60), <1>0, <2>1, <2>2, <3>1, AdvanceExDue
    <3> QED  BY Zenon, <2>1, <3>2
  <2> SUFFICES ASSUME NEW t \in BigTimers
               PROVE  /\ period'[t] * TIMER_USEC < M
                      /\ t \in enabled' => Wrap(ts'[t] + period'[t] * TIMER_USEC) = due'[t]
    BY Zenon DEF PeriodInv, Wrap, M
  <2>4. CASE t = h
    BY Zenon, <2>1, <2>2, <2>3, <2>4 DEF PeriodInv
  <2>5. CASE t # h
    BY Zenon, <1>0, <2>2, <2>3, <2>5 DEF PeriodInv
  <2> QED  BY Zenon, <2>4, <2>5
<1>6. CASE CallbackReturns
  BY Zenon, <1>0, <1>6, PeriodKept DEF CallbackReturns
<1>7. CASE ProcessEnds
  BY Zenon, <1>0, <1>7, PeriodKept DEF ProcessEnds
<1>8. CASE PollAdvances
  <2>1. cb \in Permanent /\ {cb} \cap BigTimers = {}
    BY <1>8, TimersAssumption DEF PollAdvances
  <2>2. enabled' = enabled \cup {cb} /\ \A u \in Timers \ {cb} : ts'[u] = ts[u]
    BY Zenon, <1>0, <1>8, PollAdvancesArms, ArmsOne
  <2> QED  BY Zenon, <1>0, <1>8, <2>1, <2>2, PeriodKept DEF PollAdvances
<1>9. ASSUME NEW n \in 1 .. MaxStep, CpuStep(n) PROVE PeriodInv'
  BY Zenon, <1>0, <1>9, PeriodKept DEF CpuStep
<1>10. ASSUME NEW t \in Devices, NEW d \in Delays, SetDelay(t, d) PROVE PeriodInv'
  <2>1. {t} \cap BigTimers = {}
    BY TimersAssumption
  <2>2. enabled' = enabled \cup {t} /\ \A u \in Timers \ {t} : ts'[u] = ts[u]
    BY Zenon, <1>0, <1>10, SetDelayArms, ArmsOne
  <2> QED  BY Zenon, <1>0, <1>10, <2>1, <2>2, PeriodKept DEF SetDelay
<1>11. ASSUME NEW d \in Delays, Advance(d) PROVE PeriodInv'
  <2>1. cb \in Devices /\ {cb} \cap BigTimers = {}
    BY <1>11, TimersAssumption DEF Advance
  <2>2. enabled' = enabled \cup {cb} /\ \A u \in Timers \ {cb} : ts'[u] = ts[u]
    BY Zenon, <1>0, <1>11, AdvanceArms, ArmsOne
  <2> QED  BY Zenon, <1>0, <1>11, <2>1, <2>2, PeriodKept DEF Advance
<1>12. ASSUME NEW t \in Devices \cup BigTimers, Disable(t) PROVE PeriodInv'
  <2>1. enabled' = enabled \ {t}
    BY Zenon, <1>12, DisableDrops
  <2> QED  BY Zenon, <1>0, <1>12, <2>1, PeriodKept DEF Disable, Forget, TypeOK
<1>13. ASSUME NEW t \in BigTimers, NEW p \in Periods, OnAuto(t, p) PROVE PeriodInv'
  <2> DEFINE start == period[t] <= 0 /\ t \notin in_callback
             base == IF start THEN tsc ELSE ts[t]
  <2>1. period[t] = 0 /\ t \notin in_callback \cap enabled
    BY Zenon, <1>13 DEF OnAuto
  <2>2. start \in BOOLEAN /\ (start <=> t \notin in_callback)
    <3>1. period[t] <= 0  BY ONLY <2>1
    <3> QED  BY Zenon, <3>1
  <2>3. p \in Nat \ {0} /\ p * TIMER_USEC < M
    BY RangeAssumption
  <2>4. timer_advance_ex(queue, enabled, t, p, start)
    BY Zenon, <1>13 DEF OnAuto
  <2>5. /\ \A u \in Timers \ {t} : due'[u] = due[u]
        /\ due'[t] = Wrap(base + p * TIMER_USEC)
    BY <1>0, <1>13, <2>2 DEF OnAuto, TypeOK
  <2> HIDE DEF start
  <2>6. /\ period'[t] * TIMER_USEC < M
        /\ Wrap(ts'[t] + period'[t] * TIMER_USEC) = Wrap(base + p * TIMER_USEC)
        /\ \A u \in Timers \ {t} : ts'[u] = ts[u] /\ period'[u] = period[u]
        /\ enabled' = enabled \cup {t}
    BY <1>0, <2>2, <2>3, <2>4, AdvanceExDue
  <2> HIDE DEF base
  <2> SUFFICES ASSUME NEW u \in BigTimers
               PROVE  /\ period'[u] * TIMER_USEC < M
                      /\ u \in enabled' => Wrap(ts'[u] + period'[u] * TIMER_USEC) = due'[u]
    BY Zenon DEF PeriodInv, Wrap, M
  <2>7. CASE u = t
    BY Zenon, <2>5, <2>6, <2>7
  <2>8. CASE u # t
    BY Zenon, <1>0, <2>5, <2>6, <2>8 DEF PeriodInv
  <2> QED  BY <2>7, <2>8
<1>14. ASSUME NEW t \in BigTimers, Stop(t) PROVE PeriodInv'
  BY Zenon, <1>0, <1>14, PeriodKept DEF Stop, Forget, TypeOK
<1>15. ASSUME NEW v \in Stamps, SetNewTsc(v) PROVE PeriodInv'
  <2> SUFFICES ASSUME NEW t \in BigTimers
               PROVE  /\ period'[t] * TIMER_USEC < M
                      /\ t \in enabled' => Wrap(ts'[t] + period'[t] * TIMER_USEC) = due'[t]
    BY Zenon DEF PeriodInv, Wrap, M
  <2>1. period' = period /\ enabled' = enabled /\ period[t] \in Nat
    BY Zenon, <1>0, <1>15 DEF SetNewTsc, TypeOK
  <2>2. period'[t] * TIMER_USEC < M
    BY <2>1 DEF PeriodInv
  <2>3. ASSUME t \in enabled
        PROVE  Wrap(ts'[t] + period[t] * TIMER_USEC) = due'[t]
    <3>1. t \in Linked(queue) /\ t \in Timers
      BY Zenon, <1>0, <2>3, Structure DEF GoodList
    <3>2. /\ ts'[t] = Wrap(v + SignedDiff(ts[t], tsc))
          /\ due'[t] = Wrap(v + Wrap(due[t] - tsc))
      BY Zenon, <1>15, <2>3, <3>1 DEF SetNewTsc
    <3>3. due[t] = Wrap(ts[t] + period[t] * TIMER_USEC) /\ period[t] * TIMER_USEC < M
      BY <2>3 DEF PeriodInv
    <3>4. ts[t] \in Stamps /\ tsc \in Stamps /\ period[t] * TIMER_USEC \in Nat
      BY <1>0, <2>1, <3>1, RangeAssumption DEF TypeOK
    <3> QED  BY <3>2, <3>3, <3>4, WrapMove
  <2> QED  BY Zenon, <2>1, <2>2, <2>3
<1> QED
  BY Zenon, <1>1, <1>2, <1>3, <1>4, <1>5, <1>6, <1>7, <1>8, <1>9, <1>10, <1>11, <1>12,
     <1>13, <1>14, <1>15 DEF Next, Emulation

\* A period that timer_on_auto() starts ends when it was asked to, in however many
\* parts it is armed and whatever the guest writes to the counter meanwhile.
THEOREM PeriodsExact == ASSUME ~RearmWhileRunning PROVE Spec => []PeriodExact
<1>1. Init => PeriodInv
  <2>1. 0 * TIMER_USEC = 0 /\ 0 < M
    BY RangeAssumption, Sizes
  <2> QED  BY <2>1 DEF Init, PeriodInv, Timers
<1>2. IInv /\ PeriodInv /\ [Next]_vars => PeriodInv'
  <2> SUFFICES ASSUME IInv, PeriodInv, [Next]_vars PROVE PeriodInv'
    OBVIOUS
  <2>1. CASE UNCHANGED vars
    BY Zenon, <2>1 DEF vars, PeriodInv, Wrap, M
  <2> QED  BY <2>1, NextPeriod
<1>3. PeriodInv => PeriodExact
  BY DEF PeriodInv, PeriodExact
<1> QED
  BY <1>1, <1>2, <1>3, Invariance, PTL DEF Spec

-----------------------------------------------------------------------------
(* The abstract clock.                                                     *)

\* The cycles left to every alarm of the abstract clock.
Left == [t \in Timers |-> IF t \in enabled THEN Remaining(t) ELSE 0]

\* Arming a timer, however its new deadline is computed, sets one alarm.
LEMMA ArmClock ==
    ASSUME IInv, pc \in {"run", "callback"}, NEW t \in Timers, Arms(t),
           UNCHANGED <<tsc, pc, cb>>
    PROVE  Clock!Arm(t)
<1>1. /\ enabled' = enabled \cup {t}
      /\ Remaining(t)' \in Window
      /\ \A u \in Timers \ {t} : Remaining(u)' = Remaining(u)
  <2>1. PICK s \in Stamps, f \in 0 .. Frac - 1 :
               timer_enable(queue, enabled, t, s, f) /\ SignedDiff(s, tsc) \in Window
    BY Zenon DEF Arms
  <2>2. /\ GoodList(queue, enabled) /\ enabled \in SUBSET Timers
        /\ tsc \in Stamps /\ ts \in [Timers -> Stamps]
    BY Zenon, Structure DEF TypeOK
  <2> QED  BY Zenon, <2>1, <2>2, EnableGood
<1>2. Remaining(t)' \in Int
  BY <1>1, Sizes DEF Window
<1>3. Left'[t] \in Int
  BY <1>1, <1>2 DEF Left
<1>4. Left' = [Left EXCEPT ![t] = Left'[t]]
  BY Zenon, <1>1 DEF Left
<1> QED
  BY Zenon, <1>1, <1>3, <1>4 DEF Clock!Arm, Left

\* Taking a timer off the list cancels one alarm.
LEMMA CancelClock ==
    ASSUME pc \in {"run", "callback"}, NEW t \in Timers, enabled' = enabled \ {t},
           UNCHANGED <<tsc, ts, pc, cb>>
    PROVE  Clock!Cancel(t)
<1>1. \A u \in Timers : Remaining(u)' = Remaining(u)
  BY DEF Remaining
<1>2. Left' = [Left EXCEPT ![t] = 0]
  BY Zenon, <1>1 DEF Left
<1> QED
  BY <1>2 DEF Clock!Cancel, Left

\* timer_init() and timer_close() set every alarm's time to 0.
LEMMA PowerClock ==
    ASSUME IInv
    PROVE  /\ PowerOn => Clock!PowerOn
           /\ PowerOff => Clock!PowerOff
<1>1. ASSUME PowerOn PROVE Clock!PowerOn
  <2>1. \A t \in Timers : Remaining(t)' = 0
    BY <1>1, Sizes DEF PowerOn, Remaining, SignedDiff, Wrap
  <2>2. Left' = [t \in Timers |-> 0]
    BY <2>1 DEF Left
  <2> QED  BY <1>1, <2>2 DEF PowerOn, Clock!PowerOn, Left, Timers
<1>2. ASSUME PowerOff PROVE Clock!PowerOff
  <2>1. enabled' = {}
    BY Zenon, <1>2, Structure DEF PowerOff, GoodList
  <2>2. Left' = [t \in Timers |-> 0]
    BY <2>1 DEF Left
  <2> QED  BY <1>2, <2>1, <2>2 DEF PowerOff, Clock!PowerOff, Left
<1> QED  BY <1>1, <1>2

\* n cycles bring every deadline nearer by n, and the loop goes on only when the cached
\* deadline, which is never later than any timer's, has not come.
LEMMA CpuStepClock ==
    ASSUME IInv, NEW n \in 1 .. MaxStep, CpuStep(n) PROVE Clock!Tick(n)
<1>0. /\ pc = "run" /\ enabled' = enabled /\ cb' = cb
      /\ pc' = (IF LessThan(timer_target, tsc') /\ queue # <<>> THEN "process" ELSE "run")
      /\ timer_target' = timer_target
  BY Zenon DEF CpuStep
<1>1. /\ queue # <<>>
      /\ \A t \in enabled : /\ t \in Timers /\ Remaining(t) \in 0 .. MaxDelay
                            /\ SignedDiff(timer_target, tsc) \in 0 .. Remaining(t)
                            /\ Remaining(t)' = Remaining(t) - n
      /\ SignedDiff(timer_target, tsc') = SignedDiff(timer_target, tsc) - n
  BY Zenon, CpuStepDistances
<1>2. Left' = [t \in Timers |-> IF t \in enabled THEN Left[t] - n ELSE 0]
  BY Zenon, <1>0, <1>1 DEF Left
<1>3. pc' \in {"run", "process"}
  BY Zenon, <1>0
<1>4. ASSUME pc' = "run", NEW t \in enabled PROVE Left'[t] > 0
  <2>1. ~(SignedDiff(timer_target, tsc') <= 0)
    <3>1. "process" # "run"  OBVIOUS
    <3> QED  BY Zenon, <3>1, <1>0, <1>1, <1>4 DEF LessThan
  <2>2. Remaining(t)' > 0
    <3>1. /\ Remaining(t) \in 0 .. MaxDelay
          /\ SignedDiff(timer_target, tsc) \in 0 .. Remaining(t)
          /\ Remaining(t)' = Remaining(t) - n
          /\ SignedDiff(timer_target, tsc') = SignedDiff(timer_target, tsc) - n
      BY Zenon, <1>1, <1>4
    <3> QED  BY ONLY <2>1, <3>1, n \in 1 .. MaxStep, Sizes
  <2> QED  BY Zenon, <2>2, <1>0, <1>1, <1>4 DEF Left
<1> QED
  BY Zenon, <1>0, <1>2, <1>3, <1>4 DEF Clock!Tick, Left

\* The timer whose callback starts is the one most overdue.
LEMMA CallBackClock == ASSUME IInv, CallBack PROVE \E t \in Timers : Clock!GoOff(t)
<1> DEFINE h == queue[1]
<1>1. /\ pc = "process" /\ HeadDue /\ enabled' = enabled \ {h} /\ cb' = h
      /\ pc' = AfterRemoveHead("callback") /\ UNCHANGED <<tsc, ts>>
  BY Zenon DEF CallBack
<1>2. /\ Len(queue) # 1 /\ h \in enabled /\ h \in Timers
      /\ Remaining(h) \in (-MaxStep) .. 0
      /\ \A u \in enabled : Remaining(h) <= Remaining(u)
  BY Zenon, <1>1, HeadFirst
<1> HIDE DEF h
<1>3. pc' = "callback"  BY Zenon, <1>1, <1>2 DEF AfterRemoveHead
<1>4. Remaining(h) <= 0  BY ONLY <1>2, Sizes
<1>5. enabled \subseteq Timers  BY Zenon, Structure DEF TypeOK
<1>6. \A u \in Timers : Remaining(u)' = Remaining(u)  BY Zenon, <1>1 DEF Remaining
<1>7. Left' = [Left EXCEPT ![h] = 0]  BY Zenon, <1>1, <1>6 DEF Left
<1>8. Clock!Due(h) /\ Clock!Earliest(h)
  BY <1>2, <1>4, <1>5 DEF Clock!Due, Clock!Earliest
<1> QED
  BY Zenon, <1>1, <1>2, <1>3, <1>7, <1>8 DEF Clock!GoOff, Left

\* The next part of a long period: the alarm is put off.
LEMMA NextPartClock == ASSUME IInv, NextPart PROVE \E t \in Timers : Clock!Extend(t)
<1>0. PICK h \in Timers : h = queue[1]
  BY Zenon, NextPartArms
<1>1. /\ h \in enabled /\ GoodList(Tail(queue), enabled \ {h})
      /\ Remaining(h) \in (-MaxStep) .. 0
      /\ pc = "process" /\ pc' = "process" /\ UNCHANGED <<tsc, cb>>
  BY Zenon, <1>0, NextPartArms
<1>2. PICK s \in Stamps, f \in 0 .. Frac - 1 :
             /\ timer_enable(Tail(queue), enabled \ {h}, h, s, f)
             /\ SignedDiff(s, tsc) \in Window
             /\ SignedDiff(s, tsc) > Remaining(h)
  BY Zenon, <1>0, NextPartArms
<1>3. \A u \in enabled : Remaining(h) <= Remaining(u)  BY Zenon, <1>0, <1>1, HeadFirst
<1>4. enabled \subseteq Timers /\ tsc \in Stamps /\ ts \in [Timers -> Stamps]
  BY Zenon, Structure DEF TypeOK
<1>5. /\ enabled' = enabled
      /\ Remaining(h)' = SignedDiff(s, tsc)
      /\ \A u \in Timers \ {h} : Remaining(u)' = Remaining(u)
  <2>1. /\ enabled' = (enabled \ {h}) \cup {h}
        /\ Remaining(h)' = SignedDiff(s, tsc)
        /\ \A u \in Timers \ {h} : Remaining(u)' = Remaining(u)
    <3>1. enabled \ {h} \in SUBSET Timers  BY Zenon, <1>4
    <3> QED  BY Zenon, <3>1, <1>1, <1>2, <1>4, EnableGood
  <2>2. (enabled \ {h}) \cup {h} = enabled  BY Zenon, <1>1
  <2> QED  BY Zenon, <2>1, <2>2
<1>6. Left'[h] \in Int /\ Left'[h] > Left[h]
  <2>1. SignedDiff(s, tsc) \in Int  BY ONLY <1>2, Sizes DEF Window
  <2>2. Left'[h] = SignedDiff(s, tsc) /\ Left[h] = Remaining(h)  BY Zenon, <1>1, <1>5 DEF Left
  <2> QED  BY Zenon, <2>1, <2>2, <1>2
<1>7. Left' = [Left EXCEPT ![h] = Left'[h]]
  BY Zenon, <1>5 DEF Left
<1>8. Clock!Due(h) /\ Clock!Earliest(h)
  <2>1. Remaining(h) <= 0  BY ONLY <1>1, Sizes
  <2> QED  BY <2>1, <1>1, <1>3, <1>4 DEF Clock!Due, Clock!Earliest
<1> QED
  BY ZenonT(60), <1>1, <1>5, <1>6, <1>7, <1>8 DEF Clock!Extend, Left

\* Processing ends with nothing due.
LEMMA ProcessEndsClock == ASSUME IInv, ProcessEnds PROVE Clock!Resume
<1> DEFINE h == queue[1]
<1>0. pc = "process" /\ ~HeadDue  BY Zenon DEF ProcessEnds
<1>1. /\ queue # <<>> /\ Remaining(h) \in 1 .. MaxDelay
      /\ \A u \in enabled : Remaining(h) <= Remaining(u)
  BY Zenon, <1>0, HeadFirst
<1>2. pc' = "run" /\ UNCHANGED <<tsc, ts, enabled, cb>>
  BY Zenon, <1>1 DEF ProcessEnds
<1> HIDE DEF h
<1>3. ASSUME NEW u \in enabled PROVE u \in Timers /\ ~(Remaining(u) <= 0)
  <2>1. Remaining(u) \in Window /\ u \in Timers
    BY Zenon, Structure DEF GoodList, TypeOK
  <2>2. Remaining(h) <= Remaining(u)  BY Zenon, <1>1
  <2>3. ~(Remaining(u) <= 0)  BY ONLY <2>1, <2>2, <1>1, Sizes DEF Window
  <2> QED  BY Zenon, <2>1, <2>3
<1>4. \A u \in enabled : ~Clock!Due(u)
  BY <1>3 DEF Clock!Due
<1>5. Left' = Left
  BY Zenon, <1>2 DEF Left, Remaining
<1> QED
  BY Zenon, <1>0, <1>2, <1>4, <1>5 DEF Clock!Resume, Left

\* A write to the counter is not seen: every armed timer keeps its distance.
LEMMA SetNewTscClock ==
    ASSUME IInv, NEW v \in Stamps, SetNewTsc(v) PROVE UNCHANGED Clock!vars
<1>1. /\ \A t \in enabled : Remaining(t)' = Remaining(t)
      /\ UNCHANGED <<enabled, pc, cb>>
  BY Zenon, SetNewTscDistances
<1>2. Left' = Left
  BY Zenon, <1>1 DEF Left
<1> QED
  BY Zenon, <1>1, <1>2 DEF Clock!vars, Left

\* Every step of the timers is a step of the abstract clock, or changes nothing of it.
LEMMA StepSimulation ==
    ASSUME ~RearmWhileRunning, IInv, [Next]_vars
    PROVE  [Clock!Next]_Clock!vars
<1>1. CASE UNCHANGED vars
  <2>1. Left' = Left  BY <1>1 DEF vars, Left, Remaining
  <2> QED  BY <1>1, <2>1 DEF vars, Clock!vars, Left
<1>2. CASE PowerOn \/ PowerOff
  BY Zenon, <1>2, PowerClock DEF Clock!Next
<1>3. CASE DeviceProcesses
  <2>1. Left' = Left  BY <1>3 DEF DeviceProcesses, Left, Remaining
  <2>2. Clock!Look  BY <1>3, <2>1 DEF DeviceProcesses, Clock!Look, Left
  <2> QED  BY <2>2 DEF Clock!Next
<1>4. CASE CallBack
  BY Zenon, <1>4, CallBackClock DEF Clock!Next
<1>5. CASE NextPart
  BY Zenon, <1>5, NextPartClock DEF Clock!Next
<1>6. CASE CallbackReturns
  <2>1. Left' = Left  BY <1>6 DEF CallbackReturns, Left, Remaining
  <2>2. Clock!HandlerReturns  BY <1>6, <2>1 DEF CallbackReturns, Clock!HandlerReturns, Left
  <2> QED  BY <2>2 DEF Clock!Next
<1>7. CASE ProcessEnds
  BY Zenon, <1>7, ProcessEndsClock DEF Clock!Next
<1>8. CASE PollAdvances
  <2>1. /\ cb \in Timers /\ Arms(cb)
        /\ pc \in {"run", "callback"} /\ UNCHANGED <<tsc, pc, cb>>
    BY Zenon, <1>8, PollAdvancesArms
  <2> QED  BY <2>1, ArmClock DEF Clock!Next
<1>9. ASSUME NEW n \in 1 .. MaxStep, CpuStep(n) PROVE Clock!Next
  BY Zenon, <1>9, CpuStepClock DEF Clock!Next
<1>10. ASSUME NEW t \in Devices, NEW d \in Delays, SetDelay(t, d) PROVE Clock!Next
  <2>1. Clock!Arm(t) /\ t \in Timers  BY Zenon, <1>10, SetDelayArms, ArmClock
  <2> QED  BY Zenon, <2>1 DEF Clock!Next
<1>11. ASSUME NEW d \in Delays, Advance(d) PROVE Clock!Next
  <2>1. /\ cb \in Timers /\ Arms(cb)
        /\ pc \in {"run", "callback"} /\ UNCHANGED <<tsc, pc, cb>>
    BY Zenon, <1>11, AdvanceArms
  <2> QED  BY <2>1, ArmClock DEF Clock!Next
<1>12. ASSUME NEW t \in Devices \cup BigTimers, Disable(t) PROVE Clock!Next
  <2>1. Clock!Cancel(t) /\ t \in Timers  BY Zenon, <1>12, DisableDrops, CancelClock
  <2> QED  BY Zenon, <2>1 DEF Clock!Next
<1>13. ASSUME NEW t \in BigTimers, NEW p \in Periods, OnAuto(t, p) PROVE Clock!Next
  <2>1. Clock!Arm(t) /\ t \in Timers  BY Zenon, <1>13, OnAutoArms, ArmClock
  <2> QED  BY Zenon, <2>1 DEF Clock!Next
<1>14. ASSUME NEW t \in BigTimers, Stop(t) PROVE Clock!Next
  <2>1. Clock!Cancel(t) /\ t \in Timers  BY Zenon, <1>14, StopDrops, CancelClock
  <2> QED  BY Zenon, <2>1 DEF Clock!Next
<1>15. ASSUME NEW v \in Stamps, SetNewTsc(v) PROVE UNCHANGED Clock!vars
  BY Zenon, <1>15, SetNewTscClock
<1> QED
  BY Zenon, <1>1, <1>2, <1>3, <1>4, <1>5, <1>6, <1>7, <1>8, <1>9, <1>10, <1>11, <1>12,
     <1>13, <1>14, <1>15 DEF Next, Emulation

\* The list, the cached deadline and the wrapping stamps implement the alarm clock: the
\* callback that starts is that of a due timer, the most overdue one, once for each
\* arming, and the CPU resumes only with nothing due.
THEOREM Refinement == ASSUME ~RearmWhileRunning PROVE Spec => ImplementsClock
<1>1. Init => Clock!Init
  BY DEF Init, Clock!Init
<1>2. IInv /\ [Next]_vars => [Clock!Next]_Clock!vars
  BY StepSimulation
<1> QED
  BY <1>1, <1>2, Invariance, PTL DEF Spec, ImplementsClock, Clock!Spec
=============================================================================
