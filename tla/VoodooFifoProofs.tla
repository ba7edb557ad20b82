-------------------------- MODULE VoodooFifoProofs --------------------------
(***************************************************************************)
(* The safety of the Voodoo's command FIFO, for any number of entries,     *)
(* render threads and triangles. The inductive invariant says where each   *)
(* thread may be with fifo_mutex and without it, what the head entry is    *)
(* and whether it has taken effect at each place of the run, and which     *)
(* buffer is on display while a swap is turned to, posted and shown. The   *)
(* bound on the count of swaps, and that no wake-up is lost, are proved    *)
(* from it at the end.                                                     *)
(***************************************************************************)
EXTENDS VoodooFifo, FiniteSetTheorems, TLAPS

TriPlaces == {"tri", "tri_room", "tri_sleep"}
SwapPlaces == {"swap", "swap_look", "swap_reset", "swap_sleep"}
Running == {"entry", "pop", "idle", "post"} \cup TriPlaces \cup SwapPlaces
CpuPlaces == {"run", "room", "lock", "settle", "read", "join", "join_render", "closed"}
FifoPlaces == {"sleep", "lock", "leave", "done"}
Places == CpuPlaces \cup FifoPlaces \cup Running

\* Where the thread that holds fifo_mutex is.
Place == IF fifo_mutex = "none" THEN "none" ELSE pc[fifo_mutex]

\* The head entry has taken effect.
Taken == Place = "pop" \/ (Place \in SwapPlaces /\ ~triple)

\* disp_buffer has turned for a swap that is neither posted nor shown.
Turned ==
    \/ Place = "idle" /\ IsSwap(Head(fifo))
    \/ triple /\ Place \in SwapPlaces \cup {"post"}

Before(b) == IF b = 0 THEN 2 ELSE b - 1

TypeOK ==
    /\ fifo \in Seq(Entries) /\ cmd \in Entries /\ took \in Int
    /\ pc \in [Threads -> Places]
    /\ pc["cpu"] \in CpuPlaces \cup Running /\ pc["fifo"] \in FifoPlaces \cup Running
    /\ fifo_mutex \in Threads \cup {"none"}
    /\ triple \in BOOLEAN /\ swap_pending \in BOOLEAN
    /\ disp_buffer \in 0..2 /\ front_offset \in 0..2 /\ swap_offset \in 0..2
    /\ todo \in [RenderThreads -> Seq(0..2)]

Locked == \A t \in Threads : pc[t] \in Running <=> fifo_mutex = t

Heads ==
    /\ Place \notin {"none", "entry"} => fifo # <<>>
    /\ Place \in TriPlaces => Head(fifo) = "tri"
    /\ Place = "idle" => Head(fifo) # "tri"
    /\ Place \in SwapPlaces \cup {"post"} => Head(fifo) = "vsync"
    /\ Place = "post" => triple
    /\ took = IF Taken THEN 1 ELSE 0
    /\ triple => cmd # "now" /\ \A i \in DOMAIN fifo : fifo[i] # "now"

TwoBuffers ==
    ~triple =>
      /\ disp_buffer \in 0..1
      /\ Turned => front_offset = 1 - disp_buffer /\ ~swap_pending
      /\ ~Turned /\ ~swap_pending => front_offset = disp_buffer
      /\ swap_pending => Place \in SwapPlaces /\ swap_offset = disp_buffer

ThreeBuffers ==
    triple =>
      /\ ~Turned /\ swap_pending => /\ swap_offset = disp_buffer
                                    /\ front_offset \in {disp_buffer, Before(disp_buffer)}
      /\ ~Turned /\ ~swap_pending => front_offset = disp_buffer
      /\ Turned /\ swap_pending =>
           /\ Place # "post"
           /\ swap_offset = Before(disp_buffer)
           /\ front_offset \in {Before(disp_buffer), Before(Before(disp_buffer))}
      /\ Turned /\ ~swap_pending => \/ front_offset = Before(disp_buffer)
                                    \/ front_offset = disp_buffer /\ Place = "post"

Triangles ==
    /\ \A r \in RenderThreads : \A i \in DOMAIN todo[r] :
         todo[r][i] = IF Turned THEN disp_buffer ELSE draw_buffer
    /\ Place \in SwapPlaces \cup {"post"} => \A r \in RenderThreads : todo[r] = <<>>

Flushed ==
    /\ pc["cpu"] \in {"settle", "read"} => fifo = <<>>
    /\ pc["cpu"] = "read" => \A r \in RenderThreads : todo[r] = <<>>

IInv == TypeOK /\ Locked /\ Heads /\ TwoBuffers /\ ThreeBuffers /\ Triangles /\ Flushed

-----------------------------------------------------------------------------
(* A thread moves: within the run, or outside it. *)

\* Between two entries or within one, the runner keeps fifo_mutex.
LEMMA RunnerMoves ==
    ASSUME TypeOK, Locked, Flushed, NEW t \in Threads, pc[t] \in Running, pc'[t] \in Running,
           pc' = [pc EXCEPT ![t] = pc'[t]], UNCHANGED fifo_mutex
    PROVE  /\ Place = pc[t] /\ Place' = pc'[t] /\ Locked'
           /\ pc' \in [Threads -> Places]
           /\ pc'["cpu"] \in CpuPlaces \cup Running /\ pc'["fifo"] \in FifoPlaces \cup Running
           /\ pc'["cpu"] \in {"settle", "read"} => pc'["cpu"] = pc["cpu"]
<1>1. Running \subseteq Places
  BY DEF Places
<1>2. Running \cap {"settle", "read"} = {}
  BY DEF Running, TriPlaces, SwapPlaces
<1>3. fifo_mutex = t /\ t # "none"
  BY DEF Locked, Threads
<1>4. \A u \in Threads : u # t => pc'[u] = pc[u]
  BY DEF TypeOK
<1>5. Locked'
  BY <1>3, <1>4 DEF Locked
<1> QED
  BY <1>1, <1>2, <1>3, <1>4, <1>5 DEF TypeOK, Place, Threads

\* A thread that does not run the FIFO goes from place to place.
LEMMA OutsiderMoves ==
    ASSUME TypeOK, Locked, NEW t \in Threads, pc[t] \notin Running, pc'[t] \notin Running,
           t = "cpu" => pc'[t] \in CpuPlaces, t # "cpu" => pc'[t] \in FifoPlaces,
           pc' = [pc EXCEPT ![t] = pc'[t]], UNCHANGED fifo_mutex
    PROVE  /\ Place' = Place /\ Locked'
           /\ pc' \in [Threads -> Places]
           /\ pc'["cpu"] \in CpuPlaces \cup Running /\ pc'["fifo"] \in FifoPlaces \cup Running
<1>1. CpuPlaces \subseteq Places /\ FifoPlaces \subseteq Places
  BY DEF Places
<1>3. fifo_mutex # t
  BY DEF Locked
<1>4. \A u \in Threads : u # t => pc'[u] = pc[u]
  BY DEF TypeOK
<1>5. Locked'
  BY <1>3, <1>4 DEF Locked
<1>6. Place' = Place
  BY <1>3, <1>4 DEF Place, TypeOK
<1> QED
  BY <1>1, <1>3, <1>4, <1>5, <1>6 DEF TypeOK, Threads

\* What the invariant says of the entries, the buffers and the triangles
\* depends on no other state.
LEMMA SameEntries ==
    ASSUME Heads, TwoBuffers, ThreeBuffers, Triangles, Place' = Place,
           UNCHANGED <<fifo, took, cmd, triple, disp_buffer, front_offset, swap_pending,
                       swap_offset, todo>>
    PROVE  Heads' /\ TwoBuffers' /\ ThreeBuffers' /\ Triangles'
<1>1. (Taken' <=> Taken) /\ (Turned' <=> Turned) /\ draw_buffer' = draw_buffer
  BY DEF Taken, Turned, draw_buffer
<1>2. Heads'
  BY <1>1 DEF Heads
<1>3. TwoBuffers'
  BY <1>1 DEF TwoBuffers
<1>4. ThreeBuffers'
  BY <1>1 DEF ThreeBuffers
<1>5. Triangles'
  BY <1>1 DEF Triangles
<1> QED BY <1>2, <1>3, <1>4, <1>5

\* A step outside the run that leaves the entries and the buffers alone.
LEMMA OutsideStep ==
    ASSUME IInv, NEW t \in Threads, pc[t] \notin Running, pc'[t] \notin Running,
           t = "cpu" => pc'[t] \in CpuPlaces, t # "cpu" => pc'[t] \in FifoPlaces,
           pc' = [pc EXCEPT ![t] = pc'[t]],
           UNCHANGED <<fifo_mutex, fifo, took, cmd, triple, disp_buffer, front_offset,
                       swap_pending, swap_offset, todo>>, Flushed'
    PROVE  IInv'
<1>1. TypeOK /\ Locked /\ Heads /\ TwoBuffers /\ ThreeBuffers /\ Triangles
  BY DEF IInv
<1>2. /\ Place' = Place /\ Locked'
      /\ pc' \in [Threads -> Places]
      /\ pc'["cpu"] \in CpuPlaces \cup Running /\ pc'["fifo"] \in FifoPlaces \cup Running
  BY <1>1, OutsiderMoves
<1>3. TypeOK'
  BY <1>1, <1>2 DEF TypeOK
<1>4. Heads' /\ TwoBuffers' /\ ThreeBuffers' /\ Triangles'
  BY <1>1, <1>2, SameEntries
<1> QED BY <1>2, <1>3, <1>4 DEF IInv

\* A step in which no thread of the two moves and nothing of the run changes.
LEMMA Unmoved ==
    ASSUME IInv,
           UNCHANGED <<pc, fifo_mutex, fifo, took, cmd, triple, disp_buffer, front_offset,
                       swap_pending, swap_offset, todo>>
    PROVE  IInv'
<1>1. TypeOK /\ Locked /\ Heads /\ TwoBuffers /\ ThreeBuffers /\ Triangles /\ Flushed
  BY DEF IInv
<1>2. Place' = Place
  BY DEF Place
<1>3. TypeOK'
  BY <1>1 DEF TypeOK
<1>4. Locked'
  BY <1>1 DEF Locked
<1>5. Flushed'
  BY <1>1 DEF Flushed
<1>6. Heads' /\ TwoBuffers' /\ ThreeBuffers' /\ Triangles'
  BY <1>1, <1>2, SameEntries
<1> QED BY <1>3, <1>4, <1>5, <1>6 DEF IInv

\* A step within an entry: what is left to show of it.
LEMMA WithinEntry ==
    ASSUME IInv, NEW t \in Threads, pc[t] \in Running, pc'[t] \in Running,
           pc' = [pc EXCEPT ![t] = pc'[t]], fifo # <<>>,
           UNCHANGED <<fifo_mutex, fifo, cmd, triple>>,
           took' \in Int, swap_pending' \in BOOLEAN,
           disp_buffer' \in 0..2, front_offset' \in 0..2, swap_offset' \in 0..2,
           todo' \in [RenderThreads -> Seq(0..2)],
           Heads', TwoBuffers', ThreeBuffers', Triangles'
    PROVE  IInv'
<1>1. TypeOK /\ Locked /\ Flushed
  BY DEF IInv
<1>2. /\ Locked' /\ pc' \in [Threads -> Places]
      /\ pc'["cpu"] \in CpuPlaces \cup Running /\ pc'["fifo"] \in FifoPlaces \cup Running
      /\ pc'["cpu"] \in {"settle", "read"} => pc'["cpu"] = pc["cpu"]
  BY <1>1, RunnerMoves
<1>3. TypeOK'
  BY <1>1, <1>2 DEF TypeOK
<1>4. Flushed'
  BY <1>1, <1>2 DEF Flushed
<1> QED BY <1>2, <1>3, <1>4 DEF IInv

\* The runner is at p and goes to q.
From(t, p, q) ==
    pc[t] = p /\ pc'[t] = q /\ pc' = [pc EXCEPT ![t] = pc'[t]] /\ UNCHANGED fifo_mutex

\* The place of the run follows the runner.
LEMMA PlaceMoves ==
    ASSUME IInv, NEW t \in Threads, NEW p \in Running, NEW q \in Running, From(t, p, q)
    PROVE  Place = p /\ Place' = q
<1>1. TypeOK /\ Locked /\ Flushed
  BY DEF IInv
<1>2. Place = pc[t] /\ Place' = pc'[t]
  BY <1>1, RunnerMoves DEF From
<1> QED BY <1>2 DEF From

\* A step that only moves the runner, to a place where the entry and the
\* buffers are as they were.
LEMMA OnlyMoves ==
    ASSUME IInv, NEW t \in Threads, NEW p \in Running, NEW q \in Running, From(t, p, q),
           UNCHANGED <<fifo, took, cmd, triple, disp_buffer, front_offset, swap_pending,
                       swap_offset, todo>>,
           \/ p \in TriPlaces /\ q \in TriPlaces
           \/ p \in SwapPlaces /\ q \in SwapPlaces
           \/ p \in SwapPlaces /\ q = SwapWaited /\ ~swap_pending
    PROVE  IInv'
<1>1. Place = p /\ Place' = q
  BY PlaceMoves
<1>2. Heads /\ TwoBuffers /\ ThreeBuffers /\ Triangles /\ TypeOK
  BY DEF IInv
<1>3. (Taken' <=> Taken) /\ (Turned' <=> Turned) /\ draw_buffer' = draw_buffer
  BY <1>1 DEF Taken, Turned, draw_buffer, TriPlaces, SwapPlaces, SwapWaited
<1>4. fifo # <<>>
  BY <1>1, <1>2 DEF Heads, TriPlaces, SwapPlaces
<1>5. Heads'
  BY <1>1, <1>2, <1>3 DEF Heads, TriPlaces, SwapPlaces, SwapWaited
<1>6. TwoBuffers'
  BY <1>1, <1>2, <1>3 DEF TwoBuffers, TriPlaces, SwapPlaces, SwapWaited
<1>7. ThreeBuffers'
  BY <1>1, <1>2, <1>3 DEF ThreeBuffers, TriPlaces, SwapPlaces, SwapWaited
<1>8. Triangles'
  BY <1>1, <1>2, <1>3 DEF Triangles, TriPlaces, SwapPlaces, SwapWaited
<1> QED
  BY <1>2, <1>4, <1>5, <1>6, <1>7, <1>8, WithinEntry DEF From, TypeOK

\* voodoo_queue_triangle() waits for room and looks again.
LEMMA RoomStep ==
    ASSUME IInv, NEW t \in Threads, TriangleRoom(t) \/ TriangleSleep(t)
    PROVE  IInv'
<1>1. TypeOK
  BY DEF IInv
<1>2. PICK p \in TriPlaces, q \in TriPlaces : From(t, p, q)
  BY <1>1 DEF TriangleRoom, TriangleSleep, From, Go, At, TriPlaces, TypeOK
<1>3. TriPlaces \subseteq Running
  BY DEF Running
<1>4. UNCHANGED <<fifo, took, cmd, triple, disp_buffer, front_offset, swap_pending,
                  swap_offset, todo>>
  BY DEF TriangleRoom, TriangleSleep, queue, swap, render
<1> QED BY <1>2, <1>3, <1>4, OnlyMoves

\* voodoo_wait_for_swap_complete() tests, resets the event and waits.
LEMMA WaitStep ==
    ASSUME IInv, NEW t \in Threads,
           SwapTest(t) \/ SwapReset(t) \/ SwapWoken(t) \/ SwapTimeout(t)
    PROVE  IInv'
<1>1. TypeOK
  BY DEF IInv
<1>2. PICK p \in SwapPlaces, q \in SwapPlaces \cup {SwapWaited} :
        From(t, p, q) /\ (q = SwapWaited => ~swap_pending)
  BY <1>1 DEF SwapTest, SwapReset, SwapWoken, SwapTimeout, From, Go, At, SwapPlaces, TypeOK,
              SwapWaited
<1>3. p \in Running /\ q \in Running
  BY DEF Running, SwapWaited
<1>4. UNCHANGED <<fifo, took, cmd, triple, disp_buffer, front_offset, swap_pending,
                  swap_offset, todo>>
  BY DEF SwapTest, SwapReset, SwapWoken, SwapTimeout, queue, swap, render
<1> QED BY <1>2, <1>3, <1>4, OnlyMoves

-----------------------------------------------------------------------------
(* The entries. *)

\* The buffer after b is one of the others.
LEMMA NextBuffer ==
    ASSUME NEW b \in 0..2
    PROVE  /\ (b + 1) % 3 \in 0..2 /\ Before((b + 1) % 3) = b
           /\ (b + 1) % 3 # b /\ (b + 1) % 3 # Before(b) /\ Before(b) \in 0..2
  BY DEF Before

\* A swap command turns to the next buffer; what is queued for the render
\* threads is for that buffer.
LEMMA FetchStep ==
    ASSUME IInv, NEW t \in Threads, FetchEntry(t)
    PROVE  IInv'
<1>1. Heads /\ TwoBuffers /\ ThreeBuffers /\ Triangles /\ TypeOK
  BY DEF IInv
<1>2. /\ fifo # <<>>
      /\ disp_buffer' = IF IsSwap(Head(fifo)) THEN Flipped(disp_buffer) ELSE disp_buffer
      /\ UNCHANGED <<fifo, took, cmd, fifo_mutex, triple, front_offset, swap_pending,
                     swap_offset, todo>>
  BY DEF FetchEntry, queue, render
<1>3. PICK q \in {"tri", "idle"} : From(t, "entry", q) /\ (q = "tri" <=> Head(fifo) = "tri")
  BY <1>1 DEF FetchEntry, From, Go, At, TypeOK
<1>4. Place = "entry" /\ Place' = q
  BY <1>3, PlaceMoves DEF Running, TriPlaces
<1>5. ~Taken /\ ~Taken'
  BY <1>4 DEF Taken, SwapPlaces
<1>6. ~Turned /\ (Turned' <=> IsSwap(Head(fifo)))
  BY <1>2, <1>3, <1>4 DEF Turned, SwapPlaces, IsSwap
<1>7. Heads'
  BY <1>1, <1>2, <1>3, <1>4, <1>5 DEF Heads, TriPlaces, SwapPlaces
<1>8. TwoBuffers'
  BY <1>1, <1>2, <1>4, <1>6 DEF TwoBuffers, Flipped, SwapPlaces
<1>9. ThreeBuffers'
  BY Zenon, <1>1, <1>2, <1>4, <1>6, NextBuffer DEF ThreeBuffers, Flipped, TypeOK
<1>10. Triangles'
  <2>1. (IF Turned' THEN disp_buffer' ELSE draw_buffer') = draw_buffer
    BY <1>2, <1>6 DEF draw_buffer, Flipped
  <2> QED BY <1>1, <1>2, <1>3, <1>4, <1>6, <2>1 DEF Triangles, SwapPlaces
<1>11. disp_buffer' \in 0..2
  BY <1>1, <1>2, NextBuffer DEF TwoBuffers, TypeOK, Flipped
<1> QED
  BY <1>1, <1>2, <1>3, <1>7, <1>8, <1>9, <1>10, <1>11, WithinEntry
  DEF From, TypeOK, Running, TriPlaces

\* The runner finds the FIFO empty and gives fifo_mutex back.
LEMMA DrainedStep ==
    ASSUME IInv, NEW t \in Threads, Drained(t)
    PROVE  IInv'
<1>1. Heads /\ TwoBuffers /\ ThreeBuffers /\ Triangles /\ TypeOK /\ Locked /\ Flushed
  BY DEF IInv
<1>2. /\ pc[t] = "entry" /\ fifo = <<>> /\ fifo_mutex' = "none"
      /\ pc' = [pc EXCEPT ![t] = IF t = "cpu" THEN "settle" ELSE "leave"]
      /\ UNCHANGED <<fifo, took, cmd, triple, disp_buffer, front_offset, swap_pending,
                     swap_offset, todo>>
  BY DEF Drained, Go, At, queue, swap, render
<1>3. fifo_mutex = t /\ Place = "entry" /\ Place' = "none"
  BY <1>1, <1>2 DEF Locked, Place, Running, Threads
<1>4. pc' \in [Threads -> Places] /\ \A u \in Threads : pc'[u] \notin Running
  BY <1>1, <1>2, <1>3
  DEF Locked, TypeOK, Running, TriPlaces, SwapPlaces, Places, CpuPlaces, FifoPlaces, Threads
<1>5. Locked'
  BY <1>2, <1>4 DEF Locked, Threads
<1>6. TypeOK'
  BY <1>1, <1>2, <1>4 DEF TypeOK, CpuPlaces, FifoPlaces, Threads
<1>7. ~Taken /\ ~Taken' /\ ~Turned /\ ~Turned' /\ draw_buffer' = draw_buffer
  BY <1>2, <1>3 DEF Taken, Turned, SwapPlaces, draw_buffer
<1>8. Heads'
  BY <1>1, <1>2, <1>3, <1>7 DEF Heads, TriPlaces, SwapPlaces
<1>9. TwoBuffers'
  BY <1>1, <1>2, <1>3, <1>7 DEF TwoBuffers, SwapPlaces
<1>10. ThreeBuffers'
  BY <1>1, <1>2, <1>3, <1>7 DEF ThreeBuffers
<1>11. Triangles'
  BY <1>1, <1>2, <1>3, <1>7 DEF Triangles, SwapPlaces
<1>12. Flushed'
  <2>1. pc'["cpu"] = "read" => pc["cpu"] = "read"
    BY <1>1, <1>2 DEF TypeOK, Threads
  <2> QED BY <1>1, <1>2, <2>1 DEF Flushed
<1> QED BY <1>5, <1>6, <1>8, <1>9, <1>10, <1>11, <1>12 DEF IInv

\* The entry is done and leaves the FIFO.
LEMMA PopStep ==
    ASSUME IInv, NEW t \in Threads, Pop(t)
    PROVE  IInv'
<1>1. Heads /\ TwoBuffers /\ ThreeBuffers /\ Triangles /\ TypeOK /\ Locked /\ Flushed
  BY DEF IInv
<1>2. /\ fifo' = Tail(fifo) /\ took' = 0
      /\ UNCHANGED <<cmd, fifo_mutex, triple, disp_buffer, front_offset, swap_pending,
                     swap_offset, todo>>
  BY DEF Pop, swap, render
<1>3. From(t, "pop", "entry")
  BY <1>1 DEF Pop, From, Go, At, TypeOK
<1>4. Place = "pop" /\ Place' = "entry"
  BY <1>3, PlaceMoves DEF Running
<1>5. fifo # <<>>
  BY <1>1, <1>4 DEF Heads
<1>6. /\ pc["cpu"] \notin {"settle", "read"} /\ Locked' /\ pc' \in [Threads -> Places]
      /\ pc'["cpu"] \in CpuPlaces \cup Running /\ pc'["fifo"] \in FifoPlaces \cup Running
      /\ pc'["cpu"] \notin {"settle", "read"}
  BY <1>1, <1>3, <1>5, RunnerMoves DEF Flushed, From, Running
<1>7. /\ fifo' \in Seq(Entries)
      /\ \A i \in DOMAIN fifo' : i + 1 \in DOMAIN fifo /\ fifo'[i] = fifo[i + 1]
  BY <1>1, <1>2, <1>5 DEF TypeOK
<1>8. TypeOK'
  BY <1>1, <1>2, <1>6, <1>7 DEF TypeOK
<1>9. ~Taken' /\ ~Turned /\ ~Turned' /\ draw_buffer' = draw_buffer
  BY <1>2, <1>4 DEF Taken, Turned, SwapPlaces, draw_buffer
<1>10. Heads'
  BY <1>1, <1>2, <1>4, <1>7, <1>9 DEF Heads, TriPlaces, SwapPlaces
<1>11. TwoBuffers'
  BY <1>1, <1>2, <1>4, <1>9 DEF TwoBuffers, SwapPlaces
<1>12. ThreeBuffers'
  BY <1>1, <1>2, <1>4, <1>9 DEF ThreeBuffers
<1>13. Triangles'
  BY <1>1, <1>2, <1>4, <1>9 DEF Triangles, SwapPlaces
<1>14. Flushed'
  BY <1>6 DEF Flushed
<1> QED BY <1>6, <1>8, <1>10, <1>11, <1>12, <1>13, <1>14 DEF IInv

\* A triangle is queued for the buffer behind the display, once there is room.
LEMMA TriangleStep ==
    ASSUME IInv, NEW t \in Threads, QueueTriangle(t)
    PROVE  IInv'
<1>1. Heads /\ TwoBuffers /\ ThreeBuffers /\ Triangles /\ TypeOK
  BY DEF IInv
<1>2. UNCHANGED <<fifo, cmd, fifo_mutex, triple, disp_buffer, front_offset, swap_pending,
                  swap_offset>>
  BY DEF QueueTriangle, swap
<1>3. CASE \E r \in RenderThreads : PARAM_FULL(r)
  <2>1. From(t, "tri", "tri_room") /\ UNCHANGED <<took, todo>>
    BY Zenon, <1>1, <1>3 DEF QueueTriangle, From, Go, At, TypeOK
  <2> QED BY <1>2, <2>1, OnlyMoves DEF Running, TriPlaces
<1>4. CASE ~\E r \in RenderThreads : PARAM_FULL(r)
  <2>1. /\ From(t, "tri", "pop") /\ took' = took + 1
        /\ todo' = [r \in RenderThreads |-> Append(todo[r], draw_buffer)]
    BY <1>1, <1>4 DEF QueueTriangle, From, Go, At, TypeOK
  <2>2. Place = "tri" /\ Place' = "pop"
    BY <2>1, PlaceMoves DEF Running, TriPlaces
  <2>3. ~Taken /\ Taken' /\ ~Turned /\ ~Turned' /\ draw_buffer' = draw_buffer
    BY <1>2, <2>2 DEF Taken, Turned, SwapPlaces, draw_buffer
  <2>4. Heads' /\ fifo # <<>>
    BY <1>1, <1>2, <2>1, <2>2, <2>3 DEF Heads, TriPlaces, SwapPlaces
  <2>5. TwoBuffers'
    BY <1>1, <1>2, <2>2, <2>3 DEF TwoBuffers, SwapPlaces
  <2>6. ThreeBuffers'
    BY <1>1, <1>2, <2>2, <2>3 DEF ThreeBuffers
  <2>7. draw_buffer \in 0..2
    BY <1>1, NextBuffer DEF TwoBuffers, TypeOK, draw_buffer
  <2>8. todo' \in [RenderThreads -> Seq(0..2)]
    BY <1>1, <2>1, <2>7 DEF TypeOK
  <2>9. \A r \in RenderThreads : \A i \in DOMAIN todo'[r] : todo'[r][i] = draw_buffer
    <3> SUFFICES ASSUME NEW r \in RenderThreads, NEW i \in DOMAIN todo'[r]
                 PROVE  todo'[r][i] = draw_buffer
      OBVIOUS
    <3>1. todo[r] \in Seq(0..2) /\ todo'[r] = Append(todo[r], draw_buffer)
      BY <1>1, <2>1 DEF TypeOK
    <3>2. \A j \in DOMAIN todo[r] : todo[r][j] = draw_buffer
      BY <1>1, <2>3 DEF Triangles
    <3> QED BY <2>7, <3>1, <3>2
  <2>10. Triangles'
    BY <2>2, <2>3, <2>9 DEF Triangles, SwapPlaces
  <2> QED
    BY <1>1, <1>2, <2>1, <2>4, <2>5, <2>6, <2>8, <2>10, WithinEntry
    DEF From, TypeOK, Running, TriPlaces
<1> QED BY <1>3, <1>4

\* A pixel is written, with the render threads idle.
LEMMA PixelStep ==
    ASSUME IInv, NEW t \in Threads, WritePixel(t)
    PROVE  IInv'
<1>1. Heads /\ TwoBuffers /\ ThreeBuffers /\ Triangles /\ TypeOK
  BY DEF IInv
<1>2. /\ UNCHANGED <<fifo, cmd, fifo_mutex, triple, disp_buffer, front_offset, swap_pending,
                     swap_offset, todo>>
      /\ Head(fifo) = "fb" /\ took' = took + 1
  BY DEF WritePixel, swap, render
<1>3. From(t, "idle", "pop")
  BY <1>1 DEF WritePixel, From, Go, At, TypeOK
<1>4. Place = "idle" /\ Place' = "pop"
  BY <1>3, PlaceMoves DEF Running
<1>5. ~Taken /\ Taken' /\ ~Turned /\ ~Turned' /\ draw_buffer' = draw_buffer
  BY <1>2, <1>4 DEF Taken, Turned, IsSwap, SwapPlaces, draw_buffer
<1>6. Heads' /\ fifo # <<>>
  BY <1>1, <1>2, <1>4, <1>5 DEF Heads, TriPlaces, SwapPlaces
<1>7. TwoBuffers'
  BY <1>1, <1>2, <1>4, <1>5 DEF TwoBuffers, SwapPlaces
<1>8. ThreeBuffers'
  BY <1>1, <1>2, <1>4, <1>5 DEF ThreeBuffers
<1>9. Triangles'
  BY <1>1, <1>2, <1>4, <1>5 DEF Triangles, SwapPlaces
<1> QED
  BY <1>1, <1>2, <1>3, <1>6, <1>7, <1>8, <1>9, WithinEntry DEF From, TypeOK, Running

\* A swap at once, with two buffers and no triangle left to draw.
LEMMA NowStep ==
    ASSUME IInv, NEW t \in Threads, SwapNow(t)
    PROVE  IInv'
<1>1. Heads /\ TwoBuffers /\ ThreeBuffers /\ Triangles /\ TypeOK
  BY DEF IInv
<1>2. /\ UNCHANGED <<fifo, cmd, fifo_mutex, triple, disp_buffer, swap_pending, swap_offset,
                     todo>>
      /\ Head(fifo) = "now" /\ took' = took + 1 /\ front_offset' = disp_buffer
      /\ \A r \in RenderThreads : todo[r] = <<>>
  BY DEF SwapNow, render, RenderIdle
<1>3. From(t, "idle", "pop")
  BY <1>1 DEF SwapNow, From, Go, At, TypeOK
<1>4. Place = "idle" /\ Place' = "pop"
  BY <1>3, PlaceMoves DEF Running
<1>5. fifo # <<>> /\ ~triple
  <2>1. fifo # <<>>
    BY <1>1, <1>4 DEF Heads
  <2>2. 1 \in DOMAIN fifo /\ fifo[1] = "now"
    BY <1>1, <1>2, <2>1 DEF TypeOK
  <2> QED BY <1>1, <2>1, <2>2 DEF Heads
<1>6. ~Taken /\ Taken' /\ Turned /\ ~Turned'
  BY <1>2, <1>4 DEF Taken, Turned, IsSwap, SwapPlaces
<1>7. Heads'
  BY <1>1, <1>2, <1>4, <1>5, <1>6 DEF Heads, TriPlaces, SwapPlaces
<1>8. TwoBuffers'
  BY <1>1, <1>2, <1>4, <1>6 DEF TwoBuffers, SwapPlaces
<1>9. ThreeBuffers'
  BY <1>2, <1>5 DEF ThreeBuffers
<1>10. Triangles'
  BY <1>2, <1>4 DEF Triangles, SwapPlaces
<1> QED
  BY <1>1, <1>2, <1>3, <1>5, <1>7, <1>8, <1>9, <1>10, WithinEntry DEF From, TypeOK, Running

\* A swap at a retrace is posted, unless with three buffers one is pending.
LEMMA VsyncStep ==
    ASSUME IInv, NEW t \in Threads, SwapAtRetrace(t)
    PROVE  IInv'
<1>1. Heads /\ TwoBuffers /\ ThreeBuffers /\ Triangles /\ TypeOK
  BY DEF IInv
<1>2. /\ UNCHANGED <<fifo, cmd, fifo_mutex, triple, disp_buffer, front_offset, todo>>
      /\ pc[t] = "idle" /\ Head(fifo) = "vsync"
      /\ \A r \in RenderThreads : todo[r] = <<>>
  BY DEF SwapAtRetrace, render, RenderIdle, At
<1>3. PICK q \in {"swap", "pop"} :
        /\ From(t, "idle", q)
        /\ \/ /\ triple /\ swap_pending /\ q = "swap"
              /\ UNCHANGED <<took, swap_offset, swap_pending>>
           \/ /\ triple /\ ~swap_pending /\ q = "pop"
              /\ swap_offset' = disp_buffer /\ swap_pending' = TRUE /\ took' = took + 1
           \/ /\ ~triple /\ q = "swap"
              /\ swap_offset' = disp_buffer /\ swap_pending' = TRUE /\ took' = took + 1
  BY <1>1, <1>2 DEF SwapAtRetrace, PostSwap, From, Go, TypeOK
<1>4. Place = "idle" /\ Place' = q
  <2>1. "idle" \in Running /\ q \in Running  BY <1>3 DEF Running, SwapPlaces
  <2> QED  BY Zenon, <2>1, <1>2, <1>3, PlaceMoves
<1>5. ~Taken /\ (Taken' <=> ~(triple /\ swap_pending))
  BY Zenon, <1>2, <1>3, <1>4 DEF Taken, SwapPlaces
<1>6. Turned /\ (Turned' <=> triple /\ swap_pending)
  BY <1>2, <1>3, <1>4 DEF Turned, IsSwap, SwapPlaces
<1>7. Heads' /\ fifo # <<>>
  <2>1. fifo # <<>>
    BY Zenon, <1>1, <1>4 DEF Heads
  <2>2. took' = IF Taken' THEN 1 ELSE 0
    BY <1>1, <1>3, <1>5 DEF Heads
  <2>3. q \notin TriPlaces \cup {"idle", "post"}
    BY <1>3 DEF TriPlaces
  <2> QED  BY Zenon, <2>1, <2>2, <2>3, <1>1, <1>2, <1>4 DEF Heads
<1>8. TwoBuffers'
  BY <1>1, <1>2, <1>3, <1>4, <1>6 DEF TwoBuffers, SwapPlaces
<1>9. ThreeBuffers'
  BY Zenon, <1>1, <1>2, <1>3, <1>4, <1>6 DEF ThreeBuffers
<1>10. Triangles'
  BY <1>2 DEF Triangles
<1>11. took' \in Int /\ swap_pending' \in BOOLEAN /\ swap_offset' \in 0..2
  <2>1. swap_pending' \in BOOLEAN
    BY <1>1, <1>3, Zenon DEF TypeOK
  <2>2. took' \in Int /\ swap_offset' \in 0..2
    BY <1>1, <1>3 DEF TypeOK
  <2> QED BY <2>1, <2>2
<1>12. pc[t] \in Running /\ pc'[t] \in Running /\ pc' = [pc EXCEPT ![t] = pc'[t]]
  BY <1>3 DEF From, Running, SwapPlaces
<1>13. /\ disp_buffer' \in 0..2 /\ front_offset' \in 0..2
       /\ todo' \in [RenderThreads -> Seq(0..2)]
  BY <1>1, <1>2 DEF TypeOK
<1> QED
  BY <1>2, <1>7, <1>8, <1>9, <1>10, <1>11, <1>12, <1>13, WithinEntry

\* With three buffers a swap is posted after the wait for the one before.
LEMMA PostStep ==
    ASSUME IInv, NEW t \in Threads, PostAfterWait(t)
    PROVE  IInv'
<1>1. Heads /\ TwoBuffers /\ ThreeBuffers /\ Triangles /\ TypeOK
  BY DEF IInv
<1>2. /\ UNCHANGED <<fifo, cmd, fifo_mutex, triple, disp_buffer, front_offset, todo>>
      /\ swap_offset' = disp_buffer /\ swap_pending' = TRUE /\ took' = took + 1
  BY DEF PostAfterWait, PostSwap, render
<1>3. From(t, "post", "pop")
  BY <1>1 DEF PostAfterWait, From, Go, At, TypeOK
<1>4. Place = "post" /\ Place' = "pop"
  BY <1>3, PlaceMoves DEF Running
<1>5. triple /\ ~Taken /\ Taken' /\ Turned /\ ~Turned'
  BY <1>1, <1>2, <1>4 DEF Heads, Taken, Turned, SwapPlaces
<1>6. Heads' /\ fifo # <<>>
  BY <1>1, <1>2, <1>4, <1>5 DEF Heads, TriPlaces, SwapPlaces
<1>7. TwoBuffers'
  BY <1>2, <1>5 DEF TwoBuffers
<1>8. ThreeBuffers'
  BY <1>1, <1>2, <1>4, <1>5 DEF ThreeBuffers
<1>9. Triangles'
  BY <1>1, <1>2, <1>4 DEF Triangles
<1> QED
  BY <1>1, <1>2, <1>3, <1>6, <1>7, <1>8, <1>9, WithinEntry DEF From, TypeOK, Running

\* The wait for a swap finds a flush or a full FIFO and shows the buffer itself.
LEMMA LookStep ==
    ASSUME IInv, NEW t \in Threads, SwapLook(t)
    PROVE  IInv'
<1>1. Heads /\ TwoBuffers /\ ThreeBuffers /\ Triangles /\ TypeOK
  BY DEF IInv
<1>2. UNCHANGED <<fifo, took, cmd, fifo_mutex, triple, disp_buffer, swap_offset, todo>>
  BY DEF SwapLook, queue, render
<1>3. CASE (swap_pending /\ flush) \/ FIFO_FULL
  <2>1. /\ From(t, "swap_look", SwapWaited)
        /\ front_offset' = disp_buffer /\ swap_pending' = FALSE
    BY <1>1, <1>3 DEF SwapLook, From, Go, At, TypeOK
  <2>2. SwapWaited \in Running /\ "swap_look" \in Running
    BY DEF SwapWaited, Running, SwapPlaces
  <2>3. Place = "swap_look" /\ Place' = SwapWaited
    BY <2>1, <2>2, PlaceMoves
  <2>4. (Taken' <=> Taken) /\ (Turned <=> triple) /\ (Turned' <=> triple)
    BY <1>2, <2>3 DEF Taken, Turned, SwapPlaces, SwapWaited
  <2>5. Heads' /\ fifo # <<>>
    BY <1>1, <1>2, <2>3, <2>4 DEF Heads, TriPlaces, SwapPlaces, SwapWaited
  <2>6. TwoBuffers'
    BY <1>1, <1>2, <2>1, <2>4 DEF TwoBuffers
  <2>7. ThreeBuffers'
    BY <1>2, <2>1, <2>3, <2>4 DEF ThreeBuffers, SwapWaited
  <2>8. Triangles'
    <3>1. \A r \in RenderThreads : todo[r] = <<>>
      BY <1>1, <2>3 DEF Triangles, SwapPlaces
    <3> QED BY <1>2, <3>1 DEF Triangles
  <2> QED
    BY Zenon, <1>1, <1>2, <2>1, <2>2, <2>5, <2>6, <2>7, <2>8, WithinEntry DEF From, TypeOK
<1>4. CASE ~((swap_pending /\ flush) \/ FIFO_FULL)
  <2>1. From(t, "swap_look", "swap_reset") /\ UNCHANGED <<front_offset, swap_pending>>
    BY <1>1, <1>4 DEF SwapLook, From, Go, At, TypeOK
  <2> QED BY <1>2, <2>1, OnlyMoves DEF Running, SwapPlaces
<1> QED BY <1>3, <1>4

\* Whichever thread runs the entries, a step of the run keeps the invariant.
LEMMA EntryKeeps ==
    ASSUME IInv, NEW t \in Threads, EntryStep(t) \/ SwapTimeout(t)
    PROVE  IInv'
<1>1. CASE IdleRound(t)
  BY <1>1, Unmoved DEF IdleRound, queue, swap
<1> QED
  BY <1>1, FetchStep, DrainedStep, PopStep, TriangleStep, RoomStep, PixelStep, NowStep, VsyncStep,
     PostStep, WaitStep, LookStep DEF EntryStep

-----------------------------------------------------------------------------
(* The steps around the run. *)

\* A thread that gets fifo_mutex begins at the head of the FIFO.
LEMMA LockStep ==
    ASSUME IInv, NEW t \in Threads, Lock(t)
    PROVE  IInv'
<1>1. Heads /\ TwoBuffers /\ ThreeBuffers /\ Triangles /\ TypeOK /\ Locked /\ Flushed
  BY DEF IInv
<1>2. /\ pc[t] = "lock" /\ fifo_mutex = "none" /\ fifo_mutex' = t
      /\ pc' = [pc EXCEPT ![t] = "entry"]
      /\ UNCHANGED <<fifo, took, cmd, triple, disp_buffer, front_offset, swap_pending,
                     swap_offset, todo>>
  BY DEF Lock, Go, At, queue, swap, render
<1>3. Place = "none" /\ Place' = "entry"
  BY <1>1, <1>2 DEF Place, TypeOK, Threads
<1>4. "entry" \in Running /\ "entry" \in Places
  BY DEF Running, Places
<1>5. Locked'
  BY <1>1, <1>2, <1>4 DEF Locked, TypeOK, Threads
<1>6. TypeOK'
  BY <1>1, <1>2, <1>4 DEF TypeOK, Threads
<1>7. ~Taken /\ ~Taken' /\ ~Turned /\ ~Turned' /\ draw_buffer' = draw_buffer
  BY <1>2, <1>3 DEF Taken, Turned, SwapPlaces, draw_buffer
<1>8. Heads'
  BY <1>1, <1>2, <1>3, <1>7 DEF Heads, TriPlaces, SwapPlaces
<1>9. TwoBuffers'
  BY <1>1, <1>2, <1>3, <1>7 DEF TwoBuffers, SwapPlaces
<1>10. ThreeBuffers'
  BY <1>1, <1>2, <1>3, <1>7 DEF ThreeBuffers
<1>11. Triangles'
  BY Zenon, <1>1, <1>2, <1>3, <1>7 DEF Triangles, SwapPlaces
<1>12. Flushed'
  <2>1. pc'["cpu"] \in {"settle", "read"} => pc'["cpu"] = pc["cpu"]
    BY <1>1, <1>2 DEF TypeOK, Threads
  <2> QED BY Zenon, <1>1, <1>2, <2>1 DEF Flushed
<1> QED BY <1>5, <1>6, <1>8, <1>9, <1>10, <1>11, <1>12 DEF IInv

\* A new entry behind the others changes nothing for the one that is run.
LEMMA AppendKeeps ==
    ASSUME IInv, NEW e \in Entries, triple => e # "now", Enqueue(e), cmd' \in {cmd, "fb"},
           pc["cpu"] \in {"run", "room"}, pc' = [pc EXCEPT !["cpu"] = "run"]
    PROVE  IInv'
<1>1. Heads /\ TwoBuffers /\ ThreeBuffers /\ Triangles /\ TypeOK /\ Locked /\ Flushed
  BY DEF IInv
<1>2. /\ fifo' = Append(fifo, e)
      /\ UNCHANGED <<took, fifo_mutex, triple, disp_buffer, front_offset, swap_pending,
                     swap_offset, todo>>
  BY DEF Enqueue, render
<1>3. pc["cpu"] \notin Running /\ pc'["cpu"] = "run" /\ "run" \notin Running
  BY <1>1 DEF TypeOK, Threads, Running, TriPlaces, SwapPlaces
<1>4. /\ Place' = Place /\ Locked' /\ pc' \in [Threads -> Places]
      /\ pc'["cpu"] \in CpuPlaces \cup Running /\ pc'["fifo"] \in FifoPlaces \cup Running
  <2>1. "cpu" \in Threads /\ "run" \in CpuPlaces
    BY DEF Threads, CpuPlaces
  <2>2. pc' = [pc EXCEPT !["cpu"] = pc'["cpu"]]
    BY Zenon, <1>3
  <2> QED BY Zenon, <1>1, <1>2, <1>3, <2>1, <2>2, OutsiderMoves
<1>5. /\ fifo' \in Seq(Entries) /\ fifo' # <<>>
      /\ fifo # <<>> => Head(fifo') = Head(fifo)
      /\ \A i \in DOMAIN fifo' : fifo'[i] = e \/ (i \in DOMAIN fifo /\ fifo'[i] = fifo[i])
  BY <1>1, <1>2 DEF TypeOK
<1>6. cmd' \in Entries /\ (triple => cmd' # "now")
  BY <1>1 DEF TypeOK, Heads, Entries
<1>7. TypeOK'
  BY Zenon, <1>1, <1>2, <1>4, <1>5, <1>6 DEF TypeOK
<1>8. (Taken' <=> Taken) /\ (Turned' <=> Turned) /\ draw_buffer' = draw_buffer
  BY Zenon, <1>1, <1>2, <1>4, <1>5 DEF Taken, Turned, draw_buffer, Heads
<1>9. Heads'
  BY <1>1, <1>2, <1>4, <1>5, <1>6, <1>8 DEF Heads, TriPlaces, SwapPlaces
<1>10. TwoBuffers'
  BY <1>1, <1>2, <1>4, <1>8 DEF TwoBuffers
<1>11. ThreeBuffers'
  BY <1>1, <1>2, <1>4, <1>8 DEF ThreeBuffers
<1>12. Triangles'
  BY Zenon, <1>1, <1>2, <1>4, <1>8 DEF Triangles
<1>13. Flushed'
  BY <1>3 DEF Flushed
<1> QED BY <1>4, <1>7, <1>9, <1>10, <1>11, <1>12, <1>13 DEF IInv

\* A write is queued, or waits for room.
LEMMA WriteStep ==
    ASSUME IInv, NEW e \in Entries, Write(e)
    PROVE  IInv'
<1>1. Heads /\ TwoBuffers /\ ThreeBuffers /\ Triangles /\ TypeOK /\ Locked /\ Flushed
  BY DEF IInv
<1>2. pc["cpu"] = "run" /\ (triple => e # "now")
  BY DEF Write, At
<1>3. CASE Enqueue(e) /\ UNCHANGED <<pc, cmd>>
  <2>1. pc' = [pc EXCEPT !["cpu"] = "run"]
    BY <1>1, <1>2, <1>3 DEF TypeOK, Threads
  <2> QED BY Zenon, <1>2, <1>3, <2>1, AppendKeeps
<1>4. CASE ~(Enqueue(e) /\ UNCHANGED <<pc, cmd>>)
  <2>1. /\ cmd' = e /\ pc' = [pc EXCEPT !["cpu"] = "room"]
        /\ UNCHANGED <<fifo, took, fifo_mutex, triple, disp_buffer, front_offset, swap_pending,
                       swap_offset, todo>>
    BY <1>4 DEF Write, Go, render
  <2>2. pc["cpu"] \notin Running /\ pc'["cpu"] = "room" /\ "room" \notin Running
    BY <1>1, <1>2, <2>1 DEF TypeOK, Threads, Running, TriPlaces, SwapPlaces
  <2>3. /\ Place' = Place /\ Locked' /\ pc' \in [Threads -> Places]
        /\ pc'["cpu"] \in CpuPlaces \cup Running /\ pc'["fifo"] \in FifoPlaces \cup Running
    <3>1. "cpu" \in Threads /\ "room" \in CpuPlaces
      BY DEF Threads, CpuPlaces
    <3>2. pc' = [pc EXCEPT !["cpu"] = pc'["cpu"]]
      BY Zenon, <2>1, <2>2
    <3> QED BY Zenon, <1>1, <2>1, <2>2, <3>1, <3>2, OutsiderMoves
  <2>4. TypeOK'
    BY Zenon, <1>1, <2>1, <2>3 DEF TypeOK
  <2>5. (Taken' <=> Taken) /\ (Turned' <=> Turned) /\ draw_buffer' = draw_buffer
    BY <2>1, <2>3 DEF Taken, Turned, draw_buffer
  <2>6. Heads'
    BY <1>1, <1>2, <2>1, <2>3, <2>5 DEF Heads
  <2>7. TwoBuffers'
    BY <1>1, <2>1, <2>3, <2>5 DEF TwoBuffers
  <2>8. ThreeBuffers'
    BY <1>1, <2>1, <2>3, <2>5 DEF ThreeBuffers
  <2>9. Triangles'
    BY Zenon, <1>1, <2>1, <2>3, <2>5 DEF Triangles
  <2>10. Flushed'
    BY <2>2 DEF Flushed
  <2> QED BY <2>3, <2>4, <2>6, <2>7, <2>8, <2>9, <2>10 DEF IInv
<1> QED BY <1>3, <1>4

\* The write that waited for room is queued.
LEMMA LateStep ==
    ASSUME IInv, WriteLate
    PROVE  IInv'
<1>1. cmd \in Entries /\ (triple => cmd # "now")
  BY DEF IInv, TypeOK, Heads
<1>2. /\ pc["cpu"] = "room" /\ Enqueue(cmd) /\ cmd' = "fb"
      /\ pc' = [pc EXCEPT !["cpu"] = "run"]
  BY DEF WriteLate, Go, At
<1> QED BY <1>1, <1>2, AppendKeeps

\* The retrace shows the buffer of the swap that is pending.
LEMMA RetraceStep ==
    ASSUME IInv, Retrace
    PROVE  IInv'
<1>1. Heads /\ TwoBuffers /\ ThreeBuffers /\ Triangles /\ TypeOK /\ Locked /\ Flushed
  BY DEF IInv
<1>2. /\ swap_pending /\ front_offset' = swap_offset /\ swap_pending' = FALSE
      /\ UNCHANGED <<fifo, took, cmd, pc, fifo_mutex, triple, disp_buffer, swap_offset, todo>>
  BY DEF Retrace, queue, render
<1>3. Place' = Place
  BY <1>2 DEF Place
<1>4. (Taken' <=> Taken) /\ (Turned' <=> Turned) /\ draw_buffer' = draw_buffer
  BY <1>2, <1>3 DEF Taken, Turned, draw_buffer
<1>5. TypeOK' /\ Locked' /\ Flushed'
  BY Zenon, <1>1, <1>2 DEF TypeOK, Locked, Flushed
<1>6. Heads'
  BY <1>1, <1>2, <1>3, <1>4 DEF Heads
<1>7. TwoBuffers'
  BY <1>1, <1>2, <1>3, <1>4 DEF TwoBuffers
<1>8. ThreeBuffers'
  BY <1>1, <1>2, <1>3, <1>4 DEF ThreeBuffers
<1>9. Triangles'
  BY <1>1, <1>2, <1>3, <1>4 DEF Triangles
<1> QED BY <1>5, <1>6, <1>7, <1>8, <1>9 DEF IInv

\* A render thread takes triangles from its ring and adds none.
LEMMA RenderKeeps ==
    ASSUME IInv, NEW r \in RenderThreads, RenderStep(r)
    PROVE  IInv'
<1>1. UNCHANGED <<fifo, took, cmd, pc, fifo_mutex, triple, disp_buffer, front_offset,
                  swap_pending, swap_offset>>
  BY DEF RenderStep, queue, swap
<1>2. CASE RenderWake(r) \/ RenderEnd(r)
  BY <1>1, <1>2, Unmoved DEF RenderWake, RenderEnd
<1>3. CASE RenderTriangle(r)
  <2>1. Heads /\ TwoBuffers /\ ThreeBuffers /\ Triangles /\ TypeOK /\ Locked /\ Flushed
    BY DEF IInv
  <2>2. todo[r] # <<>> /\ todo' = [todo EXCEPT ![r] = Tail(todo[r])]
    BY <1>3 DEF RenderTriangle
  <2>3. todo[r] \in Seq(0..2)
    BY <2>1 DEF TypeOK
  <2>4. /\ Tail(todo[r]) \in Seq(0..2)
        /\ \A i \in DOMAIN Tail(todo[r]) : /\ i + 1 \in DOMAIN todo[r]
                                           /\ Tail(todo[r])[i] = todo[r][i + 1]
    BY <2>2, <2>3
  <2>5. TypeOK' /\ Locked'
    BY <1>1, <2>1, <2>2, <2>4 DEF TypeOK, Locked
  <2>6. Place' = Place
    BY <1>1 DEF Place
  <2>7. (Taken' <=> Taken) /\ (Turned' <=> Turned) /\ draw_buffer' = draw_buffer
    BY <1>1, <2>6 DEF Taken, Turned, draw_buffer
  <2>8. Heads' /\ TwoBuffers' /\ ThreeBuffers'
    BY <1>1, <2>1, <2>6, <2>7 DEF Heads, TwoBuffers, ThreeBuffers
  <2>9. Triangles'
    <3>1. Place \notin SwapPlaces \cup {"post"}
      BY <2>1, <2>2 DEF Triangles
    <3>2. \A u \in RenderThreads : \A i \in DOMAIN todo'[u] :
            \E j \in DOMAIN todo[u] : todo'[u][i] = todo[u][j]
      BY <2>1, <2>2, <2>4 DEF TypeOK
    <3>3. \A u \in RenderThreads : \A j \in DOMAIN todo[u] :
            todo[u][j] = IF Turned THEN disp_buffer ELSE draw_buffer
      BY <2>1 DEF Triangles
    <3> QED BY <1>1, <2>6, <2>7, <3>1, <3>2, <3>3 DEF Triangles
  <2>10. Flushed'
    BY <1>1, <2>1, <2>2 DEF Flushed
  <2> QED BY <2>5, <2>8, <2>9, <2>10 DEF IInv
<1> QED BY <1>2, <1>3 DEF RenderStep

\* The CPU thread goes on outside the run. voodoo_flush() comes to its end with
\* the FIFO empty and to its return with the render threads idle.
LEMMA CpuMoves ==
    ASSUME IInv, Flush \/ Settled \/ Read \/ Close \/ JoinFifo \/ JoinRender
    PROVE  IInv'
<1>1. TypeOK /\ Flushed
  BY DEF IInv
<1>2. UNCHANGED <<fifo_mutex, fifo, took, cmd, triple, disp_buffer, front_offset, swap_pending,
                  swap_offset, todo>>
  BY Zenon DEF Flush, Settled, Read, Close, JoinFifo, JoinRender, queue, swap, render
<1>3. PICK p \in CpuPlaces, q \in CpuPlaces :
        /\ pc["cpu"] = p /\ pc' = [pc EXCEPT !["cpu"] = q]
        /\ q \in {"settle", "read"} => fifo = <<>>
        /\ q = "read" => \A r \in RenderThreads : todo[r] = <<>>
  BY Zenon, <1>1 DEF Flush, Settled, Read, Close, JoinFifo, JoinRender, Go, At, CpuPlaces, Flushed,
              RenderIdle
<1>4. "cpu" \in Threads /\ CpuPlaces \cap Running = {}
  BY DEF Threads, CpuPlaces, Running, TriPlaces, SwapPlaces
<1>5. pc'["cpu"] = q /\ pc' = [pc EXCEPT !["cpu"] = pc'["cpu"]]
  BY <1>1, <1>3, <1>4 DEF TypeOK
<1>6. Flushed'
  BY <1>2, <1>3, <1>5 DEF Flushed
<1> QED BY Zenon, <1>2, <1>3, <1>4, <1>5, <1>6, OutsideStep

\* The FIFO thread wakes and goes back to sleep.
LEMMA FifoMoves ==
    ASSUME IInv, FifoWoken \/ FifoLeave
    PROVE  IInv'
<1>1. TypeOK /\ Flushed
  BY DEF IInv
<1>2. UNCHANGED <<fifo_mutex, fifo, took, cmd, triple, disp_buffer, front_offset, swap_pending,
                  swap_offset, todo>>
  BY DEF FifoWoken, FifoLeave, queue, swap, render
<1>3. PICK p \in FifoPlaces, q \in FifoPlaces :
        pc["fifo"] = p /\ pc' = [pc EXCEPT !["fifo"] = q]
  BY <1>1 DEF FifoWoken, FifoLeave, Go, At, FifoPlaces
<1>4. "fifo" \in Threads /\ "cpu" \in Threads /\ FifoPlaces \cap Running = {}
  BY DEF Threads, FifoPlaces, Running, TriPlaces, SwapPlaces
<1>5. pc'["fifo"] = q /\ pc' = [pc EXCEPT !["fifo"] = pc'["fifo"]] /\ pc'["cpu"] = pc["cpu"]
  BY <1>1, <1>3, <1>4 DEF TypeOK
<1>6. Flushed'
  BY <1>1, <1>2, <1>5 DEF Flushed
<1> QED BY Zenon, <1>2, <1>3, <1>4, <1>5, <1>6, OutsideStep

-----------------------------------------------------------------------------
(* The theorems. *)

\* The card starts with nothing queued and the first buffer on display.
LEMMA InitHolds ==
    Init => IInv
<1> SUFFICES ASSUME Init PROVE IInv
  OBVIOUS
<1>1. /\ pc["cpu"] = "run" /\ pc["fifo"] = "sleep" /\ Place = "none" /\ fifo = <<>>
      /\ \A r \in RenderThreads : todo[r] = <<>>
  BY DEF Init, Threads, All, Place
<1>2. TypeOK
  <2>1. pc \in [Threads -> Places]
    BY DEF Init, Threads, Places, CpuPlaces, FifoPlaces
  <2>2. todo \in [RenderThreads -> Seq(0..2)]
    BY DEF Init, All
  <2>3. pc["cpu"] \in CpuPlaces /\ pc["fifo"] \in FifoPlaces
    BY <1>1 DEF CpuPlaces, FifoPlaces
  <2>4. triple \in BOOLEAN /\ swap_pending \in BOOLEAN
    BY Zenon DEF Init
  <2>5. /\ fifo \in Seq(Entries) /\ cmd \in Entries /\ took \in Int
        /\ fifo_mutex \in Threads \cup {"none"}
    BY DEF Init, Entries
  <2>6. disp_buffer \in 0..2 /\ front_offset \in 0..2 /\ swap_offset \in 0..2
    BY DEF Init
  <2> QED BY <2>1, <2>2, <2>3, <2>4, <2>5, <2>6 DEF TypeOK
<1>3. Locked
  BY <1>1 DEF Init, Locked, Running, TriPlaces, SwapPlaces, Threads
<1>4. ~Taken /\ ~Turned
  BY <1>1 DEF Taken, Turned, SwapPlaces
<1>5. Heads
  BY <1>1, <1>4 DEF Init, Heads, TriPlaces, SwapPlaces
<1>6. TwoBuffers /\ ThreeBuffers
  BY <1>4 DEF Init, TwoBuffers, ThreeBuffers
<1>7. Triangles /\ Flushed
  BY <1>1 DEF Triangles, Flushed, SwapPlaces
<1> QED BY <1>2, <1>3, <1>5, <1>6, <1>7 DEF IInv

\* Every step of every thread keeps the invariant.
LEMMA StepKeeps ==
    ASSUME IInv, [Next]_vars
    PROVE  IInv'
<1>1. CASE UNCHANGED vars
  BY <1>1, Unmoved DEF vars, queue, swap, render
<1>2. CASE \E e \in Entries : Write(e)
  BY <1>2, WriteStep
<1>3. CASE ReadStatus \/ voodoo_wake_timer \/ AwaitRoom
  BY <1>3, Unmoved DEF ReadStatus, voodoo_wake_timer, AwaitRoom, queue, swap, render
<1>4. CASE Flush \/ Settled \/ Read \/ Close \/ JoinFifo \/ JoinRender
  BY <1>4, CpuMoves
<1>5. CASE Retrace \/ WriteLate
  BY <1>5, RetraceStep, LateStep
<1>6. CASE FifoWoken \/ FifoLeave
  BY <1>6, FifoMoves
<1>7. CASE \E t \in Threads : Lock(t) \/ EntryStep(t) \/ SwapTimeout(t)
  BY <1>7, LockStep, EntryKeeps
<1>8. CASE \E r \in RenderThreads : RenderStep(r)
  BY <1>8, RenderKeeps
<1> QED
  BY <1>1, <1>2, <1>3, <1>4, <1>5, <1>6, <1>7, <1>8 DEF Next, CpuStep, FifoStep, Threads

\* The inductive invariant holds in every state of the FIFO and its threads.
THEOREM Invariance == Spec => []IInv
<1>1. IInv /\ [Next]_vars => IInv'
  BY StepKeeps
<1> QED BY InitHolds, <1>1, PTL DEF Spec

\* An access that flushes reads with no write and no triangle outstanding,
\* whichever thread ran the last entries of voodoo_flush().
THEOREM FlushesSeeAll == Spec => []FlushSeesAll
<1>1. IInv => FlushSeesAll
  BY DEF IInv, Flushed, FlushSeesAll, At
<1> QED BY <1>1, Invariance, PTL

\* With two buffers and with three, whether a swap came at once, at a retrace
\* or because the wait for it was cut short, no drawing meets the display.
THEOREM NothingTears == Spec => []NoTearing
<1>1. IInv => NoTearing
  <2> SUFFICES ASSUME IInv PROVE NoTearing
    OBVIOUS
  <2>1. Heads /\ TwoBuffers /\ ThreeBuffers /\ Triangles /\ TypeOK /\ Locked
    BY DEF IInv
  <2>2. ~Turned /\ Place \notin SwapPlaces => draw_buffer # front_offset
    <3>1. CASE triple
      BY Zenon, <2>1, <3>1, NextBuffer DEF ThreeBuffers, TypeOK, draw_buffer
    <3>2. CASE ~triple
      BY <2>1, <3>2 DEF TwoBuffers, TypeOK, draw_buffer
    <3> QED BY <3>1, <3>2
  <2>3. ASSUME NEW t \in Threads, Draws(t)
        PROVE  draw_buffer # front_offset
    <3>1. pc[t] \in TriPlaces \cup {"idle"} /\ (pc[t] = "idle" => Head(fifo) = "fb")
      BY <2>3 DEF Draws, At, TriPlaces
    <3>2. Place = pc[t]
      BY <2>1, <3>1 DEF Locked, Place, Running, Threads
    <3>3. ~Turned /\ Place \notin SwapPlaces
      BY <3>1, <3>2 DEF Turned, SwapPlaces, TriPlaces, IsSwap
    <3> QED BY <2>2, <3>3
  <2>4. ASSUME NEW r \in RenderThreads, NEW i \in DOMAIN todo[r]
        PROVE  todo[r][i] # front_offset
    <3>1. todo[r] # <<>>
      BY <2>4
    <3>2. Place \notin SwapPlaces \cup {"post"}
      BY <2>1, <3>1 DEF Triangles
    <3>3. Turned => disp_buffer # front_offset
      <4>1. CASE triple
        BY <2>1, <3>2, <4>1 DEF ThreeBuffers, TypeOK, Before
      <4>2. CASE ~triple
        BY <2>1, <4>2 DEF TwoBuffers, TypeOK
      <4> QED BY <4>1, <4>2
    <3> QED BY <2>1, <2>2, <3>2, <3>3 DEF Triangles
  <2> QED BY <2>3, <2>4 DEF NoTearing
<1> QED BY <1>1, Invariance, PTL

\* The entry at the head takes effect once and only then leaves the FIFO.
LEMMA OnceStep ==
    ASSUME IInv, [Next]_vars
    PROVE  /\ took' > took => took = 0
           /\ Len(fifo') < Len(fifo) => took = 1
<1>1. Heads /\ TypeOK /\ Locked
  BY DEF IInv
<1>2. took \in {0, 1} /\ Len(fifo) \in Nat
  BY <1>1 DEF Heads, TypeOK
<1>3. ASSUME NEW t \in Threads, Pop(t)
      PROVE  took = 1 /\ took' = 0
  <2>1. pc[t] = "pop" /\ took' = 0
    BY <1>3 DEF Pop, At
  <2>2. Place = "pop"
    BY <1>1, <2>1 DEF Locked, Place, Running, Threads
  <2> QED BY <1>1, <2>1, <2>2 DEF Heads, Taken
<1>4. ASSUME NEW t \in Threads,
             \/ QueueTriangle(t) \/ WritePixel(t) \/ SwapNow(t) \/ SwapAtRetrace(t)
             \/ PostAfterWait(t)
      PROVE  took = 0 /\ fifo' = fifo
  <2>1. pc[t] \in {"tri", "idle", "post"} /\ fifo' = fifo
    BY Zenon, <1>4 DEF QueueTriangle, WritePixel, SwapNow, SwapAtRetrace, PostAfterWait, At
  <2>2. Place = pc[t]
    BY <1>1, <2>1 DEF Locked, Place, Running, TriPlaces, Threads
  <2> QED BY <1>1, <2>1, <2>2 DEF Heads, Taken, SwapPlaces
<1>5. ASSUME NEW e \in Entries, Enqueue(e)
      PROVE  took' = took /\ ~(Len(fifo') < Len(fifo))
  <2>1. took' = took /\ fifo' = Append(fifo, e)
    BY <1>5 DEF Enqueue
  <2> QED BY <1>1, <2>1 DEF TypeOK
<1>6. \/ took' = took /\ fifo' = fifo
      \/ took' = took /\ ~(Len(fifo') < Len(fifo))
      \/ took = 1 /\ took' = 0
      \/ took = 0 /\ fifo' = fifo
  <2>1. CASE UNCHANGED vars
    BY <2>1 DEF vars, queue
  <2>2. CASE \E e \in Entries : Write(e)
    BY <2>2, <1>5 DEF Write
  <2>3. CASE WriteLate
    BY <2>3, <1>1, <1>5 DEF WriteLate, TypeOK
  <2>4. CASE ReadStatus \/ Flush \/ Close \/ voodoo_wake_timer \/ Retrace
    BY Zenon, <2>4 DEF ReadStatus, Flush, Close, voodoo_wake_timer, Retrace, queue
  <2>5. CASE AwaitRoom \/ Settled \/ Read \/ JoinFifo \/ JoinRender \/ FifoWoken \/ FifoLeave
    BY Zenon, <2>5 DEF AwaitRoom, Settled, Read, JoinFifo, JoinRender, FifoWoken, FifoLeave, queue
  <2>6. CASE \E r \in RenderThreads : RenderStep(r)
    BY <2>6 DEF RenderStep, queue
  <2>7. ASSUME NEW t \in Threads, Lock(t) \/ EntryStep(t) \/ SwapTimeout(t)
        PROVE  \/ took' = took /\ fifo' = fifo
               \/ took = 1 /\ took' = 0
               \/ took = 0 /\ fifo' = fifo
    <3>1. CASE \/ Lock(t) \/ FetchEntry(t) \/ Drained(t) \/ TriangleRoom(t) \/ TriangleSleep(t)
               \/ IdleRound(t)
      BY Zenon, <3>1 DEF Lock, FetchEntry, Drained, TriangleRoom, TriangleSleep, IdleRound, queue
    <3>2. CASE SwapTest(t) \/ SwapLook(t) \/ SwapReset(t) \/ SwapWoken(t) \/ SwapTimeout(t)
      BY Zenon, <3>2 DEF SwapTest, SwapLook, SwapReset, SwapWoken, SwapTimeout, queue
    <3> QED BY <2>7, <1>3, <1>4, <3>1, <3>2 DEF EntryStep
  <2> QED
    BY Zenon, <2>1, <2>2, <2>3, <2>4, <2>5, <2>6, <2>7 DEF Next, CpuStep, FifoStep, Threads
<1> QED BY <1>2, <1>6

\* Each entry takes effect exactly once, before it leaves the FIFO, whether the
\* FIFO thread or the CPU thread in voodoo_flush() runs it.
THEOREM EachRunOnce == Spec => EachOnce
<1>1. IInv /\ [Next]_vars => [ /\ took' > took => took = 0
                               /\ Len(fifo') < Len(fifo) => took = 1 ]_vars
  BY OnceStep
<1> QED BY <1>1, Invariance, PTL DEF Spec, EachOnce

-----------------------------------------------------------------------------
(* The count of swaps. *)

\* With two buffers, the swap at the head is on display and still waited for.
Shown == ~triple /\ Place \in SwapPlaces /\ ~swap_pending

\* 1 where the entry at the head is a swap that has come about.
Done == IF fifo # <<>> /\ IsSwap(Head(fifo)) /\ (Place = "pop" \/ Shown) THEN 1 ELSE 0

\* 1 where a swap is posted that is in the FIFO no longer, or not waited for there.
Posted == IF triple /\ swap_pending THEN 1 ELSE 0

\* 1 where a swap is counted that waits for room in the FIFO.
Late == IF pc["cpu"] = "room" /\ IsSwap(cmd) THEN 1 ELSE 0

\* The count is bounded by the swaps to come, of which one that a retrace has shown
\* is none even while it is waited for.
Counted == swap_count \in Nat /\ swap_count <= Swaps(fifo) - Done + Posted + Late

\* A FIFO has finitely many swaps.
LEMMA SwapsFinite ==
    ASSUME NEW q \in Seq(Entries)
    PROVE  IsFiniteSet({i \in DOMAIN q : IsSwap(q[i])}) /\ Swaps(q) \in Nat
<1> DEFINE S == {i \in DOMAIN q : IsSwap(q[i])}
<1>1. S \in SUBSET (1 .. Len(q)) /\ Len(q) \in Int
  OBVIOUS
<1> HIDE DEF S
<1>2. IsFiniteSet(1 .. Len(q))
  BY <1>1, FS_Interval
<1>3. IsFiniteSet(S)
  BY Zenon, <1>1, <1>2, FS_Subset
<1>4. Cardinality(S) \in Nat
  BY <1>3, FS_CardinalityType
<1> QED
  BY <1>3, <1>4 DEF S, Swaps

\* An entry behind the others is one swap more, or none.
LEMMA SwapsAppend ==
    ASSUME NEW q \in Seq(Entries), NEW e \in Entries
    PROVE  Swaps(Append(q, e)) = Swaps(q) + IF IsSwap(e) THEN 1 ELSE 0
<1> DEFINE S == {i \in DOMAIN q : IsSwap(q[i])}
           a == Append(q, e)
           T == {i \in DOMAIN a : IsSwap(a[i])}
           n == Len(q) + 1
<1>1. /\ DOMAIN q = 1 .. Len(q) /\ DOMAIN a = 1 .. n /\ Len(q) \in Nat
      /\ a[n] = e /\ \A i \in 1 .. Len(q) : a[i] = q[i]
  OBVIOUS
<1> HIDE DEF a
<1>2. n \notin S /\ T = IF IsSwap(e) THEN S \cup {n} ELSE S
  <2>1. n \in Nat /\ n \notin 1 .. Len(q) /\ 1 .. n = (1 .. Len(q)) \cup {n}
    BY <1>1
  <2> HIDE DEF n
  <2>2. \A i : i \in T <=> i \in S \/ (i = n /\ IsSwap(e))
    BY <1>1, <2>1 DEF IsSwap
  <2>3. n \notin S
    BY <1>1, <2>1
  <2> HIDE DEF S, T
  <2> QED BY Zenon, <2>2, <2>3
<1>3. IsFiniteSet(S) /\ Cardinality(S) \in Nat
  BY SwapsFinite DEF Swaps
<1> HIDE DEF S, T, n
<1>4. Cardinality(T) = Cardinality(S) + IF IsSwap(e) THEN 1 ELSE 0
  <2>1. CASE IsSwap(e)
    <3>1. T = S \cup {n} /\ n \notin S
      BY <1>2, <2>1
    <3>2. Cardinality(S \cup {n}) = Cardinality(S) + 1
      BY Zenon, <1>3, <3>1, FS_AddElement
    <3> QED BY <2>1, <3>1, <3>2
  <2>2. CASE ~IsSwap(e)
    BY <1>2, <1>3, <2>2
  <2> QED BY <2>1, <2>2
<1> QED
  BY Zenon, <1>4 DEF S, T, a, Swaps

\* Without the entry at the head there is one swap less, or none.
LEMMA SwapsTail ==
    ASSUME NEW q \in Seq(Entries), q # <<>>
    PROVE  Swaps(q) = Swaps(Tail(q)) + IF IsSwap(Head(q)) THEN 1 ELSE 0
<1> DEFINE r == Tail(q)
           S == {i \in DOMAIN q : IsSwap(q[i])}
           T == {i \in DOMAIN r : IsSwap(r[i])}
           U == S \ {1}
           f == [i \in T |-> i + 1]
<1>1. /\ r \in Seq(Entries) /\ Len(q) \in Nat \ {0}
      /\ DOMAIN q = 1 .. Len(q) /\ DOMAIN r = 1 .. Len(q) - 1
      /\ q[1] = Head(q) /\ \A i \in 1 .. Len(q) - 1 : r[i] = q[i + 1]
  OBVIOUS
<1>2. IsFiniteSet(T) /\ IsFiniteSet(S) /\ Cardinality(T) \in Nat /\ Cardinality(S) \in Nat
  BY Zenon, <1>1, SwapsFinite DEF Swaps
<1> HIDE DEF r
<1>3. f \in Bijection(T, U)
  <2>1. \A i \in T : i \in Nat /\ i + 1 \in U
    BY <1>1
  <2>2. \A j \in U : j - 1 \in T /\ j \in Nat
    BY <1>1
  <2>3. f \in [T -> U]
    BY <2>1
  <2>4. \A i, j \in T : f[i] = f[j] => i = j
    BY <2>1
  <2>5. \A j \in U : \E i \in T : f[i] = j
    <3> TAKE j \in U
    <3>1. f[j - 1] = j /\ j - 1 \in T
      <4> HIDE DEF T, U
      <4> QED BY <2>2
    <3> HIDE DEF T, U, f
    <3> QED BY <3>1
  <2> HIDE DEF f, T, U
  <2> QED BY <2>3, <2>4, <2>5 DEF Bijection, Injection, Surjection, IsInjective
<1>4. 1 \in S <=> IsSwap(Head(q))
  BY <1>1
<1> HIDE DEF f, S, T
<1>5. ExistsBijection(T, U)
  BY Zenon, <1>3 DEF ExistsBijection
<1>6. Cardinality(U) = Cardinality(T)
  BY <1>2, <1>5, FS_Bijection
<1>7. Cardinality(U) = IF 1 \in S THEN Cardinality(S) - 1 ELSE Cardinality(S)
  BY Zenon, <1>2, FS_RemoveElement
<1>8. Cardinality(S) = Cardinality(T) + IF IsSwap(Head(q)) THEN 1 ELSE 0
  BY <1>2, <1>4, <1>6, <1>7
<1> QED
  BY Zenon, <1>8 DEF S, T, r, Swaps

\* A swap at the head is among the swaps.
LEMMA HeadCounts ==
    ASSUME NEW q \in Seq(Entries), q # <<>>, IsSwap(Head(q))
    PROVE  Swaps(q) > 0
<1>1. Tail(q) \in Seq(Entries)
  OBVIOUS
<1>2. Swaps(Tail(q)) \in Nat
  BY Zenon, <1>1, SwapsFinite
<1>3. Swaps(q) = Swaps(Tail(q)) + 1
  BY SwapsTail
<1> QED BY <1>2, <1>3

\* A thread moves and has no write to queue.
LEMMA LateSame ==
    ASSUME TypeOK, NEW t \in Threads, NEW q, pc' = [pc EXCEPT ![t] = q], pc[t] # "room", q # "room",
           cmd' = cmd
    PROVE  Late' = Late
  BY DEF TypeOK, Late, Threads

\* Where the swaps written and the count are the same, the bound is.
LEMMA SameCounted ==
    ASSUME Counted, TypeOK, UNCHANGED <<fifo, triple, swap_pending, swap_count>>,
           Late' = Late, Done' = Done
    PROVE  Counted'
<1>1. Posted' = Posted
  BY DEF Posted
<1> QED BY <1>1 DEF Counted

\* A step of the run that shows, posts and removes no swap.
LEMMA PlainStepCounts ==
    ASSUME IInv, Counted, NEW t \in Threads,
           \/ FetchEntry(t) \/ Drained(t) \/ Lock(t) \/ QueueTriangle(t) \/ TriangleRoom(t)
           \/ TriangleSleep(t) \/ WritePixel(t)
    PROVE  Counted'
<1>1. TypeOK /\ Heads /\ Locked
  BY DEF IInv
<1>2. UNCHANGED <<fifo, cmd, triple, swap_pending, swap_count>>
  BY Zenon DEF FetchEntry, Drained, Lock, QueueTriangle, TriangleRoom, TriangleSleep, WritePixel,
         queue, swap
<1>3. PICK q : /\ pc' = [pc EXCEPT ![t] = q] /\ q \notin SwapPlaces \cup {"room"}
               /\ pc[t] \notin SwapPlaces \cup {"room", "pop"}
               /\ q = "pop" => /\ pc[t] = "tri" \/ (pc[t] = "idle" /\ Head(fifo) = "fb")
                               /\ UNCHANGED fifo_mutex
  BY ZenonT(60) DEF FetchEntry, Drained, Lock, QueueTriangle, TriangleRoom, TriangleSleep, WritePixel, Go, At,
         SwapPlaces
<1>4. fifo_mutex \in {t, "none"} /\ fifo_mutex' \in {t, "none"}
  BY Zenon, <1>1 DEF FetchEntry, Drained, Lock, QueueTriangle, TriangleRoom, TriangleSleep, WritePixel,
              At, Locked, Running, TriPlaces
<1>5. Place \in {"none", pc[t]} /\ Place' \in {"none", q}
  BY Zenon, <1>1, <1>3, <1>4 DEF Place, TypeOK
<1>6. Place' = "pop" => ~IsSwap(Head(fifo))
  <2> SUFFICES ASSUME Place' = "pop" PROVE ~IsSwap(Head(fifo))
    OBVIOUS
  <2>1. q = "pop" /\ fifo_mutex = t /\ t # "none"
    BY <1>3, <1>4, <1>5 DEF Place, Threads
  <2>2. Place = pc[t]
    BY <2>1 DEF Place
  <2> QED BY <1>1, <1>3, <2>1, <2>2 DEF Heads, TriPlaces, IsSwap
<1>7. Done = 0 /\ Done' = 0
  BY Zenon, <1>2, <1>3, <1>5, <1>6 DEF Done, Shown, SwapPlaces
<1>8. Late' = Late
  BY Zenon, <1>1, <1>2, <1>3, LateSame
<1> QED BY <1>1, <1>2, <1>7, <1>8, SameCounted

\* The entry that leaves the FIFO was, if a swap, counted no more.
LEMMA PopCounts ==
    ASSUME IInv, Counted, NEW t \in Threads, Pop(t)
    PROVE  Counted'
<1>1. TypeOK /\ Heads
  BY DEF IInv
<1>2. fifo' = Tail(fifo) /\ UNCHANGED <<cmd, fifo_mutex, triple, swap_pending, swap_count>>
  BY DEF Pop, swap
<1>3. From(t, "pop", "entry") /\ pc' = [pc EXCEPT ![t] = "entry"] /\ pc[t] = "pop"
  BY <1>1 DEF Pop, From, Go, At, TypeOK
<1>4. Place = "pop" /\ Place' = "entry"
  BY <1>3, PlaceMoves DEF Running
<1>5. fifo # <<>> /\ fifo \in Seq(Entries) /\ fifo' \in Seq(Entries)
  BY <1>1, <1>2, <1>4 DEF Heads, TypeOK
<1>6. Swaps(fifo') = Swaps(fifo) - Done
  <2>1. Swaps(fifo) = Swaps(fifo') + IF IsSwap(Head(fifo)) THEN 1 ELSE 0
    BY <1>2, <1>5, SwapsTail
  <2>2. Swaps(fifo) \in Nat /\ Swaps(fifo') \in Nat
    BY Zenon, <1>5, SwapsFinite
  <2> QED BY <1>4, <1>5, <2>1, <2>2 DEF Done
<1>7. Done' = 0
  BY <1>4 DEF Done, Shown, SwapPlaces
<1>8. Late' = Late /\ Posted' = Posted
  BY Zenon, <1>1, <1>2, <1>3, LateSame DEF Posted
<1>9. Swaps(fifo') \in Nat /\ Posted \in {0, 1} /\ Late \in {0, 1}
  BY Zenon, <1>5, SwapsFinite DEF Posted, Late
<1>10. swap_count \in Nat /\ swap_count <= Swaps(fifo') + Posted + Late
  BY <1>6 DEF Counted
<1> QED BY <1>2, <1>7, <1>8, <1>9, <1>10 DEF Counted

\* The numbers of the bound.
LEMMA BoundType ==
    ASSUME TypeOK
    PROVE  Swaps(fifo) \in Nat /\ Done \in {0, 1} /\ Posted \in {0, 1} /\ Late \in {0, 1}
  BY Zenon, SwapsFinite DEF TypeOK, Done, Posted, Late

\* A swap comes about at once and is counted off.
LEMMA NowCounts ==
    ASSUME IInv, Counted, NEW t \in Threads, SwapNow(t)
    PROVE  Counted'
<1>1. TypeOK /\ Heads
  BY DEF IInv
<1>2. /\ UNCHANGED <<fifo, cmd, fifo_mutex, triple, swap_pending>>
      /\ Head(fifo) = "now" /\ swap_count' = Less(swap_count)
  BY DEF SwapNow
<1>3. From(t, "idle", "pop") /\ pc' = [pc EXCEPT ![t] = "pop"] /\ pc[t] = "idle"
  BY <1>1 DEF SwapNow, From, Go, At, TypeOK
<1>4. Place = "idle" /\ Place' = "pop"
  BY <1>3, PlaceMoves DEF Running
<1>5. fifo # <<>> /\ fifo \in Seq(Entries)
  BY <1>1, <1>4 DEF Heads, TypeOK
<1>6. Swaps(fifo) > 0
  BY <1>2, <1>5, HeadCounts DEF IsSwap
<1>7. Done = 0 /\ Done' = 1
  BY <1>2, <1>4, <1>5 DEF Done, Shown, SwapPlaces, IsSwap
<1>8. Late' = Late /\ Posted' = Posted
  BY Zenon, <1>1, <1>2, <1>3, LateSame DEF Posted
<1>9. Swaps(fifo) \in Nat /\ Posted \in {0, 1} /\ Late \in {0, 1}
  BY <1>1, BoundType
<1>10. swap_count \in Nat /\ swap_count <= Swaps(fifo) + Posted + Late
  BY <1>7, <1>9 DEF Counted
<1>11. swap_count' \in Nat /\ swap_count' <= Swaps(fifo) - 1 + Posted + Late
  BY <1>2, <1>6, <1>9, <1>10 DEF Less
<1> QED BY <1>2, <1>7, <1>8, <1>11 DEF Counted

\* A swap at a retrace is posted, at once or after the wait for the one before: it is
\* to come as it was.
LEMMA PostCounts ==
    ASSUME IInv, Counted, NEW t \in Threads, SwapAtRetrace(t) \/ PostAfterWait(t)
    PROVE  Counted'
<1>1. TypeOK /\ Heads /\ ThreeBuffers
  BY DEF IInv
<1>2. UNCHANGED <<fifo, cmd, fifo_mutex, triple, swap_count>>
  BY DEF SwapAtRetrace, PostAfterWait
<1>3. PICK p \in {"idle", "post"}, q \in {"swap", "pop"} :
        /\ From(t, p, q) /\ pc' = [pc EXCEPT ![t] = q] /\ pc[t] = p
        /\ p = "idle" => Head(fifo) = "vsync"
        /\ \/ triple /\ swap_pending /\ q = "swap" /\ UNCHANGED swap_pending /\ p = "idle"
           \/ triple /\ ~swap_pending /\ q = "pop" /\ swap_pending' = TRUE /\ p = "idle"
           \/ ~triple /\ q = "swap" /\ swap_pending' = TRUE /\ p = "idle"
           \/ p = "post" /\ q = "pop" /\ swap_pending' = TRUE
  BY Zenon, <1>1 DEF SwapAtRetrace, PostAfterWait, PostSwap, From, Go, At, TypeOK
<1>4. Place = p /\ Place' = q
  BY <1>3, PlaceMoves DEF Running, SwapPlaces
<1>5. /\ fifo # <<>> /\ Head(fifo) = "vsync"
      /\ p = "post" => triple /\ ~swap_pending
  BY <1>1, <1>3, <1>4 DEF Heads, ThreeBuffers, Turned, SwapPlaces
<1>6. Done = 0 /\ Done' = IF q = "pop" THEN 1 ELSE 0
  BY <1>2, <1>3, <1>4, <1>5 DEF Done, Shown, SwapPlaces, IsSwap
<1>7. Posted' = Posted + Done'
  BY <1>2, <1>3, <1>5, <1>6 DEF Posted
<1>8. Late' = Late
  BY Zenon, <1>1, <1>2, <1>3, LateSame
<1>9. Swaps(fifo) \in Nat /\ Posted \in {0, 1} /\ Late \in {0, 1} /\ Done' \in {0, 1}
  BY <1>1, <1>6, BoundType
<1>10. swap_count \in Nat /\ swap_count <= Swaps(fifo) + Posted + Late
  BY <1>6, <1>9 DEF Counted
<1> HIDE DEF Done, Posted, Late
<1>11. swap_count <= Swaps(fifo) - Done' + Posted' + Late'
  BY <1>7, <1>8, <1>9, <1>10
<1> QED BY <1>2, <1>10, <1>11 DEF Counted

\* The wait for a swap goes on, or ends with the swap on display.
LEMMA WaitCounts ==
    ASSUME IInv, Counted, NEW t \in Threads,
           SwapTest(t) \/ SwapReset(t) \/ SwapWoken(t) \/ SwapTimeout(t)
    PROVE  Counted'
<1>1. TypeOK /\ Heads
  BY DEF IInv
<1>2. UNCHANGED <<fifo, cmd, fifo_mutex, triple, swap_pending, swap_count>>
  BY DEF SwapTest, SwapReset, SwapWoken, SwapTimeout, queue, swap
<1>3. PICK p \in SwapPlaces, q \in SwapPlaces \cup {SwapWaited} :
        /\ From(t, p, q) /\ pc' = [pc EXCEPT ![t] = q] /\ pc[t] = p
        /\ q = SwapWaited => ~swap_pending
  BY Zenon, <1>1 DEF SwapTest, SwapReset, SwapWoken, SwapTimeout, From, Go, At, SwapPlaces, TypeOK,
              SwapWaited
<1>4. Place = p /\ Place' = q
  <2>1. p \in Running /\ q \in Running
    BY DEF Running, SwapWaited
  <2> QED BY <1>3, <2>1, PlaceMoves
<1>5. Done' = Done
  BY <1>2, <1>3, <1>4 DEF Done, Shown, SwapPlaces, SwapWaited
<1>6. Late' = Late
  <2>1. p # "room" /\ q # "room"
    BY DEF SwapPlaces, SwapWaited
  <2> QED BY Zenon, <1>1, <1>2, <1>3, <2>1, LateSame
<1> QED BY <1>1, <1>2, <1>5, <1>6, SameCounted

\* The wait is cut short: the swap is counted off, once more even if a retrace came
\* between.
LEMMA LookCounts ==
    ASSUME IInv, Counted, NEW t \in Threads, SwapLook(t)
    PROVE  Counted'
<1>1. TypeOK /\ Heads
  BY DEF IInv
<1>2. UNCHANGED <<fifo, cmd, fifo_mutex, triple>>
  BY DEF SwapLook, queue
<1>3. CASE (swap_pending /\ flush) \/ FIFO_FULL
  <2>1. /\ From(t, "swap_look", SwapWaited) /\ pc' = [pc EXCEPT ![t] = SwapWaited]
        /\ pc[t] = "swap_look" /\ swap_pending' = FALSE /\ swap_count' = Less(swap_count)
    BY Zenon, <1>1, <1>3 DEF SwapLook, From, Go, At, TypeOK
  <2>2. Place = "swap_look" /\ Place' = SwapWaited
    BY <2>1, PlaceMoves DEF SwapWaited, Running, SwapPlaces
  <2>3. fifo # <<>> /\ IsSwap(Head(fifo)) /\ fifo \in Seq(Entries)
    BY Zenon, <1>1, <2>2 DEF Heads, SwapPlaces, IsSwap, TypeOK
  <2>4. Swaps(fifo) > 0
    BY <2>3, HeadCounts
  <2>5. /\ Done = IF ~triple /\ ~swap_pending THEN 1 ELSE 0
        /\ Done' = IF triple THEN 0 ELSE 1
    BY <1>2, <2>2, <2>3 DEF Done, Shown, SwapPlaces, SwapWaited
  <2>6. Posted = (IF triple /\ swap_pending THEN 1 ELSE 0) /\ Posted' = 0
    BY <2>1 DEF Posted
  <2>7. Late' = Late
    BY Zenon, <1>1, <1>2, <2>1, LateSame DEF SwapWaited
  <2>8. Swaps(fifo) \in Nat /\ Late \in {0, 1}
    BY <1>1, BoundType
  <2>9. swap_count \in Nat /\ swap_count <= Swaps(fifo) - Done + Posted + Late
    BY DEF Counted
  <2> HIDE DEF Done, Posted, Late
  <2>10. /\ swap_count' \in Nat /\ swap_count' <= swap_count
         /\ swap_count' <= Swaps(fifo) - Done' + Posted' + Late'
    <3>1. CASE triple
      BY <2>1, <2>4, <2>5, <2>6, <2>7, <2>8, <2>9, <3>1 DEF Less
    <3>2. CASE ~triple
      BY <2>1, <2>4, <2>5, <2>6, <2>7, <2>8, <2>9, <3>2 DEF Less
    <3> QED BY <3>1, <3>2
  <2> QED BY <1>2, <2>10 DEF Counted
<1>4. CASE ~((swap_pending /\ flush) \/ FIFO_FULL)
  <2>1. /\ From(t, "swap_look", "swap_reset") /\ pc' = [pc EXCEPT ![t] = "swap_reset"]
        /\ pc[t] = "swap_look" /\ UNCHANGED <<swap_pending, swap_count>>
    BY <1>1, <1>4 DEF SwapLook, From, Go, At, TypeOK
  <2>2. Place = "swap_look" /\ Place' = "swap_reset"
    BY <2>1, PlaceMoves DEF Running, SwapPlaces
  <2>3. Done' = Done
    BY <1>2, <2>1, <2>2 DEF Done, Shown, SwapPlaces
  <2>4. Late' = Late
    BY Zenon, <1>1, <1>2, <2>1, LateSame
  <2> QED BY <1>1, <1>2, <2>1, <2>3, <2>4, SameCounted
<1> QED BY <1>3, <1>4

\* A step that moves no thread of the two, writes nothing and swaps nothing.
LEMMA UnmovedCounts ==
    ASSUME IInv, Counted, UNCHANGED <<pc, fifo, cmd, fifo_mutex, triple, swap_pending, swap_count>>
    PROVE  Counted'
<1>1. TypeOK
  BY DEF IInv
<1>2. Late' = Late /\ Place' = Place
  BY DEF Late, Place
<1>3. Done' = Done
  BY <1>2 DEF Done, Shown
<1> QED BY <1>1, <1>2, <1>3, SameCounted

\* A thread that does not run the FIFO goes from place to place and writes nothing.
LEMMA OutsideCounts ==
    ASSUME IInv, Counted,
           \/ Flush \/ Settled \/ Read \/ Close \/ JoinFifo \/ JoinRender
           \/ FifoWoken \/ FifoLeave
    PROVE  Counted'
<1>1. TypeOK /\ Locked
  BY DEF IInv
<1>2. UNCHANGED <<fifo, cmd, fifo_mutex, triple, swap_pending, swap_count>>
  BY Zenon DEF Flush, Settled, Read, Close, JoinFifo, JoinRender, FifoWoken, FifoLeave, queue, swap
<1>3. PICK t \in Threads, q \in (CpuPlaces \cup FifoPlaces) \ {"room"} :
        /\ pc' = [pc EXCEPT ![t] = q]
        /\ pc[t] \in (CpuPlaces \cup FifoPlaces) \ {"room"}
  BY Zenon DEF Flush, Settled, Read, Close, JoinFifo, JoinRender, FifoWoken, FifoLeave, Go, At,
         CpuPlaces, FifoPlaces, Threads
<1>4. Late' = Late
  BY Zenon, <1>1, <1>2, <1>3, LateSame
<1>5. Place' = Place
  <2>1. fifo_mutex # t
    BY <1>1, <1>3 DEF Locked, CpuPlaces, FifoPlaces, Running, TriPlaces, SwapPlaces
  <2> QED BY Zenon, <1>1, <1>2, <1>3, <2>1 DEF Place, TypeOK
<1>6. Done' = Done
  BY <1>2, <1>5 DEF Done, Shown
<1> QED BY <1>1, <1>2, <1>4, <1>6, SameCounted

\* An entry is queued: a swap adds to those to come.
LEMMA AppendCounts ==
    ASSUME IInv, Counted, NEW e \in Entries, Enqueue(e), pc["cpu"] \in {"run", "room"},
           pc' = [pc EXCEPT !["cpu"] = "run"]
    PROVE  /\ Swaps(fifo') = Swaps(fifo) + IF IsSwap(e) THEN 1 ELSE 0
           /\ Done' = Done /\ Posted' = Posted /\ Late' = 0
<1>1. TypeOK /\ Heads /\ Locked
  BY DEF IInv
<1>2. fifo' = Append(fifo, e) /\ UNCHANGED <<fifo_mutex, triple, swap_pending>>
  BY DEF Enqueue
<1>3. Swaps(fifo') = Swaps(fifo) + IF IsSwap(e) THEN 1 ELSE 0
  BY <1>1, <1>2, SwapsAppend DEF TypeOK
<1>4. fifo' # <<>> /\ (fifo # <<>> => Head(fifo') = Head(fifo))
  BY <1>1, <1>2 DEF TypeOK
<1>5. Place' = Place
  <2>1. fifo_mutex # "cpu"
    BY <1>1 DEF Locked, Threads, Running, TriPlaces, SwapPlaces
  <2> QED BY Zenon, <1>1, <1>2, <2>1 DEF Place, TypeOK
<1>6. Done' = Done
  <2>1. Place = "pop" \/ Shown => fifo # <<>>
    BY <1>1 DEF Heads, Shown, SwapPlaces
  <2> QED BY <1>2, <1>4, <1>5, <2>1 DEF Done, Shown
<1>7. Late' = 0 /\ Posted' = Posted
  BY Zenon, <1>1, <1>2 DEF Late, Posted, TypeOK, Threads
<1> QED BY <1>3, <1>6, <1>7

\* A write is counted when the guest makes it, whether it is queued or waits for room.
LEMMA WriteCounts ==
    ASSUME IInv, Counted, NEW e \in Entries, Write(e)
    PROVE  Counted'
<1>1. TypeOK /\ Locked
  BY DEF IInv
<1>2. /\ pc["cpu"] = "run" /\ Late = 0
      /\ swap_count' = IF IsSwap(e) THEN swap_count + 1 ELSE swap_count
  BY DEF Write, At, Late
<1>3. Swaps(fifo) \in Nat /\ Done \in {0, 1} /\ Posted \in {0, 1}
  BY <1>1, BoundType
<1>4. swap_count \in Nat /\ swap_count <= Swaps(fifo) - Done + Posted
  BY <1>2, <1>3 DEF Counted
<1>5. CASE Enqueue(e) /\ UNCHANGED <<pc, cmd>>
  <2>1. pc' = [pc EXCEPT !["cpu"] = "run"]
    BY Zenon, <1>1, <1>2, <1>5 DEF TypeOK, Threads
  <2>2. /\ Swaps(fifo') = Swaps(fifo) + IF IsSwap(e) THEN 1 ELSE 0
        /\ Done' = Done /\ Posted' = Posted /\ Late' = 0
    BY Zenon, <1>2, <1>5, <2>1, AppendCounts
  <2> HIDE DEF Done, Posted, Late
  <2> QED BY <1>2, <1>3, <1>4, <2>2 DEF Counted
<1>6. CASE ~(Enqueue(e) /\ UNCHANGED <<pc, cmd>>)
  <2>1. /\ cmd' = e /\ pc' = [pc EXCEPT !["cpu"] = "room"]
        /\ UNCHANGED <<fifo, fifo_mutex, triple, swap_pending>>
    BY <1>6 DEF Write, Go
  <2>2. Place' = Place
    <3>1. fifo_mutex # "cpu"
      BY <1>1, <1>2 DEF Locked, Threads, Running, TriPlaces, SwapPlaces
    <3> QED BY <1>1, <2>1, <3>1 DEF Place, TypeOK
  <2>3. Done' = Done /\ Posted' = Posted
    BY <2>1, <2>2 DEF Done, Shown, Posted
  <2>4. Late' = IF IsSwap(e) THEN 1 ELSE 0
    BY <1>1, <2>1 DEF Late, TypeOK, Threads
  <2> HIDE DEF Done, Posted, Late
  <2> QED BY <1>2, <1>3, <1>4, <2>1, <2>3, <2>4 DEF Counted
<1> QED BY <1>5, <1>6

\* The write that waited for room was counted already.
LEMMA LateCounts ==
    ASSUME IInv, Counted, WriteLate
    PROVE  Counted'
<1>1. TypeOK
  BY DEF IInv
<1>2. /\ pc["cpu"] = "room" /\ Enqueue(cmd) /\ pc' = [pc EXCEPT !["cpu"] = "run"]
      /\ swap_count' = swap_count /\ cmd \in Entries
  BY <1>1 DEF WriteLate, At, Go, TypeOK
<1>3. Late = IF IsSwap(cmd) THEN 1 ELSE 0
  BY <1>2 DEF Late
<1>4. /\ Swaps(fifo') = Swaps(fifo) + IF IsSwap(cmd) THEN 1 ELSE 0
      /\ Done' = Done /\ Posted' = Posted /\ Late' = 0
  BY <1>2, AppendCounts
<1>5. Swaps(fifo) \in Nat /\ Done \in {0, 1} /\ Posted \in {0, 1}
  BY <1>1, BoundType
<1>6. swap_count \in Nat /\ swap_count <= Swaps(fifo) - Done + Posted + Late
  BY DEF Counted
<1> HIDE DEF Done, Posted, Late
<1> QED BY <1>2, <1>3, <1>4, <1>5, <1>6 DEF Counted

\* The retrace counts off the swap it shows, which is the one that is waited for with two
\* buffers and the one posted with three.
LEMMA RetraceCounts ==
    ASSUME IInv, Counted, Retrace
    PROVE  Counted'
<1>1. TypeOK /\ Heads /\ TwoBuffers
  BY DEF IInv
<1>2. /\ swap_pending /\ swap_pending' = FALSE /\ swap_count' = Less(swap_count)
      /\ UNCHANGED <<fifo, cmd, pc, fifo_mutex, triple>>
  BY DEF Retrace, queue
<1>3. Late' = Late /\ Place' = Place
  BY <1>2 DEF Late, Place
<1>4. Swaps(fifo) \in Nat /\ Done \in {0, 1} /\ Late \in {0, 1} /\ Done' \in {0, 1}
  BY <1>1, BoundType DEF Done
<1>5. swap_count \in Nat /\ swap_count <= Swaps(fifo) - Done + Posted + Late
  BY DEF Counted
<1>6. CASE triple
  <2>1. Posted = 1 /\ Posted' = 0 /\ Done' = Done
    BY <1>2, <1>3, <1>6 DEF Posted, Done, Shown
  <2>2. Done = 0 \/ Swaps(fifo) > 0
    BY <1>1, HeadCounts DEF Done, TypeOK
  <2> HIDE DEF Done, Posted, Late
  <2>3. swap_count' \in Nat /\ swap_count' <= Swaps(fifo) - Done + Late
    BY <1>2, <1>4, <1>5, <2>1, <2>2 DEF Less
  <2> QED BY <1>2, <1>3, <1>4, <2>1, <2>3 DEF Counted
<1>7. CASE ~triple
  <2>1. Place \in SwapPlaces
    BY <1>1, <1>2, <1>7 DEF TwoBuffers
  <2>2. fifo # <<>> /\ IsSwap(Head(fifo)) /\ fifo \in Seq(Entries)
    BY <1>1, <2>1 DEF Heads, SwapPlaces, IsSwap, TypeOK
  <2>3. Swaps(fifo) > 0
    BY <2>2, HeadCounts
  <2>4. Posted = 0 /\ Posted' = 0 /\ Done = 0 /\ Done' = 1
    BY <1>2, <1>3, <1>7, <2>1, <2>2 DEF Posted, Done, Shown, SwapPlaces
  <2> HIDE DEF Done, Posted, Late
  <2>5. swap_count' \in Nat /\ swap_count' <= Swaps(fifo) - 1 + Late
    BY <1>2, <1>4, <1>5, <2>3, <2>4 DEF Less
  <2> QED BY <1>2, <1>3, <1>4, <2>4, <2>5 DEF Counted
<1> QED BY <1>6, <1>7

\* Every step of every thread keeps the bound.
LEMMA StepCounts ==
    ASSUME IInv, Counted, [Next]_vars
    PROVE  Counted'
<1>1. CASE UNCHANGED vars
  BY <1>1, UnmovedCounts DEF vars, queue, swap
<1>2. CASE \E e \in Entries : Write(e)
  BY <1>2, WriteCounts
<1>3. CASE ReadStatus \/ voodoo_wake_timer \/ AwaitRoom
  BY <1>3, UnmovedCounts DEF ReadStatus, voodoo_wake_timer, AwaitRoom, queue, swap
<1>4. CASE \/ Flush \/ Settled \/ Read \/ Close \/ JoinFifo \/ JoinRender
           \/ FifoWoken \/ FifoLeave
  BY <1>4, OutsideCounts
<1>5. CASE Retrace \/ WriteLate
  BY <1>5, RetraceCounts, LateCounts
<1>6. ASSUME NEW t \in Threads, Lock(t) \/ EntryStep(t) \/ SwapTimeout(t)
      PROVE  Counted'
  <2>1. CASE IdleRound(t)
    BY <2>1, UnmovedCounts DEF IdleRound, queue, swap
  <2> QED
    BY Zenon, <1>6, <2>1, PlainStepCounts, PopCounts, NowCounts, PostCounts, WaitCounts, LookCounts
    DEF EntryStep
<1>7. CASE \E r \in RenderThreads : RenderStep(r)
  BY <1>7, UnmovedCounts DEF RenderStep, queue, swap
<1> QED
  BY <1>1, <1>2, <1>3, <1>4, <1>5, <1>6, <1>7 DEF Next, CpuStep, FifoStep, Threads

\* The bound is what the property says, and more where a swap is shown early.
LEMMA CountedSwaps ==
    ASSUME IInv, Counted
    PROVE  SwapsCounted
<1>1. TypeOK /\ Heads /\ Locked
  BY DEF IInv
<1>2. (\E t \in Threads : At(t, "pop")) <=> Place = "pop"
  BY <1>1 DEF At, Place, Locked, Running, TypeOK, Threads
<1> DEFINE q == IF \E t \in Threads : At(t, "pop") THEN Tail(fifo) ELSE fifo
<1>3. Swaps(fifo) \in Nat /\ Done \in {0, 1} /\ Posted \in {0, 1} /\ Late \in {0, 1}
  BY <1>1, BoundType
<1>4. Swaps(q) \in Nat /\ Swaps(fifo) - Done <= Swaps(q)
  <2>1. CASE Place = "pop"
    <3>1. q = Tail(fifo) /\ fifo # <<>> /\ fifo \in Seq(Entries) /\ Tail(fifo) \in Seq(Entries)
      BY <1>1, <1>2, <2>1 DEF Heads, TypeOK
    <3>2. Swaps(fifo) = Swaps(Tail(fifo)) + IF IsSwap(Head(fifo)) THEN 1 ELSE 0
      BY <3>1, SwapsTail
    <3>3. Swaps(Tail(fifo)) \in Nat
      BY Zenon, <3>1, SwapsFinite
    <3>4. Done = IF IsSwap(Head(fifo)) THEN 1 ELSE 0
      BY <2>1, <3>1 DEF Done
    <3> HIDE DEF q, Done
    <3> QED BY <3>1, <3>2, <3>3, <3>4
  <2>2. CASE Place # "pop"
    <3>1. q = fifo
      BY <1>2, <2>2
    <3> HIDE DEF q, Done
    <3> QED BY <1>3, <3>1
  <2> QED BY Zenon, <2>1, <2>2
<1>5. SwapsToCome = Swaps(q) + Posted + Late
  BY DEF SwapsToCome, Posted, Late, At
<1>6. swap_count \in Nat /\ swap_count <= Swaps(fifo) - Done + Posted + Late
  BY DEF Counted
<1> HIDE DEF q, Done, Posted, Late
<1>7. swap_count <= Swaps(q) + Posted + Late
  BY <1>3, <1>4, <1>6
<1> QED BY <1>5, <1>7 DEF SwapsCounted

\* The count of swaps in the status register falls with them: however retraces, flushes
\* and a full FIFO meet, voodoo_wait_for_swap_complete() and the display timer leave no
\* swap counted that has come about.
THEOREM CountBounded == Spec => []SwapsCounted
<1>1. Init => Counted
  <2> SUFFICES ASSUME Init PROVE Counted
    OBVIOUS
  <2>1. TypeOK /\ swap_count = 0 /\ fifo = <<>>
    BY Zenon, InitHolds DEF IInv, Init
  <2>2. Swaps(fifo) \in Nat /\ Done = 0 /\ Posted \in {0, 1} /\ Late \in {0, 1}
    BY <2>1, BoundType DEF Done
  <2> HIDE DEF Done, Posted, Late
  <2> QED BY <2>1, <2>2 DEF Counted
<1>2. IInv /\ Counted /\ [Next]_vars => Counted'
  BY StepCounts
<1>3. IInv /\ Counted => SwapsCounted
  BY CountedSwaps
<1> QED BY <1>1, <1>2, <1>3, Invariance, PTL DEF Spec

-----------------------------------------------------------------------------
(* Wake-ups. *)

\* No wake-up is lost, although events are set and reset outside fifo_mutex. A render
\* thread that sleeps on queued triangles, or while the card closes, has its event set;
\* who sleeps in voodoo_queue_triangle() until a ring has room is told by a render
\* thread that is at work or woken; who sleeps in voodoo_wait_for_swap_complete() has
\* the event set or still a swap to wait for, which a flush has not called off, so that
\* the wait's timeout is never needed; and voodoo_card_close() does not join a FIFO
\* thread that is left asleep.
WakeupsKept ==
    /\ \A r \in RenderThreads :
         rpc[r] = "sleep" /\ (todo[r] # <<>> \/ At("cpu", "join_render")) => wake_render[r]
    /\ \A t \in Threads : At(t, "tri_sleep") =>
         render_not_full[slot] \/ rpc[slot] = "busy" \/ (rpc[slot] = "sleep" /\ wake_render[slot])
    /\ \A t \in Threads : At(t, "swap_sleep") => wake \/ (swap_pending /\ ~flush)
    /\ At("cpu", "join") /\ At("fifo", "sleep") => wake

\* The FIFO thread's event. The CPU thread runs entries in a flush only, and then it
\* waits for no swap.
FInv ==
    /\ pc["fifo"] = "swap_sleep" => wake \/ (swap_pending /\ ~flush)
    /\ pc["cpu"] \in Running \cup {"lock", "settle"} => flush
    /\ pc["cpu"] # "swap_sleep"
    /\ pc["cpu"] = "join" /\ pc["fifo"] = "sleep" => wake
    /\ pc["cpu"] \in {"join", "join_render", "closed"} => ~fifo_thread_run

\* How a step of the run moves its thread, and what is so when it goes to sleep.
LEMMA EntryMoves ==
    ASSUME TypeOK, NEW t \in Threads, EntryStep(t) \/ SwapTimeout(t), ~IdleRound(t)
    PROVE  /\ pc[t] \in Running /\ pc' = [pc EXCEPT ![t] = pc'[t]]
           /\ pc'[t] \in Running \/ pc'[t] = IF t = "cpu" THEN "settle" ELSE "leave"
           /\ UNCHANGED <<flush, fifo_thread_run>>
           /\ pc'[t] = "swap_sleep" => swap_pending' /\ ~flush
<1>1. Running = {"entry", "pop", "idle", "post", "tri", "tri_room", "tri_sleep", "swap", "swap_look",
                 "swap_reset", "swap_sleep"}
  BY DEF Running, TriPlaces, SwapPlaces
<1>2. pc \in [Threads -> Places]
  BY DEF TypeOK
<1>3. UNCHANGED <<flush, fifo_thread_run>>
  BY Zenon DEF EntryStep, SwapTimeout, FetchEntry, Drained, Pop, QueueTriangle, TriangleRoom, TriangleSleep,
         WritePixel, SwapNow, SwapAtRetrace, PostAfterWait, SwapTest, SwapLook, SwapReset, SwapWoken, wakes
<1>4. CASE FetchEntry(t) \/ Drained(t) \/ Pop(t)
  BY <1>1, <1>2, <1>3, <1>4 DEF FetchEntry, Drained, Pop, Go, At
<1>5. CASE QueueTriangle(t) \/ TriangleRoom(t) \/ TriangleSleep(t)
  BY <1>1, <1>2, <1>3, <1>5 DEF QueueTriangle, TriangleRoom, TriangleSleep, Go, At
<1>6. CASE WritePixel(t) \/ SwapNow(t) \/ SwapAtRetrace(t) \/ PostAfterWait(t)
  BY <1>1, <1>2, <1>3, <1>6 DEF WritePixel, SwapNow, SwapAtRetrace, PostAfterWait, Go, At
<1>7. CASE SwapTest(t) \/ SwapLook(t)
  BY <1>1, <1>2, <1>3, <1>7 DEF SwapTest, SwapLook, SwapWaited, Go, At
<1>8. CASE SwapReset(t) \/ SwapWoken(t) \/ SwapTimeout(t)
  <2>1. CASE SwapReset(t)
    <3>1. /\ pc[t] = "swap_reset" /\ swap_pending' = swap_pending
          /\ pc' = [pc EXCEPT ![t] = IF swap_pending /\ ~flush THEN "swap_sleep" ELSE "swap"]
      BY Zenon, <2>1 DEF SwapReset, Go, At, swap
    <3>2. CASE swap_pending /\ ~flush
      <4>1. pc' = [pc EXCEPT ![t] = "swap_sleep"]
        BY Zenon, <3>1, <3>2
      <4> QED  BY ONLY <1>1, <1>2, <1>3, <3>1, <3>2, <4>1, t \in Threads
    <3>3. CASE ~(swap_pending /\ ~flush)
      <4>1. pc' = [pc EXCEPT ![t] = "swap"]
        BY Zenon, <3>1, <3>3
      <4> QED  BY ONLY <1>1, <1>2, <1>3, <3>1, <4>1, t \in Threads
    <3> QED  BY Zenon, <3>2, <3>3
  <2>2. CASE SwapWoken(t) \/ SwapTimeout(t)
    <3>1. pc[t] = "swap_sleep" /\ pc' = [pc EXCEPT ![t] = "swap"]
      BY Zenon, <2>2 DEF SwapWoken, SwapTimeout, Go, At
    <3> QED  BY ONLY <1>1, <1>2, <1>3, <3>1, t \in Threads
  <2> QED  BY Zenon, <1>8, <2>1, <2>2
<1> QED
  BY Zenon, <1>4, <1>5, <1>6, <1>7, <1>8 DEF EntryStep

\* A step of the run: the other thread runs no entries, so it sleeps in no wait of one.
LEMMA EntryFInv ==
    ASSUME IInv, FInv, NEW t \in Threads, EntryStep(t) \/ SwapTimeout(t), ~IdleRound(t)
    PROVE  FInv'
<1>1. TypeOK /\ Locked
  BY DEF IInv
<1>2. /\ pc[t] \in Running /\ pc' = [pc EXCEPT ![t] = pc'[t]]
      /\ pc'[t] \in Running \/ pc'[t] = IF t = "cpu" THEN "settle" ELSE "leave"
      /\ UNCHANGED <<flush, fifo_thread_run>>
      /\ pc'[t] = "swap_sleep" => swap_pending' /\ ~flush
  BY Zenon, <1>1, EntryMoves
<1>3. \A u \in Threads : u # t => pc'[u] = pc[u] /\ pc[u] \notin Running
  BY <1>1, <1>2 DEF TypeOK, Locked
<1>4. "swap_sleep" \in Running /\ Running \cap {"sleep", "join", "join_render", "closed", "leave"} = {}
  BY DEF Running, TriPlaces, SwapPlaces
<1>5. CASE t = "cpu"
  <2>1. pc'["fifo"] \notin Running /\ pc["cpu"] \in Running /\ flush
    BY <1>2, <1>3, <1>5 DEF Threads, FInv
  <2> QED  BY <1>2, <1>4, <1>5, <2>1 DEF FInv
<1>6. CASE t = "fifo"
  <2>1. pc'["cpu"] = pc["cpu"]
    BY <1>3, <1>6 DEF Threads
  <2> QED  BY <1>2, <1>4, <1>6, <2>1 DEF FInv
<1> QED  BY <1>5, <1>6 DEF Threads

\* A step that moves neither thread and resets nothing.
LEMMA StillFInv ==
    ASSUME FInv, UNCHANGED <<pc, swap_pending, flush, fifo_thread_run>>, wake => wake'
    PROVE  FInv'
  BY DEF FInv

\* A step of one of the two threads outside the run.
LEMMA OutsideFInv ==
    ASSUME IInv, FInv,
           \/ \E e \in Entries : Write(e)
           \/ WriteLate \/ Flush \/ Settled \/ Read \/ Retrace \/ Close \/ JoinFifo \/ JoinRender
           \/ FifoWoken \/ FifoLeave \/ \E t \in Threads : Lock(t)
    PROVE  FInv'
<1>1. pc \in [Threads -> Places] /\ "cpu" \in Threads /\ "fifo" \in Threads
  BY DEF IInv, TypeOK, Threads
<1>2. Running = {"entry", "pop", "idle", "post", "tri", "tri_room", "tri_sleep", "swap", "swap_look",
                 "swap_reset", "swap_sleep"}
  BY DEF Running, TriPlaces, SwapPlaces
<1>3. ASSUME NEW e \in Entries, Write(e) PROVE FInv'
  <2>1. UNCHANGED <<swap_pending, flush, fifo_thread_run, wake>>
    BY Zenon, <1>3 DEF Write, Enqueue, wakes
  <2>2. pc["cpu"] = "run" /\ (pc' = pc \/ pc' = [pc EXCEPT !["cpu"] = "room"])
    BY Zenon, <1>3 DEF Write, Go, At
  <2> QED  BY <1>1, <1>2, <2>1, <2>2 DEF FInv
<1>4. CASE WriteLate
  <2>1. UNCHANGED <<swap_pending, flush, fifo_thread_run, wake>>
    BY Zenon, <1>4 DEF WriteLate, Enqueue
  <2>2. pc["cpu"] = "room" /\ pc' = [pc EXCEPT !["cpu"] = "run"]
    BY Zenon, <1>4 DEF WriteLate, Go, At
  <2> QED  BY <1>1, <1>2, <2>1, <2>2 DEF FInv
<1>5. CASE Flush
  BY <1>1, <1>2, <1>5 DEF FInv, Flush, Go, At, swap
<1>6. CASE Settled \/ Read
  <2>1. /\ UNCHANGED <<swap_pending, fifo_thread_run, wake>> /\ flush' \in {flush, FALSE}
        /\ \/ pc["cpu"] = "settle" /\ pc' = [pc EXCEPT !["cpu"] = "read"]
           \/ pc["cpu"] = "read" /\ pc' = [pc EXCEPT !["cpu"] = "run"] /\ flush' = flush
    BY Zenon, <1>6 DEF Settled, Read, Go, At, swap, wakes
  <2> QED  BY <1>1, <1>2, <2>1 DEF FInv
<1>7. CASE Retrace
  BY <1>7 DEF FInv, Retrace
<1>8. CASE Close
  BY <1>1, <1>2, <1>8 DEF FInv, Close, Go, At, swap
<1>9. CASE JoinFifo \/ JoinRender
  <2>1. /\ UNCHANGED <<swap_pending, fifo_thread_run, wake, flush>>
        /\ pc["cpu"] \in {"join", "join_render"}
        /\ \E q \in {"join_render", "closed"} : pc' = [pc EXCEPT !["cpu"] = q]
    BY Zenon, <1>9 DEF JoinFifo, JoinRender, Go, At, swap, wakes
  <2> QED  BY <1>1, <1>2, <2>1 DEF FInv
<1>10. CASE FifoWoken
  BY <1>1, <1>2, <1>10 DEF FInv, FifoWoken, Go, At, swap
<1>11. CASE FifoLeave
  BY <1>1, <1>2, <1>11 DEF FInv, FifoLeave, Go, At, swap
<1>12. ASSUME NEW t \in Threads, Lock(t) PROVE FInv'
  BY <1>1, <1>2, <1>12 DEF FInv, Lock, Go, At, swap, wakes, Threads
<1> QED
  BY Zenon, <1>3, <1>4, <1>5, <1>6, <1>7, <1>8, <1>9, <1>10, <1>11, <1>12

\* Every step of every thread keeps the FIFO thread's event.
LEMMA StepFInv ==
    ASSUME IInv, FInv, [Next]_vars
    PROVE  FInv'
<1>1. CASE UNCHANGED vars \/ ReadStatus \/ voodoo_wake_timer \/ AwaitRoom
  <2>1. UNCHANGED <<pc, swap_pending, flush, fifo_thread_run>> /\ (wake' = wake \/ wake')
    BY Zenon, <1>1 DEF vars, ReadStatus, voodoo_wake_timer, AwaitRoom, swap, wakes
  <2>2. wake => wake'
    BY ONLY Zenon, <2>1
  <2> QED  BY Zenon, <2>1, <2>2, StillFInv
<1>2. CASE \E r \in RenderThreads : RenderStep(r)
  BY <1>2, StillFInv DEF RenderStep, swap, wakes
<1>3. ASSUME NEW t \in Threads, EntryStep(t) \/ SwapTimeout(t) PROVE FInv'
  <2>1. CASE IdleRound(t)
    BY Zenon, <2>1, StillFInv DEF IdleRound, swap, wakes
  <2> QED  BY Zenon, <1>3, <2>1, EntryFInv
<1> QED
  BY Zenon, <1>1, <1>2, <1>3, OutsideFInv DEF Next, CpuStep, FifoStep, Threads

\* The render threads' events. The threads end only after the FIFO thread, so that
\* nobody waits for room in the ring of one that has ended.
RInv ==
    /\ rpc \in [RenderThreads -> {"sleep", "busy", "done"}]
    /\ wake_render \in [RenderThreads -> BOOLEAN] /\ render_not_full \in [RenderThreads -> BOOLEAN]
    /\ slot \in RenderThreads
    /\ \A r \in RenderThreads :
         rpc[r] = "sleep" /\ (todo[r] # <<>> \/ pc["cpu"] = "join_render") => wake_render[r]
    /\ \A t \in Threads : pc[t] = "tri_sleep" =>
         render_not_full[slot] \/ todo[slot] # <<>> \/ rpc[slot] = "busy"
    /\ \A r \in RenderThreads : rpc[r] = "done" => pc["cpu"] \in {"join_render", "closed"}
    /\ pc["cpu"] \in {"join_render", "closed"} => pc["fifo"] = "done"

\* A step that leaves the render threads alone and moves neither thread into a wait
\* for them, nor out of its end.
LEMMA AsideRInv ==
    ASSUME TypeOK, RInv, UNCHANGED render, NEW t \in Threads, NEW q, pc' = [pc EXCEPT ![t] = q],
           q \notin {"tri_sleep", "join_render", "closed"},
           pc[t] \notin {"join_render", "closed", "done"}
    PROVE  RInv'
<1>1. UNCHANGED <<todo, rpc, wake_render, render_not_full, slot>>
  BY DEF render
<1>2. pc'[t] = q /\ \A u \in Threads : u # t => pc'[u] = pc[u]
  BY DEF TypeOK
<1>3. /\ pc'["cpu"] \in {"join_render", "closed"} => pc'["cpu"] = pc["cpu"]
      /\ pc["cpu"] \in {"join_render", "closed"} => pc'["cpu"] = pc["cpu"]
      /\ pc["fifo"] = "done" => pc'["fifo"] = "done"
      /\ \A u \in Threads : pc'[u] = "tri_sleep" => pc[u] = "tri_sleep"
  BY <1>2 DEF Threads
<1> QED  BY Zenon, <1>1, <1>3 DEF RInv

\* The same where no thread moves.
LEMMA StillRInv ==
    ASSUME RInv, UNCHANGED <<pc, todo, rpc, wake_render, render_not_full, slot>>
    PROVE  RInv'
  BY Zenon DEF RInv

\* A render thread sleeps on an empty ring only, and tells of the room before.
LEMMA RenderRInv ==
    ASSUME IInv, RInv, NEW r \in RenderThreads, RenderStep(r)
    PROVE  RInv'
<1>1. todo \in [RenderThreads -> Seq(0..2)]
  BY DEF IInv, TypeOK
<1>2. UNCHANGED <<pc, slot>>
  BY DEF RenderStep, RenderWake, RenderTriangle, RenderEnd
<1>3. CASE RenderWake(r)
  BY <1>1, <1>2, <1>3 DEF RInv, RenderWake
<1>4. CASE RenderTriangle(r)
  <2>1. /\ rpc[r] = "busy" /\ UNCHANGED <<rpc, wake_render>>
        /\ todo' = [todo EXCEPT ![r] = Tail(todo[r])]
        /\ \E b \in BOOLEAN : render_not_full' = [render_not_full EXCEPT ![r] = b]
        /\ \A x \in RenderThreads : render_not_full[x] => render_not_full'[x]
    BY <1>1, <1>4 DEF RInv, RenderTriangle
  <2>2. \A x \in RenderThreads : x # r => todo'[x] = todo[x]
    BY <1>1, <2>1
  <2>3. render_not_full' \in [RenderThreads -> BOOLEAN]
    BY Zenon, <2>1 DEF RInv
  <2>4. \A x \in RenderThreads :
           rpc[x] = "sleep" /\ (todo'[x] # <<>> \/ pc["cpu"] = "join_render") => wake_render[x]
    <3> TAKE x \in RenderThreads
    <3>1. x = r => rpc[x] # "sleep"  BY <2>1
    <3> QED  BY Zenon, <2>2, <3>1 DEF RInv
  <2>5. \A t \in Threads : pc[t] = "tri_sleep" =>
           render_not_full'[slot] \/ todo'[slot] # <<>> \/ rpc[slot] = "busy"
    BY Zenon, <2>1, <2>2 DEF RInv
  <2> QED  BY Zenon, <1>2, <2>1, <2>3, <2>4, <2>5 DEF RInv
<1>5. CASE RenderEnd(r)
  <2>1. rpc[r] = "busy" /\ todo[r] = <<>> /\ UNCHANGED <<todo, wake_render>>
    BY <1>5 DEF RenderEnd
  <2>2. CASE pc["cpu"] = "join_render"
    <3>1. rpc' = [rpc EXCEPT ![r] = "done"] /\ UNCHANGED render_not_full
      BY <1>5, <2>2 DEF RenderEnd, At
    <3>2. \A t \in Threads : pc[t] # "tri_sleep"
      BY <2>2 DEF RInv, Threads
    <3> QED  BY <1>2, <2>1, <2>2, <3>1, <3>2 DEF RInv
  <2>3. CASE pc["cpu"] # "join_render"
    <3>1. /\ rpc' = [rpc EXCEPT ![r] = "sleep"]
          /\ render_not_full' = [render_not_full EXCEPT ![r] = TRUE]
      BY <1>5, <2>3 DEF RenderEnd, At
    <3> QED  BY <1>2, <2>1, <2>3, <3>1 DEF RInv
  <2> QED  BY <2>2, <2>3
<1> QED  BY <1>3, <1>4, <1>5 DEF RenderStep

\* The runner is the only thread in an entry.
LEMMA OneRunner ==
    ASSUME IInv, NEW t \in Threads, pc[t] \in Running \/ (t = "cpu" /\ pc[t] = "settle")
    PROVE  \A u \in Threads : u # t => pc[u] # "tri_sleep"
<1>1. TypeOK /\ Locked /\ Heads /\ Flushed
  BY DEF IInv
<1>2. "tri_sleep" \in Running /\ "tri_sleep" \notin {"none", "entry"}
  BY DEF Running, TriPlaces
<1>3. ASSUME NEW u \in Threads, u # t, pc[u] = "tri_sleep" PROVE FALSE
  <2>1. fifo_mutex = u /\ u # "none"
    BY Zenon, <1>1, <1>2, <1>3 DEF Locked, Threads
  <2>2. Place = "tri_sleep" /\ fifo # <<>>
    BY Zenon, <1>1, <1>2, <1>3, <2>1 DEF Place, Heads
  <2>3. pc[t] \notin Running
    BY Zenon, <1>1, <1>3, <2>1 DEF Locked
  <2> QED  BY Zenon, <1>1, <2>2, <2>3 DEF Flushed
<1> QED  BY Zenon, <1>3

\* A triangle is queued: a ring that was empty wakes its render thread.
LEMMA QueueRInv ==
    ASSUME IInv, RInv, NEW t \in Threads, QueueTriangle(t)
    PROVE  RInv'
<1>1. todo \in [RenderThreads -> Seq(0..2)] /\ pc \in [Threads -> Places]
  BY DEF IInv, TypeOK
<1>2. pc[t] = "tri" /\ rpc' = rpc
  BY DEF QueueTriangle, At
<1>3. PICK q \in {"tri_room", "pop"} : pc' = [pc EXCEPT ![t] = q]
  BY Zenon DEF QueueTriangle, Go
<1>4. /\ pc'[t] = q /\ \A u \in Threads : u # t => pc'[u] = pc[u] /\ pc[u] # "tri_sleep"
      /\ \A u \in Threads : pc'[u] # "tri_sleep"
  BY <1>1, <1>2, <1>3, OneRunner DEF Running, TriPlaces
<1>5. /\ pc["cpu"] \notin {"join_render", "closed"} /\ pc'["cpu"] \notin {"join_render", "closed"}
  BY <1>2, <1>4 DEF RInv, Threads
<1>6. /\ wake_render' \in [RenderThreads -> BOOLEAN] /\ render_not_full' \in [RenderThreads -> BOOLEAN]
      /\ slot' \in RenderThreads
  <2>1. 0 \in RenderThreads
    BY VoodooAssumption DEF RenderThreads
  <2>2. All(TRUE) \in [RenderThreads -> BOOLEAN] /\ All(FALSE) \in [RenderThreads -> BOOLEAN]
    BY DEF All
  <2> QED  BY Zenon, <2>1, <2>2 DEF QueueTriangle, RInv
<1>7. ASSUME NEW r \in RenderThreads, rpc[r] = "sleep", todo'[r] # <<>> PROVE wake_render'[r]
  <2>1. CASE \E x \in RenderThreads : PARAM_FULL(x)
    <3>1. UNCHANGED <<todo, wake_render>>
      BY <2>1 DEF QueueTriangle
    <3> QED  BY <1>7, <3>1 DEF RInv
  <2>2. CASE ~\E x \in RenderThreads : PARAM_FULL(x)
    <3>1. /\ todo' = [x \in RenderThreads |-> Append(todo[x], draw_buffer)]
          /\ wake_render' = IF \E x \in RenderThreads : Len(todo'[x]) < WakeBelow
                              THEN All(TRUE) ELSE wake_render
      BY <2>2 DEF QueueTriangle
    <3>2. CASE todo[r] = <<>>
      <4>1. todo'[r] = Append(<<>>, draw_buffer)
        BY Zenon, <3>1, <3>2
      <4>2. Len(todo'[r]) < WakeBelow
        BY ONLY <4>1, VoodooAssumption
      <4>3. wake_render' = All(TRUE)
        BY Zenon, <3>1, <4>2
      <4> QED  BY <4>3 DEF All
    <3>3. CASE todo[r] # <<>>
      <4>1. wake_render[r]
        BY <1>7, <3>3 DEF RInv
      <4> QED  BY <3>1, <4>1 DEF All
    <3> QED  BY <3>2, <3>3
  <2> QED  BY <2>1, <2>2
<1> QED  BY <1>2, <1>4, <1>5, <1>6, <1>7 DEF RInv

\* voodoo_queue_triangle() goes from ring to ring, and sleeps on a full one only.
LEMMA RoomRInv ==
    ASSUME IInv, RInv, NEW t \in Threads, TriangleRoom(t) \/ TriangleSleep(t)
    PROVE  RInv'
<1>1. todo \in [RenderThreads -> Seq(0..2)] /\ pc \in [Threads -> Places]
  BY DEF IInv, TypeOK
<1>2. pc[t] \in {"tri_room", "tri_sleep"} /\ UNCHANGED <<todo, rpc, wake_render, render_not_full>>
  BY DEF TriangleRoom, TriangleSleep, At, render
<1>3. PICK q \in {"tri", "tri_room", "tri_sleep"} :
        /\ pc' = [pc EXCEPT ![t] = q]
        /\ q = "tri_sleep" => PARAM_FULL(slot) /\ slot' = slot
        /\ slot' = slot \/ slot' = (slot + 1) % Renderers
  <2>1. CASE TriangleRoom(t)
    <3>1. CASE slot + 1 = Renderers
      BY Zenon, <2>1, <3>1 DEF TriangleRoom, Go
    <3>2. CASE slot + 1 # Renderers
      BY Zenon, <2>1, <3>2 DEF TriangleRoom, Go
    <3> QED  BY Zenon, <3>1, <3>2
  <2>2. CASE TriangleSleep(t)
    BY Zenon, <2>2 DEF TriangleSleep, Go, render
  <2> QED  BY Zenon, <2>1, <2>2
<1>4. /\ pc'[t] = q /\ \A u \in Threads : u # t => pc'[u] = pc[u] /\ pc[u] # "tri_sleep"
  BY <1>1, <1>2, <1>3, OneRunner DEF Running, TriPlaces
<1>5. /\ pc["cpu"] \notin {"join_render", "closed"} /\ pc'["cpu"] \notin {"join_render", "closed"}
  BY <1>2, <1>4 DEF RInv, Threads
<1>6. slot' \in RenderThreads
  <2>1. slot \in 0 .. Renderers - 1 /\ Renderers \in Nat \ {0}
    BY VoodooAssumption DEF RInv, RenderThreads
  <2>2. (slot + 1) % Renderers \in 0 .. Renderers - 1
    BY ONLY <2>1
  <2> QED  BY <1>3, <2>1, <2>2 DEF RenderThreads
<1>7. q = "tri_sleep" => todo[slot] # <<>> /\ slot' = slot
  <2>1. q = "tri_sleep" => Len(todo[slot]) >= ParamSize /\ slot' = slot
    BY Zenon, <1>3 DEF PARAM_FULL
  <2> QED  BY <2>1, VoodooAssumption
<1> QED  BY <1>2, <1>4, <1>5, <1>6, <1>7 DEF RInv

\* voodoo_wait_for_render_thread_idle() resets the events of room, which nobody waits
\* for then, and wakes everyone.
LEMMA IdleRInv ==
    ASSUME IInv, RInv, NEW t \in Threads, IdleRound(t)
    PROVE  RInv'
<1>1. /\ pc[t] \in {"idle", "settle"} /\ UNCHANGED <<pc, todo, rpc, slot>>
      /\ render_not_full' = All(FALSE) /\ wake_render' = All(TRUE)
  BY DEF IdleRound
<1>2. pc[t] \in Running \/ (t = "cpu" /\ pc[t] = "settle")
  BY <1>1 DEF IInv, TypeOK, Threads, Running, FifoPlaces
<1>3. \A u \in Threads : pc[u] # "tri_sleep"
  BY <1>1, <1>2, OneRunner
<1> QED  BY <1>1, <1>3 DEF RInv, All

\* voodoo_card_close() wakes the render threads once the FIFO thread has ended.
LEMMA JoinRInv ==
    ASSUME IInv, RInv, JoinFifo \/ JoinRender
    PROVE  RInv'
<1>1. pc \in [Threads -> Places] /\ "cpu" \in Threads /\ "fifo" \in Threads
  BY DEF IInv, TypeOK, Threads
<1>2. UNCHANGED <<todo, rpc, render_not_full, slot>>
  BY Zenon DEF JoinFifo, JoinRender, render
<1>3. /\ pc["fifo"] = "done" /\ pc["cpu"] \in {"join", "join_render"}
      /\ pc'["fifo"] = "done" /\ pc'["cpu"] \in {"join_render", "closed"}
  BY <1>1 DEF RInv, JoinFifo, JoinRender, Go, At
<1>4. \A u \in Threads : pc'[u] # "tri_sleep"
  BY <1>3 DEF Threads
<1>5. wake_render' = All(TRUE) \/ (wake_render' = wake_render /\ pc'["cpu"] = "closed")
  BY <1>1 DEF JoinFifo, JoinRender, Go, render
<1> QED  BY <1>2, <1>3, <1>4, <1>5 DEF RInv, All

\* Every step of every thread keeps the render threads' events.
LEMMA StepRInv ==
    ASSUME IInv, RInv, [Next]_vars
    PROVE  RInv'
<1>1. TypeOK /\ pc \in [Threads -> Places]
  BY DEF IInv, TypeOK
<1>2. CASE UNCHANGED vars \/ ReadStatus \/ voodoo_wake_timer \/ AwaitRoom \/ Retrace
  BY <1>2, StillRInv DEF vars, ReadStatus, voodoo_wake_timer, AwaitRoom, Retrace, render
<1>3. ASSUME NEW e \in Entries, Write(e) PROVE RInv'
  <2>1. pc["cpu"] = "run" /\ UNCHANGED render /\ (pc' = pc \/ pc' = [pc EXCEPT !["cpu"] = "room"])
    BY Zenon, <1>3 DEF Write, Enqueue, Go, At
  <2> QED  BY <1>1, <2>1, StillRInv, AsideRInv DEF Threads, render
<1>4. CASE WriteLate \/ Flush \/ Settled \/ Read \/ Close
  <2>1. /\ pc["cpu"] \notin {"join_render", "closed", "done"} /\ UNCHANGED render
        /\ pc' = [pc EXCEPT !["cpu"] = pc'["cpu"]]
        /\ pc'["cpu"] \notin {"tri_sleep", "join_render", "closed"}
    BY <1>1, <1>4 DEF WriteLate, Flush, Settled, Read, Close, Enqueue, Go, At, Threads
  <2> QED  BY Zenon, <1>1, <2>1, AsideRInv DEF Threads
<1>5. CASE FifoWoken \/ FifoLeave
  <2>1. /\ pc["fifo"] \notin {"join_render", "closed", "done"} /\ UNCHANGED render
        /\ pc' = [pc EXCEPT !["fifo"] = pc'["fifo"]]
        /\ pc'["fifo"] \notin {"tri_sleep", "join_render", "closed"}
    BY <1>1, <1>5 DEF FifoWoken, FifoLeave, Go, At, Threads
  <2> QED  BY Zenon, <1>1, <2>1, AsideRInv DEF Threads
<1>6. ASSUME NEW t \in Threads, Lock(t) PROVE RInv'
  <2>1. pc[t] = "lock" /\ UNCHANGED render /\ pc' = [pc EXCEPT ![t] = "entry"]
    BY Zenon, <1>6 DEF Lock, Go, At
  <2> QED  BY <1>1, <2>1, AsideRInv
<1>7. ASSUME NEW t \in Threads, EntryStep(t) \/ SwapTimeout(t) PROVE RInv'
  <2>1. CASE \/ FetchEntry(t) \/ Drained(t) \/ Pop(t) \/ WritePixel(t) \/ SwapNow(t)
             \/ SwapAtRetrace(t) \/ PostAfterWait(t) \/ SwapTest(t) \/ SwapLook(t) \/ SwapReset(t)
             \/ SwapWoken(t) \/ SwapTimeout(t)
    <3>1. UNCHANGED render
      BY Zenon, <2>1 DEF FetchEntry, Drained, Pop, WritePixel, SwapNow, SwapAtRetrace,
         PostAfterWait, SwapTest, SwapLook, SwapReset, SwapWoken, SwapTimeout
    <3>2. pc[t] \notin {"join_render", "closed", "done"} /\ pc' = [pc EXCEPT ![t] = pc'[t]]
      <4>1. CASE IdleRound(t)
        <5>1. pc[t] \in {"idle", "settle"} /\ pc' = pc
          BY Zenon, <4>1 DEF IdleRound
        <5> QED  BY <1>1, <5>1
      <4>2. CASE ~IdleRound(t)
        <5>1. pc[t] \in Running /\ pc' = [pc EXCEPT ![t] = pc'[t]]
          BY Zenon, <1>1, <1>7, <4>2, EntryMoves
        <5> QED  BY <5>1 DEF Running, TriPlaces, SwapPlaces
      <4> QED  BY Zenon, <4>1, <4>2
    <3>3. pc'[t] \notin {"tri_sleep", "join_render", "closed"}
      <4>1. CASE \/ FetchEntry(t) \/ Drained(t) \/ Pop(t) \/ WritePixel(t) \/ SwapNow(t)
        BY <1>1, <4>1 DEF FetchEntry, Drained, Pop, WritePixel, SwapNow, Go
      <4>2. CASE SwapAtRetrace(t) \/ PostAfterWait(t) \/ SwapTest(t) \/ SwapLook(t)
        BY <1>1, <4>2 DEF SwapAtRetrace, PostAfterWait, SwapTest, SwapLook, SwapWaited, Go
      <4>3. CASE SwapReset(t) \/ SwapWoken(t) \/ SwapTimeout(t)
        BY <1>1, <4>3 DEF SwapReset, SwapWoken, SwapTimeout, Go
      <4> QED  BY Zenon, <2>1, <4>1, <4>2, <4>3
    <3> QED  BY Zenon, <1>1, <3>1, <3>2, <3>3, AsideRInv
  <2> QED
    BY Zenon, <1>7, <2>1, QueueRInv, RoomRInv, IdleRInv DEF EntryStep
<1> QED
  BY Zenon, <1>2, <1>3, <1>4, <1>5, <1>6, <1>7, RenderRInv, JoinRInv
  DEF Next, CpuStep, FifoStep, Threads

\* However the CPU thread, the FIFO thread and the render threads meet, none sleeps on
\* an event that nobody is going to set: what Progress and CloseReturns rest on, for
\* every size of the rings and number of render threads.
THEOREM NoWakeupLost == Spec => []WakeupsKept
<1>1. Init => FInv /\ RInv
  <2> SUFFICES ASSUME Init PROVE FInv /\ RInv
    OBVIOUS
  <2>1. pc["cpu"] = "run" /\ pc["fifo"] = "sleep" /\ slot \in RenderThreads
    BY VoodooAssumption DEF Init, Threads, RenderThreads
  <2>2. FInv
    BY <2>1 DEF FInv, Running, TriPlaces, SwapPlaces
  <2>3. RInv
    BY <2>1 DEF Init, RInv, All, Threads
  <2> QED  BY <2>2, <2>3
<1>2. IInv /\ FInv /\ RInv /\ [Next]_vars => (FInv /\ RInv)'
  BY StepFInv, StepRInv
<1>3. IInv /\ FInv /\ RInv => WakeupsKept
  <2> SUFFICES ASSUME FInv, RInv PROVE WakeupsKept
    OBVIOUS
  <2>1. ASSUME NEW t \in Threads, pc[t] = "tri_sleep"
        PROVE  \/ render_not_full[slot] \/ rpc[slot] = "busy"
               \/ (rpc[slot] = "sleep" /\ wake_render[slot])
    <3>1. pc["cpu"] \notin {"join_render", "closed"}
      BY <2>1 DEF RInv, Threads
    <3>2. rpc[slot] \in {"sleep", "busy"}
      BY <3>1 DEF RInv
    <3> QED  BY <2>1, <3>2 DEF RInv
  <2>2. \A t \in Threads : pc[t] = "swap_sleep" => wake \/ (swap_pending /\ ~flush)
    BY DEF FInv, Threads
  <2> QED  BY Zenon, <2>1, <2>2 DEF WakeupsKept, FInv, RInv, At
<1> QED  BY <1>1, <1>2, <1>3, Invariance, PTL DEF Spec
=============================================================================
