----------------------------- MODULE VoodooFifo -----------------------------
(***************************************************************************)
(* The command FIFO of the 3dfx Voodoo (src/video/vid_voodoo*.c) and the   *)
(* threads around it. The CPU thread queues the guest's writes; the FIFO   *)
(* thread runs them, unless an access must see them done at once, when the *)
(* CPU thread takes fifo_mutex and runs them itself; the render threads    *)
(* draw the triangles the entries queue; a buffer swap waits for the       *)
(* display's retrace, which a timer on the CPU thread brings.              *)
(*                                                                         *)
(* Events are manual-reset. fifo_not_full_event is left out: its only      *)
(* wait ends after a millisecond whether it is set or not. A section under *)
(* swap_mutex is one step, and so is a run of statements in which another  *)
(* thread's step could only cause a wake-up for nothing.                   *)
(***************************************************************************)
EXTENDS Integers, Sequences, FiniteSets

CONSTANTS FifoSize,     \* entries at which FIFO_FULL holds
          WakeAbove,    \* more entries than this start the wake timer
          ParamSize,    \* PARAM_SIZE
          RoomMargin,   \* a render thread tells of room within this many of the end
          WakeBelow,    \* fewer triangles than this wake the render threads
          Renderers     \* the number of render threads

ASSUME VoodooAssumption ==
    /\ FifoSize \in Nat \ {0} /\ WakeAbove \in Nat
    /\ ParamSize \in Nat \ {0} /\ RoomMargin \in Nat /\ 1 < RoomMargin
    /\ WakeBelow \in Nat /\ 1 < WakeBelow
    /\ Renderers \in Nat \ {0}

VARIABLES
    fifo,            \* the entries from fifo_read_idx to fifo_write_idx
    took,            \* how often the head entry has taken effect
    pc,              \* where the CPU and the FIFO thread are
    cmd,             \* the entry the CPU thread is about to queue
    fifo_mutex,      \* the thread that holds it, or "none"
    wake,            \* the event wake_fifo_thread
    wake_timer,      \* whether the timer that sets it is running
    voodoo_busy, flush, fifo_thread_run,
    triple,          \* TRIPLE_BUFFER
    disp_buffer,     \* the buffer the last swap command turned to; draw_buffer follows it
    front_offset,    \* the buffer on display
    swap_pending, swap_offset, swap_count,
    todo,            \* by render thread: the buffers of the triangles it has yet to draw
    rpc,             \* by render thread: where it is
    wake_render, render_not_full,
    slot             \* the render thread whose room voodoo_queue_triangle waits for

queue == <<fifo, took, cmd>>
wakes == <<wake, wake_timer, voodoo_busy, flush, fifo_thread_run>>
swap == <<triple, disp_buffer, front_offset, swap_pending, swap_offset, swap_count>>
render == <<todo, rpc, wake_render, render_not_full, slot>>
vars == <<queue, pc, fifo_mutex, wakes, swap, render>>

Threads == {"cpu", "fifo"}
RenderThreads == 0 .. Renderers - 1

\* What the guest writes: a pixel of the frame buffer, a triangle, a swap at
\* once and a swap at a retrace. The other entries (registers, textures) are
\* done where they are met, as a pixel is.
Entries == {"fb", "tri", "now", "vsync"}
IsCommand(e) == e # "fb"
IsSwap(e) == e \in {"now", "vsync"}

FIFO_FULL == Len(fifo) >= FifoSize

Go(t, p) == pc' = [pc EXCEPT ![t] = p]
At(t, p) == pc[t] = p
All(v) == [r \in RenderThreads |-> v]

Flipped(b) == IF triple THEN (b + 1) % 3 ELSE 1 - b
draw_buffer == IF triple THEN (disp_buffer + 1) % 3 ELSE 1 - disp_buffer
Less(n) == IF n > 0 THEN n - 1 ELSE n

-----------------------------------------------------------------------------
(* The render threads. *)

PARAM_FULL(r) == Len(todo[r]) >= ParamSize

\* Variant: a triangle that is queued, and not begun, is overlooked.
RenderIdleByFlag == \A r \in RenderThreads : rpc[r] # "busy"

RenderIdle == \A r \in RenderThreads : todo[r] = <<>> /\ rpc[r] # "busy"

RenderWake(r) ==
    /\ rpc[r] = "sleep" /\ wake_render[r]
    /\ wake_render' = [wake_render EXCEPT ![r] = FALSE]
    /\ rpc' = [rpc EXCEPT ![r] = "busy"]
    /\ UNCHANGED <<todo, render_not_full, slot>>

\* voodoo_triangle() draws, and then the read index moves.
RenderTriangle(r) ==
    /\ rpc[r] = "busy" /\ todo[r] # <<>>
    /\ todo' = [todo EXCEPT ![r] = Tail(@)]
    /\ render_not_full' = [render_not_full EXCEPT ![r] = @ \/ Len(todo[r]) - 1 > ParamSize - RoomMargin]
    /\ UNCHANGED <<rpc, wake_render, slot>>

\* The ring is empty. The card is closing once the CPU thread joins the render
\* threads.
RenderEnd(r) ==
    /\ rpc[r] = "busy" /\ todo[r] = <<>>
    /\ IF At("cpu", "join_render")
         THEN rpc' = [rpc EXCEPT ![r] = "done"] /\ UNCHANGED render_not_full
         ELSE /\ rpc' = [rpc EXCEPT ![r] = "sleep"]
              /\ render_not_full' = [render_not_full EXCEPT ![r] = TRUE]
    /\ UNCHANGED <<todo, wake_render, slot>>

RenderStep(r) ==
    /\ RenderWake(r) \/ RenderTriangle(r) \/ RenderEnd(r)
    /\ UNCHANGED <<queue, pc, fifo_mutex, wakes, swap>>

-----------------------------------------------------------------------------
(* Running the FIFO's entries, on the thread t that holds fifo_mutex. *)

\* voodoo_fifo_run() looks at the next entry. A swap command turns to the next
\* buffer before it waits for the render threads.
FetchEntry(t) ==
    /\ At(t, "entry") /\ fifo # <<>>
    /\ Go(t, IF Head(fifo) = "tri" THEN "tri" ELSE "idle")
    /\ disp_buffer' = IF IsSwap(Head(fifo)) THEN Flipped(disp_buffer) ELSE disp_buffer
    /\ UNCHANGED <<queue, fifo_mutex, wakes, render, triple, front_offset, swap_pending,
                   swap_offset, swap_count>>

Drained(t) ==
    /\ At(t, "entry") /\ fifo = <<>>
    /\ fifo_mutex' = "none"
    /\ Go(t, IF t = "cpu" THEN "settle" ELSE "leave")
    /\ UNCHANGED <<queue, wakes, swap, render>>

\* fifo_read_idx moves once the entry is done.
Pop(t) ==
    /\ At(t, "pop")
    /\ fifo' = Tail(fifo) /\ took' = 0
    /\ Go(t, "entry")
    /\ UNCHANGED <<cmd, fifo_mutex, wakes, swap, render>>

\* voodoo_queue_triangle(): a full ring is waited for, one render thread after
\* the other, and looked at again.
QueueTriangle(t) ==
    /\ At(t, "tri")
    /\ IF \E r \in RenderThreads : PARAM_FULL(r)
         THEN /\ render_not_full' = All(FALSE) /\ slot' = 0
              /\ Go(t, "tri_room")
              /\ UNCHANGED <<took, todo, wake_render>>
         ELSE /\ todo' = [r \in RenderThreads |-> Append(todo[r], draw_buffer)]
              /\ wake_render' = IF \E r \in RenderThreads : Len(todo'[r]) < WakeBelow
                                  THEN All(TRUE) ELSE wake_render
              /\ took' = took + 1
              /\ Go(t, "pop")
              /\ UNCHANGED <<render_not_full, slot>>
    /\ UNCHANGED <<fifo, cmd, fifo_mutex, wakes, swap, rpc>>

TriangleRoom(t) ==
    /\ \/ At(t, "tri_room") /\ ~PARAM_FULL(slot)
       \/ At(t, "tri_sleep") /\ render_not_full[slot]
    /\ slot' = (slot + 1) % Renderers
    /\ Go(t, IF slot + 1 = Renderers THEN "tri" ELSE "tri_room")
    /\ UNCHANGED <<queue, fifo_mutex, wakes, swap, todo, rpc, wake_render,
                   render_not_full>>

TriangleSleep(t) ==
    /\ At(t, "tri_room") /\ PARAM_FULL(slot)
    /\ Go(t, "tri_sleep")
    /\ UNCHANGED <<queue, fifo_mutex, wakes, swap, render>>

\* voodoo_wait_for_render_thread_idle(), in an entry or at the end of
\* voodoo_flush(): each round resets the events, wakes the render threads and
\* waits for them a millisecond at most.
IdleRound(t) ==
    /\ pc[t] \in {"idle", "settle"} /\ ~RenderIdle
    /\ render_not_full' = All(FALSE) /\ wake_render' = All(TRUE)
    /\ UNCHANGED <<queue, pc, fifo_mutex, wakes, swap, todo, rpc, slot>>

PostSwap ==
    /\ swap_offset' = disp_buffer
    /\ swap_pending' = TRUE
    /\ took' = took + 1

\* The code waits once for several pixels in a row; nothing is queued for the
\* render threads between them.
WritePixel(t) ==
    /\ At(t, "idle") /\ RenderIdle /\ Head(fifo) = "fb"
    /\ took' = took + 1
    /\ Go(t, "pop")
    /\ UNCHANGED <<fifo, cmd, fifo_mutex, wakes, swap, render>>

\* Variant: the triangles of the new frame are not waited for.
SwapNowEarly(t) ==
    /\ At(t, "idle") /\ Head(fifo) = "now"
    /\ front_offset' = disp_buffer
    /\ swap_count' = Less(swap_count)
    /\ took' = took + 1
    /\ Go(t, "pop")
    /\ UNCHANGED <<fifo, cmd, fifo_mutex, wakes, render, triple, disp_buffer, swap_pending, swap_offset>>

SwapNow(t) ==
    /\ At(t, "idle") /\ RenderIdle /\ Head(fifo) = "now"
    /\ front_offset' = disp_buffer
    /\ swap_count' = Less(swap_count)
    /\ took' = took + 1
    /\ Go(t, "pop")
    /\ UNCHANGED <<fifo, cmd, fifo_mutex, wakes, render, triple, disp_buffer, swap_pending, swap_offset>>

\* With three buffers the swap before is waited for, with two this one.
SwapAtRetrace(t) ==
    /\ At(t, "idle") /\ RenderIdle /\ Head(fifo) = "vsync"
    /\ IF triple /\ swap_pending
         THEN Go(t, "swap") /\ UNCHANGED <<took, swap_offset, swap_pending>>
         ELSE PostSwap /\ Go(t, IF triple THEN "pop" ELSE "swap")
    /\ UNCHANGED <<fifo, cmd, fifo_mutex, wakes, render, triple, disp_buffer, front_offset,
                   swap_count>>

PostAfterWait(t) ==
    /\ At(t, "post")
    /\ PostSwap /\ Go(t, "pop")
    /\ UNCHANGED <<fifo, cmd, fifo_mutex, wakes, render, triple, disp_buffer, front_offset,
                   swap_count>>

\* voodoo_wait_for_swap_complete(): the loop's test, the look under swap_mutex,
\* the reset of the event, the test after it, and the wait.
SwapWaited == IF triple THEN "post" ELSE "pop"

SwapTest(t) ==
    /\ At(t, "swap")
    /\ Go(t, IF swap_pending THEN "swap_look" ELSE SwapWaited)
    /\ UNCHANGED <<queue, fifo_mutex, wakes, swap, render>>

\* Variant: the swap that is not waited for stays counted.
SwapLookUncounted(t) ==
    /\ At(t, "swap_look")
    /\ IF (swap_pending /\ flush) \/ FIFO_FULL
         THEN /\ front_offset' = disp_buffer /\ swap_pending' = FALSE
              /\ Go(t, SwapWaited)
              /\ UNCHANGED swap_count
         ELSE Go(t, "swap_reset") /\ UNCHANGED <<front_offset, swap_pending, swap_count>>
    /\ UNCHANGED <<queue, fifo_mutex, wakes, render, triple, disp_buffer, swap_offset>>

SwapLook(t) ==
    /\ At(t, "swap_look")
    /\ IF (swap_pending /\ flush) \/ FIFO_FULL
         THEN /\ front_offset' = disp_buffer /\ swap_pending' = FALSE
              /\ swap_count' = Less(swap_count)
              /\ Go(t, SwapWaited)
         ELSE Go(t, "swap_reset") /\ UNCHANGED <<front_offset, swap_pending, swap_count>>
    /\ UNCHANGED <<queue, fifo_mutex, wakes, render, triple, disp_buffer, swap_offset>>

\* Variant: the event is reset and waited for.
SwapResetUntested(t) ==
    /\ At(t, "swap_reset")
    /\ wake' = FALSE /\ Go(t, "swap_sleep")
    /\ UNCHANGED <<queue, fifo_mutex, wake_timer, voodoo_busy, flush, fifo_thread_run, swap, render>>

SwapReset(t) ==
    /\ At(t, "swap_reset")
    /\ wake' = FALSE
    /\ Go(t, IF swap_pending /\ ~flush THEN "swap_sleep" ELSE "swap")
    /\ UNCHANGED <<queue, fifo_mutex, wake_timer, voodoo_busy, flush, fifo_thread_run, swap, render>>

SwapWoken(t) ==
    /\ At(t, "swap_sleep") /\ wake
    /\ Go(t, "swap")
    /\ UNCHANGED <<queue, fifo_mutex, wakes, swap, render>>

\* The millisecond is over.
SwapTimeout(t) ==
    /\ At(t, "swap_sleep") /\ ~wake
    /\ Go(t, "swap")
    /\ UNCHANGED <<queue, fifo_mutex, wakes, swap, render>>

EntryStep(t) ==
    \/ FetchEntry(t) \/ Drained(t) \/ Pop(t)
    \/ QueueTriangle(t) \/ TriangleRoom(t) \/ TriangleSleep(t)
    \/ IdleRound(t) \/ WritePixel(t) \/ SwapNow(t)
    \/ SwapAtRetrace(t) \/ PostAfterWait(t)
    \/ SwapTest(t) \/ SwapLook(t) \/ SwapReset(t) \/ SwapWoken(t)

-----------------------------------------------------------------------------
(* The FIFO thread. *)

FifoWoken ==
    /\ At("fifo", "sleep") /\ wake
    /\ wake' = FALSE /\ voodoo_busy' = TRUE
    /\ Go("fifo", "lock")
    /\ UNCHANGED <<queue, fifo_mutex, wake_timer, flush, fifo_thread_run, swap, render>>

Lock(t) ==
    /\ At(t, "lock") /\ fifo_mutex = "none"
    /\ fifo_mutex' = t
    /\ Go(t, "entry")
    /\ UNCHANGED <<queue, wakes, swap, render>>

\* fifo_mutex is released already.
FifoLeave ==
    /\ At("fifo", "leave")
    /\ voodoo_busy' = FALSE
    /\ Go("fifo", IF fifo_thread_run THEN "sleep" ELSE "done")
    /\ UNCHANGED <<queue, fifo_mutex, wake, wake_timer, flush, fifo_thread_run, swap, render>>

FifoStep == FifoWoken \/ Lock("fifo") \/ FifoLeave \/ EntryStep("fifo")

-----------------------------------------------------------------------------
(* The CPU thread: the guest's accesses and the timers, between which it is *)
(* at "run". *)

\* voodoo_queue_command() has room for e. A command wakes the FIFO thread,
\* unless that is at work; any other entry does when many wait.
Enqueue(e) ==
    /\ ~FIFO_FULL
    /\ fifo' = Append(fifo, e)
    /\ wake_timer' = (wake_timer \/ Len(fifo') > WakeAbove \/ (IsCommand(e) /\ ~voodoo_busy))
    /\ UNCHANGED <<took, fifo_mutex, wake, voodoo_busy, flush, fifo_thread_run, render, triple,
                   disp_buffer, front_offset, swap_pending, swap_offset>>

\* The guest writes e. A swap is counted before there is room for it. With
\* three buffers the guest is taken to swap at retraces only: the code does not
\* order a swap at once against one still pending.
Write(e) ==
    /\ At("cpu", "run")
    /\ triple => e # "now"
    /\ swap_count' = IF IsSwap(e) THEN swap_count + 1 ELSE swap_count
    /\ \/ Enqueue(e) /\ UNCHANGED <<pc, cmd>>
       \/ /\ FIFO_FULL
          /\ cmd' = e /\ Go("cpu", "room")
          /\ UNCHANGED <<fifo, took, fifo_mutex, wakes, render, triple, disp_buffer,
                         front_offset, swap_pending, swap_offset>>

WriteLate ==
    /\ At("cpu", "room")
    /\ Enqueue(cmd)
    /\ cmd' = "fb" /\ Go("cpu", "run")
    /\ UNCHANGED swap_count

\* While the FIFO is full the FIFO thread is woken every millisecond.
AwaitRoom ==
    /\ At("cpu", "room") /\ FIFO_FULL
    /\ wake' = TRUE
    /\ UNCHANGED <<queue, pc, fifo_mutex, wake_timer, voodoo_busy, flush, fifo_thread_run, swap,
                   render>>

ReadStatus ==
    /\ At("cpu", "run")
    /\ wake_timer' = (wake_timer \/ ~voodoo_busy)
    /\ UNCHANGED <<queue, pc, fifo_mutex, wake, voodoo_busy, flush, fifo_thread_run, swap, render>>

voodoo_wake_timer ==
    /\ At("cpu", "run") /\ wake_timer
    /\ wake_timer' = FALSE /\ wake' = TRUE
    /\ UNCHANGED <<queue, pc, fifo_mutex, voodoo_busy, flush, fifo_thread_run, swap, render>>

\* Variant: the CPU thread runs the entries without the lock.
FlushUnlocked ==
    /\ At("cpu", "run")
    /\ flush' = TRUE
    /\ wake' = (wake \/ swap_pending)
    /\ Go("cpu", IF fifo = <<>> THEN "settle" ELSE "entry")
    /\ UNCHANGED <<queue, fifo_mutex, wake_timer, voodoo_busy, fifo_thread_run, swap, render>>

\* An access that must see every write done: voodoo_flush(), up to the lock.
Flush ==
    /\ At("cpu", "run")
    /\ flush' = TRUE
    /\ wake' = (wake \/ swap_pending)
    /\ Go("cpu", IF fifo = <<>> THEN "settle" ELSE "lock")
    /\ UNCHANGED <<queue, fifo_mutex, wake_timer, voodoo_busy, fifo_thread_run, swap, render>>

Settled ==
    /\ At("cpu", "settle") /\ RenderIdle
    /\ flush' = FALSE
    /\ Go("cpu", "read")
    /\ UNCHANGED <<queue, fifo_mutex, wake, wake_timer, voodoo_busy, fifo_thread_run, swap, render>>

Read ==
    /\ At("cpu", "read")
    /\ Go("cpu", "run")
    /\ UNCHANGED <<queue, fifo_mutex, wakes, swap, render>>

\* The display timer reaches the last line. A retrace before the swap's
\* interval is over changes nothing but its count.
Retrace ==
    /\ At("cpu", "run") /\ swap_pending
    /\ front_offset' = swap_offset /\ swap_pending' = FALSE
    /\ swap_count' = Less(swap_count)
    /\ wake' = TRUE
    /\ UNCHANGED <<queue, pc, fifo_mutex, wake_timer, voodoo_busy, flush, fifo_thread_run, render,
                   triple, disp_buffer, swap_offset>>

\* Variant: the FIFO thread is left asleep.
CloseSilently ==
    /\ At("cpu", "run")
    /\ fifo_thread_run' = FALSE
    /\ Go("cpu", "join")
    /\ UNCHANGED <<queue, fifo_mutex, wake, wake_timer, voodoo_busy, flush, swap, render>>

\* voodoo_card_close() stops the FIFO thread and then the render threads, one
\* after the other in the code.
Close ==
    /\ At("cpu", "run")
    /\ fifo_thread_run' = FALSE /\ wake' = TRUE
    /\ Go("cpu", "join")
    /\ UNCHANGED <<queue, fifo_mutex, wake_timer, voodoo_busy, flush, swap, render>>

JoinFifo ==
    /\ At("cpu", "join") /\ At("fifo", "done")
    /\ wake_render' = All(TRUE)
    /\ Go("cpu", "join_render")
    /\ UNCHANGED <<queue, fifo_mutex, wakes, swap, todo, rpc, render_not_full, slot>>

JoinRender ==
    /\ At("cpu", "join_render") /\ \A r \in RenderThreads : rpc[r] = "done"
    /\ Go("cpu", "closed")
    /\ UNCHANGED <<queue, fifo_mutex, wakes, swap, render>>

CpuStep ==
    \/ AwaitRoom \/ WriteLate
    \/ Lock("cpu") \/ EntryStep("cpu") \/ Settled \/ Read
    \/ JoinFifo \/ JoinRender

-----------------------------------------------------------------------------
Init ==
    /\ fifo = <<>> /\ took = 0 /\ cmd = "fb" /\ fifo_mutex = "none"
    /\ pc = [t \in Threads |-> IF t = "cpu" THEN "run" ELSE "sleep"]
    /\ wake = FALSE /\ wake_timer = FALSE /\ voodoo_busy = FALSE /\ flush = FALSE
    /\ fifo_thread_run = TRUE
    /\ triple \in BOOLEAN
    /\ disp_buffer = 0 /\ front_offset = 0
    /\ swap_pending = FALSE /\ swap_offset = 0 /\ swap_count = 0
    /\ todo = All(<<>>) /\ rpc = All("sleep") /\ slot = 0
    /\ wake_render = All(FALSE) /\ render_not_full = All(TRUE)

Next ==
    \/ \E e \in Entries : Write(e)
    \/ ReadStatus \/ Flush \/ Close
    \/ voodoo_wake_timer \/ Retrace
    \/ CpuStep
    \/ FifoStep \/ SwapTimeout("fifo")
    \/ \E r \in RenderThreads : RenderStep(r)

Spec == Init /\ [][Next]_vars

\* Every thread goes on while it can, without the timeout of the wait for a
\* swap. Timers run again and again while the CPU thread is in no access, the
\* test for idle render threads does not meet them in their empty rounds for
\* ever, and the guest polls the status register.
FairSpec ==
    /\ Spec
    /\ WF_vars(CpuStep) /\ WF_vars(FifoStep)
    /\ \A r \in RenderThreads : WF_vars(RenderStep(r))
    /\ SF_vars(voodoo_wake_timer \/ ReadStatus) /\ SF_vars(Retrace)
    /\ SF_vars(Settled \/ \E t \in Threads : WritePixel(t) \/ SwapNow(t) \/ SwapAtRetrace(t))

-----------------------------------------------------------------------------
(* Properties. *)

Draws(t) ==
    \/ pc[t] \in {"tri", "tri_room", "tri_sleep"}
    \/ At(t, "idle") /\ fifo # <<>> /\ Head(fifo) = "fb"

\* Whoever runs the FIFO's entries, each takes effect once, before the read
\* index moves past it, and no two threads run them at a time.
EachOnce ==
    [][ /\ took' > took => took = 0
        /\ Len(fifo') < Len(fifo) => took = 1 ]_vars

\* voodoo_flush() returns when every write has taken effect and every triangle
\* has been drawn, and they stay so until the read that asked is done.
FlushSeesAll == At("cpu", "read") => fifo = <<>> /\ \A r \in RenderThreads : todo[r] = <<>>

\* Nothing is drawn into the buffer on display, by the thread that runs the
\* FIFO or by a render thread, however a swap came about.
NoTearing ==
    /\ \A t \in Threads : Draws(t) => draw_buffer # front_offset
    /\ \A r \in RenderThreads : \A i \in DOMAIN todo[r] : todo[r][i] # front_offset

\* The swaps among the entries q.
Swaps(q) == Cardinality({i \in DOMAIN q : IsSwap(q[i])})

\* The swaps written that have not come about.
SwapsToCome ==
    Swaps(IF \E t \in Threads : At(t, "pop") THEN Tail(fifo) ELSE fifo)
      + (IF triple /\ swap_pending THEN 1 ELSE 0)
      + (IF At("cpu", "room") /\ IsSwap(cmd) THEN 1 ELSE 0)

\* The count the status register reports never exceeds the swaps to come, so
\* that a guest that waits for it to fall does not wait for ever.
SwapsCounted == swap_count <= SwapsToCome

Closing == pc["cpu"] \in {"join", "join_render", "closed"}

\* The head of the FIFO is run, an access of the CPU thread ends, and a swap
\* comes about, although no wait for a swap times out.
Progress ==
    /\ []<>(fifo = <<>> \/ took = 1 \/ Closing)
    /\ []<>(At("cpu", "run") \/ Closing)
    /\ []<>(~swap_pending \/ Closing)

\* voodoo_card_close() returns: both joins come back, unless a swap at a
\* retrace is in the FIFO, for there are no retraces while the CPU thread waits.
CloseReturns ==
    []<>(pc["cpu"] \notin {"join", "join_render"} \/ \E i \in DOMAIN fifo : fifo[i] = "vsync")
=============================================================================
