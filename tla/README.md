# Migo: TLA+ models of the runtime's concurrency core

Migo runs HTML5 mini-games natively. An embedding application drives it through a C API (or JNI on
Android); a host thread runs JavaScript; a render thread owns EGL; further threads do audio, I/O and
uploads. The modules here model the parts where these threads meet: the queue into the host thread,
the life of a Surface, the callbacks out to the embedder, foreground, background and restart, the
on-demand frame clock, sessions whose frames come from another process, and the I/O executor. Paths
below are relative to `src/engine/crates/` unless they start with `include/`.

The engine has about 200,000 lines. The models translate some 4,900 of them: those that coordinate
threads. The rest is named in section 6 and in `PROJECT.json`.

## 1. The system

### Parts and how they interact

| Part | Source | State that matters | Operations |
|---|---|---|---|
| Host command channel | `shared/src/host_channel.rs` | one FIFO with three lanes, two lane counters, handle counts, a tokio `Notify` | send (plain, coalescible, transition, critical), clone and drop handles, recv, try_recv |
| Surface control plane | `shared/src/surface/{control,attachment}.rs` | gate word (generation, live bit), shutdown flag, retired high-water mark, one-slot wake | attach_or_update, retire, shutdown, install the wake, release |
| Render thread's binding | `graphics/src/{surface_binding,render_thread,surface_system}.rs` | installed and staged lease, paused flag, Surface state | recreate, failed install, loss, release, pause, resume, present |
| Callback gate | `capi/src/{callback_gate,callbacks}.rs` | closed bit and active count, drain lock, per-thread callback stack, Arc count | post, dispatch, run a task, leave, close and drain |
| C API Session | `capi/src/{surface,lib,host_kit}.rs` | transition reservation, attachment, pending loss, levels, pending releases | attach, update, detach, destroy, set visibility / focus / lifecycle, loss, release |
| Host thread | `core/src/runtime/{host,thread}.rs`, `core/src/services/*` | Surface slot, backgrounded, deferred onShow, audio and timer levels | OnShow, OnHide, UpdateSurface, SurfaceDestroyed, Restart |
| Frame clock | `shared/src/raf_signal.rs`, `graphics/src/{render_thread,frame_scheduler}.rs`, `core/src/runtime/{vsync,shell}.rs` and the Java scheduler | waiter and session tickets, warm window, vsync latch, retained demand | request a frame, tick, signal, arm, restart, upload |
| External frames | `frame-wire/src/{ingress,pool,sync}.rs`, `core/src/runtime/external.rs` | packet sequence, surface and context epochs, credits, held frames | submit, dispatch, release at the signal, surface commands, shutdown |
| I/O executor | `io/src/pools.rs` | lanes by priority and pool, rotation of hosts, four running counts, retired hosts | submit, dispatch, complete, retire a host, close |

The embedder calls the Session. The Session leases a generation from the control plane, hands the lease
to the host thread through the command channel, and answers the embedder through the callback gate. The
host thread asks the render thread to install the lease and waits for its reply. Retiring a generation
is a single atomic step that no queue can delay; everything queued behind it must cope with a lease that
is already dead.

`PROJECT.json` lists all parts with their status, and the hazards: the places where an order of events,
a failure, a limit or a stale value could break something that a test would hardly reach.

### Behaviours that make it hard

- A Surface may vanish at any instant, before, while or after it is installed.
- Commands coalesce and supersede each other inside bounded lanes, but never across a lifecycle command.
- Wakeups are separate from the state they announce, and futures that received one may be cancelled.
- Callbacks may run inline, queued or not at all, re-enter the API, and destroy the Session they run in.
- The render queue can stay full, a reply can be late, an install can fail in three different phases.
- The frame clock runs only on demand: every party that owes work must keep it going, and let it stop.
- A credit, a lane or a host's share is given back by another thread than the one that took it.

## 2. Modules

| Module | Models | Proofs |
|---|---|---|
| `SurfaceGeneration` | abstract: what the control plane promises | instantiated by `SurfaceControl` |
| `SurfaceControl` | the control plane, one atomic access per step, and the binding it releases | `SurfaceControlProofs` |
| `HostChannel` | the host command channel | `HostChannelProofs` |
| `CallbackGate` | callback gate, notifier, destroy | `CallbackGateProofs` |
| `CapiSession` | composition: Session, host slot, render binding, release bookkeeping | `CapiSessionCalls`, `CapiSessionProofs` |
| `SurfaceSystem` | the render thread's Surface state (a record and its transitions) | used by the next two |
| `HostForeground` | composition: host thread, render queue, render thread under show, hide, Surface changes and restart | `HostForegroundProofs` |
| `FramePacing` | composition: JavaScript loop, demand latch, render loop, uploads, Java vsync scheduler | |
| `ExternalSession` | composition: frame ingress, credits, session thread, render queue, host calls | `ExternalSessionProofs` |
| `IoExecutor`, `MCIoExecutor` | the process-wide I/O executor, and its instance for TLC | `IoExecutorProofs` |

The compositions use the components at the level their own modules establish. `CapiSession`,
`HostForeground` and `ExternalSession` take the gate as one atomic step (the refinement
`ImplementsPromise`) and the critical lane of the channel as an unbounded FIFO (`OrderPreserved`,
`NothingVanishes`). That use is not itself stated as a refinement.

A definition marked `Fault:` is a variant of the definition that follows it with one plausible error in
it. It is used by no specification. Substituting it must break the property that `PROJECT.json` pairs
it with, which shows that the property depends on that line of code.

### HostChannel

Each queue operation is one step under the mutex. `notify_one` and `notify_waiters` come after the
unlock and are steps of their own (`pc[t]`), and so are the three stages of `recv`: register, look, park.
The `VecDeque` is the set `entries`, ordered by the ticket `pos` given at the push; `cmd` says which
accepted command an entry carries now, so coalescing changes `cmd` and keeps `pos`. tokio's `Notify` is
external: one stored permit, a registered waiter, and a dropped future that passes its permit on
(`RecvCancel`, the `select!` of the host loop). `accepted` and `delivered` are history.

### SurfaceControl and SurfaceGeneration

The packed word `generation << 1 | live` is a record. Load, compare-exchange, flag check, `fetch_max` and
wake are separate steps, so every interleaving of `attach_or_update`, retire and `shutdown` is explored,
including the second shutdown check of an attach and retirements published out of order.
`StoreBuffer = TRUE` lets the plain release store of `shutting_down` stay in its thread's store buffer past
later loads, as x86-64 does; `FALSE` is arm64 with `stlr`/`ldar`, where the store is ordered before the
load. Every other write is a read-modify-write, which drains the buffer (`Fenced`).

### CallbackGate

A thread is the stack of calls it is in. Embedder code runs at the bottom and inside `dispatch` and
`callback`, and may call again up to `MaxDepth`. Posting, the three answers of a dispatcher (queue, run
now, refuse), running a queued task, leaving, and close, check, lock, test, sleep of the drain are steps.
`strong` is the Arc count, `raw` the embedder's own handle.

### CapiSession

`stack` holds the embedder's call and the calls nested in inline callbacks, the innermost last; one call
stack is enough because `include/migo/session.h` asks the embedder to serialise its calls. Each locked
section of attach, update, detach, set-level and destroy is one step, so the host and render threads run
between them. A native resource is named by the internal generation it was leased under, and its release
moves from held to dropped, uncounted and released. Abstractions:

- the drop of the last lease is a fair step of its own, where the code runs it on the dropping thread;
- retiring and reporting a lost Surface are one step (`SurfaceControl` splits them);
- a failed spawn and an engine that is gone before its first command are one failing step;
- a failed `eglTerminate`, after which the code quarantines the Surface for ever, is left out;
- after a failed send the engine is unregistered, so the retire that follows finds no gate.

### HostForeground

The platform queues show, hide, restart, Surface updates and destroys. The host thread handles them one
at a time; `host` is where its handler stands. `rq` is the render queue: a bounded-blocking send either
finds room or, with the queue still full at its deadline, loses the command. A recreate is sent with a
responder; a timeout abandons that responder (`AbandonReply`) while the command stays queued or is being
installed. The render thread stages a candidate, and ends it with success or a failure in one of three
phases; it also loses Surfaces at a swap, notices dead ones at a frame and releases retired ones. `draw`
stands for everything the game queues. `dropped` and `restarted` are history. Not in the model: the
host-side copy of `SurfaceSystem`, which is only written; a failed release, which ends the render thread;
the overflow of the 64-bit runtime generation.

### FramePacing

One requestAnimationFrame from JavaScript to the swap. `waiter` and `session` are the two tickets of
`RafDemand`, `raf` the frames signalled and not received, `warm` the frames that signal without a waiter.
The render loop's stages (wait, signal, frame, top) are steps, so a restart, a pause or a lost Surface
falls between them. On Android a request goes through the main thread (`msgs`) to the Java scheduler
(`java`), which posts a callback or retains the demand; engine-paced sessions have their own deadline.
The wall clock is left out: an armed deadline comes due, and the frame scheduler skips at most `MaxSkips`
ticks in a row. The write to the eventfd and the demand it publishes are one step.
`Restart` is one step, too: `on_restart` begins the new ticket, tears the old isolate down and builds the new one
while the render thread goes on, and of all this only the new ticket and the loop's first state are visible to it.
A recreate of a generation that is no longer live is refused before it touches the clock (`ApplyRecreate`).

### ExternalSession

The transport thread submits packets under the state lock; the session thread handles the host's commands,
the render thread's events and its frame signals; the render thread signals first and drains its queue
afterwards (`Tick`, then `Execute`). A frame is its sequence number. The ingress tells apart a wrong
surface, a wrong context epoch, a resource that is not ready and a wrong sequence; the rest of wire
validation is `RenderFails`. The normal lane of the host's channel is bounded, so an input or the Shutdown
nudge may be dropped.

A loss has two steps, as in `retire_unexpected_surface`: the render thread retires the generation
(`SurfaceLost`) and sends the report afterwards (`Report`), and does nothing else in between; the host may detach
and attach meanwhile. This session never tells the C API of a loss (`external.rs:732`), so the attachment stays
active: a later update leases a new live generation that nobody owns and fails (`SurfaceUpdateFails`), and the
detach names the generation the attachment owns (`owned`). `Current` says that the live generation is that one.
`stray` is history: a report has come while another Surface of the attachment was live, and the visibility has not
been set since. `late` is history, too: an update gave up waiting.

Not in the model: the arming of the clock (`FramePacing` has it), lifecycle sends lost on a full render
queue (as `HostForeground` has them), timestamps, the GL error queue, and a drain that stops at 32 commands.

### IoExecutor

Everything `io/src/pools.rs` does under its state lock is one step. Jobs of one host in one lane differ in
nothing, so a lane counts them; `rotation` is the lane's order of hosts. `PopNext` is the code's search:
a fair pass and a relaxed one, each over the priorities in the order the aging gives, each from the
cursor of its priority. `Kinds` is the set of lanes that jobs are submitted to. A sleeping worker is woken by a notification only; spurious wakeups would only
help. `close` sets the flag under the lock and notifies after it; `Close` does both at once, which changes nothing:
a worker that sleeps in between is woken by the notification, one that looks in between has seen the flag. A submitted job holds its host's registration, and the registrations hold the executor, so `Close`
needs every host dropped.

## 3. Runs

Each run is `tlc -config <cfg> <module>` (the module of `io_executor` is `MCIoExecutor`). "Distinct" is the number of distinct states; every run that
passes explores its whole state space.

| Run | Config | Checks | Distinct |
|---|---|---|---|
| `host_channel` | `HostChannel.cfg` | `CountersExact` `OrderPreserved` `NothingVanishes` `NoLostWakeup` `RecvNotices` | 747,845 |
| `surface_control` | `SurfaceControl.cfg` | `NeverReleasesLive` `RetiredIsReleased` `ImplementsPromise` (refinement of `SurfaceGeneration`) | 753,873 |
| `surface_shutdown_x86` | `SurfaceShutdownX86.cfg` | `ShutdownIsFinal`: violated, finding 1 | |
| `callback_gate` | `CallbackGate.cfg` | `QuietAfterDestroy` `FreedExactlyLast` `DestroyReturns` | 81,771 |
| `session_surface` | `CapiSession.cfg` | `AdmissionMatchesAttachment` `DetachedNeverPresents` `NeverUsedAfterRelease` `DestroyIsNotRefused` `ReservationIsOwned` `LevelsAgree` `LossIsHeard` `DetachedIsReleased` | 467,298 |
| `session_levels_inline` | `CapiSessionInline.cfg` | `LevelsAgree`: violated, finding 4 | |
| `session_update_generation` | `CapiSessionUpdate.cfg` | `NoHiddenGeneration`: violated, finding 3 | |
| `host_foreground` | `HostForeground.cfg` | `QuietUntilRestart` `ForegroundRuns` `SlotIsBound` `CommandsHandled` | 1,339,584 |
| `frame_pacing` | `FramePacing.cfg` | `LatchIsBacked` `DemandTaken` `PendingLands` `ClockStops` | 294,248 |
| `frame_raf_freeze` | `FramePacingRaf.cfg` | `RafServed`: violated, finding 2 | |
| `external_session` | `ExternalSession.cfg` | `CreditsExact` `FramesInOrder` `BacklogBounded` `ForegroundRuns` `NoFrameForAnOldSurface` `BlockedProducerProceeds` | 656,294 |
| `io_executor` | `IoExecutor.cfg` | `RunningExact` `WaitingExact` `NoIdleWorker` `RetiredForgotten` `ShareKept` `AcceptedDrains` `BackgroundServed` | 173,358 |

What the runs show:

- **`host_channel`.** Commands are received in the order the lanes promise, none is lost but a sample that
  a later one replaces, both lane counters are exact, and no combination of cancelled receives, dropped
  handles and late notifications leaves the host asleep with work waiting.
- **`surface_control`.** A lock-free implementation of attach, retire and shutdown does what
  `SurfaceGeneration` promises, never releases a live generation, and releases every retired one.
- **`callback_gate`.** Nothing of the host runs after a successful destroy, memory goes with the last user,
  and every destroy that closed the gate returns.
- **`session_surface`.** Data plane, presentation barrier, release level and destroy guard agree with each
  other across attach, update, detach, loss and re-entrant callbacks; a loss is heard, a detached Surface is
  released. `LossIsHeard` is about the embedded host: the external session (below) never tells the C API.
- **`host_foreground`.** Hidden sessions are quiet, shown ones run, the slot names what is installed, and a
  render thread that never answers does not hold the host.
- **`frame_pacing`.** The request latch is always backed by a request, every demand is taken up, drawn content and
  uploads land, and the clock stops when nobody needs it.
- **`external_session`.** Credits are exact, frames run once and in order, the render backlog is bounded,
  a shown session renders to the Surface it is attached to, no frame of an older Surface is accepted, and a blocked
  producer proceeds while the renderer presents. `ForegroundRuns` excludes two histories, `late` and `stray`;
  section 5 says what happens in them.
- **`io_executor`.** Hand-kept counts are exact, caps and shares hold, no wakeup is lost, retired hosts leave
  nothing behind, accepted work is done, and aging serves the background.

### Bounds

- **Channel.** Two sender threads, one stream, three commands, lanes of two and one: both lanes fill, a
  transition supersedes a sample, a lifecycle command stands between two samples. Two streams, four commands
  and all other sizes are covered by the theorems for every property but `RecvNotices`.
- **Control plane.** Two host threads, two generations (one can be retired while the next is attached), one
  `retire_generation_and_request`, with the store buffer of x86-64. The theorems cover all sizes;
  `ShutdownIsFinal` on arm64 is shown by its theorem only.
- **Callback gate.** Three threads (one destroys, one posts, one runs tasks), four posts, nesting of four
  (a callback that destroys from inside an inline dispatch), and a count that saturates at two instead of
  2^63 - 1, so that saturation happens.
- **Session.** Two attachments (the second meets leftovers of the first), two queued commands when an
  update begins, nesting of three. Visibility and focus behave alike and do not interact, so they are set one
  at a time; the theorems have no such bound. No level is set inside an inline callback: with one,
  `LevelsAgree` is false (finding 4).
- **Foreground.** Two generations, one waiting command (the handlers themselves are interleaved with
  everything else), a render queue of two, and the code's three attempts.
- **Frame clock.** Two lifecycle events, or a restart, or a context loss and an event; channels of one, one
  warm frame, one skip. Every pair of events meets every stage of the loop. Three warm frames and channels of
  two (the code's values) multiply states without a new kind of step; `frame_raf_freeze` uses them, with a restart
  and one request.
- **External session.** The code's two credits, one warm frame, two generations, one context loss, a normal
  lane of one. `MaxWork` trades frames for host operations (three and five units): up to five frames with no
  operation, three with one, two with two, and up to four operations with none (`MaxOps`). More frames and
  operations together are covered by the theorems, for the properties that have one. Without frames, three
  generations and six operations were run once for `ForegroundRuns` (5,666,626 distinct states): a Surface is lost,
  detached and replaced before the loss is reported, and with `stray` not excluded the property fails there.
- **I/O executor.** Two workers, two hosts, two pools (uncapped Fs and Ingest with cap one), aging every two
  dispatches, two waiting jobs. Jobs go to four of the six lanes (`MCKinds`): background jobs of both pools,
  asynchronous jobs of the first, blocking jobs of the second, so that every priority and the capped pool
  occur. All six lanes were run once for all properties (693,646 distinct states), and three workers with
  two waiting jobs for the invariants and `ShareKept` (5,736,190), without a violation.

### Deadlock

`HostForeground` checks deadlock. The other configurations set `CHECK_DEADLOCK FALSE`, because their systems
may come to rest: senders, embedder, platform or producer stop calling (`HostChannel`, `CapiSession`,
`FramePacing`, `ExternalSession`), every generation is used (`SurfaceControl`), the Session is destroyed
(`CallbackGate`), the executor is closed (`IoExecutor`), and a bounded history ends. What must not get stuck
is stated as liveness instead, mostly in the form `[]<>P`: what is owed does not stay owed for ever.

### Fairness

- Channel: weak fairness of the receiver's steps and of each owed notification. Both are straight-line
  code of a running thread. Senders owe nothing.
- Control plane: weak fairness of each call in progress, of the store buffer's drain and of the render
  thread; strong fairness of `RenderWoken`, because the render loop picks among ready sources at random
  (`Select`), so a wake that stays pending is picked eventually though other sources keep it busy.
- Callback gate: weak fairness of every started call and of embedder code that must return; strong
  fairness of `Leave`, because a destroyer that wakes spuriously takes `drain_lock` for a moment again and
  again, and a mutex that is free infinitely often is obtained.
- Session: weak fairness of the call in progress, the host thread, the release by the render thread and
  the drops (one condition for all resources: each moves forward only, so each is released in the end). No
  fairness for new calls or for losses.
- Foreground: weak fairness of the host thread only. `CommandsHandled` must hold with a render thread
  that never moves.
- Frame clock: weak fairness of the main looper, the render thread, the upload thread and of a JavaScript
  loop that has asked for a frame. The game need not ask, the platform need not act.
- External session: weak fairness of the session thread, of the render thread's drain and its loss report, and
  of a submit in progress; of a frame (`Tick`) only while the renderer runs and holds the attached Surface
  (`Presenting`). A host that paces the session has its ticks refused while nothing is attached
  (`capi/src/lib.rs:767`), so no frame is owed then; the recreate of the next Surface clears the latch and asks for
  a frame again. `BlockedProducerProceeds` therefore promises nothing while the renderer is paused or presents
  nothing. The producer and the host need not call.
- I/O executor: every job ends, and a worker that looks for work gets the lock.


## 4. Proofs

TLAPS checks these theorems for every value of the constants that satisfies the named assumptions. Each
safety theorem rests on an inductive invariant, because the property alone does not carry over a step. The
modules with proofs state the invariant first, then one lemma per group of actions, then the theorems.

| Module | Assumption | Inductive invariant | Theorems that state a property of a run |
|---|---|---|---|
| `HostChannelProofs` | `CapacityAssumption`, `StreamAssumption` | `QueueInv` | `WakeupsKept`, `ReceivedInOrder`, `NothingLost`, `CountersHold` |
| `SurfaceControlProofs` | `ControlAssumption` | `ControlInv` | `ReleasesOnlyRetired`, `ControlRefines` |
| `CallbackGateProofs` | `GateAssumption` | `GateInv` | `QuietHolds`, `FreedLastHolds` |
| `CapiSessionCalls`, `CapiSessionProofs` | `SessionAssumption` | `SessionInv` | `AdmissionHolds`, `DetachedHolds`, `ReleaseHolds`, `DestroyHolds`, `ReservationHolds`, `LevelsHold` |
| `HostForegroundProofs` | `ForegroundAssumption` | `ForegroundInv` | `SlotHolds`, `QuietHolds`, `ForegroundHolds` |
| `ExternalSessionProofs` | `ExternalAssumption` | `CreditInv`, `OrderInv`, `SurfaceInv`, `BacklogInv`, `TypeInv`, `RunInv` | `CreditsHold`, `OrderHolds`, `NoOldSurface`, `BacklogHolds`, `ExternalForegroundHolds` |
| `IoExecutorProofs` | `ExecutorAssumption`, `KindsAssumption` | `AccountInv`, `WaitInv`, `WakeInv` | `RunningHolds`, `WaitingHolds`, `ForgottenHolds`, `ShareHolds`, `AwakeHolds` |

Proved beside them: type correctness of five modules (`Typing`, `ControlTyping`, `SessionTyping`,
`ForegroundTyping`, `ExternalTyping`), `ShutdownFinal` (with `StoreBuffer = FALSE`), and `NotifiedOnceHolds` (a loss is
reported at most once).

The arguments:

- **Channel.** What will be received depends on what is queued, so `QueueInv` says that an entry describes the
  accepted command it carries, that positions agree with the promised order, and that what has been received
  precedes what is queued. A push, a coalescing and a pop keep it; the central lemma, `ErasedReplaced`, says
  that a superseding transition only erases samples of its own stream with no lifecycle command between.
  `CountersHold` rests on the cardinality of a lane under an added, removed and erased set of entries.
- **Control plane.** A word that a thread has loaded is never ahead of the gate (`CurBehind`), and everything
  published, or about to be published, as retired is retired (`OnlyRetired`). `RetirementOwed` strengthens
  `ShutdownIsFinal`: while a generation is live after the flag is set, some thread is on its way to retire it.
- **Callback gate.** A call is named by its thread and its place in that thread's stack. The active count is
  the number of framed calls, the Arc count the sum of handles, queued tasks, calls and fresh posts; a destroy
  that has drained sees only its own frames, there is at most one drainer, and below the top of a stack there
  is only host code.
- **Session.** The innermost call owns the transition, and the calls around it wait in a callback. The
  attachment is complete and carries the last public generation, and the data plane is open for it alone.
  While the engine runs, the gate is at the attachment's generation or one past it, hence at most two internal
  generations per public one. Whatever reaches a native resource finds it held; the pending count is the number
  of registered resources. The levels agree except for a call that has read them and has yet to send them.
  `DestroyHolds` and `ReservationHolds` assume `~MissingNonce`, `LevelsHold` assumes `~NestedLevels`:
  section 5 says how they fail otherwise.
- **Foreground.** Recreates in the queue are ordered by generation and not older than the slot. At most one is
  awaited, the last one, and it is about the candidate; once a reply is there no recreate is left. A bound live
  Surface is sized, and ready if it runs. Unless a command was dropped, the last queued Pause or Resume is the
  audio level.
- **External session.** Each credit is that of a frame being submitted or held (`CreditInv`). Every frame on
  its way was accepted and the one not yet dispatched is the newest (`OrderInv`). The ingress has every
  generation the renderer has or is about to have (`SurfaceInv`). For the backlog, the frames in the queue and
  the pending signal together are at most the frames held, the one about to be held, and one more, or two
  while a drain is owed (`BacklogInv`): a tick may signal only when no drain is owed and owes one from then on,
  and a drain is over only when the queue is empty.
  `RunInv` follows a shown session through inbox, render queue and reply. The live generation is the newest one,
  every destroy on its way is about an older one, and no attachment owns one that has not been issued, so a failing
  update makes a generation live that is not `Current`. A `Current` one is bound, or an update or recreate to it is
  still to come.
  The recreate that the session waits for is the last in the queue. The renderer runs once its queue is empty, or
  a show with no hide or loss behind it is in the inbox, and finds the Surface in the slot or behind its update.
  An update that gives up waiting (`late`) breaks this, and so does a loss report behind the show (`stray`), so the
  property excludes both. The conjuncts are statements
  about positions in a queue; one lemma each says what an append and a removal of the head do to them.
- **I/O executor.** `AccountInv`: the running counts are the numbers of workers with such a job. `WaitInv`: a
  lane's rotation is the set of hosts with jobs in it, each once; the waiting counts are cardinalities of the
  queued jobs; a dropped host is marked until its last job is completed and then has no entry. From these,
  `ShareHolds`: a fair attempt that has an offer serves a host within its share when two hosts wait; the relaxed
  attempts come only after every fair one had none, and then no other host within its share can be served.
  `AwakeHolds` needs more than "some worker is looking": two jobs may need two workers. `WakeInv`: while a worker
  sleeps, every set of queued jobs that could be started together within the pools' caps is no larger than the
  set of workers about to look. A submit adds one job and wakes one worker; a dispatch starts one job and uses
  one; a worker that completes a job frees one place, takes a job itself and wakes one more; a worker goes to
  sleep only when nothing can be started. TLC checked `WakeInv` before its proof, on the run's instance (173,358 states) and on three
  workers, three pools, one host and four waiting jobs (123,530).

**Only model-checked.**

- Every liveness property and the fairness it rests on: `RecvNotices`, `RetiredIsReleased`, `DestroyReturns`,
  `LossIsHeard`, `DetachedIsReleased`, `CommandsHandled`, `DemandTaken`, `PendingLands`, `ClockStops`,
  `BlockedProducerProceeds`, `AcceptedDrains`, `BackgroundServed`. The prover has no rules for `ENABLED`.
- `LatchIsBacked`, the one safety property of `FramePacing`: the render thread drains its whole command queue in
  one step, and that no drain sets the latch is an induction over that queue.
- That the compositions may use the gate and the channel as atomic components.

## 5. What the models found

1. **Shutdown against attach on x86-64** (`shared/src/surface/control.rs:123`). A release store followed by
   an acquire load is not ordered. Shutdown can read a dead gate while the attach reads no shutdown, and the
   generation stays live. `control.rs:17` and `:79-81` say this cannot happen. It does not on arm64 with
   `stlr`/`ldar` (proved).
2. **requestAnimationFrame freezes** (`graphics/src/render_thread.rs:3128`). The render thread consumes the demand
   before it signals, and drops a signal the channel has no room for. After a restart two signals of the old isolate
   fill the channel, all signals for the new isolate are dropped, and it awaits a frame that nobody asks for, although
   the session is shown. `raf_signal.rs:259-260` says that the render thread restores the demand "so RAF cannot
   freeze"; `restore_waiter` is called by tests only. `DemandTaken` is the part that holds: no demand stays published
   without a frame.
3. **A failed update changes something** (`capi/src/surface.rs:690`). An update that meets an unreported
   loss makes a new generation live before it fails. `include/migo/surface.h:232` says nothing changed.
4. **Stale levels** (`capi/src/surface.rs:588`). An attach sends the visibility it read before it ran an
   inline loss callback that changed it. `capi/src/lib.rs:251` says the remembered value is applied.

Observations without a run, met while modelling. The first three, and those said to be TLC's, come from variants
or larger instances of the models here; the others from reading.

- **Executor, three workers.** With three workers, one host and one waiting job TLC finds a worker asleep for
  ever after the close, where `io/src/pools.rs:590` expects every peer to wake, drain and leave. With two
  workers, the checked instance, this does not happen. The process-wide executor is never dropped; only local
  executors are joined.
- **A reservation without an owner** (`capi/src/surface.rs:392`). In external-frame builds an attach of a
  Session without `launch_nonce` returns without rolling back its reservation; later attaches and the
  destroy are refused. `surface.rs:165` says a failed operation always releases it. With `MissingNonce = TRUE`
  TLC finds `ReservationIsOwned` violated.
- **Withheld frame request.** The signal of a requestAnimationFrame is also lost by `WarmFrames + 1` ticks while the
  session is paused.
- **External session, loss.** `SurfaceLost` pauses the renderer whatever generation it names (`external.rs:732`).
  A loss reported after the next attach and its show leaves a shown session paused until the visibility is set
  again (`stray`; TLC's, with three generations). Nor does the C API hear of the loss: an update after it fails
  and leaves a live generation nobody owns, as in finding 3, and none of the later updates succeeds until a detach.
- **External session, shutdown.** The embedded loop polls the shutdown level (`core/src/runtime/thread.rs:175`);
  the external one (`external.rs:647` on) only ends at the Shutdown command, which a full normal lane drops
  (`registry.rs:633`).
- **External session, credits.** A credit returns at the frame signal, before the drain, although
  `include/migo/external_frames.h:27`, `external.rs:337` and `:666` take that signal for the end of the frame. So
  the render queue may hold two frames more than the window. `BacklogBounded`
  states that number; TLC reaches it.
- **External session, resume.** A show without a live Surface leaves the resume to UpdateSurface
  (`external.rs:742`), whose handler does not resume. The attach repeats the visibility, which is why
  `ForegroundRuns` holds; it is false after an update that timed out (`late`), and a Surface loss followed by an
  attach with the visibility never set stays paused. Between a context loss and its drain, packets of the
  old epoch are still accepted.
- **Executor, fairness.** Background jobs of a capped pool, or of a host at its share, can wait for ever, and
  foreground asynchronous work has no aging. `BackgroundServed` is about the rest.
- **Restart in the background.** `on_restart` resumes render and audio whether or not the session is hidden
  (`core/src/runtime/host.rs:1612`), while `on_update_surface` takes care not to (`:1340`).
  `QuietUntilRestart` excludes it; without that, TLC gives hide, restart, and a running session.
- **Lost levels.** Pause and Resume are lost on a render queue that stays full
  (`core/src/services/render.rs:262`); the properties of `HostForeground` exclude the time until the next one.
- **Frame clock.** An engine-paced clock keeps running while content is dirty and there is no Surface, and a
  hide and show before the first window leaves an engine-paced renderer paused.
- **Header.** `include/migo/surface.h:234` describes `metrics.generation` as increasing per update, `:98` and
  `validate_update_generation` require the attachment's own.
- **Storage, not modelled.** `kv_store.rs:12` says that no committed write is lost on power loss, which its
  comment at 140 limits; `io/src/atomic_write.rs:13` says that on failure the path is unchanged, but the
  directory sync at line 122 can fail after the rename.

## 6. Not modelled

Frame execution, Canvas and WebGL translation, the wire format's bytes, V8 bindings, the virtual file system
and the platform glue are about data or I/O rather than coordination. The following are coordination and not
modelled either:

- engine destroy as a join barrier against a racing session destroy (`capi/src/lib.rs:512`);
- stale callbacks of a replaced JavaScript runtime (`core/src/runtime/host.rs:662`);
- storage under crashes (`io/src/atomic_write.rs:118`): its outcome is that of the file system;
- the I/O scheduler's admission above the executor, input retraction, watchdog, workers, the audio channel.

Type invariants are stated in the modules that have a typing theorem; the runs spend their time on the other
properties.
