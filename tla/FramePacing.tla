---------------------------- MODULE FramePacing ----------------------------
(***************************************************************************)
(* The on-demand frame clock of one session, from requestAnimationFrame to *)
(* the swap: the JavaScript loop (runtime-v8 03_raf.js, raf.rs), the       *)
(* demand latch and the signal (shared/src/raf_signal.rs), the render loop *)
(* (graphics/src/render_thread.rs, frame_scheduler.rs, render_wait.rs),    *)
(* the routes that arm it (core/src/runtime/shell.rs) and, on Android, the *)
(* Java scheduler that posts one Choreographer callback per request        *)
(* (VsyncSchedulerState.java, GameSession.java).                           *)
(*                                                                         *)
(* A session is paced either by external vsync ticks or by its own clock.  *)
(* The wall clock is left out: a deadline that is armed comes due, and the *)
(* frame scheduler may skip at most MaxSkips ticks in a row.               *)
(***************************************************************************)
EXTENDS Naturals, Sequences, SequencesExt, SurfaceSystem

CONSTANTS MaxOps,        \* bound on lifecycle events, restarts, context losses
                         \* and stray ticks, together
          MaxGeneration, \* bound on the Surface generations
          MaxSession,    \* bound on the isolates: restarts + 1
          MaxCommands,   \* bound on the commands waiting for the render thread
          Capacity,      \* of the vsync channel and of the RAF channel: 2
          MaxRequests,   \* bound on the frame requests waiting for the main thread
          MaxSkips,      \* display refreshes per frame of the target rate, less 1
          WarmFrames     \* RAF_WARM_FRAMES: 3

ASSUME PacingAssumption ==
  /\ {MaxOps, MaxGeneration, MaxSession, MaxCommands, Capacity, MaxRequests,
      MaxSkips, WarmFrames} \subseteq Nat
  /\ MaxGeneration > 0 /\ MaxSession > 0 /\ WarmFrames > 0
  /\ MaxRequests > 0 /\ Capacity > 0

VARIABLES
  hasVsync,     \* uses_external_vsync, fixed for the session
  java,         \* the Java scheduler: registered, running, surfaceReady,
                \* callbackPosted, requested
  msgs,         \* MSG_REQUEST_VSYNC messages waiting for the main thread
  vq,           \* ticks waiting in the vsync channel
  nudge,        \* the one-slot frame_demand channel
  live, issued, \* the Surface generation gate
  ops,          \* platform events so far
  visible,      \* the activity is resumed
  cmds,         \* the render command queue
  r,            \* the render thread: paused, system, bound, dirty, armed
  rpc,          \* where the render loop is: wait, signal, frame, top
  ticket,       \* the session ticket it read for the frame's signal, 0: none
  animating,    \* the frame found a waiter or the warm window open
  warm,         \* warm_frames
  skips,        \* ticks the frame scheduler skipped in a row
  upload,       \* one texture upload: none, inflight, fenced
  recover,      \* needs_context_recovery
  waiter,       \* RafDemand.waiter_ticket
  session,      \* RafDemand.session_ticket
  raf,          \* the tickets of the frames signalled and not yet received
  js            \* the JavaScript side: run, idle, marked, await

scheduler == <<java, msgs>>
surface == <<live, issued, visible, ops>>
gpu == <<upload, recover>>
loop == <<rpc, ticket, animating, warm, skips>>
demand == <<waiter, session>>
vars == <<hasVsync, scheduler, vq, nudge, surface, cmds, r, loop, gpu,
          demand, raf, js>>

Generations == 1..MaxGeneration

Init ==
  /\ hasVsync \in BOOLEAN
  /\ java = [registered |-> ~hasVsync, running |-> FALSE, surfaceReady |-> TRUE,
             posted |-> FALSE, requested |-> FALSE]
  /\ msgs = 0 /\ vq = 0 /\ nudge = 0
  /\ live \in {0, 1} /\ issued = live /\ ops = 0
  /\ visible = TRUE /\ cmds = <<>>
  /\ r = [paused |-> FALSE, bound |-> live, dirty |-> TRUE,
          system |-> IF live = 1 THEN [state |-> "ready", sized |-> TRUE]
                                 ELSE [state |-> "none", sized |-> FALSE],
          armed |-> ~hasVsync]
  /\ rpc = "wait" /\ ticket = 0 /\ animating = FALSE /\ warm = 0 /\ skips = 0
  /\ upload = "none" /\ recover = FALSE
  /\ waiter = 0 /\ session = 1 /\ raf = <<>> /\ js = "run"

-----------------------------------------------------------------------------
(* VsyncSchedulerState: every method runs on the main thread. *)

RequestFrame(j) ==
  IF j.running /\ j.surfaceReady THEN [j EXCEPT !.posted = TRUE]
                                 ELSE [j EXCEPT !.requested = TRUE]

\* onStart and onSurfaceReady(true): post the demand that was retained.
PostRetained(j) ==
  IF j.requested /\ j.running /\ j.surfaceReady /\ ~j.posted
  THEN [j EXCEPT !.requested = FALSE, !.posted = TRUE] ELSE j

\* Fault: removing the posted callback loses its demand.
RemovePostedForgets(j) == [j EXCEPT !.posted = FALSE]

\* onStop and onSurfaceReady(false): remove the callback, keep its demand.
RemovePosted(j) ==
  [j EXCEPT !.requested = j.requested \/ j.posted, !.posted = FALSE]

OnStart(j) == PostRetained([j EXCEPT !.running = TRUE])

OnStop(j) == RemovePosted([j EXCEPT !.running = FALSE])

OnSurfaceReady(j, ready) ==
  IF ready THEN PostRetained([j EXCEPT !.surfaceReady = TRUE])
           ELSE RemovePosted([j EXCEPT !.surfaceReady = FALSE])

-----------------------------------------------------------------------------
(* The platform's main thread. *)

\* request_vsync: Android posts a message, the engine-paced arm leaves a nudge.
Arm ==
  IF hasVsync THEN msgs' = msgs + 1 /\ UNCHANGED nudge
              ELSE nudge' = 1 /\ UNCHANGED msgs

\* Fault: nobody repeats the request that came before the registration.
RegisterSilently ==
  /\ ~java.registered
  /\ java' = OnStart(OnSurfaceReady([java EXCEPT !.registered = TRUE], live # 0))
  /\ UNCHANGED <<msgs, hasVsync, vq, nudge, surface, cmds, r, loop, gpu,
                 demand, raf, js>>

\* The constructor of GameSession; its own request repeats one lost before it.
Register ==
  /\ ~java.registered
  /\ java' = OnStart(OnSurfaceReady([java EXCEPT !.registered = TRUE], live # 0))
  /\ msgs' = msgs + 1
  /\ UNCHANGED <<hasVsync, vq, nudge, surface, cmds, r, loop, gpu, demand,
                 raf, js>>

\* sVsyncHandler: a request for a session not registered is a no-op.
HandleRequest ==
  /\ msgs > 0 /\ msgs' = msgs - 1
  /\ java' = IF java.registered THEN RequestFrame(java) ELSE java
  /\ UNCHANGED <<hasVsync, vq, nudge, surface, cmds, r, loop, gpu, demand,
                 raf, js>>

\* try_send_vsync: a full channel keeps the earlier ticks.
Tick(n) == IF n < Capacity THEN n + 1 ELSE n

\* Choreographer runs the callback: doFrame, onVsync.
DoFrame ==
  /\ java.posted
  /\ java' = [java EXCEPT !.posted = FALSE,
                          !.requested = ~(java.running /\ java.surfaceReady)]
  /\ vq' = IF java.running /\ java.surfaceReady THEN Tick(vq) ELSE vq
  /\ UNCHANGED <<msgs, hasVsync, nudge, surface, cmds, r, loop, gpu, demand,
                 raf, js>>

\* A C host calls migo_session_notify_vsync without having been asked.
StrayTick ==
  /\ hasVsync /\ live # 0 /\ ops < MaxOps /\ ops' = ops + 1
  /\ vq' = Tick(vq)
  /\ UNCHANGED <<scheduler, hasVsync, nudge, live, issued, visible, cmds, r, loop,
                 gpu, demand, raf, js>>

\* Only a session with external vsync has a Java scheduler to tell.
Java(told) == java' = IF hasVsync THEN told ELSE java

\* A lifecycle call of the main thread, which the host thread turns into render
\* commands in the same order; its own waits are HostForeground's.
Event(commands) ==
  /\ java.registered /\ ops < MaxOps
  /\ ops' = ops + 1 /\ cmds' = cmds \o commands

Pause ==
  /\ visible /\ visible' = FALSE
  /\ Java(OnStop(java))
  /\ Event(<<[op |-> "pause"]>>)
  /\ UNCHANGED <<msgs, hasVsync, vq, nudge, live, issued, r, loop, gpu, demand,
                 raf, js>>

\* Without a live Surface the resume is left to the update that brings one.
Resume ==
  /\ ~visible /\ visible' = TRUE
  /\ Java(OnStart(OnSurfaceReady(java, live # 0)))
  /\ Event(IF live # 0 THEN <<[op |-> "resume"]>> ELSE <<>>)
  /\ UNCHANGED <<msgs, hasVsync, vq, nudge, live, issued, r, loop, gpu, demand,
                 raf, js>>

UpdateSurface ==
  /\ live # 0 \/ issued < MaxGeneration
  /\ live' = IF live # 0 THEN live ELSE issued + 1
  /\ issued' = IF live # 0 THEN issued ELSE issued + 1
  /\ Java(OnSurfaceReady(java, TRUE))
  /\ Event(<<[op |-> "recreate", generation |-> live', resumes |-> visible]>>)
  /\ UNCHANGED <<msgs, hasVsync, vq, nudge, visible, r, loop, gpu, demand, raf, js>>

SurfaceDestroyed ==
  /\ live # 0 /\ live' = 0
  /\ Java(OnSurfaceReady(java, FALSE))
  /\ Event(<<[op |-> "destroyed", generation |-> live]>>)
  /\ UNCHANGED <<msgs, hasVsync, vq, nudge, issued, visible, r, loop, gpu, demand,
                 raf, js>>

\* on_restart drops the old isolate, whose await ends with it, between a pause
\* and a resume (two events of the bound); restore_surface reinstalls the live
\* Surface.  The host thread sends the three commands one after another while the
\* main thread waits for nothing; here they join the queue together.
Restart ==
  /\ session < MaxSession /\ js \in {"await", "idle"}
  /\ ops + 2 <= MaxOps /\ ops' = ops + 2
  /\ session' = session + 1 /\ js' = "run"
  /\ cmds' = cmds \o <<[op |-> "pause"]>>
                  \o (IF live # 0 THEN <<[op |-> "recreate", generation |-> live,
                                         resumes |-> FALSE]>> ELSE <<>>)
                  \o <<[op |-> "resume"]>>
  /\ UNCHANGED <<hasVsync, scheduler, vq, nudge, live, issued, visible, r, loop,
                 gpu, waiter, raf>>

-----------------------------------------------------------------------------
(* handle_one_cmd, on the render thread's own state. *)

IsLive(g) == g # 0 /\ g = live

ApplyResume(s) ==
  IF s.paused THEN [s EXCEPT !.paused = FALSE, !.armed = FALSE, !.dirty = TRUE,
                             !.system = OnResume(s.system)]
  ELSE s

ApplyPause(s) ==
  IF s.paused THEN s
  ELSE [s EXCEPT !.paused = TRUE, !.armed = FALSE, !.system = OnPause(s.system)]

Unpresentable(s) ==
  [s EXCEPT !.system = OnSurfaceDestroyed(s.system),
            !.armed = IF hasVsync THEN FALSE ELSE s.armed]

ApplyDestroyed(s, g) ==
  IF s.bound = g /\ ~IsLive(g) THEN Unpresentable(s) ELSE s

\* The preflight refuses a generation that is not live and leaves the thread as it
\* was.  The install of a live one succeeds here (HostForeground has the failures),
\* and the host answers it with the resume of a shown session.
ApplyRecreate(s, g, resumes) ==
  LET installed == [s EXCEPT !.bound = g, !.dirty = TRUE,
                             !.armed = IF hasVsync THEN FALSE ELSE s.armed,
                             !.system = OnSurfaceAvailable(s.system)]
  IN IF ~IsLive(g) THEN s
     ELSE IF resumes THEN ApplyResume(installed) ELSE installed

Apply(s, c) ==
  CASE c.op = "pause"     -> ApplyPause(s)
    [] c.op = "resume"    -> ApplyResume(s)
    [] c.op = "destroyed" -> ApplyDestroyed(s, c.generation)
    [] c.op = "recreate"  -> ApplyRecreate(s, c.generation, c.resumes)
    [] c.op = "draw"      -> [s EXCEPT !.dirty = TRUE]
    [] c.op = "load"      -> s

\* drain_cmds: everything queued, within the budget.
Drained(s) == FoldLeft(Apply, s, cmds)

\* LoadImage hands its pixels to the upload thread.
Submitted(u) ==
  IF \E i \in DOMAIN cmds : cmds[i].op = "load" THEN "inflight" ELSE u

\* drain_upload_completed: a signalled fence registers its texture.
UploadDrained(u) == IF u = "fenced" THEN "none" ELSE u

-----------------------------------------------------------------------------
(* The render loop. *)

\* raf_demand_remains, or an open warm window.
Demand(s, isWarm, u) ==
  isWarm \/ waiter # 0 \/ s.dirty \/ u # "none" \/ recover'

\* Fault: every frame asks for the next one.
ShouldArmIdle(s, isWarm, u) ==
  /\ ~s.paused /\ ~s.armed
  /\ hasVsync => CanPresent(s.system)

\* should_arm_one_shot, should_arm_engine_paced
ShouldArm(s, isWarm, u) ==
  /\ ~s.paused /\ ~s.armed
  /\ hasVsync => CanPresent(s.system)
  /\ Demand(s, isWarm, u)

ArmIfNeeded(s, isWarm, u) ==
  /\ r' = [s EXCEPT !.armed = s.armed \/ ShouldArm(s, isWarm, u)]
  /\ msgs' = IF hasVsync /\ ShouldArm(s, isWarm, u) THEN msgs + 1 ELSE msgs

\* The top of the loop has work only while a context is lost.
LoopEnd == rpc' = IF recover' THEN "top" ELSE "wait"

\* The deferred context recovery at the top of the loop.
LoopTop ==
  /\ rpc = "top" /\ rpc' = "wait"
  /\ \/ IsLive(r.bound) /\ recover' = FALSE /\ r' = [r EXCEPT !.dirty = TRUE]
     \/ UNCHANGED <<recover, r>>
  /\ UNCHANGED <<hasVsync, scheduler, vq, nudge, surface, cmds, ticket,
                 animating, warm, skips, upload, demand, raf, js>>

\* The first half of a frame: consume the waiter, keep the warm window.
BeginFrame ==
  LET found == waiter # 0
      window == IF found THEN WarmFrames ELSE IF warm > 0 THEN warm - 1 ELSE 0
  IN /\ waiter' = 0 /\ warm' = window
     /\ animating' = (found \/ window > 0)
     /\ ticket' = IF animating' /\ ~r.paused THEN session ELSE 0
     /\ rpc' = IF ticket' # 0 THEN "signal" ELSE "frame"

WakeVsync ==
  /\ rpc = "wait" /\ vq > 0 /\ vq' = vq - 1
  /\ r' = [r EXCEPT !.armed = FALSE]
  /\ skips' = 0 /\ BeginFrame
  /\ UNCHANGED <<hasVsync, scheduler, nudge, surface, cmds, gpu, session,
                 raf, js>>

\* The frame scheduler skips a tick ahead of the next deadline.
WakeVsyncSkipped ==
  /\ rpc = "wait" /\ vq > 0 /\ vq' = vq - 1
  /\ skips < MaxSkips /\ skips' = skips + 1
  /\ upload' = UploadDrained(upload)
  /\ UNCHANGED recover
  /\ \E ticked \in {[r EXCEPT !.armed = FALSE]} :
       ArmIfNeeded(ticked, warm > 0, upload')
  /\ LoopEnd
  /\ UNCHANGED <<java, hasVsync, nudge, surface, cmds, ticket, animating,
                 warm, demand, raf, js>>

WakeFrameDeadline ==
  /\ rpc = "wait" /\ ~hasVsync /\ r.armed
  /\ r' = [r EXCEPT !.armed = FALSE]
  /\ BeginFrame
  /\ UNCHANGED <<hasVsync, scheduler, vq, nudge, surface, cmds, skips, gpu,
                 session, raf, js>>

\* signal_raf: Android's eventfd keeps the newest frame, a full channel drops it.
SignalRaf ==
  /\ rpc = "signal" /\ rpc' = "frame" /\ ticket' = 0
  /\ raf' = IF hasVsync THEN <<ticket>>
            ELSE IF Len(raf) < Capacity THEN Append(raf, ticket) ELSE raf
  /\ UNCHANGED <<hasVsync, scheduler, vq, nudge, surface, cmds, r, animating,
                 warm, skips, gpu, demand, js>>

\* present_frame: a frame whose Surface is gone finds out here.
Presented(s) ==
  IF ~IsLive(s.bound) THEN [s EXCEPT !.system = OnSurfaceDestroyed(@)]
  ELSE [s EXCEPT !.dirty = @ /\ ~CanPresent(s.system)]

\* The second half: drain, upload, present, arm.  A swap, or the reset poll
\* before it, may find the GL context lost.
PresentFrame ==
  /\ rpc = "frame"
  /\ cmds' = <<>>
  /\ upload' = UploadDrained(Submitted(upload))
  /\ \/ UNCHANGED <<recover, ops>>
     \/ ops < MaxOps /\ ops' = ops + 1 /\ recover' = TRUE
  /\ \E drained \in {Drained(r)} : \E shown \in {Presented(drained)} :
       ArmIfNeeded(shown, animating, upload')
  /\ LoopEnd
  /\ animating' = FALSE
  /\ UNCHANGED <<java, hasVsync, vq, nudge, live, issued, visible, ticket, warm,
                 skips, demand, raf, js>>

WakeFrameDemand ==
  /\ rpc = "wait" /\ nudge = 1 /\ nudge' = 0
  /\ UNCHANGED <<upload, recover>>
  /\ ArmIfNeeded(r, warm > 0, upload)
  /\ LoopEnd
  /\ UNCHANGED <<java, hasVsync, vq, surface, cmds, ticket, animating, warm,
                 skips, demand, raf, js>>

WakeCommand ==
  /\ rpc = "wait" /\ cmds # <<>> /\ cmds' = <<>>
  /\ upload' = UploadDrained(Submitted(upload)) /\ UNCHANGED recover
  /\ \E drained \in {Drained(r)} : ArmIfNeeded(drained, FALSE, upload')
  /\ LoopEnd
  /\ UNCHANGED <<java, hasVsync, vq, nudge, surface, ticket, animating, warm,
                 skips, demand, raf, js>>

\* ReleaseOnscreen of the retired generation, on the surface control wakeup.
WakeSurfaceControl ==
  /\ rpc = "wait" /\ r.bound # 0 /\ ~IsLive(r.bound)
  /\ r' = [Unpresentable(r) EXCEPT !.bound = 0]
  /\ UNCHANGED recover /\ LoopEnd
  /\ UNCHANGED <<hasVsync, scheduler, vq, nudge, surface, cmds, ticket,
                 animating, warm, skips, upload, demand, raf, js>>

RenderStep ==
  \/ LoopTop \/ WakeVsync \/ WakeVsyncSkipped \/ WakeFrameDeadline \/ SignalRaf
  \/ PresentFrame \/ WakeFrameDemand \/ WakeCommand \/ WakeSurfaceControl

UploadFenced ==
  /\ upload = "inflight" /\ upload' = "fenced"
  /\ UNCHANGED <<hasVsync, scheduler, vq, nudge, surface, cmds, r, loop,
                 recover, demand, raf, js>>

-----------------------------------------------------------------------------
(* The JavaScript thread. *)

\* A script, or a frame's callbacks, may draw or load an image, and return; the
\* loop awaits another frame only while callbacks are queued.  One upload at a time.
JsRun ==
  /\ js = "run" /\ js' = "idle"
  /\ \E commands \in {<<>>, <<[op |-> "draw"]>>, <<[op |-> "load"]>>} :
       /\ commands = <<>> \/ Len(cmds) < MaxCommands
       /\ commands = <<[op |-> "load"]>>
            => upload = "none" /\ \A i \in DOMAIN cmds : cmds[i].op # "load"
       /\ cmds' = cmds \o commands
  /\ UNCHANGED <<hasVsync, scheduler, vq, nudge, surface, r, loop, gpu, demand, raf>>

\* raf_publish_demand_and_arm publishes first ...
JsMarkWaiting ==
  /\ js = "idle" /\ js' = "marked"
  /\ waiter' = session
  /\ UNCHANGED <<hasVsync, scheduler, vq, nudge, surface, cmds, r, loop, gpu,
                 session, raf>>

\* Fault: the loop awaits without arming the clock.
JsArmMissing ==
  /\ js = "marked" /\ js' = "await"
  /\ UNCHANGED <<java, msgs, nudge, hasVsync, vq, surface, cmds, r, loop,
                 gpu, demand, raf>>

\* ... and arms second.
JsArm ==
  /\ js = "marked" /\ js' = "await" /\ msgs < MaxRequests
  /\ Arm
  /\ UNCHANGED <<java, hasVsync, vq, surface, cmds, r, loop, gpu, demand, raf>>

\* recv: the newest frame, if it is not older than this isolate.
JsReceive ==
  /\ js = "await" /\ raf # <<>> /\ raf' = <<>>
  /\ js' = IF raf[Len(raf)] >= session THEN "run" ELSE "await"
  /\ UNCHANGED <<hasVsync, scheduler, vq, nudge, surface, cmds, r, loop, gpu,
                 demand>>

JsStep ==
  JsRun \/ JsMarkWaiting \/ JsArm \/ JsReceive

PlatformStep ==
  \/ Register \/ HandleRequest \/ DoFrame \/ StrayTick
  \/ Pause \/ Resume \/ UpdateSurface \/ SurfaceDestroyed

Next ==
  PlatformStep \/ Restart \/ RenderStep \/ UploadFenced \/ JsStep

Spec == Init /\ [][Next]_vars

\* Every thread keeps running: the main looper, with the callbacks it posts to
\* the display, the render thread, the upload thread and JavaScript.  The game is
\* free never to ask for another frame, and the platform never to act again.
Fairness ==
  /\ WF_vars(Register \/ HandleRequest \/ DoFrame)
  /\ WF_vars(RenderStep) /\ WF_vars(UploadFenced) /\ WF_vars(JsArm \/ JsReceive)

FairSpec == Spec /\ Fairness

-----------------------------------------------------------------------------
(* Properties. *)

Commands ==
  [op : {"pause", "resume", "draw", "load"}] \cup
  [op : {"destroyed"}, generation : Generations] \cup
  [op : {"recreate"}, generation : Generations, resumes : BOOLEAN]

\* The latch of the render thread (vsync_armed) never outlives its request: once
\* the session is registered, a request it will not repeat is somewhere on its
\* way, through every pause, surface loss and retained demand of the Java side.
LatchIsBacked ==
  hasVsync /\ r.armed /\ java.registered
    => msgs > 0 \/ java.posted \/ java.requested \/ vq > 0

\* The session is shown with a live Surface.
Foreground == visible /\ live # 0 /\ java.registered

\* A demand in the foreground is taken by a frame: the publication, the request and
\* the render thread's latch leave none waiting on a clock that has stopped.
DemandTaken == []<>(waiter = 0 \/ ~Foreground)

\* A session in the foreground serves every requestAnimationFrame: RafDemand's
\* comment has the render thread restore the demand of a failed signal.
RafServed == []<>(js # "await" \/ ~Foreground)

\* Pending work lands without the game's help: content drawn in the foreground is
\* presented, through losses of the context and of the Surface, and an upload
\* completes, since the clock keeps polling its fence, in the foreground and,
\* engine-paced, before there is a Surface too.
PendingLands ==
  LET pollable == Foreground \/ (~hasVsync /\ ~r.paused)
  IN /\ []<>~(r.dirty /\ Foreground)
     /\ []<>~(upload # "none" /\ pollable)

\* Nothing is scheduled: neither a request, nor a callback, nor a deadline.
ClockIdle ==
  msgs = 0 /\ ~java.posted /\ vq = 0 /\ (hasVsync \/ ~r.armed)

\* The clock stops: a game in the foreground that no longer asks for frames,
\* with its content presented, ends up with nothing scheduled at all.
ClockStops ==
  <>[](js = "idle" /\ ~recover /\ Foreground) => <>[]ClockIdle

=============================================================================
