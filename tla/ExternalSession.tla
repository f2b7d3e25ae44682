--------------------------- MODULE ExternalSession --------------------------
(***************************************************************************)
(* A session whose frames come from another process                        *)
(* (core/src/runtime/external.rs, frame-wire/src/{ingress,pool}.rs,        *)
(* capi/src/{external_frames,surface,lib}.rs).                             *)
(*                                                                         *)
(* The transport thread submits packets and asks for frames, one call at a *)
(* time under the session's state lock.  The session thread handles the    *)
(* host's commands, the render thread's events and its frame signals.  The *)
(* render thread signals first and executes its queue afterwards.  The     *)
(* host thread attaches and detaches surfaces and sets the visibility.     *)
(* A frame is its sequence number; which fields of a packet are wrong is   *)
(* told apart only as far as the ingress tells it apart.                   *)
(***************************************************************************)
EXTENDS Naturals, Sequences, FiniteSets

CONSTANTS MaxCredits,      \* DEFAULT_MAX_CREDITS: 2
          WarmFrames,      \* frames that signal after the last waiter
          MaxGeneration,   \* bound on the surface generations
          MaxOps,          \* bound on the host's operations and the losses
          MaxWork,         \* bound on three for each frame, five for each operation
          MaxLosses,       \* bound on the context losses
          NormalCapacity   \* HOST_NORMAL_COMMAND_CAPACITY: 512

ASSUME ExternalAssumption ==
  /\ MaxCredits \in Nat \ {0} /\ WarmFrames \in Nat \ {0}
  /\ MaxGeneration \in Nat \ {0}
  /\ MaxOps \in Nat /\ MaxWork \in Nat /\ MaxLosses \in Nat
  /\ NormalCapacity \in Nat \ {0}

VARIABLES
  ingress,      \* FrameIngress: surface, epoch, ready, last accepted sequence
  credits,      \* CreditWindow.in_flight
  submit,       \* where the transport thread is in submit_frame, and with what
  blocked,      \* the last packet was answered WouldBlock
  held,         \* RenderDispatch.in_flight
  rq,           \* the render queue
  render,       \* the render thread: paused, the generation bound (0: none),
                \* the newest generation ever bound
  executed,     \* the last frame executed
  waiter,       \* RafDemand: a producer waits for a frame
  warm,         \* frames left to signal without a waiter
  raf,          \* the frame signal, coalesced
  owes,         \* the frame has signalled and its drain is not over
  session,      \* where the session thread is
  inbox,        \* host commands, in order
  slot,         \* SurfaceAttachmentSlot.current, 0 when empty
  reply,        \* the response of the recreate waited for
  late,         \* an update has given up waiting for its recreate
  events,       \* ContextLost events not drained yet
  losses,       \* contexts lost so far
  reporting,    \* the render thread has retired a surface and not reported it yet
  stray,        \* history: the report came after a newer surface was attached
  live, issued, \* the live surface generation (0: none), the newest one
  owned,        \* internal_generation of the C API's last attachment
  attached,     \* that attachment: "none", "attaching", "active"
  visibility,   \* SessionState.visibility
  closing,      \* the host has asked for the shutdown
  ops           \* host operations so far

producer == <<credits, submit, blocked, held>>
thread == <<rq, render, executed, owes>>
clock == <<waiter, warm, raf>>
host == <<live, issued, owned, attached, visibility, closing, ops>>
loop == <<session, inbox, slot, reply, late>>
context == <<events, losses, reporting, stray>>
vars == <<ingress, producer, thread, clock, loop, context, host>>

Generations == 1..MaxGeneration
MaxSequence == MaxWork \div 3
Sequences == 1..MaxSequence
Epochs == 0..MaxLosses

Idle == [at |-> "idle", sequence |-> 0, surface |-> 0]

Commands ==
  [op : {"show", "hide", "lost", "input", "shutdown"}] \cup
  [op : {"update", "destroyed"}, generation : Generations]

RenderCommands ==
  [op : {"pause", "resume"}] \cup [op : {"frame"}, sequence : Sequences] \cup
  [op : {"recreate", "destroyed"}, generation : Generations]

\* spawn returns once the render thread is up with the first attach's Surface.
Init ==
  /\ ingress = [surface |-> 0, epoch |-> 0, ready |-> FALSE, last |-> 0]
  /\ credits = 0 /\ submit = Idle /\ blocked = FALSE /\ held = <<>>
  /\ rq = <<>> /\ executed = 0 /\ owes = FALSE
  /\ render = [paused |-> FALSE, bound |-> 1, newest |-> 1]
  /\ waiter = FALSE /\ warm = 0 /\ raf = FALSE
  /\ session = "select" /\ inbox = <<>> /\ slot = 1 /\ reply = "none" /\ late = FALSE
  /\ events = 0 /\ losses = 0 /\ reporting = FALSE /\ stray = FALSE
  /\ live = 1 /\ issued = 1 /\ owned = 1 /\ attached = "active" /\ visibility = "unset"
  /\ closing = FALSE /\ ops = 0

Alive == session # "exited"

\* One more frame, or one more operation of the host, stays within the bounds;
\* before the first frame only MaxOps bounds the operations.
Fits(frames, operations) ==
  \/ ingress.last + frames = 0
  \/ 3 * (ingress.last + frames) + 5 * (ops + operations) <= MaxWork

-----------------------------------------------------------------------------
(* The transport thread: migo_session_submit_frame and request_frame. *)

\* The next sequence number, a repeated one and one too far.
Packets ==
  [sequence : {ingress.last, ingress.last + 1, ingress.last + 2},
   surface : 0..issued, epoch : 0..losses, names : BOOLEAN]

\* Fault: the ingress takes a sequence it has seen.
LegalReplay(p) ==
  /\ ingress.surface # 0 => p.surface = ingress.surface
  /\ p.epoch = ingress.epoch
  /\ p.names => ingress.ready
  /\ p.sequence \in {ingress.last, ingress.last + 1}

\* The checks of FrameIngress::submit before the credit.
Legal(p) ==
  /\ ingress.surface # 0 => p.surface = ingress.surface
  /\ p.epoch = ingress.epoch
  /\ p.names => ingress.ready
  /\ p.sequence = ingress.last + 1

\* CreditWindow::try_acquire finds a credit.
TryAcquire == credits < MaxCredits

\* try_acquire, the copy, and the sequence number.
SubmitAccepted(p) ==
  /\ submit = Idle /\ Legal(p) /\ TryAcquire /\ Fits(1, 0)
  /\ credits' = credits + 1 /\ blocked' = FALSE
  /\ ingress' = [ingress EXCEPT !.last = p.sequence]
  /\ submit' = [at |-> "decode", sequence |-> p.sequence, surface |-> p.surface]
  /\ UNCHANGED <<held, thread, clock, loop, context, host>>

\* WouldBlock consumes nothing; a refusal says no more than that it was one.
SubmitRefused(p) ==
  /\ submit = Idle /\ ~(Legal(p) /\ TryAcquire)
  /\ blocked' = Legal(p)
  /\ UNCHANGED <<ingress, credits, submit, held, thread, clock, loop, context,
                 host>>

\* render: the stream does not decode, or the renderer is unreachable.  The
\* frame is dropped, which returns its credit.
RenderFails ==
  /\ submit.at = "decode"
  /\ credits' = credits - 1 /\ submit' = Idle
  /\ UNCHANGED <<ingress, blocked, held, thread, clock, loop, context, host>>

\* render: decoded and dispatched.
Dispatch ==
  /\ submit.at = "decode" /\ Alive
  /\ rq' = Append(rq, [op |-> "frame", sequence |-> submit.sequence])
  /\ submit' = [submit EXCEPT !.at = "hold"]
  /\ UNCHANGED <<ingress, credits, blocked, held, render, executed, owes, clock,
                 loop, context, host>>

\* render: the frame joins in_flight once it is dispatched.
Hold ==
  /\ submit.at = "hold"
  /\ held' = Append(held, submit.sequence) /\ submit' = Idle
  /\ UNCHANGED <<ingress, credits, blocked, thread, clock, loop, context, host>>

\* ExternalFrameClock::request_frame
RequestFrame ==
  /\ submit = Idle /\ Alive
  /\ waiter' = TRUE
  /\ UNCHANGED <<ingress, producer, thread, warm, raf, loop, context, host>>

-----------------------------------------------------------------------------
(* The host thread: surfaces and visibility through the C API. *)

Operate == ~closing /\ ops < MaxOps /\ Fits(0, 1) /\ ops' = ops + 1

\* The reliable lane takes every command; the normal one has a budget.
Reliable(command) == inbox' = Append(inbox, command)

Normals == {i \in DOMAIN inbox : inbox[i].op \in {"input", "shutdown"}}

TrySend(command) ==
  inbox' = IF Cardinality(Normals) < NormalCapacity THEN Append(inbox, command)
           ELSE inbox

VisibilityCommand(v) == [op |-> IF v = "shown" THEN "show" ELSE "hide"]

\* Fault: the visibility goes through the normal lane, which may be full.
SetVisibilityNormal(v) ==
  /\ Operate /\ visibility' = v
  /\ \/ attached = "active" /\ TrySend(VisibilityCommand(v))
     \/ attached # "active" /\ UNCHANGED inbox
  /\ stray' = FALSE
  /\ UNCHANGED <<ingress, producer, thread, clock, session, slot, reply, late, events,
                 losses, reporting, live, issued, owned, attached, closing>>

\* drive_visibility_locked: remembered, and sent once there is an attachment.
SetVisibility(v) ==
  /\ Operate /\ visibility' = v
  /\ \/ attached = "active" /\ Reliable(VisibilityCommand(v))
     \/ attached # "active" /\ UNCHANGED inbox
  /\ stray' = FALSE
  /\ UNCHANGED <<ingress, producer, thread, clock, session, slot, reply, late, events,
                 losses, reporting, live, issued, owned, attached, closing>>

\* migo_session_attach_surface, up to the command.
AttachBegin ==
  /\ Operate /\ attached = "none" /\ live = 0 /\ issued < MaxGeneration
  /\ issued' = issued + 1 /\ live' = issued + 1 /\ owned' = issued + 1
  /\ attached' = "attaching"
  /\ Reliable([op |-> "update", generation |-> issued + 1])
  /\ UNCHANGED <<ingress, producer, thread, clock, session, slot, reply, late, context,
                 visibility, closing>>

\* The attach commits, and repeats the visibility set before it.
AttachCommit ==
  /\ attached = "attaching" /\ attached' = "active"
  /\ \/ visibility # "unset" /\ Reliable(VisibilityCommand(visibility))
     \/ visibility = "unset" /\ UNCHANGED inbox
  /\ UNCHANGED <<ingress, producer, thread, clock, session, slot, reply, late, context,
                 live, issued, owned, visibility, closing, ops>>

\* The attachment's own generation is the live one.
Current == live # 0 /\ live = owned

\* migo_surface_update: a resize leases the live generation again.
SurfaceUpdate ==
  /\ Operate /\ attached = "active" /\ Current
  /\ Reliable([op |-> "update", generation |-> live])
  /\ UNCHANGED <<ingress, producer, thread, clock, session, slot, reply, late, context,
                 live, issued, owned, attached, visibility, closing>>

\* The same call after the generation was retired, which this session never tells
\* the C API: the token it leases is a new live generation, and the call fails.
SurfaceUpdateFails ==
  /\ Operate /\ attached = "active" /\ ~Current
  /\ \/ live = 0 /\ issued < MaxGeneration /\ issued' = issued + 1 /\ live' = issued + 1
     \/ live # 0 /\ UNCHANGED <<issued, live>>
  /\ UNCHANGED <<ingress, producer, thread, clock, loop, context, owned, attached,
                 visibility, closing>>

\* migo_surface_begin_detach: what is live is retired before the session hears of
\* it, and the command names the attachment's generation.
Detach ==
  /\ Operate /\ attached = "active" /\ attached' = "none" /\ live' = 0
  /\ stray' = FALSE
  /\ Reliable([op |-> "destroyed", generation |-> owned])
  /\ UNCHANGED <<ingress, producer, thread, clock, session, slot, reply, late, events,
                 losses, reporting, issued, owned, visibility, closing>>

\* The host declares the resources verified; the call names no epoch.
MarkResourcesReady ==
  /\ Operate
  /\ ingress' = [ingress EXCEPT !.ready = TRUE]
  /\ UNCHANGED <<producer, thread, clock, loop, context, live, issued, owned, attached,
                 visibility, closing>>

\* Input and the like; there is no consumer in this session.
SendInput ==
  /\ Operate
  /\ TrySend([op |-> "input"])
  /\ UNCHANGED <<ingress, producer, thread, clock, session, slot, reply, late, context,
                 live, issued, owned, attached, visibility, closing>>

\* shutdown_host: the gate shuts and retires, and the nudge may not fit.
Shutdown ==
  /\ Operate /\ closing' = TRUE /\ live' = 0
  /\ TrySend([op |-> "shutdown"])
  /\ UNCHANGED <<ingress, producer, thread, clock, session, slot, reply, late, context,
                 issued, owned, attached, visibility>>

-----------------------------------------------------------------------------
(* The session thread: run_external_session's select loop. *)

Take(op) ==
  /\ session = "select" /\ inbox # <<>> /\ Head(inbox).op = op
  /\ inbox' = Tail(inbox)

HasLiveSurface == slot # 0 /\ slot = live

\* set_surface_generation: never backwards.
SetSurfaceGeneration(g) ==
  ingress' = [ingress EXCEPT !.surface = IF g < ingress.surface THEN @ ELSE g]

\* Fault: the renderer is told and the ingress is not.
HandleUpdateRenderOnly ==
  /\ Take("update")
  /\ session' = "publish"
  /\ rq' = Append(rq, [op |-> "recreate", generation |-> Head(inbox).generation])
  /\ UNCHANGED <<ingress, producer, render, executed, owes, clock, slot, reply, late,
                 context, host>>

\* UpdateSurface: the ingress moves before the renderer is told.
HandleUpdate ==
  /\ Take("update")
  /\ SetSurfaceGeneration(Head(inbox).generation)
  /\ session' = "publish"
  /\ UNCHANGED <<producer, thread, clock, slot, reply, late, context, host>>

\* The generation that is being installed: the ingress took it just before.
Candidate == ingress.surface

\* RenderService::update_surface up to its wait; a retired lease is refused.
Publish ==
  /\ session = "publish"
  /\ \/ /\ Candidate = live /\ session' = "wait"
        /\ rq' = Append(rq, [op |-> "recreate", generation |-> Candidate])
     \/ Candidate # live /\ session' = "select" /\ UNCHANGED rq
  /\ UNCHANGED <<ingress, producer, render, executed, owes, clock, inbox, slot,
                 reply, late, context, host>>

\* The wait ends; a lease retired meanwhile is not committed.
UpdateReplied ==
  /\ session = "wait" /\ reply # "none"
  /\ reply' = "none" /\ session' = "select"
  /\ slot' = IF reply = "ok" /\ Candidate = live THEN Candidate ELSE slot
  /\ UNCHANGED <<ingress, producer, thread, clock, inbox, late, context, host>>

\* RECREATE_ONSCREEN_TIMEOUT: the update fails, its recreate stays queued.  One
\* such timeout is the bound here.
UpdateTimeout ==
  /\ session = "wait" /\ reply = "none" /\ ~late
  /\ late' = TRUE /\ session' = "select"
  /\ UNCHANGED <<ingress, producer, thread, clock, inbox, slot, reply, context,
                 host>>

\* SurfaceDestroyed: only the generation the slot holds crosses.
HandleDestroyed ==
  /\ Take("destroyed")
  /\ \/ slot = Head(inbox).generation /\ slot' = 0 /\ rq' = Append(rq, Head(inbox))
     \/ slot # Head(inbox).generation /\ UNCHANGED <<slot, rq>>
  /\ UNCHANGED <<ingress, producer, render, executed, owes, clock, session, reply, late,
                 context, host>>

\* SurfaceLost and OnHide both pause the renderer.
HandlePause ==
  /\ Take("hide") \/ Take("lost")
  /\ rq' = Append(rq, [op |-> "pause"])
  /\ UNCHANGED <<ingress, producer, render, executed, owes, clock, session, slot,
                 reply, late, context, host>>

\* OnShow resumes only against a live surface.
HandleShow ==
  /\ Take("show")
  /\ rq' = IF HasLiveSurface THEN Append(rq, [op |-> "resume"]) ELSE rq
  /\ UNCHANGED <<ingress, producer, render, executed, owes, clock, session, slot,
                 reply, late, context, host>>

HandleInput ==
  /\ Take("input")
  /\ UNCHANGED <<ingress, producer, thread, clock, session, slot, reply, late, context,
                 host>>

HandleShutdown ==
  /\ Take("shutdown") /\ session' = "exited"
  /\ UNCHANGED <<ingress, producer, thread, clock, slot, reply, late, context, host>>

\* drain_render_events: one epoch per loss, and nothing is ready in a new one.
DrainEvents ==
  /\ session = "select" /\ events > 0
  /\ events' = 0
  /\ ingress' = [ingress EXCEPT !.epoch = @ + events, !.ready = FALSE]
  /\ UNCHANGED <<producer, thread, clock, loop, losses, reporting, stray, host>>

\* Fault: a signal releases every frame held.
FrameSignalReleasesAll ==
  /\ session = "select" /\ raf /\ raf' = FALSE
  /\ credits' = credits - Len(held) /\ held' = <<>>
  /\ UNCHANGED <<ingress, submit, blocked, thread, waiter, warm, loop, context,
                 host>>

\* Fault: a signal forgets the frame and keeps its credit.
FrameSignalLeaks ==
  /\ session = "select" /\ raf /\ raf' = FALSE
  /\ held' = IF held = <<>> THEN held ELSE Tail(held)
  /\ UNCHANGED <<ingress, credits, submit, blocked, thread, waiter, warm, loop,
                 context, host>>

\* A frame signal releases exactly one held frame.
FrameSignal ==
  /\ session = "select" /\ raf /\ raf' = FALSE
  /\ \/ held # <<>> /\ held' = Tail(held) /\ credits' = credits - 1
     \/ held = <<>> /\ UNCHANGED <<held, credits>>
  /\ UNCHANGED <<ingress, submit, blocked, thread, waiter, warm, loop, context,
                 host>>

SessionStep ==
  \/ HandleUpdate \/ Publish \/ UpdateReplied \/ UpdateTimeout \/ HandleDestroyed
  \/ HandlePause \/ HandleShow \/ HandleInput \/ HandleShutdown \/ DrainEvents \/ FrameSignal

-----------------------------------------------------------------------------
(* The render thread. *)

\* Fault: the frame that takes the waiter counts as one of those after it.
TickShort ==
  /\ Alive /\ ~reporting /\ ~owes /\ (waiter \/ warm > 0)
  /\ waiter' = FALSE
  /\ warm' = IF waiter THEN WarmFrames - 1 ELSE warm - 1
  /\ raf' = (raf \/ (warm' > 0 /\ ~render.paused))
  /\ owes' = (rq # <<>>)
  /\ UNCHANGED <<ingress, producer, rq, render, executed, loop, context, host>>

\* A frame: signal the waiter, or one of the frames after it, before the drain.
\* A paused frame takes the waiter and signals nobody.
Tick ==
  /\ Alive /\ ~reporting /\ ~owes /\ (waiter \/ warm > 0)
  /\ waiter' = FALSE
  /\ warm' = IF waiter THEN WarmFrames ELSE warm - 1
  /\ raf' = (raf \/ (warm' > 0 /\ ~render.paused))
  /\ owes' = (rq # <<>>)
  /\ UNCHANGED <<ingress, producer, rq, render, executed, loop, context, host>>

\* drain_cmds takes the oldest command, and goes on until the queue is empty.
Drained(op) ==
  /\ Alive /\ ~reporting /\ rq # <<>> /\ Head(rq).op = op
  /\ rq' = Tail(rq) /\ owes' = (owes /\ rq' # <<>>)

ExecuteFrame ==
  /\ Drained("frame")
  /\ executed' = Head(rq).sequence
  /\ UNCHANGED <<ingress, producer, render, clock, loop, context, host>>

ExecuteLevel ==
  /\ Drained("pause") \/ Drained("resume")
  /\ render' = [render EXCEPT !.paused = (Head(rq).op = "pause")]
  /\ UNCHANGED <<ingress, producer, executed, clock, loop, context, host>>

ExecuteDestroyed ==
  /\ Drained("destroyed")
  /\ render' = [render EXCEPT
       !.bound = IF @ = Head(rq).generation THEN 0 ELSE @]
  /\ UNCHANGED <<ingress, producer, executed, clock, loop, context, host>>

\* The session still waits for the recreate at the head of the queue.
Awaited ==
  session = "wait" /\ \A i \in DOMAIN rq : i > 1 => rq[i].op # "recreate"

Answer(outcome) == reply' = IF Awaited THEN outcome ELSE reply

\* The recreate installs a generation that is still live.
ExecuteRecreate ==
  /\ Drained("recreate")
  /\ LET g == Head(rq).generation
     IN \/ /\ g = live /\ Answer("ok")
           /\ render' = [render EXCEPT !.bound = g, !.newest = g]
        \/ g # live /\ Answer("failed") /\ UNCHANGED render
  /\ UNCHANGED <<ingress, producer, executed, clock, session, inbox, slot, late, context,
                 host>>

\* retire_unexpected_surface: a swap finds the native target gone, or the recreate
\* at the head of the queue fails to install it.  The generation is retired first ...
SurfaceLost ==
  /\ Operate /\ Alive /\ ~reporting /\ live # 0
  /\ \/ render.bound = live
     \/ rq # <<>> /\ Head(rq) = [op |-> "recreate", generation |-> live]
  /\ live' = 0 /\ reporting' = TRUE
  /\ UNCHANGED <<ingress, producer, thread, clock, loop, events, losses, stray, issued,
                 owned, attached, visibility, closing>>

\* ... and reported next, by which time another surface may be attached; the render
\* thread does nothing in between.  The recreate that failed is answered afterwards.
Report ==
  /\ reporting /\ reporting' = FALSE
  /\ Reliable([op |-> "lost"])
  /\ stray' = (stray \/ (attached = "active" /\ Current))
  /\ UNCHANGED <<ingress, producer, thread, clock, session, slot, reply, late, events,
                 losses, host>>

\* set_lost is edge-triggered: one event per loss.
ContextLost ==
  /\ Operate /\ Alive /\ ~reporting /\ losses < MaxLosses
  /\ losses' = losses + 1 /\ events' = events + 1
  /\ UNCHANGED <<ingress, producer, thread, clock, loop, reporting, stray, live, issued,
                 owned, attached, visibility, closing>>

Execute == ExecuteFrame \/ ExecuteLevel \/ ExecuteDestroyed \/ ExecuteRecreate

LossStep == SurfaceLost \/ Report \/ ContextLost

ProducerStep ==
  \/ \E p \in Packets : SubmitAccepted(p) \/ SubmitRefused(p)
  \/ RequestFrame

HostStep ==
  \/ \E v \in {"shown", "hidden"} : SetVisibility(v)
  \/ AttachBegin \/ AttachCommit \/ SurfaceUpdate \/ SurfaceUpdateFails \/ Detach
  \/ MarkResourcesReady \/ SendInput \/ Shutdown

Next ==
  \/ ProducerStep \/ RenderFails \/ Dispatch \/ Hold
  \/ HostStep \/ SessionStep \/ Tick \/ Execute \/ LossStep

Spec == Init /\ [][Next]_vars

\* The renderer holds the attached surface.
Presenting == attached = "active" /\ Current /\ render.bound = live

\* Every thread of the engine keeps running; the producer and the host need not.
\* A frame is owed only to a running renderer that presents: a host that paces the
\* session has its ticks refused while nothing is attached, and the recreate that
\* installs the next surface asks for one again.
FairSpec ==
  /\ Spec
  /\ WF_vars(RenderFails \/ Dispatch \/ Hold) /\ WF_vars(AttachCommit)
  /\ WF_vars(HandleUpdate \/ Publish \/ UpdateReplied \/ HandleDestroyed
             \/ HandlePause \/ HandleShow \/ HandleInput \/ HandleShutdown)
  /\ WF_vars(FrameSignal) /\ WF_vars(DrainEvents)
  /\ WF_vars(Tick /\ ~render.paused /\ Presenting) /\ WF_vars(Execute) /\ WF_vars(Report)

-----------------------------------------------------------------------------

TypeOK ==
  /\ ingress \in [surface : 0..MaxGeneration, epoch : Epochs, ready : BOOLEAN,
                  last : 0..MaxSequence]
  /\ credits \in 0..MaxCredits
  /\ submit \in [at : {"idle", "decode", "hold"}, sequence : 0..MaxSequence,
                 surface : 0..MaxGeneration]
  /\ blocked \in BOOLEAN /\ waiter \in BOOLEAN /\ raf \in BOOLEAN /\ owes \in BOOLEAN
  /\ held \in Seq(Sequences) /\ rq \in Seq(RenderCommands) /\ inbox \in Seq(Commands)
  /\ render \in [paused : BOOLEAN, bound : 0..MaxGeneration, newest : Generations]
  /\ executed \in 0..MaxSequence /\ warm \in 0..WarmFrames
  /\ session \in {"select", "publish", "wait", "exited"}
  /\ slot \in 0..MaxGeneration /\ reply \in {"none", "ok", "failed"}
  /\ events \in Epochs /\ losses \in Epochs /\ late \in BOOLEAN
  /\ reporting \in BOOLEAN /\ stray \in BOOLEAN
  /\ live \in 0..MaxGeneration /\ issued \in Generations /\ owned \in Generations
  /\ attached \in {"none", "attaching", "active"}
  /\ visibility \in {"unset", "shown", "hidden"} /\ closing \in BOOLEAN
  /\ ops \in 0..MaxOps

\* Every credit taken is the credit of one frame: the one being submitted, or
\* one the session holds until a frame signal.  Neither a packet that fails
\* after it was accepted nor a signal that finds nothing to release loses one.
CreditsExact ==
  credits = Len(held) + IF submit = Idle THEN 0 ELSE 1

Frames == {i \in DOMAIN rq : rq[i].op = "frame"}

\* The render thread executes each accepted frame at most once and in the order
\* of its sequence number, whatever the producer repeats or skips.
FramesInOrder ==
  \A i \in Frames :
    /\ rq[i].sequence > executed
    /\ \A j \in Frames : j < i => rq[j].sequence < rq[i].sequence

\* A credit comes back at the signal, before the drain of the same frame, and a
\* signal may still be waiting for the session thread then.
BacklogBounded == Cardinality(Frames) <= MaxCredits + 2

Settled == session = "select" /\ inbox = <<>> /\ rq = <<>>

\* A shown session whose attached surface is live renders to it once its commands
\* are handled, although OnShow without a live surface is dropped and UpdateSurface
\* never resumes: the attach repeats the visibility.  Two things defeat it.  An update
\* that gave up waiting for its recreate: the OnShow behind it is dropped for good.
\* And a loss reported after the next surface was attached: SurfaceLost pauses
\* whatever is installed, until the visibility is set again.
ForegroundRuns ==
  Settled /\ attached = "active" /\ Current /\ visibility = "shown" /\ ~late /\ ~stray
    => ~render.paused /\ render.bound = live

\* No packet built for an older surface is accepted once the renderer has been
\* given a newer one.
NoFrameForAnOldSurface ==
  [][submit = Idle /\ submit' # Idle /\ render.newest > 1
       => submit'.surface >= render.newest]_vars

\* A producer that was told to wait and asks for a frame gets a credit, unless the
\* session is paused, loses its surface or ends.
BlockedProducerProceeds ==
  blocked /\ waiter ~>
    (credits < MaxCredits \/ render.paused \/ ~Presenting \/ ~Alive)

=============================================================================
