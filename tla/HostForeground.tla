--------------------------- MODULE HostForeground ---------------------------
(***************************************************************************)
(* Foreground, background and restart of one embedded session              *)
(* (core/src/runtime/host.rs, core/src/services/{render,surface_attachment,*)
(* audio}.rs, graphics/src/{surface_system,render_thread}.rs).             *)
(*                                                                         *)
(* The platform thread queues commands, the host thread handles them one   *)
(* at a time and talks to the render thread through a bounded queue.  A    *)
(* send into a full queue waits up to BLOCKING_SEND_DEADLINE and then      *)
(* gives up: here the render thread makes room first, or the command is    *)
(* dropped.  A recreate of the onscreen surface waits for its reply up to  *)
(* RECREATE_ONSCREEN_TIMEOUT.  The generation gate is SurfaceGeneration's: *)
(* one live generation at most, never revived.                             *)
(***************************************************************************)
EXTENDS Naturals, Sequences, SurfaceSystem

CONSTANTS MaxGeneration,   \* bound on the generations issued
          MaxInbox,        \* bound on the commands waiting for the host
          QueueCapacity,   \* CHANNEL_CAPACITY of the render queue
          MaxAttempts      \* attempts of on_update_surface: 3

ASSUME ForegroundAssumption ==
  /\ MaxGeneration \in Nat \ {0} /\ MaxInbox \in Nat \ {0}
  /\ QueueCapacity \in Nat \ {0} /\ MaxAttempts \in Nat \ {0}

VARIABLES
  live, issued,      \* the gate: the live generation (0: none), the newest one
  inbox,             \* host commands, in order
  host,              \* where the host thread is in its handler
  cand, attempts,    \* the generation being installed, and which try this is
  reply,             \* the response channel of the recreate waited for
  slot,              \* SurfaceAttachmentSlot.current, 0 when empty
  visible,           \* backgrounded, as "shown" or "hidden"
  pendingShow,       \* pending_on_show_args is Some
  timers,            \* timer_backgrounded, as "shown" or "hidden"
  audio,             \* AudioService.is_paused, as "paused" or "running"
  rq,                \* the render queue
  render,            \* the render thread's paused, as "paused" or "running"
  system,            \* the render thread's SurfaceSystem
  binding,           \* the generation its binding holds, 0 when none
  staged,            \* RenderSurfaceBinding.pending, and who waits for it
  torelease,         \* the retired generation to release, 0 when none
  dropped,           \* the last Pause or Resume did not fit into the queue
  restarted          \* a restart has ended in the background since the hide

gate == <<live, issued, torelease>>
wait == <<host, cand, attempts, reply>>
levels == <<visible, pendingShow, timers, audio>>
thread == <<render, system, binding, staged>>
vars == <<gate, inbox, wait, slot, levels, rq, thread, dropped, restarted>>

Generations == 1..MaxGeneration

Unstaged == [generation |-> 0, awaited |-> FALSE]

-----------------------------------------------------------------------------

Commands ==
  [op : {"show", "hide", "restart"}] \cup
  [op : {"update", "destroyed"}, generation : Generations]

RenderCommands ==
  [op : {"pause", "resume", "draw"}] \cup
  [op : {"destroyed"}, generation : Generations] \cup
  [op : {"recreate"}, generation : Generations, awaited : BOOLEAN]

\* A session starts with its Surface installed, or warm, without one.
Init ==
  /\ live \in {0, 1} /\ issued = live /\ slot = live /\ binding = live
  /\ system = IF live = 1 THEN [state |-> "ready", sized |-> TRUE]
                          ELSE [state |-> "none", sized |-> FALSE]
  /\ staged = Unstaged /\ torelease = 0
  /\ inbox = <<>> /\ rq = <<>>
  /\ host = "idle" /\ cand = 0 /\ attempts = 0 /\ reply = "none"
  /\ visible = "shown" /\ pendingShow = FALSE /\ timers = "shown"
  /\ audio = "running" /\ render = "running"
  /\ dropped = FALSE /\ restarted = FALSE

IsLive(g) == g # 0 /\ g = live

\* Retiring the live generation also asks the render thread to release it.
RetireLive == live' = 0 /\ torelease' = live

\* has_live_surface, live_lease.
HasLiveSurface == IsLive(slot)

-----------------------------------------------------------------------------
(* The platform thread. *)

Enqueue(command) == Len(inbox) < MaxInbox /\ inbox' = Append(inbox, command)

OnShow ==
  /\ Enqueue([op |-> "show"])
  /\ UNCHANGED <<gate, wait, slot, levels, rq, thread, dropped, restarted>>

OnHide ==
  /\ Enqueue([op |-> "hide"])
  /\ UNCHANGED <<gate, wait, slot, levels, rq, thread, dropped, restarted>>

\* Asked for by the platform, or by the game.
OnRestart ==
  /\ Enqueue([op |-> "restart"])
  /\ UNCHANGED <<gate, wait, slot, levels, rq, thread, dropped, restarted>>

\* updateSurface: lease the live generation, or issue the next.
UpdateSurface ==
  /\ live # 0 \/ issued < MaxGeneration
  /\ live' = IF live # 0 THEN live ELSE issued + 1
  /\ issued' = IF live # 0 THEN issued ELSE issued + 1
  /\ Enqueue([op |-> "update", generation |-> live'])
  /\ UNCHANGED <<torelease, wait, slot, levels, rq, thread, dropped, restarted>>

\* onSurfaceDestroyed: retire before returning, then tell the host.
SurfaceDestroyed ==
  /\ live # 0
  /\ RetireLive
  /\ Enqueue([op |-> "destroyed", generation |-> live])
  /\ UNCHANGED <<issued, wait, slot, levels, rq, thread, dropped, restarted>>

-----------------------------------------------------------------------------
(* The host thread: one command at a time. *)

Take(op) ==
  /\ host = "idle" /\ inbox # <<>> /\ Head(inbox).op = op
  /\ inbox' = Tail(inbox)

\* send_blocking: a queue still full at the deadline loses the command.
Send(command) ==
  rq' = IF Len(rq) < QueueCapacity THEN Append(rq, command) ELSE rq

\* RenderService::pause and resume ignore whether the send succeeded.
SendLevel(op) == Send([op |-> op]) /\ dropped' = (Len(rq) = QueueCapacity)

\* enter_foreground
EnterForeground == SendLevel("resume") /\ audio' = "running"

HandleShow ==
  /\ Take("show")
  /\ visible' = "shown" /\ restarted' = FALSE
  /\ \/ HasLiveSurface /\ EnterForeground /\ timers' = "shown"
        /\ UNCHANGED pendingShow
     \/ ~HasLiveSurface /\ pendingShow' = TRUE
        /\ UNCHANGED <<rq, dropped, audio, timers>>
  /\ UNCHANGED <<gate, wait, slot, thread>>

\* Fault: a hide leaves the deferred onShow behind.
HandleHideKeepsShow ==
  /\ Take("hide")
  /\ visible' = "hidden" /\ restarted' = FALSE
  /\ SendLevel("pause") /\ audio' = "paused" /\ timers' = "hidden"
  /\ UNCHANGED <<gate, wait, slot, thread, pendingShow>>

HandleHide ==
  /\ Take("hide")
  /\ visible' = "hidden" /\ restarted' = FALSE
  /\ SendLevel("pause") /\ audio' = "paused" /\ timers' = "hidden"
  /\ pendingShow' = FALSE
  /\ UNCHANGED <<gate, wait, slot, thread>>

\* on_surface_destroyed: only the generation the slot holds crosses.
HandleDestroyed ==
  /\ Take("destroyed")
  /\ \/ slot = Head(inbox).generation /\ slot' = 0 /\ Send(Head(inbox))
     \/ slot # Head(inbox).generation /\ UNCHANGED <<slot, rq>>
  /\ UNCHANGED <<gate, wait, levels, thread, dropped, restarted>>

\* on_update_surface, up to its first attempt.
HandleUpdate ==
  /\ Take("update")
  /\ host' = "update" /\ cand' = Head(inbox).generation /\ attempts' = 1
  /\ UNCHANGED <<reply, gate, slot, levels, rq, thread, dropped, restarted>>

\* SurfaceAttachmentSlot::prepare
Prepare(g) == IsLive(g) /\ g >= slot /\ (g > slot => ~HasLiveSurface)

\* The command of update_surface fits into the render queue.
Requests(g) ==
  /\ Prepare(g) /\ Len(rq) < QueueCapacity
  /\ rq' = Append(rq, [op |-> "recreate", generation |-> g, awaited |-> TRUE])

\* update_surface fails before there is a reply to wait for.
Refused(g) == (~Prepare(g) \/ Len(rq) = QueueCapacity) /\ UNCHANGED rq

\* Fault: the retries are not counted.
AttemptFailedForever ==
  \/ IsLive(cand)
     /\ host' = "update" /\ UNCHANGED <<attempts, cand>>
  \/ ~IsLive(cand)
     /\ host' = "idle" /\ attempts' = 0 /\ cand' = 0

\* The retry loop of on_update_surface.
AttemptFailed ==
  \/ IsLive(cand) /\ attempts < MaxAttempts
     /\ host' = "update" /\ attempts' = attempts + 1 /\ UNCHANGED cand
  \/ ~(IsLive(cand) /\ attempts < MaxAttempts)
     /\ host' = "idle" /\ attempts' = 0 /\ cand' = 0

Attempt ==
  /\ host = "update"
  /\ \/ Requests(cand) /\ host' = "updating" /\ UNCHANGED <<cand, attempts>>
     \/ Refused(cand) /\ AttemptFailed
  /\ UNCHANGED <<reply, gate, inbox, slot, levels, thread, dropped, restarted>>

\* Fault: a Surface that arrives in the background resumes the session.
SurfaceInstalledAlways ==
  /\ EnterForeground /\ pendingShow' = FALSE
  /\ timers' = IF pendingShow THEN "shown" ELSE timers

\* The tail of on_update_surface: resume, and the deferred onShow, if shown.
SurfaceInstalled ==
  \/ /\ visible = "shown"
     /\ EnterForeground /\ pendingShow' = FALSE
     /\ timers' = IF pendingShow THEN "shown" ELSE timers
  \/ visible = "hidden" /\ UNCHANGED <<rq, dropped, audio, pendingShow, timers>>

UpdateReplied ==
  /\ host = "updating" /\ reply # "none"
  /\ reply' = "none"
  /\ \/ /\ reply = "ok" /\ Prepare(cand)
        /\ slot' = cand /\ SurfaceInstalled
        /\ host' = "idle" /\ attempts' = 0 /\ cand' = 0
     \/ /\ ~(reply = "ok" /\ Prepare(cand))
        /\ AttemptFailed
        /\ UNCHANGED <<slot, rq, dropped, audio, pendingShow, timers>>
  /\ UNCHANGED <<gate, inbox, visible, thread, restarted>>

\* The responder of a recreate that timed out is gone.
AbandonReply ==
  /\ rq' = [i \in DOMAIN rq |-> IF rq[i].op = "recreate"
                                THEN [rq[i] EXCEPT !.awaited = FALSE] ELSE rq[i]]
  /\ staged' = [staged EXCEPT !.awaited = FALSE]

UpdateTimeout ==
  /\ host = "updating" /\ reply = "none"
  /\ AbandonReply /\ AttemptFailed
  /\ UNCHANGED <<reply, gate, inbox, slot, levels, render, system, binding,
                 dropped, restarted>>

\* on_restart gives up when the audio contexts cannot be released.
RestartFails ==
  /\ Take("restart")
  /\ UNCHANGED <<gate, wait, slot, levels, rq, thread, dropped, restarted>>

\* on_restart, up to the replacement of the JavaScript runtime.
HandleRestart ==
  /\ Take("restart")
  /\ SendLevel("pause") /\ audio' = "paused"
  /\ host' = "rebuild"
  /\ UNCHANGED <<cand, attempts, reply, gate, slot, visible, pendingShow, timers,
                 thread, restarted>>

\* restore_surface: one attempt, with the live lease of the slot.
RestoreSurface ==
  /\ host = "rebuild"
  /\ \/ HasLiveSurface /\ Requests(slot) /\ host' = "restoring" /\ cand' = slot
     \/ ~HasLiveSurface /\ host' = "resume" /\ UNCHANGED <<rq, cand>>
     \/ HasLiveSurface /\ Refused(slot) /\ host' = "resume" /\ UNCHANGED cand
  /\ UNCHANGED <<attempts, reply, gate, inbox, slot, levels, thread, dropped,
                 restarted>>

RestoreReplied ==
  /\ host = "restoring" /\ reply # "none"
  /\ reply' = "none" /\ host' = "resume" /\ cand' = 0
  /\ slot' = IF reply = "ok" /\ Prepare(cand) THEN cand ELSE slot
  /\ UNCHANGED <<attempts, gate, inbox, levels, rq, thread, dropped, restarted>>

RestoreTimeout ==
  /\ host = "restoring" /\ reply = "none"
  /\ AbandonReply /\ host' = "resume" /\ cand' = 0
  /\ UNCHANGED <<attempts, reply, gate, inbox, slot, levels, render, system,
                 binding, dropped, restarted>>

\* on_restart resumes whatever the visibility.
RestartResumes ==
  /\ host = "resume"
  /\ SendLevel("resume") /\ audio' = "running"
  /\ host' = "idle"
  /\ restarted' = (restarted \/ visible = "hidden")
  /\ UNCHANGED <<cand, attempts, reply, gate, inbox, slot, visible, pendingShow,
                 timers, thread>>

HostStep ==
  \/ HandleShow \/ HandleHide \/ HandleDestroyed \/ HandleUpdate
  \/ Attempt \/ UpdateReplied \/ UpdateTimeout
  \/ RestartFails \/ HandleRestart \/ RestoreSurface \/ RestoreReplied
  \/ RestoreTimeout \/ RestartResumes

\* The game draws between commands, and while its module is evaluated.
Draw ==
  /\ host \in {"idle", "rebuild"} /\ Len(rq) < QueueCapacity
  /\ Send([op |-> "draw"])
  /\ UNCHANGED <<gate, inbox, wait, slot, levels, thread, dropped, restarted>>

-----------------------------------------------------------------------------
(* The render thread: a recreate occupies it from staging to its outcome. *)

Free == staged = Unstaged

TakeRender(op) ==
  /\ Free /\ rq # <<>> /\ Head(rq).op = op
  /\ rq' = Tail(rq)

RenderPause ==
  /\ TakeRender("pause")
  /\ render' = "paused"
  /\ system' = IF render = "running" THEN OnPause(system) ELSE system
  /\ UNCHANGED <<gate, inbox, wait, slot, levels, binding, staged, dropped,
                 restarted>>

RenderResume ==
  /\ TakeRender("resume")
  /\ render' = "running"
  /\ system' = IF render = "paused" THEN OnResume(system) ELSE system
  /\ UNCHANGED <<gate, inbox, wait, slot, levels, binding, staged, dropped,
                 restarted>>

RenderDraw ==
  /\ TakeRender("draw")
  /\ UNCHANGED <<gate, inbox, wait, slot, levels, thread, dropped, restarted>>

\* Only the retired generation that the binding holds is acknowledged.
RenderDestroyed ==
  /\ TakeRender("destroyed")
  /\ system' = IF binding = Head(rq).generation /\ ~IsLive(binding)
               THEN OnSurfaceDestroyed(system) ELSE system
  /\ UNCHANGED <<gate, inbox, wait, slot, levels, render, binding, staged,
                 dropped, restarted>>

\* RenderSurfaceBinding::preflight
Preflight(g) == IsLive(g) /\ g >= binding /\ (g > binding => ~IsLive(binding))

Respond(awaited, result) == reply' = IF awaited THEN result ELSE reply

\* run_surface_recreate stages the candidate, or preflight rejects it.
RenderRecreate ==
  /\ TakeRender("recreate")
  /\ LET command == Head(rq)
     IN \/ /\ Preflight(command.generation)
           /\ staged' = [generation |-> command.generation,
                         awaited |-> command.awaited]
           /\ UNCHANGED reply
        \/ /\ ~Preflight(command.generation)
           /\ Respond(command.awaited, "failed") /\ UNCHANGED staged
  /\ UNCHANGED <<gate, inbox, host, cand, attempts, slot, levels, render, system,
                 binding, dropped, restarted>>

\* The install succeeded; its generation may have been retired meanwhile.
InstallOk ==
  /\ ~Free
  /\ binding' = staged.generation
  /\ system' = IF IsLive(staged.generation) THEN OnSurfaceAvailable(system)
               ELSE OnSurfaceDestroyed(system)
  /\ Respond(staged.awaited, "ok") /\ staged' = Unstaged
  /\ UNCHANGED <<gate, inbox, host, cand, attempts, slot, levels, rq, render,
                 dropped, restarted>>

\* The install failed: a candidate still live is retired, and one that EGL may
\* still reference is kept.  The previous target survives only a failure before
\* it was invalidated.
InstallFails(phase) ==
  LET g == staged.generation
      previousUsable == binding = g /\ phase = "before"
  IN /\ ~Free
     /\ \/ IsLive(g) /\ RetireLive
        \/ ~IsLive(g) /\ UNCHANGED <<live, torelease>>
     /\ system' = IF IsLive(g) \/ ~previousUsable
                  THEN OnSurfaceDestroyed(system) ELSE system
     /\ binding' = IF phase = "referenced" THEN g ELSE binding
     /\ Respond(staged.awaited, "failed") /\ staged' = Unstaged
     /\ UNCHANGED <<issued, inbox, host, cand, attempts, slot, levels, rq, render,
                    dropped, restarted>>

\* A swap finds the native target gone.
SwapLost ==
  /\ Free /\ IsLive(binding) /\ system.state = "ready"
  /\ RetireLive /\ system' = OnSurfaceDestroyed(system)
  /\ UNCHANGED <<issued, inbox, wait, slot, levels, rq, render, binding, staged,
                 dropped, restarted>>

\* Every frame first looks whether its Surface is still the live one.
FrameWithoutSurface ==
  /\ Free /\ ~IsLive(binding)
  /\ system' = OnSurfaceDestroyed(system)
  /\ UNCHANGED <<gate, inbox, wait, slot, levels, rq, render, binding, staged,
                 dropped, restarted>>

\* Fault: a release does not look which generation is installed.
ReleaseOnscreenAny ==
  /\ Free /\ torelease # 0
  /\ torelease' = 0
  /\ binding' = 0 /\ system' = OnSurfaceDestroyed(system)
  /\ UNCHANGED <<live, issued, inbox, wait, slot, levels, rq, render, staged,
                 dropped, restarted>>

\* A newer binding supersedes the release of an older generation.
ReleaseOnscreen ==
  /\ Free /\ torelease # 0
  /\ torelease' = 0
  /\ \/ binding <= torelease
        /\ binding' = 0 /\ system' = OnSurfaceDestroyed(system)
     \/ binding > torelease /\ UNCHANGED <<binding, system>>
  /\ UNCHANGED <<live, issued, inbox, wait, slot, levels, rq, render, staged,
                 dropped, restarted>>

Phases == {"before", "invalidated", "referenced"}

RenderStep ==
  \/ RenderPause \/ RenderResume \/ RenderDraw \/ RenderDestroyed
  \/ RenderRecreate \/ InstallOk \/ (\E phase \in Phases : InstallFails(phase))
  \/ SwapLost \/ FrameWithoutSurface \/ ReleaseOnscreen

PlatformStep ==
  OnShow \/ OnHide \/ OnRestart \/ UpdateSurface \/ SurfaceDestroyed

Next == PlatformStep \/ HostStep \/ Draw \/ RenderStep

Spec == Init /\ [][Next]_vars

\* The host thread runs; nothing is assumed of the render thread.
FairSpec == Spec /\ WF_vars(HostStep)

-----------------------------------------------------------------------------
(* Properties. *)

\* Every variable of the two threads and of the queues keeps its type.
TypeOK ==
  /\ live \in 0..MaxGeneration /\ issued \in 0..MaxGeneration
  /\ torelease \in 0..MaxGeneration
  /\ inbox \in Seq(Commands) /\ Len(inbox) <= MaxInbox
  /\ rq \in Seq(RenderCommands) /\ Len(rq) <= QueueCapacity
  /\ host \in {"idle", "update", "updating", "rebuild", "restoring", "resume"}
  /\ cand \in 0..MaxGeneration /\ attempts \in 0..MaxAttempts
  /\ reply \in {"none", "ok", "failed"}
  /\ slot \in 0..MaxGeneration /\ binding \in 0..MaxGeneration
  /\ visible \in {"shown", "hidden"} /\ timers \in {"shown", "hidden"}
  /\ audio \in {"paused", "running"} /\ render \in {"paused", "running"}
  /\ system \in SurfaceSystems
  /\ staged \in [generation : 0..MaxGeneration, awaited : BOOLEAN]
  /\ pendingShow \in BOOLEAN /\ dropped \in BOOLEAN /\ restarted \in BOOLEAN

\* Everything asked for has been carried out.
Settled == host = "idle" /\ inbox = <<>> /\ rq = <<>> /\ Free

\* A session that was hidden, and not restarted since, keeps render and audio
\* paused whatever Surfaces come and go (the check of backgrounded in
\* on_update_surface), unless the Pause itself was lost to a full queue.  The
\* exception is real: on_restart resumes both without looking at backgrounded.
QuietUntilRestart ==
  Settled /\ visible = "hidden" /\ ~restarted /\ ~dropped
    => render = "paused" /\ audio = "paused"

\* A session that is shown with a live Surface runs: render and audio are
\* resumed, the Surface can be presented to, timers run at the foreground rate
\* and no onShow is owed, in whichever order show, Surface and restart came.
ForegroundRuns ==
  Settled /\ visible = "shown" /\ HasLiveSurface /\ ~dropped
    => /\ render = "running" /\ audio = "running" /\ timers = "shown"
       /\ system = [state |-> "ready", sized |-> TRUE]
       /\ ~pendingShow

\* The host believes in a live Surface only while the render thread has exactly
\* that generation installed, late and abandoned replies included.
SlotIsBound == HasLiveSurface => binding = slot

\* A render thread that never answers cannot hold the host thread: the deadline
\* of each send and reply and the bound on the retries end every handler.
CommandsHandled == []<>(host = "idle")

=============================================================================
