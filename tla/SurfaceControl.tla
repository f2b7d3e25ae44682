--------------------------- MODULE SurfaceControl --------------------------
(***************************************************************************)
(* The Surface control plane of shared/src/surface/control.rs over the     *)
(* generation gate of attachment.rs, one atomic access per step.  Host     *)
(* threads attach, retire and shut down; the render thread is woken        *)
(* through a one-slot channel, reads the high-water mark of retired        *)
(* generations and releases the binding it has installed                   *)
(* (release_retired_resource).                                             *)
(*                                                                         *)
(* The gate's packed word generation << 1 | live is a record, and a lease  *)
(* or token is the number of its generation.                               *)
(*                                                                         *)
(* Memory model.  Every access is a read-modify-write or an acquire or     *)
(* release access, sequentially consistent between them on arm64.  On      *)
(* x86-64 the plain release store of shutting_down may sit in the storing  *)
(* thread's store buffer past later loads; StoreBuffer says whether it     *)
(* can.                                                                    *)
(***************************************************************************)
EXTENDS Integers

CONSTANTS
  Threads,        \* host threads
  MaxGeneration,  \* MAX_GENERATION
  MaxRetires,     \* bound: retire_generation_and_request calls that are made
  StoreBuffer     \* TRUE: shutting_down's store may be delayed

ASSUME ControlAssumption ==
  MaxGeneration \in Nat /\ MaxRetires \in Nat /\ StoreBuffer \in BOOLEAN

VARIABLES
  word,          \* SurfaceGenerationGate::state
  shuttingDown,  \* shutting_down, in memory: "no" or "yes"
  buffered,      \* threads whose store to shutting_down is not in memory yet
  latestRetired, \* latest_retired
  sender,        \* render_wake: "none", "set" (installed) or "ready" (and checked)
  slot,          \* messages in the one-slot wake channel
  pc, cur,       \* per thread: next access, and the word it has loaded
  retires,       \* calls of retire_generation_and_request so far
  granted,       \* tokens attach_or_update has returned
  shutdowns,     \* threads that have completed shutdown()
  render,        \* what the render thread does next
  installed,     \* RenderSurfaceBinding::current, 0 when empty
  pending,       \* RenderSurfaceBinding::pending, 0 when empty
  requested,     \* the generation of the ReleaseOnscreen being handled
  losing         \* the generation of the failure being handled

gate    == <<word, latestRetired>>
flag    == <<shuttingDown, buffered>>
channel == <<sender, slot>>
local   == <<pc, cur, retires, granted, shutdowns>>
binding == <<render, installed, pending, requested, losing>>
vars == <<gate, flag, channel, local, binding>>

Generations == 1..MaxGeneration
Word == [gen: 0..MaxGeneration, live: {0, 1}]
LiveWord(g) == [gen |-> g, live |-> 1]
Dead(w) == [w EXCEPT !.live = 0]

\* SurfaceLivenessToken::is_live.
IsLive(g) == word = LiveWord(g)

Init ==
  /\ word = [gen |-> 0, live |-> 0] /\ latestRetired = 0
  /\ shuttingDown = "no" /\ buffered = {}
  /\ sender = "none" /\ slot = 0
  /\ pc = [t \in Threads |-> "idle"] /\ cur = [t \in Threads |-> word]
  /\ retires = 0 /\ granted = {} /\ shutdowns = {}
  /\ render = "loop" /\ installed = 0 /\ pending = 0 /\ requested = 0
  /\ losing = 0

Goto(t, l) == pc' = [pc EXCEPT ![t] = l]
Load(t)    == cur' = [cur EXCEPT ![t] = word]

\* shutting_down.load: a thread sees its own store first.
SeesShutdown(t) == shuttingDown = "yes" \/ t \in buffered

\* latest_retired after fetch_max(g).
FetchMax(g) == IF latestRetired < g THEN g ELSE latestRetired

\* wake_render: try_send on the one-slot channel, once it is installed.
WakeRender == slot' = IF sender = "none" THEN slot ELSE 1

\* A locked instruction of t waits for t's store buffer.
Fenced(t) == t \notin buffered

-----------------------------------------------------------------------------
(* attach_or_update *)

AttachBegin(t) ==
  /\ pc[t] = "idle" /\ ~SeesShutdown(t)
  /\ Goto(t, "attach_load")
  /\ UNCHANGED <<gate, flag, channel, cur, retires, granted, shutdowns, binding>>

AttachLoad(t) ==
  /\ pc[t] = "attach_load"
  /\ Load(t) /\ Goto(t, "attach_swap")
  /\ UNCHANGED <<gate, flag, channel, retires, granted, shutdowns, binding>>

\* The gate is live: its generation is reused.
AttachReuse(t) ==
  /\ pc[t] = "attach_swap" /\ cur[t].live = 1
  /\ Goto(t, "attach_check")
  /\ UNCHANGED <<gate, flag, channel, cur, retires, granted, shutdowns, binding>>

AttachExhausted(t) ==
  /\ pc[t] = "attach_swap" /\ cur[t].live = 0 /\ cur[t].gen >= MaxGeneration
  /\ Goto(t, "idle")
  /\ UNCHANGED <<gate, flag, channel, cur, retires, granted, shutdowns, binding>>

\* Fault: the last retired generation is revived instead of a new one issued.
AttachSwapRevives(t) ==
  /\ pc[t] = "attach_swap" /\ cur[t].live = 0 /\ cur[t].gen < MaxGeneration
  /\ Fenced(t)
  /\ LET g == IF word.gen = 0 THEN 1 ELSE word.gen
     IN  IF word = cur[t]
         THEN /\ word' = LiveWord(g)
              /\ cur' = [cur EXCEPT ![t] = LiveWord(g)]
              /\ Goto(t, "attach_check")
         ELSE Load(t) /\ UNCHANGED <<word, pc>>
  /\ UNCHANGED <<latestRetired, flag, channel, retires, granted, shutdowns,
                 binding>>

\* The compare-exchange that issues the next generation, or reloads.
AttachSwap(t) ==
  /\ pc[t] = "attach_swap" /\ cur[t].live = 0 /\ cur[t].gen < MaxGeneration
  /\ Fenced(t)
  /\ IF word = cur[t]
     THEN /\ word' = LiveWord(word.gen + 1)
          /\ cur' = [cur EXCEPT ![t] = LiveWord(word.gen + 1)]
          /\ Goto(t, "attach_check")
     ELSE Load(t) /\ UNCHANGED <<word, pc>>
  /\ UNCHANGED <<latestRetired, flag, channel, retires, granted, shutdowns,
                 binding>>

\* The second look at shutting_down: retire the token, or return it.
AttachCheck(t) ==
  /\ pc[t] = "attach_check"
  /\ IF SeesShutdown(t)
     THEN Goto(t, "retire_load") /\ UNCHANGED granted
     ELSE Goto(t, "idle") /\ granted' = granted \cup {cur[t].gen}
  /\ UNCHANGED <<gate, flag, channel, cur, retires, shutdowns, binding>>

-----------------------------------------------------------------------------
(* Retirement and shutdown *)

\* retire_current_and_request by any thread.
RetireBegin(t) ==
  /\ pc[t] = "idle"
  /\ Goto(t, "retire_load")
  /\ UNCHANGED <<gate, flag, channel, cur, retires, granted, shutdowns, binding>>

RetireLoad(t) ==
  /\ pc[t] = "retire_load"
  /\ Load(t) /\ Goto(t, "retire_swap")
  /\ UNCHANGED <<gate, flag, channel, retires, granted, shutdowns, binding>>

\* Nothing to retire; shutdown returns here, too.
RetireNone(t) ==
  /\ pc[t] = "retire_swap" /\ cur[t].live = 0
  /\ Goto(t, "idle")
  /\ UNCHANGED <<gate, flag, channel, cur, retires, granted, shutdowns, binding>>

\* Fault: a store of the retired word instead of a compare-exchange.
RetireSwapStores(t) ==
  /\ pc[t] = "retire_swap" /\ cur[t].live = 1
  /\ Fenced(t)
  /\ word' = Dead(cur[t]) /\ Goto(t, "publish")
  /\ UNCHANGED <<cur, latestRetired, flag, channel, retires, granted, shutdowns,
                 binding>>

RetireSwap(t) ==
  /\ pc[t] = "retire_swap" /\ cur[t].live = 1
  /\ Fenced(t)
  /\ IF word = cur[t]
     THEN word' = Dead(word) /\ Goto(t, "publish") /\ UNCHANGED cur
     ELSE Load(t) /\ UNCHANGED <<word, pc>>
  /\ UNCHANGED <<latestRetired, flag, channel, retires, granted, shutdowns,
                 binding>>

\* retire_generation_and_request(g): one compare-exchange.
RetireGeneration(t, g) ==
  /\ pc[t] = "idle" /\ g \in granted /\ retires < MaxRetires
  /\ Fenced(t)
  /\ retires' = retires + 1
  /\ IF IsLive(g)
     THEN /\ word' = Dead(word)
          /\ cur' = [cur EXCEPT ![t] = LiveWord(g)]
          /\ Goto(t, "publish")
     ELSE UNCHANGED <<word, pc, cur>>
  /\ UNCHANGED <<latestRetired, flag, channel, granted, shutdowns, binding>>

\* Fault: a store instead of fetch_max.
PublishStores(t) ==
  /\ pc[t] = "publish"
  /\ Fenced(t)
  /\ latestRetired' = cur[t].gen
  /\ Goto(t, "wake")
  /\ UNCHANGED <<word, flag, channel, cur, retires, granted, shutdowns, binding>>

\* latest_retired.fetch_max.
Publish(t) ==
  /\ pc[t] = "publish"
  /\ Fenced(t)
  /\ latestRetired' = FetchMax(cur[t].gen)
  /\ Goto(t, "wake")
  /\ UNCHANGED <<word, flag, channel, cur, retires, granted, shutdowns, binding>>

Wake(t) ==
  /\ pc[t] = "wake"
  /\ WakeRender
  /\ Goto(t, "idle")
  /\ UNCHANGED <<gate, flag, sender, cur, retires, granted, shutdowns, binding>>

\* shutdown: the store, then retire_current_and_request.
Shutdown(t) ==
  /\ pc[t] = "idle" /\ t \notin shutdowns
  /\ IF StoreBuffer
     THEN buffered' = buffered \cup {t} /\ UNCHANGED shuttingDown
     ELSE shuttingDown' = "yes" /\ UNCHANGED buffered
  /\ shutdowns' = shutdowns \cup {t}
  /\ Goto(t, "retire_load")
  /\ UNCHANGED <<gate, channel, cur, retires, granted, binding>>

\* The store leaves the store buffer.
Drain(t) ==
  /\ t \in buffered
  /\ buffered' = buffered \ {t} /\ shuttingDown' = "yes"
  /\ UNCHANGED <<gate, channel, local, binding>>

-----------------------------------------------------------------------------
(* The render side *)

\* install_render_sender: set, then look for a release that came before.
InstallSender ==
  /\ sender = "none"
  /\ sender' = "set"
  /\ UNCHANGED <<gate, flag, slot, local, binding>>

InstallCheck ==
  /\ sender = "set"
  /\ sender' = "ready"
  /\ slot' = IF latestRetired # 0 THEN 1 ELSE slot
  /\ UNCHANGED <<gate, flag, local, binding>>

\* RecreateOnscreen with a lease the host sent: preflight, then staging.
RenderStage(g) ==
  /\ sender = "ready" /\ render = "loop" /\ pending = 0
  /\ g \in granted /\ IsLive(g)
  /\ installed # 0 => installed <= g /\ (installed < g => ~IsLive(installed))
  /\ pending' = g /\ render' = "install"
  /\ UNCHANGED <<gate, flag, channel, local, installed, requested, losing>>

\* EGL has installed the candidate.
RenderCommit ==
  /\ render = "install"
  /\ installed' = pending /\ pending' = 0 /\ render' = "loop"
  /\ UNCHANGED <<gate, flag, channel, local, requested, losing>>

\* The install failed.  The candidate is dropped, or kept as the binding when
\* EGL may still reference it; if it is still live it is lost.
RenderFail(retained) ==
  /\ render = "install"
  /\ installed' = IF retained THEN pending ELSE installed
  /\ pending' = 0
  /\ losing' = pending
  /\ render' = IF IsLive(pending) THEN "lose" ELSE "loop"
  /\ UNCHANGED <<gate, flag, channel, local, requested>>

\* The swap of a live binding fails and its native surface is unavailable.
RenderSwapFailed ==
  /\ render = "loop" /\ installed # 0 /\ IsLive(installed)
  /\ losing' = installed /\ render' = "lose"
  /\ UNCHANGED <<gate, flag, channel, local, installed, pending, requested>>

\* retire_unexpected_surface: retire_generation_and_request(losing).
RenderLose ==
  /\ render = "lose"
  /\ IF IsLive(losing)
     THEN word' = Dead(word) /\ render' = "lose_publish"
     ELSE render' = "loop" /\ UNCHANGED word
  /\ UNCHANGED <<latestRetired, flag, channel, local, installed, pending,
                 requested, losing>>

RenderLosePublish ==
  /\ render = "lose_publish"
  /\ latestRetired' = FetchMax(losing)
  /\ render' = "lose_wake"
  /\ UNCHANGED <<word, flag, channel, local, installed, pending, requested,
                 losing>>

RenderLoseWake ==
  /\ render = "lose_wake"
  /\ WakeRender
  /\ render' = "loop"
  /\ UNCHANGED <<gate, flag, sender, local, installed, pending, requested,
                 losing>>

\* Wake::SurfaceControl: take the token.
RenderWoken ==
  /\ sender = "ready" /\ render = "loop" /\ slot = 1
  /\ slot' = 0 /\ render' = "read"
  /\ UNCHANGED <<gate, flag, sender, local, installed, pending, requested,
                 losing>>

\* latest_retired_generation.
RenderRead ==
  /\ render = "read"
  /\ requested' = latestRetired
  /\ render' = IF latestRetired = 0 THEN "loop" ELSE "release"
  /\ UNCHANGED <<gate, flag, channel, local, installed, pending, losing>>

\* The condition of GenerationStillLive.
StillLive == installed # 0 /\ installed <= requested /\ IsLive(installed)

\* ReleaseOnscreen: absent, superseded, or torn down and dropped.  An error (the
\* generation is live, or the teardown fails) destroys all EGL state, and the
\* render thread exits.
RenderRelease(failed) ==
  /\ render = "release"
  /\ installed' = IF installed <= requested THEN 0 ELSE installed
  /\ render' = IF StillLive \/ (failed /\ installed \in 1..requested)
               THEN "exited" ELSE "loop"
  /\ UNCHANGED <<gate, flag, channel, local, pending, requested, losing>>

-----------------------------------------------------------------------------

Attach(t) ==
  \/ AttachLoad(t) \/ AttachReuse(t) \/ AttachExhausted(t) \/ AttachSwap(t)
  \/ AttachCheck(t)

Retire(t) ==
  \/ RetireLoad(t) \/ RetireNone(t) \/ RetireSwap(t) \/ Publish(t) \/ Wake(t)

Begin(t) ==
  \/ AttachBegin(t) \/ RetireBegin(t) \/ Shutdown(t)
  \/ \E g \in Generations : RetireGeneration(t, g)

Render ==
  \/ InstallSender \/ InstallCheck
  \/ RenderCommit \/ RenderLose \/ RenderLosePublish \/ RenderLoseWake
  \/ RenderWoken \/ RenderRead
  \/ \E failed \in BOOLEAN : RenderRelease(failed)

Next ==
  \/ \E t \in Threads : Attach(t) \/ Retire(t) \/ Begin(t) \/ Drain(t)
  \/ Render \/ RenderSwapFailed
  \/ \E g \in Generations : RenderStage(g)
  \/ \E retained \in BOOLEAN : RenderFail(retained)

Spec == Init /\ [][Next]_vars

\* A call that has begun runs to its end, stores reach memory, and the render
\* thread is started and finishes what it starts.  RenderWait's Select picks
\* among ready sources at random, so a wake that stays in its channel is taken
\* however many commands are ready beside it.
Fairness ==
  /\ \A t \in Threads : WF_vars(Attach(t) \/ Retire(t)) /\ WF_vars(Drain(t))
  /\ WF_vars(Render) /\ SF_vars(RenderWoken)

FairSpec == Spec /\ Fairness

-----------------------------------------------------------------------------
(* Properties *)

\* Every atomic, program counter and binding field stays in its range; the gate
\* never passes MAX_GENERATION.
TypeOK ==
  /\ word \in Word /\ latestRetired \in 0..MaxGeneration
  /\ shuttingDown \in {"no", "yes"} /\ buffered \in SUBSET Threads
  /\ sender \in {"none", "set", "ready"} /\ slot \in {0, 1}
  /\ pc \in [Threads -> {"idle", "attach_load", "attach_swap", "attach_check",
                         "retire_load", "retire_swap", "publish", "wake"}]
  /\ cur \in [Threads -> Word]
  /\ retires \in 0..MaxRetires
  /\ granted \in SUBSET (0..MaxGeneration) /\ shutdowns \in SUBSET Threads
  /\ render \in {"loop", "install", "lose", "lose_publish", "lose_wake",
                 "read", "release", "exited"}
  /\ installed \in 0..MaxGeneration /\ pending \in 0..MaxGeneration
  /\ requested \in 0..MaxGeneration /\ losing \in 0..MaxGeneration

\* The render thread never meets GenerationStillLive, the release error that
\* makes it destroy all its EGL state and exit: a release request only ever
\* names generations whose retirement has happened.
NeverReleasesLive == render = "release" => ~StillLive

\* "Shutdown has begun; no generation may become live afterward": when some
\* thread has run shutdown(), every call has returned and every store has
\* reached memory, nothing is live, whatever attach_or_update calls raced with
\* the shutdown.
ShutdownIsFinal ==
  (shutdowns # {} /\ buffered = {} /\ \A t \in Threads : pc[t] = "idle")
    => word.live = 0

\* Every binding whose generation is retired is torn down: no wake that
\* coalesces into the one slot, arrives before the sender is installed, or is
\* published out of order by a racing retirement is lost.
RetiredIsReleased == []<>(installed = 0 \/ IsLive(installed))

\* The atomics implement the promises of SurfaceGeneration.
Promise == INSTANCE SurfaceGeneration
             WITH generation <- word.gen, live <- word.live,
                  requested <- latestRetired

ImplementsPromise == Promise!Spec

=============================================================================
