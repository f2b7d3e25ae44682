----------------------------- MODULE CapiSession ----------------------------
(***************************************************************************)
(* The Surface lifecycle of one Session of the C API: attach, update and   *)
(* detach (capi/src/surface.rs), visibility, focus, lifecycle, loss and    *)
(* destroy (capi/src/lib.rs), against the engine's host and render threads *)
(* and the release bookkeeping of shared/src/surface/attachment.rs.        *)
(*                                                                         *)
(* A call holds the Session's lock only in short sections, each one step   *)
(* here; the engine moves between them.  The embedder serialises its calls *)
(* (session.h), so they form one stack: a call is nested only in a         *)
(* callback that its dispatcher runs inline.  The host queue is a FIFO     *)
(* whose Critical lane is unbounded (module HostChannel), and the gate is  *)
(* one atomic word (module SurfaceControl).                                *)
(***************************************************************************)
EXTENDS Integers, Sequences

CONSTANTS
  MaxPublic,       \* bound: public generations the embedder uses
  MaxQueue,        \* bound: host commands pending when an update begins
  MaxDepth,        \* bound: nested calls
  LevelSets,       \* which of {"visible", "focused"} an embedder sets
  InlineDispatch,  \* TRUE: the embedder's dispatcher may run a callback inline
  NestedLevels,    \* TRUE: the embedder sets levels in such a callback, too
  MissingNonce     \* TRUE: feature external-frames, and no launch_nonce

ASSUME SessionAssumption ==
  /\ MaxPublic \in Nat /\ MaxQueue \in Nat /\ MaxDepth \in Nat
  /\ {InlineDispatch, NestedLevels, MissingNonce} \subseteq BOOLEAN

VARIABLES
  closed,       \* 1: destroyed
  transition,   \* surface_transition
  reserved,     \* surface_transition_generation, 0 for None
  pendingLoss,  \* pending_surface_loss, 0 for None
  attachment,   \* active_attachment
  lastPublic,   \* last_public_generation
  activeGen,    \* active_surface_generation
  level,        \* visibility and focused
  lifecycle,
  stack,        \* the embedder's calls, the innermost last
  pending,      \* pending_surface_releases
  release,      \* per resource: where its final drop is
  registered,   \* resources with a release registration
  host,         \* the engine: "none", "running" or "exited"
  gate,         \* SurfaceControl's generation and live bit
  queue,        \* host commands
  slot,         \* the host thread's SurfaceAttachmentSlot
  binding,      \* the render thread's Surface
  sent,         \* history: the level last put into the queue
  asked,        \* history: the level the embedder last set
  losses,       \* history: public generations the render thread lost
  notified      \* history: loss notifications posted, per public generation

control == <<closed, transition, reserved, pendingLoss, attachment, lastPublic,
             activeGen>>
levels == <<level, lifecycle, sent, asked>>
releases == <<pending, release, registered>>
engine == <<host, gate, queue, slot, binding>>
history == <<losses, notified>>
vars == <<control, levels, stack, releases, engine, history>>

Public == 1..MaxPublic
MaxInternal == 2 * MaxPublic
Internal == 1..MaxInternal
Levels == DOMAIN level

\* A native resource: SurfaceResource, named by its internal generation.
NoLease == [internal |-> 0, public |-> 0]
NoAttachment == [internal |-> 0, public |-> 0, lost |-> FALSE]

Init ==
  /\ closed = 0 /\ transition = "idle" /\ reserved = 0 /\ pendingLoss = 0
  /\ attachment = NoAttachment /\ lastPublic = 0 /\ activeGen = 0
  /\ \E set \in LevelSets : level = [k \in set |-> "unset"]
  /\ lifecycle = "created"
  /\ stack = <<>>
  /\ pending = 0 /\ registered = {}
  /\ release = [r \in Internal |-> "none"]
  /\ host = "none" /\ gate = [gen |-> 0, live |-> FALSE]
  /\ queue = <<>> /\ slot = NoLease /\ binding = NoLease
  /\ sent = level /\ asked = level
  /\ losses = {} /\ notified = [g \in Public |-> 0]

-----------------------------------------------------------------------------
(* Calls *)

Attached == attachment.internal # 0
Running == host = "running"
Top == stack[Len(stack)]
At(pc) == stack # <<>> /\ Top.pc = pc
Lease == Top.lease

\* The embedder's own code runs, and may call.
MayCall ==
  /\ stack = <<>> \/ At("callback")
  /\ Len(stack) < MaxDepth /\ closed = 0

Call(pc, lease, seen) ==
  stack' = Append(stack, [pc |-> pc, lease |-> lease, seen |-> seen])
GoWith(pc, lease) ==
  stack' = [stack EXCEPT ![Len(stack)] =
              [pc |-> pc, lease |-> lease, seen |-> Top.seen]]
Go(pc) == GoWith(pc, Lease)
Return == stack' = SubSeq(stack, 1, Len(stack) - 1)

Send(command) == queue' = Append(queue, command)
Update(lease) == [kind |-> "update", lease |-> lease]
Destroyed(lease) == [kind |-> "destroyed", lease |-> [lease EXCEPT !.public = 0]]
Lost(lease) == [kind |-> "lost", lease |-> [lease EXCEPT !.internal = 0]]

Live(lease) == gate.live /\ gate.gen = lease.internal
Retired == [gate EXCEPT !.live = FALSE]

\* attach_or_update: the live generation, or the next one.
Issued == IF gate.live THEN gate ELSE [gen |-> gate.gen + 1, live |-> TRUE]

\* Reserve the transition, then unlock.
Reserve(kind, public) == transition' = kind /\ reserved' = public

\* consume_pending_surface_loss finds a loss of this attachment.
Consumes(a) == pendingLoss # 0 /\ a.public = pendingLoss /\ ~a.lost

Idle == transition' = "idle" /\ reserved' = 0 /\ pendingLoss' = 0

\* The last locked section of a call on attachment a: consume a pending loss,
\* release the reservation; a deferred loss is posted after the unlock.
Settle(a) ==
  /\ attachment' = IF Consumes(a) THEN [a EXCEPT !.lost = TRUE] ELSE a
  /\ Idle

\* rollback_surface_transition.
Rollback ==
  /\ At("rollback")
  /\ Settle(attachment)
  /\ activeGen' = IF Consumes(attachment) THEN 0 ELSE activeGen
  /\ IF Consumes(attachment) THEN Go("notify") ELSE Return
  /\ UNCHANGED <<closed, lastPublic, levels, releases, engine, history>>

\* A step that fails drops what the call holds and rolls back.
Fail == GoWith("rollback", NoLease) /\ UNCHANGED <<control, levels, releases, history>>

\* DeferredSurfaceLoss::notify: the dispatcher queues the callback, ...
Notify ==
  /\ At("notify")
  /\ notified' = [notified EXCEPT ![attachment.public] = @ + 1]
  /\ Go("finish")
  /\ UNCHANGED <<control, levels, releases, engine, losses>>

\* ... or runs it inside the call.
NotifyInline ==
  /\ At("notify") /\ InlineDispatch
  /\ notified' = [notified EXCEPT ![attachment.public] = @ + 1]
  /\ Go("callback")
  /\ UNCHANGED <<control, levels, releases, engine, losses>>

CallbackReturns ==
  /\ At("callback")
  /\ Go("finish")
  /\ UNCHANGED <<control, levels, releases, engine, history>>

-----------------------------------------------------------------------------
(* migo_session_attach_surface *)

AttachReserve(g) ==
  /\ MayCall
  /\ transition = "idle" /\ ~Attached /\ g > lastPublic
  /\ Reserve("attaching", g)
  /\ Call("attach", [NoLease EXCEPT !.public = g], <<>>)
  /\ UNCHANGED <<closed, pendingLoss, attachment, lastPublic, activeGen, levels,
                 releases, engine, history>>

\* An external-frame Session without launch_nonce returns in the middle.
EarlyReturn == IF MissingNonce /\ host = "none" THEN {"finish"} ELSE {}

\* build_target, the platform identity or the spawn of the engine fails, or the
\* spawned engine is gone again and joined.
AttachFails ==
  /\ At("attach")
  /\ \E pc \in {"rollback"} \cup EarlyReturn : GoWith(pc, NoLease)
  /\ UNCHANGED <<control, levels, releases, engine, history>>

\* lease_surface_tracked on the engine of an earlier attach.
AttachLease ==
  /\ At("attach") /\ Running
  /\ gate' = Issued
  /\ GoWith("attach_send", [Lease EXCEPT !.internal = gate'.gen])
  /\ release' = [release EXCEPT ![gate'.gen] = "held"]
  /\ UNCHANGED <<control, levels, pending, registered, host, queue, slot,
                 binding, history>>

\* A send fails once the engine is gone; it unregisters the engine, and so the
\* retire_surface that follows finds no gate.
AttachSend ==
  /\ At("attach_send")
  /\ IF Running
     THEN /\ Send(Update(Lease)) /\ Go("attach_commit")
          /\ UNCHANGED <<control, levels, releases, history>>
     ELSE Fail /\ UNCHANGED queue
  /\ UNCHANGED <<host, gate, slot, binding>>

\* spawn_tracked: the first attach starts the engine with its Surface.
AttachSpawn ==
  /\ At("attach") /\ host = "none" /\ ~MissingNonce
  /\ host' = "running" /\ gate' = Issued
  /\ slot' = [Lease EXCEPT !.internal = gate'.gen] /\ binding' = slot'
  /\ release' = [release EXCEPT ![gate'.gen] = "held"]
  /\ GoWith("attach_commit", slot')
  /\ UNCHANGED <<control, levels, pending, registered, queue, history>>

\* Fault: the data plane is opened although the Surface was lost meanwhile.
AttachCommitOpens ==
  /\ At("attach_commit")
  /\ LET a == [internal |-> Lease.internal, public |-> Lease.public,
               lost |-> FALSE]
     IN /\ Settle(a)
        /\ stack' = [stack EXCEPT ![Len(stack)] =
                       [pc |-> IF Consumes(a) THEN "notify" ELSE "finish",
                        lease |-> NoLease, seen |-> level]]
  /\ activeGen' = Lease.public /\ lastPublic' = Lease.public
  /\ UNCHANGED <<closed, levels, releases, engine, history>>

\* The commit; the levels are read here and sent after the unlock.
AttachCommit ==
  /\ At("attach_commit")
  /\ LET a == [internal |-> Lease.internal, public |-> Lease.public,
               lost |-> FALSE]
     IN /\ Settle(a)
        /\ activeGen' = IF Consumes(a) THEN 0 ELSE Lease.public
        /\ lastPublic' = Lease.public
        /\ stack' = [stack EXCEPT ![Len(stack)] =
                       [pc |-> IF Consumes(a) THEN "notify" ELSE "finish",
                        lease |-> NoLease, seen |-> level]]
  /\ UNCHANGED <<closed, levels, releases, engine, history>>

\* The end of attach, update and rollback: an attach sends the levels it read.
Finish ==
  /\ At("finish")
  /\ sent' = [k \in Levels |->
                IF Running /\ k \in DOMAIN Top.seen /\ Top.seen[k] # "unset"
                THEN Top.seen[k] ELSE sent[k]]
  /\ Return
  /\ UNCHANGED <<control, level, lifecycle, asked, releases, engine, history>>

-----------------------------------------------------------------------------
(* migo_surface_update *)

UpdateReserve ==
  /\ MayCall /\ Len(queue) < MaxQueue
  /\ transition = "idle" /\ Attached /\ ~attachment.lost
  /\ Reserve("updating", attachment.public)
  /\ Call("update", [internal |-> attachment.internal,
                     public |-> attachment.public], <<>>)
  /\ UNCHANGED <<closed, pendingLoss, attachment, lastPublic, activeGen, levels,
                 releases, engine, history>>

\* Fault: the reservation is not rolled back.
UpdateFailsReserved ==
  /\ At("update")
  /\ GoWith("finish", NoLease)
  /\ UNCHANGED <<control, levels, releases, engine, history>>

\* rebuild_surface fails, or the engine has exited.
UpdateFails ==
  /\ At("update")
  /\ Fail
  /\ UNCHANGED engine

\* lease_surface_with_resource: a generation is issued first and compared with
\* the resource's afterwards.
UpdateLease ==
  /\ At("update") /\ Running
  /\ gate' = Issued
  /\ IF gate'.gen = Lease.internal
     THEN Go("update_send") /\ UNCHANGED <<control, levels, releases, history>>
     ELSE Fail
  /\ UNCHANGED <<host, queue, slot, binding>>

UpdateSend ==
  /\ At("update_send")
  /\ IF Running
     THEN /\ Send(Update(Lease)) /\ GoWith("update_commit", NoLease)
          /\ UNCHANGED <<control, levels, releases, history>>
     ELSE Fail /\ UNCHANGED queue
  /\ UNCHANGED <<host, gate, slot, binding>>

\* Fault: a loss that arrived during the update is left behind.
UpdateCommitForgets ==
  /\ At("update_commit")
  /\ Idle /\ Return
  /\ UNCHANGED <<closed, attachment, lastPublic, activeGen, levels, releases,
                 engine, history>>

UpdateCommit ==
  /\ At("update_commit")
  /\ Settle(attachment)
  /\ activeGen' = IF Consumes(attachment) THEN 0 ELSE activeGen
  /\ IF Consumes(attachment) THEN Go("notify") ELSE Return
  /\ UNCHANGED <<closed, lastPublic, levels, releases, engine, history>>

-----------------------------------------------------------------------------
(* migo_surface_begin_detach *)

\* prepare_release counts and registers the release.
DetachReserve ==
  /\ MayCall
  /\ transition = "idle" /\ Attached /\ attachment.internal \notin registered
  /\ Reserve("detaching", attachment.public)
  /\ pending' = pending + 1 /\ registered' = registered \cup {attachment.internal}
  /\ Call("detach", [internal |-> attachment.internal,
                     public |-> attachment.public], <<>>)
  /\ UNCHANGED <<closed, pendingLoss, attachment, lastPublic, activeGen, levels,
                 release, engine, history>>

DetachClose ==
  /\ At("detach")
  /\ activeGen' = 0 /\ Go("detach_retire")
  /\ UNCHANGED <<closed, transition, reserved, pendingLoss, attachment,
                 lastPublic, levels, releases, engine, history>>

\* Fault: the generation is left to the SurfaceDestroyed command.
DetachRetireLater ==
  /\ At("detach_retire")
  /\ Go("detach_commit")
  /\ UNCHANGED <<control, levels, releases, engine, history>>

\* retire_surface: the irreversible boundary.
DetachRetire ==
  /\ At("detach_retire")
  /\ gate' = IF Running THEN Retired ELSE gate
  /\ Go("detach_commit")
  /\ UNCHANGED <<control, levels, releases, host, queue, slot, binding, history>>

DetachCommit ==
  /\ At("detach_commit")
  /\ attachment' = NoAttachment /\ Idle
  /\ Go("detach_send")
  /\ UNCHANGED <<closed, lastPublic, activeGen, levels, releases, engine, history>>

\* Fault: the host is told of the gate's generation, not of the resource's.
DetachSendGate ==
  /\ At("detach_send")
  /\ IF Running THEN Send(Destroyed([Lease EXCEPT !.internal = gate.gen]))
     ELSE UNCHANGED queue
  /\ Go("detach_drop")
  /\ UNCHANGED <<control, levels, releases, host, gate, slot, binding, history>>

DetachSend ==
  /\ At("detach_send")
  /\ IF Running THEN Send(Destroyed(Lease)) ELSE UNCHANGED queue
  /\ Go("detach_drop")
  /\ UNCHANGED <<control, levels, releases, host, gate, slot, binding, history>>

DetachDrop ==
  /\ At("detach_drop")
  /\ Return
  /\ UNCHANGED <<control, levels, releases, engine, history>>

-----------------------------------------------------------------------------
(* The release of a native resource: the drop of its last lease *)

UpdateLeases == {queue[i].lease.internal :
                   i \in {j \in DOMAIN queue : queue[j].kind = "update"}}

\* Fault: an UpdateSurface command does not carry the resource's lease.
LeasedUnqueued ==
  ({attachment.internal, slot.internal, binding.internal}
     \cup {stack[i].lease.internal : i \in DOMAIN stack}) \ {0}

\* Resources some SurfaceLease, attachment or call still reaches.
Leased ==
  ({attachment.internal, slot.internal, binding.internal} \cup UpdateLeases
     \cup {stack[i].lease.internal : i \in DOMAIN stack}) \ {0}

\* SurfaceResource::drop, on the thread that held the last lease: the native
\* anchor goes, ...
DropAnchor(r) ==
  /\ release[r] = "held" /\ r \notin Leased
  /\ release' = [release EXCEPT ![r] = "dropped"]
  /\ UNCHANGED <<control, levels, stack, pending, registered, engine, history>>

\* ... then the Session's count drops, ...
Uncount(r) ==
  /\ release[r] = "dropped"
  /\ pending' = IF r \in registered THEN pending - 1 ELSE pending
  /\ registered' = registered \ {r}
  /\ release' = [release EXCEPT ![r] = "uncounted"]
  /\ UNCHANGED <<control, levels, stack, engine, history>>

\* Fault: RELEASED is published before the Session's count drops.
PublishReleasedEarly(r) ==
  /\ release[r] \in {"dropped", "uncounted"}
  /\ release' = [release EXCEPT ![r] = "released"]
  /\ UNCHANGED <<control, levels, stack, pending, registered, engine, history>>

\* ... and then RELEASED is published.
PublishReleased(r) ==
  /\ release[r] = "uncounted"
  /\ release' = [release EXCEPT ![r] = "released"]
  /\ UNCHANGED <<control, levels, stack, pending, registered, engine, history>>

-----------------------------------------------------------------------------
(* Visibility, focus, lifecycle, destroy *)

CanDispatch == Attached /\ transition # "detaching" /\ host # "none"

\* Fault: a level set while nothing is attached is dropped.
DriveUnremembered(k, v) ==
  /\ CanDispatch => Running
  /\ asked' = [asked EXCEPT ![k] = v]
  /\ level' = IF CanDispatch THEN [level EXCEPT ![k] = v] ELSE level
  /\ sent' = IF CanDispatch THEN [sent EXCEPT ![k] = v] ELSE sent

\* Send the level, or only remember it for the next attach.  If the send fails
\* the call fails and changes nothing.
Drive(k, v) ==
  /\ CanDispatch => Running
  /\ asked' = [asked EXCEPT ![k] = v]
  /\ level' = [level EXCEPT ![k] = v]
  /\ sent' = IF CanDispatch THEN [sent EXCEPT ![k] = v] ELSE sent

MaySetLevel == MayCall /\ (NestedLevels \/ stack = <<>>)

\* migo_session_set_visibility; migo_session_set_focus, which ignores a repeat.
SetLevel(k, v) ==
  /\ MaySetLevel
  /\ k = "focused" => level[k] # v
  /\ Drive(k, v)
  /\ UNCHANGED <<control, lifecycle, stack, releases, engine, history>>

\* migo_session_set_lifecycle.
SetLifecycle(state) ==
  /\ MaySetLevel
  /\ lifecycle # state
  /\ Drive("visible", IF state = "running" THEN "on" ELSE "off")
  /\ lifecycle' = state
  /\ UNCHANGED <<control, stack, releases, engine, history>>

\* migo_session_destroy: the engine is asked to shut down.
Destroy ==
  /\ MayCall
  /\ transition = "idle" /\ ~Attached /\ pending = 0
  /\ closed' = 1 /\ gate' = Retired
  /\ UNCHANGED <<transition, reserved, pendingLoss, attachment, lastPublic,
                 activeGen, levels, stack, releases, host, queue, slot, binding,
                 history>>

-----------------------------------------------------------------------------
(* The engine *)

Receive(kind) == queue # <<>> /\ Head(queue).kind = kind /\ queue' = Tail(queue)
Received == Head(queue).lease

\* SurfaceAttachmentSlot::prepare.
Acceptable(lease) ==
  /\ Live(lease)
  /\ slot.internal = 0 \/ slot.internal = lease.internal
       \/ (slot.internal < lease.internal /\ ~Live(slot))

\* on_update_surface: the render thread recreates its Surface and the host commits
\* it; or the attempts time out and only the render thread has it; or they fail.
HostUpdate ==
  /\ Receive("update")
  /\ \/ Acceptable(Received) /\ slot' = Received /\ binding' = Received
     \/ Acceptable(Received) /\ binding' = Received /\ UNCHANGED slot
     \/ UNCHANGED <<slot, binding>>
  /\ UNCHANGED <<control, levels, stack, releases, host, gate, history>>

\* on_surface_destroyed clears the slot of exactly that generation.
HostDestroyed ==
  /\ Receive("destroyed")
  /\ slot' = IF slot.internal = Received.internal THEN NoLease ELSE slot
  /\ UNCHANGED <<control, levels, stack, releases, host, gate, binding, history>>

\* mark_surface_lost takes effect.
MarksLost(g) ==
  transition = "idle" /\ attachment.public = g /\ ~attachment.lost /\ activeGen = g

\* mark_surface_lost leaves the loss to the transition that is running.
HoldsLoss(g) ==
  transition \in {"attaching", "updating"} /\ reserved = g /\ pendingLoss = 0

\* notify_surface_lost.
HostLost ==
  /\ Receive("lost")
  /\ LET g == Received.public
     IN /\ pendingLoss' = IF HoldsLoss(g) THEN g ELSE pendingLoss
        /\ activeGen' = IF MarksLost(g) THEN 0 ELSE activeGen
        /\ attachment' = IF MarksLost(g) THEN [attachment EXCEPT !.lost = TRUE]
                         ELSE attachment
        /\ notified' = IF MarksLost(g) THEN [notified EXCEPT ![g] = @ + 1]
                       ELSE notified
  /\ UNCHANGED <<closed, transition, reserved, lastPublic, levels, stack,
                 releases, host, gate, slot, binding, losses>>

\* The engine's threads end, and drop what they hold.
HostExit ==
  /\ Running
  /\ host' = "exited" /\ queue' = <<>> /\ slot' = NoLease /\ binding' = NoLease
  /\ UNCHANGED <<control, levels, stack, releases, gate, history>>

\* retire_unexpected_surface: presenting fails on the live Surface.
RenderLose ==
  /\ binding.internal # 0 /\ Live(binding)
  /\ gate' = Retired /\ Send(Lost(binding))
  /\ losses' = losses \cup {binding.public}
  /\ UNCHANGED <<control, levels, stack, releases, host, slot, binding, notified>>

\* The render thread releases a retired Surface (module SurfaceControl).
RenderRelease ==
  /\ binding.internal # 0 /\ ~Live(binding)
  /\ binding' = NoLease
  /\ UNCHANGED <<control, levels, stack, releases, host, gate, queue, slot, history>>

-----------------------------------------------------------------------------

\* What a call that has begun does next.
CallStep ==
  \/ Rollback \/ Notify \/ NotifyInline \/ CallbackReturns
  \/ AttachFails \/ AttachLease \/ AttachSend
  \/ AttachSpawn \/ AttachCommit \/ Finish
  \/ UpdateFails \/ UpdateLease \/ UpdateSend \/ UpdateCommit
  \/ DetachClose \/ DetachRetire \/ DetachCommit \/ DetachSend \/ DetachDrop

HostStep == HostUpdate \/ HostDestroyed \/ HostLost

ReleaseStep(r) == DropAnchor(r) \/ Uncount(r) \/ PublishReleased(r)

NewCall ==
  \/ \E g \in Public : AttachReserve(g)
  \/ UpdateReserve \/ DetachReserve \/ Destroy
  \/ \E k \in Levels, v \in {"on", "off"} : SetLevel(k, v)
  \/ \E s \in {"running", "paused"} : "visible" \in Levels /\ SetLifecycle(s)

Next ==
  \/ NewCall \/ CallStep \/ HostStep \/ HostExit \/ RenderLose \/ RenderRelease
  \/ \E r \in Internal : ReleaseStep(r)

Spec == Init /\ [][Next]_vars

\* A call that has begun goes on, a callback returns, and the engine's threads run
\* until they exit.
FairSpec ==
  /\ Spec
  /\ WF_vars(CallStep) /\ WF_vars(HostStep) /\ WF_vars(RenderRelease)
  /\ WF_vars(\E r \in Internal : ReleaseStep(r))

-----------------------------------------------------------------------------
(* Properties *)

Pcs == {"attach", "attach_send", "attach_commit", "update", "update_send",
        "update_commit", "detach", "detach_retire", "detach_commit", "detach_send",
        "detach_drop", "rollback", "notify", "callback", "finish"}
LevelMaps == UNION {[set -> {"unset", "on", "off"}] : set \in LevelSets}
Leases == [internal : Nat, public : 0..MaxPublic]
Attachments == [internal : Nat, public : 0..MaxPublic, lost : BOOLEAN]
Frames == [pc : Pcs, lease : Leases, seen : LevelMaps \cup {<<>>}]
Commands == [kind : {"update", "destroyed", "lost"}, lease : Leases]

\* The Session's fields, the calls, the release bookkeeping and the engine stay in
\* their ranges; the gate never issues more than two generations for each public
\* one, the attach's and that of an update after a loss.
TypeOK ==
  /\ closed \in {0, 1}
  /\ transition \in {"idle", "attaching", "updating", "detaching"}
  /\ reserved \in 0..MaxPublic /\ pendingLoss \in 0..MaxPublic
  /\ lastPublic \in 0..MaxPublic /\ activeGen \in 0..MaxPublic
  /\ attachment \in Attachments
  /\ level \in LevelMaps
  /\ sent \in [Levels -> {"unset", "on", "off"}]
  /\ asked \in [Levels -> {"unset", "on", "off"}]
  /\ lifecycle \in {"created", "running", "paused"}
  /\ stack \in Seq(Frames)
  /\ registered \subseteq Internal
  /\ release \in [Internal -> {"none", "held", "dropped", "uncounted", "released"}]
  /\ host \in {"none", "running", "exited"}
  /\ gate \in [gen : 0..MaxInternal, live : BOOLEAN]
  /\ queue \in Seq(Commands)
  /\ slot \in Leases /\ binding \in Leases
  /\ losses \subseteq Public
  /\ notified \in [Public -> Nat]

\* The embedder hears of a loss of one public generation at most once, whether the
\* host thread or the transition it was left to reports it.
NotifiedOnce == \A g \in Public : notified[g] \in 0..1

\* The data plane is open exactly for the attachment that is installed, not lost
\* and not being detached, whichever of a loss, an attach and an update commits
\* first.
AdmissionMatchesAttachment ==
  /\ activeGen # 0 => attachment.public = activeGen /\ ~attachment.lost
  /\ Attached /\ ~attachment.lost /\ transition # "detaching" =>
       activeGen = attachment.public

\* Once begin_detach has returned, no presentation can reach its generation: the
\* render thread's Surface is live only while the attachment, or the attach that
\* will install it, stands.
DetachedNeverPresents ==
  Running /\ binding.internal # 0 /\ Live(binding) =>
    \/ attachment.internal = binding.internal
    \/ \E i \in DOMAIN stack : stack[i].lease.internal = binding.internal

\* From the moment a native resource is given up, and so whenever a query answers
\* RELEASED, no attachment, command, host slot or EGL binding reaches it.
NeverUsedAfterRelease ==
  \A r \in Internal :
    release[r] \in {"dropped", "uncounted", "released"} =>
      r \notin {attachment.internal, slot.internal, binding.internal}
                 \cup UpdateLeases

\* An embedder that has no attachment, is in no call and has seen RELEASED for
\* every detached Surface can destroy the Session at once: neither a count that
\* lags behind nor a transition left reserved makes the destroy fail.
DestroyIsNotRefused ==
  /\ stack = <<>> /\ ~Attached
  /\ \A r \in Internal : release[r] \in {"none", "released"}
  => pending = 0 /\ transition = "idle"

\* Every transition is reserved by a call that is still running: "A failed
\* pre-commit operation must always release its reservation".
ReservationIsOwned == stack = <<>> => transition = "idle"

\* Between two calls the engine's live generation is the attachment's: a failed
\* update changed nothing and a failed attach left no hidden live generation.
NoHiddenGeneration ==
  stack = <<>> /\ Running /\ gate.live => gate.gen = attachment.internal

\* Between two calls, with a Surface attached, the engine was last told the
\* visibility and the focus the embedder last set: "the value is remembered and
\* applied when the surface lands".
LevelsAgree ==
  stack = <<>> /\ Attached /\ Running => sent = asked

\* The attached Surface is lost and the embedder has not been told.
Unheard ==
  /\ attachment.public \in losses /\ notified[attachment.public] = 0
  /\ host # "exited"

\* A renderer loss of the attached Surface is reported, however it falls among
\* the sections of an attach or update, unless the embedder detaches or the
\* engine ends.  A generation is attached once, so no loss stays unheard behind
\* another one.
LossIsHeard == []<>~Unheard

\* Every detached Surface is released in the end, whatever the engine was doing
\* with it: registrations are bounded, and a released one stays released.
DetachedIsReleased ==
  <>[](\A r \in registered : release[r] = "released")

=============================================================================
