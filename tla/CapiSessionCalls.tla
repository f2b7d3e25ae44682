-------------------------- MODULE CapiSessionCalls --------------------------
(***************************************************************************)
(* The invariant of the Surface lifecycle of a Session, for every number   *)
(* of public generations, pending commands and nested calls, and that the  *)
(* steps of an attach, an update and a detach after the one that reserves  *)
(* the transition keep it.                                                 *)
(***************************************************************************)
EXTENDS CapiSession, FiniteSets, TLAPS

-----------------------------------------------------------------------------
(* The inductive invariant *)

Attaching == {"attach", "attach_send", "attach_commit"}
Updating == {"update", "update_send", "update_commit"}
Detaching == {"detach", "detach_retire", "detach_commit"}
Owning == Attaching \cup Updating \cup Detaching \cup {"rollback"}

\* No call owns the transition.  An attach that returned in the middle for want of
\* launch_nonce leaves it behind.
Free == transition = "idle" \/ (MissingNonce /\ transition = "attaching")

\* The call's lease is the attachment's.
OfAttachment(f) ==
  f.lease.internal = attachment.internal /\ f.lease.public = attachment.public

\* What the innermost call relies on while it owns the transition.
Owns(f) ==
  /\ f.pc \notin Owning => Free
  /\ f.pc \in Attaching =>
       /\ transition = "attaching" /\ ~Attached
       /\ f.lease.public > lastPublic
       /\ f.pc # "attach" => f.lease.internal # 0
  /\ f.pc \in Updating =>
       /\ transition = "updating" /\ Attached
       /\ f.pc # "update_commit" => OfAttachment(f)
  /\ f.pc \in Detaching =>
       /\ transition = "detaching" /\ Attached /\ OfAttachment(f)
       /\ f.pc # "detach" => activeGen = 0
  /\ f.pc = "rollback" =>
       \/ transition = "attaching" /\ ~Attached
       \/ transition = "updating" /\ Attached

\* The innermost call owns the transition and nobody else does; the calls around
\* it wait in a callback.
OwnerInv ==
  /\ \A i \in 1..(Len(stack) - 1) : stack[i].pc = "callback"
  /\ stack = <<>> => Free
  /\ stack # <<>> => Owns(Top)

\* An attachment is complete, and the data plane is open for it alone.
AttachmentInv ==
  /\ ~Attached => attachment = NoAttachment
  /\ Attached => attachment.public # 0 /\ attachment.public = lastPublic
  /\ AdmissionMatchesAttachment

\* A call holds a generation that its attach has been issued.
Issuing == stack # <<>> /\ Top.pc \in {"attach_send", "attach_commit"}

\* While the engine runs the gate is at the attachment's generation, or one past
\* it after an update that was too late; it is live for no other.
GenerationInv ==
  /\ gate.live => gate.gen # 0
  /\ host # "exited" =>
       /\ Attached =>
            /\ host # "none" /\ attachment.internal < 2 * attachment.public
            /\ \/ gate.gen = attachment.internal
               \/ /\ gate.gen = attachment.internal + 1
                  /\ release[gate.gen] = "none"
                  /\ ~gate.live => At("detach_commit")
            /\ At("detach_commit") => ~gate.live
       /\ Issuing =>
            /\ gate.gen = Lease.internal /\ gate.gen <= 2 * lastPublic + 1
            /\ host # "none"
       /\ ~Attached /\ ~Issuing => ~gate.live /\ gate.gen <= 2 * lastPublic

HeldOrNone == {0} \cup {r \in Internal : release[r] = "held"}

\* An UpdateSurface command carries a lease of a held resource, and a loss the
\* public generation it is about.
QueueHeld ==
  \A i \in 1..Len(queue) :
    /\ queue[i].kind = "update" =>
         queue[i].lease.internal \in HeldOrNone /\ queue[i].lease.public # 0
    /\ queue[i].kind = "lost" => queue[i].lease.public # 0

\* Whatever reaches a native resource finds it held, and a lease is complete; a
\* generation not issued has no resource.
HeldInv ==
  /\ \A r \in Internal : r > gate.gen => release[r] = "none"
  /\ {attachment.internal, slot.internal, binding.internal} \subseteq HeldOrNone
  /\ binding.internal # 0 => binding.public # 0
  /\ \A i \in 1..Len(stack) : stack[i].lease.internal \in HeldOrNone
  /\ QueueHeld

\* The Session counts the releases that are registered, each of a resource whose
\* count has not been taken back.
CountInv ==
  /\ pending = Cardinality(registered)
  /\ \A r \in registered : release[r] \in {"held", "dropped"}

\* The levels the engine was told are the remembered ones, unless a call that
\* read them has yet to send them.
LevelInv ==
  /\ asked = level
  /\ ~NestedLevels =>
       /\ \A k \in Levels : level[k] = "unset" => sent[k] = "unset"
       /\ \A i \in 1..Len(stack) : stack[i].seen \in {<<>>, level}
       /\ Attached /\ Running =>
            \/ sent = level
            \/ \E i \in 1..Len(stack) :
                 /\ stack[i].seen = level
                 /\ stack[i].pc \in {"notify", "callback", "finish"}

\* A loss is reported when it takes effect, or by the call that consumed it.
NotifyInv ==
  /\ NotifiedOnce
  /\ \A g \in Public :
       \/ g > lastPublic
       \/ g = attachment.public /\ ~attachment.lost
       \/ g = attachment.public /\ At("notify")
       => notified[g] = 0
  /\ At("notify") => Attached /\ attachment.lost

SessionInv ==
  /\ TypeOK /\ OwnerInv /\ AttachmentInv /\ GenerationInv /\ HeldInv /\ CountInv
  /\ LevelInv /\ NotifyInv

-----------------------------------------------------------------------------
(* The calls *)

\* The innermost call becomes f, the others are as they were.
NewTop(f) ==
  /\ stack # <<>> /\ stack' # <<>> /\ Len(stack) \in Nat \ {0}
  /\ stack' \in Seq(Frames) /\ Len(stack') = Len(stack)
  /\ stack'[Len(stack)] = f
  /\ \A i \in 1..(Len(stack) - 1) : stack'[i] = stack[i]

\* A call is made inside the others.
Pushed(f) ==
  /\ stack' # <<>> /\ Len(stack) \in Nat
  /\ stack' \in Seq(Frames) /\ Len(stack') = Len(stack) + 1
  /\ stack'[Len(stack) + 1] = f
  /\ \A i \in 1..Len(stack) : stack'[i] = stack[i]

\* The innermost call returns.
Popped ==
  /\ stack # <<>> /\ Len(stack) \in Nat \ {0}
  /\ stack' \in Seq(Frames) /\ Len(stack') = Len(stack) - 1
  /\ stack' # <<>> => Len(stack) > 1
  /\ \A i \in 1..(Len(stack) - 1) : stack'[i] = stack[i]

\* Every call in progress has a frame.
LEMMA TopIsFrame ==
  ASSUME TypeOK, stack # <<>>
  PROVE  Top \in Frames /\ Len(stack) \in Nat \ {0}
BY DEF TypeOK, Top

\* Go and GoWith, and the commit of an attach, replace the innermost call.
LEMMA Moves ==
  ASSUME TypeOK, stack # <<>>, NEW STATE f, f \in Frames,
         stack' = [stack EXCEPT ![Len(stack)] = f]
  PROVE  NewTop(f)
<1>1. stack \in Seq(Frames) /\ Len(stack) \in Nat \ {0}
  BY DEF TypeOK
<1>2. stack' \in Seq(Frames) /\ Len(stack') = Len(stack)
  BY <1>1
<1>3. stack' # <<>>
  BY <1>1, <1>2, Zenon
<1>4. stack'[Len(stack)] = f
  BY <1>1
<1>5. \A i \in 1..(Len(stack) - 1) : stack'[i] = stack[i]
  BY <1>1
<1> QED
  BY <1>1, <1>2, <1>3, <1>4, <1>5, Zenon DEF NewTop

\* GoWith keeps what the call has seen.
LEMMA Goes ==
  ASSUME TypeOK, stack # <<>>, NEW pc \in Pcs, NEW STATE lease, lease \in Leases,
         GoWith(pc, lease)
  PROVE  NewTop([pc |-> pc, lease |-> lease, seen |-> Top.seen])
<1> DEFINE f == [pc |-> pc, lease |-> lease, seen |-> Top.seen]
<1>1. Top \in Frames
  BY TopIsFrame, Zenon
<1>2. f \in Frames
  BY <1>1, Zenon DEF Frames
<1>3. stack' = [stack EXCEPT ![Len(stack)] = f]
  BY Zenon DEF GoWith
<1> QED
  BY <1>2, <1>3, Moves, Zenon

\* An attach that commits reads the levels.
LEMMA Reads ==
  ASSUME TypeOK, stack # <<>>, NEW pc \in Pcs,
         stack' = [stack EXCEPT ![Len(stack)] =
                     [pc |-> pc, lease |-> NoLease, seen |-> level]]
  PROVE  NewTop([pc |-> pc, lease |-> NoLease, seen |-> level])
<1> DEFINE f == [pc |-> pc, lease |-> NoLease, seen |-> level]
<1>1. f \in Frames
  BY SessionAssumption DEF Frames, NoLease, Leases, TypeOK
<1>2. stack' = [stack EXCEPT ![Len(stack)] = f]
  OBVIOUS
<1> HIDE DEF f
<1>3. NewTop(f)
  BY <1>1, <1>2, Moves, Zenon
<1> QED
  BY <1>3, Zenon DEF f

\* Reserving calls.
LEMMA Calls ==
  ASSUME TypeOK, NEW pc \in Pcs, NEW STATE lease, lease \in Leases, Call(pc, lease, <<>>)
  PROVE  Pushed([pc |-> pc, lease |-> lease, seen |-> <<>>])
<1> DEFINE f == [pc |-> pc, lease |-> lease, seen |-> <<>>]
<1>1. f \in Frames
  BY Zenon DEF Frames
<1>2. stack \in Seq(Frames) /\ Len(stack) \in Nat /\ stack' = Append(stack, f)
  BY DEF TypeOK, Call
<1> HIDE DEF f
<1>3. stack' \in Seq(Frames) /\ Len(stack') = Len(stack) + 1
      /\ stack'[Len(stack) + 1] = f
      /\ \A i \in 1..Len(stack) : stack'[i] = stack[i]
  BY <1>1, <1>2
<1>4. stack' # <<>>
  BY <1>2, <1>3
<1> QED
  BY <1>2, <1>3, <1>4, Zenon DEF Pushed, f

\* Returning leaves the calls around.
LEMMA Returns ==
  ASSUME TypeOK, stack # <<>>, Return
  PROVE  Popped
<1> DEFINE k == Len(stack) - 1
<1>1. stack \in Seq(Frames) /\ k \in Int /\ 0 <= k /\ k <= Len(stack)
      /\ Len(stack) \in Nat \ {0}
  BY DEF TypeOK
<1>2. stack' = SubSeq(stack, 1, k)
  BY Zenon DEF Return
<1>3. Len(stack) = k + 1
  BY <1>1
<1> HIDE DEF k
<1>4. stack' \in Seq(Frames) /\ Len(stack') = k
      /\ \A i \in 1..k : stack'[i] = stack[i]
  BY <1>1, <1>2
<1>5. stack' # <<>> => k # 0
  BY <1>4
<1> QED
  BY <1>1, <1>3, <1>4, <1>5 DEF Popped

\* A loss marks the attachment and leaves the rest of it.
LEMMA LostIsAttachment ==
  ASSUME NEW a \in Attachments
  PROVE  [a EXCEPT !.lost = TRUE] \in Attachments
BY Zenon DEF Attachments

\* Retiring closes the gate for its generation.
LEMMA RetiredIsGate ==
  ASSUME TypeOK
  PROVE  /\ Retired \in [gen : 0..MaxInternal, live : BOOLEAN]
         /\ Retired.gen = gate.gen /\ ~Retired.live
<1>1. gate \in [gen : 0..MaxInternal, live : BOOLEAN]
  BY Zenon DEF TypeOK
<1>2. Retired \in [gen : 0..MaxInternal, live : BOOLEAN]
  BY <1>1, Zenon DEF Retired
<1>3. Retired.gen = gate.gen
  BY <1>1, Zenon DEF Retired
<1>4. ~Retired.live
  BY <1>1, Zenon DEF Retired
<1> QED
  BY <1>2, <1>3, <1>4, Zenon

\* A command is queued behind the others.
LEMMA Sends ==
  ASSUME TypeOK, NEW STATE c, c \in Commands, queue' = Append(queue, c)
  PROVE  /\ queue' \in Seq(Commands)
         /\ \A i \in 1..Len(queue') :
              queue'[i] = c \/ (i \in 1..Len(queue) /\ queue'[i] = queue[i])
<1>1. queue \in Seq(Commands) /\ Len(queue) \in Nat
  BY DEF TypeOK
<1>2. queue' \in Seq(Commands) /\ Len(queue') = Len(queue) + 1
  BY <1>1
<1>3. queue'[Len(queue) + 1] = c /\ \A i \in 1..Len(queue) : queue'[i] = queue[i]
  BY <1>1
<1> QED
  BY <1>1, <1>2, <1>3

\* The host takes the command in front.
LEMMA Receives ==
  ASSUME TypeOK, queue # <<>>, queue' = Tail(queue)
  PROVE  /\ queue' \in Seq(Commands) /\ Head(queue) \in Commands
         /\ 1 \in 1..Len(queue) /\ Head(queue) = queue[1]
         /\ \A i \in 1..Len(queue') :
              i + 1 \in 1..Len(queue) /\ queue'[i] = queue[i + 1]
<1>1. queue \in Seq(Commands) /\ Len(queue) \in Nat \ {0}
  BY DEF TypeOK
<1>2. queue' \in Seq(Commands) /\ Len(queue') = Len(queue) - 1
  BY <1>1
<1>3. \A i \in 1..Len(queue') : queue'[i] = queue[i + 1]
  BY <1>1, <1>2
<1> QED
  BY <1>1, <1>2, <1>3

-----------------------------------------------------------------------------
(* What a change of the calls alone preserves *)

Senders == {"notify", "callback", "finish"}

\* A call moves on and keeps the levels it has read.
LEMMA LevelMoves ==
  ASSUME LevelInv, NEW STATE f, f \in Frames, NewTop(f), f.seen = Top.seen,
         UNCHANGED <<level, sent, asked, host>>, Attached' => Attached,
         Top.pc \in Senders => f.pc \in Senders
  PROVE  LevelInv'
<1>1. \A i \in 1..Len(stack) : stack'[i].seen = stack[i].seen
  BY DEF NewTop, Top
<1>2. \A i \in 1..Len(stack) : stack[i].pc \in Senders => stack'[i].pc \in Senders
  BY DEF NewTop, Top
<1>3. Len(stack') = Len(stack)
  BY Zenon DEF NewTop
<1> QED
  BY <1>1, <1>2, <1>3, Zenon DEF LevelInv, Levels, Running, Senders

\* A call that has read no levels returns.
LEMMA LevelPops ==
  ASSUME LevelInv, Popped, Top.pc \notin Senders,
         UNCHANGED <<level, sent, asked, host>>, Attached' => Attached
  PROVE  LevelInv'
<1>1. Len(stack) \in Nat \ {0} /\ Len(stack') = Len(stack) - 1
      /\ \A i \in 1..Len(stack') : stack'[i] = stack[i]
  BY Zenon DEF Popped
<1>2. \A i \in 1..Len(stack) : stack[i].pc \in Senders => i \in 1..Len(stack')
  BY <1>1 DEF Top
<1>3. \A i \in 1..Len(stack') : i \in 1..Len(stack)
  BY <1>1
<1> QED
  BY <1>1, <1>2, <1>3, Zenon DEF LevelInv, Levels, Running, Senders

\* A call begins.
LEMMA LevelPushes ==
  ASSUME LevelInv, NEW STATE f, f \in Frames, Pushed(f), f.seen = <<>>,
         UNCHANGED <<level, sent, asked, host>>, Attached' => Attached
  PROVE  LevelInv'
<1>1. Len(stack) \in Nat /\ Len(stack') = Len(stack) + 1
      /\ \A i \in 1..Len(stack) : stack'[i] = stack[i] /\ i \in 1..Len(stack')
  BY DEF Pushed
<1>2. \A i \in 1..Len(stack') : i \in 1..Len(stack) \/ stack'[i].seen = <<>>
  BY <1>1 DEF Pushed
<1> QED
  BY <1>1, <1>2, Zenon DEF LevelInv, Levels, Running, Senders

\* The calls and the levels stay.
LEMMA LevelStays ==
  ASSUME LevelInv, UNCHANGED <<stack, level, sent, asked>>,
         Attached' => Attached, Running' => Running
  PROVE  LevelInv'
BY Zenon DEF LevelInv, Levels

\* A call moves on, and holds a resource that is held.
LEMMA HeldMoves ==
  ASSUME HeldInv, NEW STATE f, f \in Frames, NewTop(f),
         f.lease.internal \in HeldOrNone, gate.gen \in Nat, gate'.gen \in Nat,
         gate.gen <= gate'.gen, QueueHeld',
         UNCHANGED <<release, slot, binding>>,
         attachment'.internal \in {0, attachment.internal, Lease.internal}
  PROVE  HeldInv'
<1>1. \A i \in 1..Len(stack') : stack'[i].lease.internal \in HeldOrNone
  BY DEF HeldInv, NewTop
<1>2. HeldOrNone' = HeldOrNone /\ 0 \in HeldOrNone
  BY Zenon DEF HeldOrNone
<1>3. Lease.internal \in HeldOrNone
  BY DEF HeldInv, NewTop, Lease, Top
<1> QED
  BY <1>1, <1>2, <1>3 DEF HeldInv, Internal

\* The innermost call moves on to where it may be.
LEMMA OwnerMoves ==
  ASSUME OwnerInv, NEW STATE f, NewTop(f), Owns(Top)'
  PROVE  OwnerInv'
BY Zenon DEF OwnerInv, NewTop

\* A call moves on with its lease or none, and the attachment is the same, is
\* gone or takes the call's resource.
LEMMA HeldFollows ==
  ASSUME TypeOK, HeldInv, NEW STATE f, f \in Frames, NewTop(f),
         f.lease.internal \in {0, Lease.internal},
         UNCHANGED <<release, slot, binding, gate, queue>>,
         attachment'.internal \in {0, attachment.internal, Lease.internal}
  PROVE  HeldInv'
<1>1. 0 \in HeldOrNone /\ HeldOrNone' = HeldOrNone
  BY Zenon DEF HeldOrNone
<1>2. Lease.internal \in HeldOrNone
  BY DEF HeldInv, NewTop, Lease, Top
<1>3. QueueHeld'
  BY <1>1, Zenon DEF HeldInv, QueueHeld
<1>4. gate.gen \in Nat /\ gate'.gen = gate.gen
  BY DEF TypeOK
<1> QED
  BY <1>1, <1>2, <1>3, <1>4, HeldMoves

\* A call returns.
LEMMA HeldPops ==
  ASSUME HeldInv, Popped, gate'.gen = gate.gen,
         UNCHANGED <<release, slot, binding, queue>>,
         attachment'.internal = attachment.internal
  PROVE  HeldInv'
<1>1. \A i \in 1..Len(stack') : stack'[i].lease.internal \in HeldOrNone
  BY DEF HeldInv, Popped
<1>2. HeldOrNone' = HeldOrNone
  BY Zenon DEF HeldOrNone
<1> QED
  BY <1>1, <1>2, Zenon DEF HeldInv, QueueHeld

\* A call begins, on the attachment's resource or on none.
LEMMA HeldPushes ==
  ASSUME HeldInv, NEW STATE f, f \in Frames, Pushed(f),
         f.lease.internal \in {0, attachment.internal}, gate'.gen = gate.gen,
         UNCHANGED <<release, slot, binding, queue, attachment>>
  PROVE  HeldInv'
<1>1. HeldOrNone' = HeldOrNone /\ 0 \in HeldOrNone
  BY Zenon DEF HeldOrNone
<1>2. f.lease.internal \in HeldOrNone
  BY <1>1, Zenon DEF HeldInv
<1>3. \A i \in 1..Len(stack') : stack'[i].lease.internal \in HeldOrNone
  BY <1>2 DEF HeldInv, Pushed
<1> QED
  BY <1>1, <1>3, Zenon DEF HeldInv, QueueHeld

-----------------------------------------------------------------------------
(* The steps of attach, update and detach *)

\* A call goes on and nothing else changes, except for the gate and the queue.
LEMMA SendKeeps ==
  ASSUME SessionInv, NEW STATE f, f \in Frames, NewTop(f), f.seen = Top.seen,
         f.lease.internal \in {0, Lease.internal},
         Top.pc \in Senders => f.pc \in Senders,
         Top.pc # "notify", f.pc # "notify",
         UNCHANGED <<closed, transition, reserved, pendingLoss, attachment,
                     lastPublic, activeGen, level, lifecycle, sent, asked, pending,
                     release, registered, host, slot, binding, losses, notified>>,
         queue' \in Seq(Commands), QueueHeld',
         gate' \in [gen : 0..MaxInternal, live : BOOLEAN], gate.gen <= gate'.gen,
         OwnerInv', GenerationInv'
  PROVE  SessionInv'
<1>1. TypeOK /\ OwnerInv /\ AttachmentInv /\ GenerationInv /\ HeldInv /\ CountInv
      /\ LevelInv /\ NotifyInv
  BY Zenon DEF SessionInv
<1>2. stack # <<>> /\ stack' # <<>> /\ Top' = f
  BY Zenon DEF NewTop, Top
<1>3. TypeOK'
  BY <1>1, Zenon DEF TypeOK, NewTop, Levels
<1>4. AttachmentInv'
  BY <1>1, Zenon DEF AttachmentInv, Attached, AdmissionMatchesAttachment
<1>5. f.lease.internal \in HeldOrNone
  BY <1>1 DEF HeldInv, HeldOrNone, Lease, Top, NewTop
<1>6. HeldInv'
  BY <1>1, <1>5, HeldMoves DEF TypeOK
<1>7. CountInv'
  BY <1>1, Zenon DEF CountInv
<1>8. LevelInv'
  BY <1>1, LevelMoves, Zenon DEF Attached
<1>9. NotifyInv'
  BY <1>1, <1>2, Zenon DEF NotifyInv, NotifiedOnce, At
<1> QED
  BY <1>3, <1>4, <1>6, <1>7, <1>8, <1>9, Zenon DEF SessionInv

\* A call goes on and nothing else changes, except for the gate.
LEMMA MoveKeeps ==
  ASSUME SessionInv, NEW STATE f, f \in Frames, NewTop(f), f.seen = Top.seen,
         f.lease.internal \in {0, Lease.internal},
         Top.pc \in Senders => f.pc \in Senders,
         Top.pc # "notify", f.pc # "notify",
         UNCHANGED <<closed, transition, reserved, pendingLoss, attachment,
                     lastPublic, activeGen, level, lifecycle, sent, asked, pending,
                     release, registered, host, queue, slot, binding, losses,
                     notified>>,
         gate' \in [gen : 0..MaxInternal, live : BOOLEAN], gate.gen <= gate'.gen,
         OwnerInv', GenerationInv'
  PROVE  SessionInv'
<1>1. queue' \in Seq(Commands)
  BY Zenon DEF SessionInv, TypeOK
<1>2. QueueHeld'
  BY Zenon DEF SessionInv, HeldInv, QueueHeld, HeldOrNone
<1> QED
  BY <1>1, <1>2, SendKeeps, Zenon

\* rollback_surface_transition, and the commit of an update.
LEMMA RollbackKeeps ==
  ASSUME SessionInv, Rollback \/ UpdateCommit
  PROVE  SessionInv'
<1>1. TypeOK /\ OwnerInv /\ AttachmentInv /\ GenerationInv /\ HeldInv /\ CountInv
      /\ LevelInv /\ NotifyInv
  BY Zenon DEF SessionInv
<1>2. /\ stack # <<>> /\ Top.pc \in {"rollback", "update_commit"} /\ Top \in Frames
      /\ transition' = "idle" /\ reserved' = 0 /\ pendingLoss' = 0
      /\ UNCHANGED <<closed, lastPublic, level, lifecycle, sent, asked, pending,
                     release, registered, host, gate, queue, slot, binding,
                     losses, notified>>
  BY <1>1, TopIsFrame, Zenon
     DEF Rollback, UpdateCommit, Settle, Idle, At, levels, releases, engine, history
<1>3. transition # "detaching"
  BY <1>1, <1>2, Zenon DEF OwnerInv, Owns, Updating
<1>4. CASE Consumes(attachment)
  <2> DEFINE f == [pc |-> "notify", lease |-> Lease, seen |-> Top.seen]
  <2>1. NewTop(f)
    BY <1>1, <1>2, <1>4, Goes, Zenon
       DEF Rollback, UpdateCommit, Go, Pcs, Frames, Lease
  <2>2. /\ attachment' = [attachment EXCEPT !.lost = TRUE] /\ activeGen' = 0
        /\ attachment'.internal = attachment.internal
        /\ attachment'.public = attachment.public /\ attachment'.lost
    BY <1>1, <1>4, Zenon DEF TypeOK, Attachments, Rollback, UpdateCommit, Settle
  <2>3. TypeOK'
    <3>1. attachment' \in Attachments
      BY <1>1, <2>2, LostIsAttachment, Zenon DEF TypeOK
    <3> QED
      BY <1>1, <1>2, <2>1, <2>2, <3>1, SessionAssumption, SMTT(30)
         DEF TypeOK, NewTop, Levels
  <2>4. OwnerInv'
    <3>1. Top'.pc = "notify"
      BY <2>1 DEF NewTop, Top
    <3>2. Owns(Top)'
      BY <1>2, <3>1, Zenon DEF Owns, Owning, Attaching, Updating, Detaching, Free
    <3> QED
      BY <1>1, <2>1, <3>2, OwnerMoves, Zenon
  <2>5. AttachmentInv'
    BY <1>1, <1>2, <1>4, <2>2
       DEF AttachmentInv, Attached, Consumes, NoAttachment,
           AdmissionMatchesAttachment
  <2>6. GenerationInv'
    BY <1>1, <1>2, <2>1, <2>2
       DEF GenerationInv, Attached, At, Issuing, Lease, Top, NewTop
  <2>7. HeldInv'
    <3>1. f \in Frames /\ f.lease = Lease
      BY <1>1, <1>2, TopIsFrame, Zenon DEF Frames, Pcs, Lease
    <3> HIDE DEF f
    <3> QED
      BY <1>1, <1>2, <2>1, <2>2, <3>1, HeldFollows, Zenon
  <2>8. CountInv'
    BY <1>1, <1>2, Zenon DEF CountInv
  <2>9. LevelInv'
    BY <1>1, <1>2, <2>1, <2>2, SMTT(30)
       DEF LevelInv, Levels, Attached, Running, NewTop, Top
  <2>10. NotifyInv'
    <3>1. ~attachment.lost /\ Attached /\ ~At("notify") /\ At("notify")'
      BY <1>1, <1>2, <1>4, <2>1, SessionAssumption
         DEF Consumes, Attached, AttachmentInv, NoAttachment, At, NewTop, Top,
             TypeOK
    <3> QED
      BY <1>1, <1>2, <2>2, <3>1, Zenon DEF NotifyInv, NotifiedOnce, Attached
  <2> QED
    BY <2>3, <2>4, <2>5, <2>6, <2>7, <2>8, <2>9, <2>10, Zenon DEF SessionInv
<1>5. CASE ~Consumes(attachment)
  <2>1. Popped
    BY <1>1, <1>2, <1>5, Returns, Zenon DEF Rollback, UpdateCommit
  <2>2. attachment' = attachment /\ activeGen' = activeGen
    BY <1>5, Zenon DEF Rollback, UpdateCommit, Settle
  <2>3. TypeOK'
    BY <1>1, <1>2, <2>1, <2>2, SessionAssumption
       DEF TypeOK, Popped, Levels
  <2>4. OwnerInv'
    BY <1>1, <1>2, <2>1
       DEF OwnerInv, Owns, Popped, Top, Owning, Attaching, Updating, Detaching, Free
  <2>5. AttachmentInv'
    BY <1>1, <1>2, <1>3, <2>2, Zenon
       DEF AttachmentInv, Attached, NoAttachment, AdmissionMatchesAttachment
  <2>6. stack' # <<>> => Top'.pc = "callback"
    BY <1>1, <2>1 DEF OwnerInv, Owns, Popped, Top
  <2>7. GenerationInv'
    BY <1>1, <1>2, <2>2, <2>6, Zenon DEF GenerationInv, Attached, At, Issuing
  <2>8. HeldInv'
    BY <1>1, <1>2, <2>1, <2>2, HeldPops, Zenon
  <2>9. CountInv'
    BY <1>1, <1>2, Zenon DEF CountInv
  <2>10. LevelInv'
    BY <1>1, <1>2, <2>1, <2>2, LevelPops, Zenon DEF Attached, Senders
  <2>11. NotifyInv'
    BY <1>1, <1>2, <2>2, <2>6, Zenon DEF NotifyInv, NotifiedOnce, At
  <2> QED
    BY <2>3, <2>4, <2>5, <2>7, <2>8, <2>9, <2>10, <2>11, Zenon DEF SessionInv
<1> QED
  BY <1>4, <1>5, Zenon

\* DeferredSurfaceLoss::notify, and the callback it may run.
LEMMA NotifyKeeps ==
  ASSUME SessionInv, Notify \/ NotifyInline
  PROVE  SessionInv'
<1>1. TypeOK /\ OwnerInv /\ AttachmentInv /\ GenerationInv /\ HeldInv /\ CountInv
      /\ LevelInv /\ NotifyInv
  BY Zenon DEF SessionInv
<1>2. /\ stack # <<>> /\ Top.pc = "notify" /\ Top \in Frames
      /\ notified' = [notified EXCEPT ![attachment.public] = @ + 1]
      /\ UNCHANGED <<closed, transition, reserved, pendingLoss, attachment,
                     lastPublic, activeGen, level, lifecycle, sent, asked, pending,
                     release, registered, host, gate, queue, slot, binding, losses>>
  BY <1>1, TopIsFrame, Zenon
     DEF Notify, NotifyInline, At, control, levels, releases, engine
<1>3. PICK pc \in {"finish", "callback"} : Go(pc)
  BY Zenon DEF Notify, NotifyInline
<1> DEFINE f == [pc |-> pc, lease |-> Lease, seen |-> Top.seen]
<1>4. NewTop(f) /\ f \in Frames /\ f.pc = pc /\ f.lease = Top.lease
      /\ f.seen = Top.seen
  BY <1>1, <1>2, <1>3, Goes, Zenon DEF Go, Pcs, Frames, Lease
<1> HIDE DEF f
<1>5. Len(stack') = Len(stack) /\ stack' # <<>> /\ Top' = f /\ Lease' = Lease
  BY <1>4, Zenon DEF NewTop, Top, Lease
<1>6. attachment.public \in Public /\ Attached /\ attachment.lost
      /\ notified[attachment.public] = 0
  BY <1>1, <1>2, SessionAssumption
     DEF NotifyInv, At, AttachmentInv, TypeOK, Attachments, Public
<1>7. TypeOK'
  BY <1>1, <1>2, <1>4, <1>6, SMTT(30) DEF TypeOK, NewTop, Levels
<1>8. OwnerInv'
  <2>1. Owns(Top)'
    BY <1>1, <1>2, <1>4, <1>5, Zenon
       DEF OwnerInv, Owns, Owning, Attaching, Updating, Detaching, Free
  <2> QED
    BY <1>1, <1>4, <2>1, OwnerMoves, Zenon
<1>9. AttachmentInv'
  BY <1>1, <1>2, Zenon DEF AttachmentInv, Attached, AdmissionMatchesAttachment
<1>10. GenerationInv'
  BY <1>1, <1>2, <1>4, <1>5, Zenon DEF GenerationInv, Attached, At, Issuing
<1>11. HeldInv'
  BY <1>1, <1>2, <1>4, HeldFollows, Zenon DEF Lease
<1>12. CountInv'
  BY <1>1, <1>2, Zenon DEF CountInv
<1>13. LevelInv'
  BY <1>1, <1>2, <1>4, LevelMoves, Zenon DEF Attached, Senders
<1>14. NotifyInv'
  <2>1. ~At("notify")'
    BY <1>4, <1>5, Zenon DEF At
  <2>2. \A g \in Public : g > lastPublic => g # attachment.public
    BY <1>1, <1>6 DEF AttachmentInv, TypeOK, Public
  <2> QED
    BY <1>1, <1>2, <1>6, <2>1, <2>2
       DEF NotifyInv, NotifiedOnce, TypeOK
<1> QED
  BY <1>7, <1>8, <1>9, <1>10, <1>11, <1>12, <1>13, <1>14, Zenon
     DEF SessionInv

\* The inline callback returns.
LEMMA CallbackReturnsKeeps ==
  ASSUME SessionInv, CallbackReturns
  PROVE  SessionInv'
<1>1. TypeOK /\ OwnerInv /\ GenerationInv
  BY Zenon DEF SessionInv
<1>2. /\ stack # <<>> /\ Top.pc = "callback" /\ Top \in Frames /\ Go("finish")
      /\ UNCHANGED <<control, levels, releases, engine, history>>
  BY <1>1, TopIsFrame, Zenon DEF CallbackReturns, At
<1> DEFINE f == [pc |-> "finish", lease |-> Lease, seen |-> Top.seen]
<1>3. NewTop(f) /\ f \in Frames /\ f.pc = "finish" /\ f.lease = Lease
      /\ f.seen = Top.seen
  BY <1>1, <1>2, Goes, Zenon DEF Go, Pcs, Frames, Lease
<1> HIDE DEF f
<1>4. Len(stack') = Len(stack) /\ stack' # <<>> /\ Top' = f
  BY <1>3, Zenon DEF NewTop, Top
<1>5. OwnerInv'
  <2>1. Owns(Top)'
    BY <1>1, <1>2, <1>3, <1>4, Zenon
       DEF OwnerInv, Owns, Owning, Attaching, Updating, Detaching, Free, control
  <2> QED
    BY <1>1, <1>3, <2>1, OwnerMoves, Zenon
<1>6. GenerationInv'
  BY <1>1, <1>2, <1>3, <1>4, Zenon
     DEF GenerationInv, Attached, At, Issuing, control, releases, engine
<1>7. /\ gate' = gate
      /\ UNCHANGED <<closed, transition, reserved, pendingLoss, attachment,
                     lastPublic, activeGen, level, lifecycle, sent, asked, pending,
                     release, registered, host, queue, slot, binding, losses,
                     notified>>
  BY <1>2, Zenon DEF control, levels, releases, engine, history
<1>8. gate' \in [gen : 0..MaxInternal, live : BOOLEAN] /\ gate.gen <= gate'.gen
  BY <1>1, <1>7 DEF TypeOK
<1>9. /\ f.pc \in Senders /\ f.pc # "notify" /\ Top.pc # "notify"
      /\ f.lease.internal \in {0, Lease.internal}
  BY <1>2, <1>3, Zenon DEF Senders
<1> QED
  BY <1>3, <1>5, <1>6, <1>7, <1>8, <1>9, MoveKeeps, Zenon

\* A step of an attach or an update fails before the commit, or returns early.
LEMMA FailKeeps ==
  ASSUME SessionInv,
         \/ AttachFails \/ UpdateFails
         \/ AttachSend /\ ~Running
         \/ UpdateSend /\ ~Running
  PROVE  SessionInv'
<1>1. TypeOK /\ OwnerInv /\ GenerationInv
  BY Zenon DEF SessionInv
<1>2. /\ stack # <<>> /\ Top \in Frames
      /\ UNCHANGED <<control, levels, releases, engine, history>>
      /\ \/ Top.pc \in {"attach", "update"}
         \/ Top.pc \in {"attach_send", "update_send"} /\ ~Running
  BY <1>1, TopIsFrame, Zenon
     DEF AttachFails, UpdateFails, AttachSend, UpdateSend, Fail, At, engine
<1>3. PICK pc \in {"rollback", "finish"} :
        /\ GoWith(pc, NoLease)
        /\ pc = "finish" => MissingNonce /\ Top.pc = "attach"
  BY Zenon
     DEF AttachFails, UpdateFails, AttachSend, UpdateSend, Fail, EarlyReturn, At
<1> DEFINE f == [pc |-> pc, lease |-> NoLease, seen |-> Top.seen]
<1>4. NoLease \in Leases
  BY SessionAssumption DEF NoLease, Leases
<1>5. NewTop(f) /\ f \in Frames /\ f.pc = pc /\ f.lease = NoLease
      /\ f.seen = Top.seen
  BY <1>1, <1>2, <1>3, <1>4, Goes, Zenon DEF Pcs, Frames
<1> HIDE DEF f
<1>6. Len(stack') = Len(stack) /\ stack' # <<>> /\ Top' = f
  BY <1>5, Zenon DEF NewTop, Top
<1>7. OwnerInv'
  <2>1. Owns(Top)'
    BY <1>1, <1>2, <1>3, <1>5, <1>6, Zenon
       DEF OwnerInv, Owns, Owning, Attaching, Updating, Detaching, Free,
           control, Attached
  <2> QED
    BY <1>1, <1>5, <2>1, OwnerMoves, Zenon
<1>8. GenerationInv'
  BY <1>1, <1>2, <1>3, <1>5, <1>6, Zenon
     DEF GenerationInv, Attached, At, Issuing, control, releases, engine, Running,
         TypeOK, OwnerInv, Owns, Updating
<1>9. f.lease.internal = 0 /\ Top.pc \notin Senders /\ f.pc # "notify"
  BY <1>2, <1>3, <1>5 DEF NoLease, Senders
<1>10. gate' = gate /\ gate.gen <= gate.gen
  BY <1>1, <1>2 DEF TypeOK, engine
<1> QED
  BY <1>1, <1>2, <1>5, <1>7, <1>8, <1>9, <1>10, MoveKeeps, Zenon
     DEF TypeOK, Senders, control, levels, releases, engine, history

\* lease_surface_with_resource: the generation of an update that comes too late is
\* issued, and stays without a resource.
LEMMA UpdateLeaseKeeps ==
  ASSUME SessionInv, UpdateLease
  PROVE  SessionInv'
<1>1. TypeOK /\ OwnerInv /\ AttachmentInv /\ GenerationInv /\ HeldInv
  BY Zenon DEF SessionInv
<1>2. /\ stack # <<>> /\ Top \in Frames /\ Top.pc = "update" /\ host = "running"
      /\ gate' = Issued
      /\ UNCHANGED <<control, levels, releases, history, host, queue, slot, binding>>
  BY <1>1, TopIsFrame, Zenon DEF UpdateLease, Fail, At, Running
<1>3. /\ Attached /\ OfAttachment(Top) /\ Top.lease \in Leases
      /\ attachment.internal \in Nat /\ attachment.public \in 0..MaxPublic
      /\ attachment.internal < 2 * attachment.public
      /\ gate.gen \in 0..MaxInternal /\ gate.live \in BOOLEAN
      /\ gate.gen # attachment.internal => gate.live
      /\ gate.gen \in {attachment.internal, attachment.internal + 1}
  BY <1>1, <1>2, Zenon
     DEF OwnerInv, Owns, Updating, GenerationInv, At, TypeOK, Attachments, Frames
<1>4. /\ gate' \in [gen : 0..MaxInternal, live : BOOLEAN] /\ gate'.live
      /\ gate'.gen = IF gate.live THEN gate.gen ELSE gate.gen + 1
      /\ gate.gen <= gate'.gen
  <2>1. CASE gate.live
    BY <1>1, <1>2, <1>3, <2>1 DEF Issued, TypeOK
  <2>2. CASE ~gate.live
    <3>1. gate' = [gen |-> gate.gen + 1, live |-> TRUE]
      BY <1>2, <2>2, Zenon DEF Issued
    <3>2. gate.gen + 1 \in 0..MaxInternal
      BY <1>3, <2>2, SessionAssumption DEF MaxInternal
    <3> QED
      BY <1>3, <2>2, <3>1, <3>2
  <2> QED
    BY <2>1, <2>2, Zenon
<1>5. PICK pc \in {"update_send", "rollback"}, l \in {Lease, NoLease} :
        /\ GoWith(pc, l)
        /\ pc = "update_send" => l = Lease
  BY Zenon DEF UpdateLease, Go, Fail
<1> DEFINE f == [pc |-> pc, lease |-> l, seen |-> Top.seen]
<1>6. NoLease \in Leases /\ NoLease.internal = 0
  BY SessionAssumption DEF NoLease, Leases
<1>7. NewTop(f) /\ f \in Frames /\ f.pc = pc /\ f.lease = l
      /\ f.seen = Top.seen
  BY <1>1, <1>2, <1>3, <1>5, <1>6, Goes, Zenon DEF Pcs, Frames, Lease
<1> HIDE DEF f
<1>8. Len(stack') = Len(stack) /\ stack' # <<>> /\ Top' = f
  BY <1>7, Zenon DEF NewTop, Top
<1>9. OwnerInv'
  <2>1. Owns(Top)'
    BY <1>1, <1>2, <1>3, <1>5, <1>7, <1>8, Zenon
       DEF OwnerInv, Owns, Owning, Attaching, Updating, Detaching, Free,
           control, Attached, OfAttachment, Lease
  <2> QED
    BY <1>1, <1>7, <2>1, OwnerMoves, Zenon
<1>10. release[gate'.gen] = "none" \/ gate'.gen = attachment.internal
  <2>1. CASE gate.live
    BY <1>1, <1>2, <1>3, <1>4, <2>1, Zenon DEF GenerationInv
  <2>2. CASE ~gate.live
    <3>1. gate'.gen = gate.gen + 1 /\ gate'.gen \in Internal
      BY <1>3, <1>4, <2>2, SessionAssumption DEF Internal, MaxInternal
    <3> QED
      BY <1>1, <1>3, <3>1 DEF HeldInv
  <2> QED
    BY <2>1, <2>2, Zenon
<1>11. GenerationInv'
  BY <1>1, <1>2, <1>3, <1>4, <1>5, <1>7, <1>8, <1>10
     DEF GenerationInv, Attached, At, Issuing, control, releases
<1> QED
  BY <1>1, <1>2, <1>4, <1>5, <1>6, <1>7, <1>9, <1>11, MoveKeeps, Zenon
     DEF Senders, control, levels, releases, history

\* The UpdateSurface command of an attach or an update.
LEMMA UpdateIsSent ==
  ASSUME SessionInv, (AttachSend \/ UpdateSend) /\ Running
  PROVE  SessionInv'
<1>1. TypeOK /\ OwnerInv /\ AttachmentInv /\ GenerationInv /\ HeldInv
  BY Zenon DEF SessionInv
<1>2. /\ stack # <<>> /\ Top \in Frames /\ Lease \in Leases
      /\ queue' = Append(queue, Update(Lease))
      /\ UNCHANGED <<control, levels, releases, history, host, gate, slot, binding>>
  BY <1>1, TopIsFrame, Zenon DEF AttachSend, UpdateSend, At, Send, Frames, Lease
<1>3. PICK pc \in {"attach_commit", "update_commit"}, l \in {Lease, NoLease} :
        /\ GoWith(pc, l)
        /\ \/ Top.pc = "attach_send" /\ pc = "attach_commit" /\ l = Lease
           \/ Top.pc = "update_send" /\ pc = "update_commit" /\ l = NoLease
  BY Zenon DEF AttachSend, UpdateSend, Go, At
<1> DEFINE f == [pc |-> pc, lease |-> l, seen |-> Top.seen]
<1>4. NoLease \in Leases /\ NoLease.internal = 0
  BY SessionAssumption DEF NoLease, Leases
<1>5. NewTop(f) /\ f \in Frames /\ f.pc = pc /\ f.lease = l /\ f.seen = Top.seen
  BY <1>1, <1>2, <1>3, <1>4, Goes, Zenon DEF Pcs, Frames
<1> HIDE DEF f
<1>6. Len(stack') = Len(stack) /\ stack' # <<>> /\ Top' = f
  BY <1>5, Zenon DEF NewTop, Top
<1>7. OwnerInv'
  <2>1. Owns(Top)'
    BY <1>1, <1>2, <1>3, <1>5, <1>6, Zenon
       DEF OwnerInv, Owns, Owning, Attaching, Updating, Detaching, Free,
           control, Attached, OfAttachment, Lease
  <2> QED
    BY <1>1, <1>5, <2>1, OwnerMoves, Zenon
<1>8. GenerationInv'
  BY <1>1, <1>2, <1>3, <1>5, <1>6, Zenon
     DEF GenerationInv, Attached, At, Issuing, Lease, control, releases
<1>9. Update(Lease) \in Commands /\ Update(Lease).lease = Lease
  BY <1>2, Zenon DEF Update, Commands
<1>10. Lease.internal \in HeldOrNone /\ Lease.public # 0
  BY <1>1, <1>2, <1>3
     DEF HeldInv, Lease, Top, OwnerInv, Owns, Attaching, Updating, OfAttachment, TypeOK,
         AttachmentInv
<1>11. queue' \in Seq(Commands) /\ QueueHeld'
  <2>1. HeldOrNone' = HeldOrNone
    BY <1>2, Zenon DEF HeldOrNone, releases
  <2>2. queue' \in Seq(Commands)
        /\ \A i \in 1..Len(queue') : \/ queue'[i] = Update(Lease)
                                     \/ i \in 1..Len(queue) /\ queue'[i] = queue[i]
    BY <1>1, <1>2, <1>9, Sends, Zenon
  <2>3. Update(Lease).kind = "update"
    BY Zenon DEF Update
  <2> QED
    BY <1>1, <1>9, <1>10, <2>1, <2>2, <2>3, Zenon DEF HeldInv, QueueHeld
<1>12. gate' = gate /\ gate.gen <= gate.gen
       /\ gate \in [gen : 0..MaxInternal, live : BOOLEAN]
  BY <1>1, <1>2 DEF TypeOK
<1> QED
  BY <1>2, <1>3, <1>4, <1>5, <1>7, <1>8, <1>11, <1>12, SendKeeps, Zenon
     DEF Senders, control, levels, releases, history

\* An attach is issued a fresh generation, whose resource it holds: on the engine
\* of an earlier attach, or on the one it starts.
LEMMA IssueKeeps ==
  ASSUME SessionInv, AttachLease \/ AttachSpawn
  PROVE  SessionInv'
<1>1. TypeOK /\ OwnerInv /\ AttachmentInv /\ GenerationInv /\ HeldInv /\ CountInv
      /\ LevelInv /\ NotifyInv
  BY Zenon DEF SessionInv
<1> DEFINE g == gate.gen + 1
           l == [internal |-> g, public |-> Lease.public]
<1>2. /\ stack # <<>> /\ Top.pc = "attach" /\ Top \in Frames /\ Lease \in Leases
      /\ gate' = Issued /\ host' = "running" /\ host # "exited"
      /\ release' = [release EXCEPT ![gate'.gen] = "held"]
      /\ UNCHANGED <<closed, transition, reserved, pendingLoss, attachment,
                     lastPublic, activeGen, level, lifecycle, sent, asked, pending,
                     registered, queue, losses, notified>>
  BY <1>1, TopIsFrame, Zenon
     DEF AttachLease, AttachSpawn, At, Running, Frames, Lease, control, levels,
         history
<1>3. /\ transition = "attaching" /\ ~Attached /\ Lease.public > lastPublic
      /\ ~gate.live /\ gate.gen <= 2 * lastPublic
  BY <1>1, <1>2, Zenon
     DEF OwnerInv, Owns, Attaching, Lease, GenerationInv, Issuing
<1>4. /\ gate.gen \in Nat /\ lastPublic \in Nat /\ Lease.public \in 1..MaxPublic
      /\ g \in Internal /\ g <= 2 * lastPublic + 1 /\ MaxPublic \in Nat
  <2>1. gate.gen \in Nat /\ lastPublic \in Nat /\ Lease.public \in 0..MaxPublic
    BY <1>1, <1>2, SessionAssumption DEF TypeOK, Leases, MaxInternal
  <2> QED
    BY <1>3, <2>1, SessionAssumption DEF Internal, MaxInternal
<1>5. gate' = [gen |-> g, live |-> TRUE]
      /\ gate' \in [gen : 0..MaxInternal, live : BOOLEAN]
      /\ gate'.gen = g /\ gate'.live
  BY <1>2, <1>3, <1>4 DEF Issued, Internal
<1>6. [Lease EXCEPT !.internal = g] = l /\ l \in Leases
      /\ l.internal = g /\ l.public = Lease.public
  BY <1>2, <1>4, SMTT(30) DEF Leases, Internal
<1>7. PICK pc \in {"attach_send", "attach_commit"} :
        /\ GoWith(pc, l)
        /\ \/ UNCHANGED <<slot, binding>>
           \/ slot' = l /\ binding' = l
  BY <1>5, <1>6, Zenon DEF AttachLease, AttachSpawn
<1> DEFINE f == [pc |-> pc, lease |-> l, seen |-> Top.seen]
<1>8. NewTop(f) /\ f \in Frames /\ f.pc = pc /\ f.lease = l /\ f.seen = Top.seen
  BY <1>1, <1>2, <1>6, <1>7, Goes, Zenon DEF Pcs, Frames
<1> HIDE DEF f, l
<1>9. Len(stack') = Len(stack) /\ stack' # <<>> /\ Top' = f /\ Lease' = l
  BY <1>8, Zenon DEF NewTop, Top, Lease
<1>10. /\ release[g] = "none" /\ release'[g] = "held"
       /\ \A r \in Internal : r # g => release'[r] = release[r]
       /\ HeldOrNone \subseteq HeldOrNone' /\ g \in HeldOrNone' /\ 0 \in HeldOrNone'
  <2>1. release[g] = "none"
    BY <1>1, <1>4 DEF HeldInv
  <2>2. release' = [release EXCEPT ![g] = "held"]
    BY <1>2, <1>5, Zenon
  <2>3. release'[g] = "held" /\ \A r \in Internal : r # g => release'[r] = release[r]
    BY <1>1, <1>4, <2>2, Zenon DEF TypeOK
  <2> HIDE DEF g
  <2> QED
    BY <1>4, <2>1, <2>3, Zenon DEF HeldOrNone
<1>11. TypeOK'
  <2>1. release' \in [Internal -> {"none", "held", "dropped", "uncounted", "released"}]
    <3>1. release' = [release EXCEPT ![g] = "held"]
      BY <1>2, <1>5, Zenon
    <3> HIDE DEF g
    <3> QED
      BY <1>1, <1>4, <3>1, Zenon DEF TypeOK
  <2> QED
    BY <1>1, <1>2, <1>5, <1>6, <1>7, <1>8, <2>1
       DEF TypeOK, NewTop, Levels
<1>12. OwnerInv'
  <2>1. Owns(Top)'
    BY <1>1, <1>2, <1>3, <1>4, <1>6, <1>7, <1>8, <1>9, SMTT(30)
       DEF OwnerInv, Owns, Owning, Attaching, Updating, Detaching, Attached
  <2> QED
    BY <1>1, <1>8, <2>1, OwnerMoves, Zenon
<1>13. AttachmentInv'
  BY <1>1, <1>2, Zenon DEF AttachmentInv, Attached, AdmissionMatchesAttachment
<1>14. GenerationInv'
  BY <1>2, <1>3, <1>4, <1>5, <1>6, <1>7, <1>8, <1>9, SMTT(30)
     DEF GenerationInv, Attached, At, Issuing
<1>15. HeldInv'
  <2>1. \A i \in 1..Len(stack') : stack'[i].lease.internal \in HeldOrNone'
    BY <1>1, <1>6, <1>8, <1>10 DEF HeldInv, NewTop
  <2>2. QueueHeld'
    BY <1>1, <1>2, <1>10, Zenon DEF HeldInv, QueueHeld
  <2>3. \A r \in Internal : r > gate'.gen => release'[r] = "none"
    BY <1>1, <1>4, <1>5, <1>10 DEF HeldInv, Internal
  <2>4. {attachment'.internal, slot'.internal, binding'.internal} \subseteq HeldOrNone'
        /\ (binding'.internal # 0 => binding'.public # 0)
    BY <1>1, <1>2, <1>4, <1>6, <1>7, <1>10 DEF HeldInv
  <2> QED
    BY <2>1, <2>2, <2>3, <2>4, Zenon DEF HeldInv
<1>16. CountInv'
  BY <1>1, <1>2, <1>10, Zenon DEF CountInv, TypeOK
<1>17. LevelInv'
  <2>1. \A i \in 1..Len(stack') : i \in 1..Len(stack) /\ stack'[i].seen = stack[i].seen
    BY <1>8 DEF NewTop, Top
  <2> QED
    BY <1>1, <1>2, <1>3, <2>1, Zenon DEF LevelInv, Levels, Attached
<1>18. NotifyInv'
  BY <1>1, <1>2, <1>7, <1>8, <1>9, Zenon DEF NotifyInv, NotifiedOnce, At
<1> QED
  BY <1>11, <1>12, <1>13, <1>14, <1>15, <1>16, <1>17, <1>18, Zenon
     DEF SessionInv

\* The commit of an attach, with or without a loss that came first.
LEMMA AttachCommitKeeps ==
  ASSUME SessionInv, AttachCommit
  PROVE  SessionInv'
<1>1. TypeOK /\ OwnerInv /\ AttachmentInv /\ GenerationInv /\ HeldInv /\ CountInv
      /\ LevelInv /\ NotifyInv
  BY Zenon DEF SessionInv
<1> DEFINE a == [internal |-> Lease.internal, public |-> Lease.public,
                 lost |-> FALSE]
<1>2. /\ stack # <<>> /\ Top.pc = "attach_commit" /\ Top \in Frames
      /\ Lease \in Leases
      /\ transition' = "idle" /\ reserved' = 0 /\ pendingLoss' = 0
      /\ attachment' = IF Consumes(a) THEN [a EXCEPT !.lost = TRUE] ELSE a
      /\ activeGen' = IF Consumes(a) THEN 0 ELSE Lease.public
      /\ lastPublic' = Lease.public
      /\ UNCHANGED <<closed, level, lifecycle, sent, asked, pending, release,
                     registered, host, gate, queue, slot, binding, losses, notified>>
  BY <1>1, TopIsFrame, Zenon
     DEF AttachCommit, Settle, Idle, At, Frames, Lease, levels, releases, engine,
         history
<1>3. a \in Attachments /\ attachment' \in Attachments
      /\ attachment'.internal = Lease.internal /\ attachment'.public = Lease.public
  <2>1. a \in Attachments /\ a.internal = Lease.internal /\ a.public = Lease.public
    BY <1>2, Zenon DEF Attachments, Leases
  <2> HIDE DEF a
  <2>2. [a EXCEPT !.lost = TRUE] \in Attachments
        /\ [a EXCEPT !.lost = TRUE].internal = a.internal
        /\ [a EXCEPT !.lost = TRUE].public = a.public
    BY <2>1, LostIsAttachment, Zenon DEF Attachments
  <2> QED
    BY <1>2, <2>1, <2>2, Zenon
<1>4. NoLease \in Leases /\ NoLease.internal = 0
  BY SessionAssumption DEF NoLease, Leases
<1>5. PICK pc \in {"notify", "finish"} :
        /\ stack' = [stack EXCEPT ![Len(stack)] =
                       [pc |-> pc, lease |-> NoLease, seen |-> level]]
        /\ pc = IF Consumes(a) THEN "notify" ELSE "finish"
  <2>1. CASE Consumes(a)
    BY <2>1, Zenon DEF AttachCommit
  <2>2. CASE ~Consumes(a)
    BY <2>2, Zenon DEF AttachCommit
  <2> QED
    BY <2>1, <2>2, Zenon
<1> DEFINE f == [pc |-> pc, lease |-> NoLease, seen |-> level]
<1>6. f \in Frames /\ f.lease = NoLease /\ f.seen = level
      /\ f.pc = IF Consumes(a) THEN "notify" ELSE "finish"
  BY <1>5, <1>1, <1>4, Zenon DEF Frames, Pcs, TypeOK
<1>7. IF Consumes(a) THEN attachment'.lost ELSE ~attachment'.lost
  BY <1>2, <1>3, Zenon DEF Attachments
<1>8. NewTop(f)
  <2>1. pc \in Pcs
    BY Zenon DEF Pcs
  <2>2. TypeOK /\ stack # <<>>
    BY <1>1, <1>2, Zenon
  <2>3. stack' = [stack EXCEPT ![Len(stack)] =
                    [pc |-> pc, lease |-> NoLease, seen |-> level]]
    BY <1>5, Zenon
  <2> QED
    BY <2>1, <2>2, <2>3, Reads, Zenon
<1> HIDE DEF f, a
<1>9. Len(stack') = Len(stack) /\ stack' # <<>> /\ Top' = f
  BY <1>8, Zenon DEF NewTop, Top
<1>10. /\ ~Attached /\ transition = "attaching" /\ Lease.public > lastPublic
      /\ Lease.public \in 1..MaxPublic /\ lastPublic \in Nat
      /\ Lease.internal # 0 /\ Lease.internal \in HeldOrNone
  <2>1. /\ ~Attached /\ transition = "attaching" /\ Lease.public > lastPublic
        /\ Lease.internal # 0
    BY <1>1, <1>2, Zenon DEF OwnerInv, Owns, Attaching, Lease
  <2>2. lastPublic \in 0..MaxPublic /\ Lease.public \in 0..MaxPublic
    BY <1>1, <1>2, Zenon DEF TypeOK, Leases
  <2>3. Lease.internal \in HeldOrNone
    BY <1>1, <1>2, TopIsFrame DEF HeldInv, Lease, Top
  <2> QED
    BY <2>1, <2>2, <2>3, SessionAssumption
<1>11. TypeOK'
  BY <1>1, <1>2, <1>3, <1>8, <1>10, SessionAssumption, SMTT(30)
     DEF TypeOK, NewTop, Levels
<1>12. OwnerInv'
  <2>1. Owns(Top)'
    BY <1>1, <1>2, <1>6, <1>8, <1>9, Zenon
       DEF OwnerInv, Owns, Owning, Attaching, Updating, Detaching, Free
  <2> QED
    BY <1>1, <1>8, <2>1, OwnerMoves, Zenon
<1>13. AttachmentInv'
  BY <1>2, <1>3, <1>7, <1>10
     DEF AttachmentInv, Attached, AdmissionMatchesAttachment
<1>14. GenerationInv'
  <2>1. Attached' /\ ~At("detach_commit")' /\ ~Issuing'
    BY <1>3, <1>6, <1>9, <1>10, Zenon DEF Attached, At, Issuing
  <2>2. host # "exited" =>
          /\ gate.gen = Lease.internal /\ gate.gen <= 2 * lastPublic + 1
          /\ host # "none"
    BY <1>1, <1>2, Zenon DEF GenerationInv, Issuing
  <2>3. gate.gen \in Nat
    BY <1>1 DEF TypeOK
  <2> QED
    BY <1>1, <1>2, <1>3, <1>10, <2>1, <2>2, <2>3 DEF GenerationInv
<1>15. HeldInv'
  BY <1>1, <1>2, <1>3, <1>4, <1>6, <1>8, HeldFollows, Zenon
<1>16. CountInv'
  BY <1>1, <1>2, Zenon DEF CountInv
<1>17. LevelInv'
  <2>1. \A i \in 1..Len(stack') :
          \/ i \in 1..Len(stack) /\ stack'[i] = stack[i]
          \/ stack'[i].seen = level
    BY <1>6, <1>8 DEF NewTop
  <2>2. Len(stack) \in 1..Len(stack') /\ stack'[Len(stack)].seen = level
        /\ stack'[Len(stack)].pc \in {"notify", "callback", "finish"}
    BY <1>6, <1>8 DEF NewTop
  <2> QED
    BY <1>1, <1>2, <2>1, <2>2, Zenon DEF LevelInv, Levels
<1>18. NotifyInv'
  BY <1>1, <1>2, <1>3, <1>6, <1>7, <1>9, <1>10
     DEF NotifyInv, NotifiedOnce, At, Attached, Public
<1> QED
  BY <1>11, <1>12, <1>13, <1>14, <1>15, <1>16, <1>17, <1>18, Zenon DEF SessionInv

\* A detach closes the data plane.
LEMMA DetachCloseKeeps ==
  ASSUME SessionInv, DetachClose
  PROVE  SessionInv'
<1>1. TypeOK /\ OwnerInv /\ AttachmentInv /\ GenerationInv /\ HeldInv /\ CountInv
      /\ LevelInv /\ NotifyInv
  BY Zenon DEF SessionInv
<1>2. /\ stack # <<>> /\ Top \in Frames /\ Top.pc = "detach" /\ Lease \in Leases
      /\ activeGen' = 0 /\ Go("detach_retire")
      /\ UNCHANGED <<closed, transition, reserved, pendingLoss, attachment,
                     lastPublic, level, lifecycle, sent, asked, pending,
                     release, registered, host, gate, queue, slot, binding, losses,
                     notified>>
  BY <1>1, TopIsFrame, Zenon
     DEF DetachClose, At, Frames, Lease, levels, releases, engine, history
<1> DEFINE f == [pc |-> "detach_retire", lease |-> Lease, seen |-> Top.seen]
<1>3. NewTop(f) /\ f \in Frames /\ f.pc = "detach_retire" /\ f.lease = Lease
      /\ f.seen = Top.seen
  BY <1>1, <1>2, Goes, Zenon DEF Go, Pcs, Frames
<1> HIDE DEF f
<1>4. Len(stack') = Len(stack) /\ stack' # <<>> /\ Top' = f
  BY <1>3, Zenon DEF NewTop, Top
<1>5. TypeOK'
  BY <1>1, <1>2, <1>3, SessionAssumption DEF TypeOK, NewTop, Levels
<1>6. OwnerInv'
  <2>1. Owns(Top)'
    BY <1>1, <1>2, <1>3, <1>4, Zenon
       DEF OwnerInv, Owns, Owning, Attaching, Updating, Detaching, Attached,
           OfAttachment, Lease
  <2> QED
    BY <1>1, <1>3, <2>1, OwnerMoves, Zenon
<1>7. AttachmentInv'
  BY <1>1, <1>2, Zenon
     DEF AttachmentInv, Attached, AdmissionMatchesAttachment, OwnerInv, Owns, Detaching
<1>8. GenerationInv'
  BY <1>1, <1>2, <1>3, <1>4, Zenon DEF GenerationInv, Attached, At, Issuing
<1>9. HeldInv'
  BY <1>1, <1>2, <1>3, HeldFollows, Zenon
<1>10. CountInv'
  BY <1>1, <1>2, Zenon DEF CountInv
<1>11. LevelInv'
  BY <1>1, <1>2, <1>3, LevelMoves, Zenon DEF Attached, Senders
<1>12. NotifyInv'
  BY <1>1, <1>2, <1>3, <1>4, Zenon DEF NotifyInv, NotifiedOnce, At
<1> QED
  BY <1>5, <1>6, <1>7, <1>8, <1>9, <1>10, <1>11, <1>12, Zenon DEF SessionInv

\* retire_surface: from here on the gate is live for no Surface.
LEMMA DetachRetireKeeps ==
  ASSUME SessionInv, DetachRetire
  PROVE  SessionInv'
<1>1. TypeOK /\ OwnerInv /\ GenerationInv
  BY Zenon DEF SessionInv
<1>2. /\ stack # <<>> /\ Top \in Frames /\ Top.pc = "detach_retire"
      /\ Lease \in Leases /\ Go("detach_commit")
      /\ UNCHANGED <<control, levels, releases, host, queue, slot, binding, history>>
  BY <1>1, TopIsFrame, Zenon DEF DetachRetire, At, Frames, Lease
<1>3. /\ gate' \in [gen : 0..MaxInternal, live : BOOLEAN] /\ gate'.gen = gate.gen
      /\ gate.gen <= gate'.gen
      /\ IF Running THEN ~gate'.live ELSE gate' = gate
  <2>1. gate.gen \in 0..MaxInternal
    BY <1>1, Zenon DEF TypeOK
  <2>2. CASE Running
    BY <1>1, <2>1, <2>2, RetiredIsGate DEF DetachRetire
  <2>3. CASE ~Running
    BY <1>1, <2>1, <2>3 DEF DetachRetire, TypeOK
  <2> QED
    BY <2>2, <2>3, Zenon
<1> DEFINE f == [pc |-> "detach_commit", lease |-> Lease, seen |-> Top.seen]
<1>4. NewTop(f) /\ f \in Frames /\ f.pc = "detach_commit" /\ f.lease = Lease
      /\ f.seen = Top.seen
  BY <1>1, <1>2, Goes, Zenon DEF Go, Pcs, Frames
<1> HIDE DEF f
<1>5. Len(stack') = Len(stack) /\ stack' # <<>> /\ Top' = f
  BY <1>4, Zenon DEF NewTop, Top
<1>6. OwnerInv'
  <2>1. Owns(Top)'
    BY <1>1, <1>2, <1>4, <1>5, Zenon
       DEF OwnerInv, Owns, Owning, Attaching, Updating, Detaching, Attached,
           OfAttachment, Lease, control
  <2> QED
    BY <1>1, <1>4, <2>1, OwnerMoves, Zenon
<1>7. host # "none"
  BY <1>1, <1>2, Zenon DEF OwnerInv, Owns, Detaching, GenerationInv
<1>8. GenerationInv'
  BY <1>1, <1>2, <1>3, <1>4, <1>5, <1>7, Zenon
     DEF GenerationInv, Attached, At, Issuing, Running, control, releases, OwnerInv, Owns,
         Detaching, TypeOK
<1> QED
  BY <1>1, <1>2, <1>3, <1>4, <1>6, <1>8, MoveKeeps, Zenon
     DEF Senders, control, levels, releases, history

\* The attachment is gone and the transition is free again.
LEMMA DetachCommitKeeps ==
  ASSUME SessionInv, DetachCommit
  PROVE  SessionInv'
<1>1. TypeOK /\ OwnerInv /\ AttachmentInv /\ GenerationInv /\ HeldInv /\ CountInv
      /\ LevelInv /\ NotifyInv
  BY Zenon DEF SessionInv
<1>2. /\ stack # <<>> /\ Top \in Frames /\ Top.pc = "detach_commit"
      /\ Lease \in Leases
      /\ attachment' = NoAttachment /\ transition' = "idle" /\ reserved' = 0
      /\ pendingLoss' = 0 /\ Go("detach_send")
      /\ UNCHANGED <<closed, lastPublic, activeGen, level, lifecycle, sent, asked,
                     pending, release, registered, host, gate, queue, slot, binding,
                     losses, notified>>
  BY <1>1, TopIsFrame, Zenon
     DEF DetachCommit, Idle, At, Frames, Lease, levels, releases, engine, history
<1> DEFINE f == [pc |-> "detach_send", lease |-> Lease, seen |-> Top.seen]
<1>3. NewTop(f) /\ f \in Frames /\ f.pc = "detach_send" /\ f.lease = Lease
      /\ f.seen = Top.seen
  BY <1>1, <1>2, Goes, Zenon DEF Go, Pcs, Frames
<1> HIDE DEF f
<1>4. Len(stack') = Len(stack) /\ stack' # <<>> /\ Top' = f
  BY <1>3, Zenon DEF NewTop, Top
<1>5. NoAttachment \in Attachments /\ NoAttachment.internal = 0
      /\ NoAttachment.public = 0
  BY SessionAssumption DEF NoAttachment, Attachments
<1>6. TypeOK'
  BY <1>1, <1>2, <1>3, <1>5, SessionAssumption
     DEF TypeOK, NewTop, Levels
<1>7. OwnerInv'
  <2>1. Owns(Top)'
    BY <1>1, <1>2, <1>3, <1>4, Zenon
       DEF OwnerInv, Owns, Owning, Attaching, Updating, Detaching, Free
  <2> QED
    BY <1>1, <1>3, <2>1, OwnerMoves, Zenon
<1>8. Attached /\ activeGen = 0
  BY <1>1, <1>2, Zenon DEF OwnerInv, Owns, Detaching
<1>9. ~Attached'
  BY <1>2, <1>5, Zenon DEF Attached
<1>10. AttachmentInv'
  BY <1>2, <1>8, <1>9, Zenon DEF AttachmentInv, AdmissionMatchesAttachment
<1>11. GenerationInv'
  <2>1. ~Issuing'
    BY <1>3, <1>4, Zenon DEF Issuing
  <2>2. host # "exited" => ~gate.live /\ gate.gen <= 2 * lastPublic
    BY <1>1, <1>2, <1>8
       DEF GenerationInv, At, AttachmentInv, TypeOK, Attachments
  <2> QED
    BY <1>1, <1>2, <1>9, <2>1, <2>2, Zenon DEF GenerationInv
<1>12. HeldInv'
  BY <1>1, <1>2, <1>3, <1>5, HeldFollows, Zenon
<1>13. CountInv'
  BY <1>1, <1>2, Zenon DEF CountInv
<1>14. LevelInv'
  BY <1>1, <1>2, <1>3, <1>9, LevelMoves, Zenon DEF Senders
<1>15. NotifyInv'
  BY <1>1, <1>2, <1>3, <1>4, <1>5 DEF NotifyInv, NotifiedOnce, At, Public
<1> QED
  BY <1>6, <1>7, <1>10, <1>11, <1>12, <1>13, <1>14, <1>15, Zenon DEF SessionInv

\* The SurfaceDestroyed command of a detach.
LEMMA DetachSendKeeps ==
  ASSUME SessionInv, DetachSend
  PROVE  SessionInv'
<1>1. TypeOK /\ OwnerInv /\ GenerationInv /\ HeldInv
  BY Zenon DEF SessionInv
<1>2. /\ stack # <<>> /\ Top \in Frames /\ Top.pc = "detach_send"
      /\ Lease \in Leases /\ Go("detach_drop")
      /\ UNCHANGED <<control, levels, releases, host, gate, slot, binding, history>>
  BY <1>1, TopIsFrame, Zenon DEF DetachSend, At, Frames, Lease
<1> DEFINE f == [pc |-> "detach_drop", lease |-> Lease, seen |-> Top.seen]
<1>3. NewTop(f) /\ f \in Frames /\ f.pc = "detach_drop" /\ f.lease = Lease
      /\ f.seen = Top.seen
  BY <1>1, <1>2, Goes, Zenon DEF Go, Pcs, Frames
<1> HIDE DEF f
<1>4. Len(stack') = Len(stack) /\ stack' # <<>> /\ Top' = f
  BY <1>3, Zenon DEF NewTop, Top
<1>5. OwnerInv'
  <2>1. Owns(Top)'
    BY <1>1, <1>2, <1>3, <1>4, Zenon
       DEF OwnerInv, Owns, Owning, Attaching, Updating, Detaching, Free, control
  <2> QED
    BY <1>1, <1>3, <2>1, OwnerMoves, Zenon
<1>6. GenerationInv'
  BY <1>1, <1>2, <1>3, <1>4, Zenon
     DEF GenerationInv, Attached, At, Issuing, control, releases
<1>7. queue' \in Seq(Commands) /\ QueueHeld'
  <2>1. HeldOrNone' = HeldOrNone
    BY <1>2, Zenon DEF HeldOrNone, releases
  <2>2. CASE ~Running
    BY <1>1, <2>1, <2>2, Zenon DEF DetachSend, TypeOK, HeldInv, QueueHeld
  <2>3. CASE Running
    <3> DEFINE c == Destroyed(Lease)
    <3>1. c \in Commands /\ c.kind = "destroyed"
      BY <1>2, SessionAssumption DEF Destroyed, Commands, Leases
    <3>2. queue' = Append(queue, c)
      BY <2>3, Zenon DEF DetachSend, Send
    <3> HIDE DEF c
    <3>3. queue' \in Seq(Commands)
          /\ \A i \in 1..Len(queue') :
               queue'[i] = c \/ (i \in 1..Len(queue) /\ queue'[i] = queue[i])
      BY <1>1, <3>1, <3>2, Sends, Zenon
    <3> QED
      BY <1>1, <2>1, <3>1, <3>3, Zenon DEF HeldInv, QueueHeld
  <2> QED
    BY <2>2, <2>3, Zenon
<1>8. gate' = gate /\ gate.gen <= gate.gen
      /\ gate \in [gen : 0..MaxInternal, live : BOOLEAN]
  BY <1>1, <1>2 DEF TypeOK
<1> QED
  BY <1>2, <1>3, <1>5, <1>6, <1>7, <1>8, SendKeeps, Zenon
     DEF Senders, control, levels, releases, history

\* The end of a detach.
LEMMA DetachDropKeeps ==
  ASSUME SessionInv, DetachDrop
  PROVE  SessionInv'
<1>1. TypeOK /\ OwnerInv /\ AttachmentInv /\ GenerationInv /\ HeldInv /\ CountInv
      /\ LevelInv /\ NotifyInv
  BY Zenon DEF SessionInv
<1>2. /\ stack # <<>> /\ Top.pc = "detach_drop" /\ Return
      /\ UNCHANGED <<closed, transition, reserved, pendingLoss, attachment,
                     lastPublic, activeGen, level, lifecycle, sent, asked, pending,
                     release, registered, host, gate, queue, slot, binding, losses,
                     notified>>
  BY Zenon DEF DetachDrop, At, control, levels, releases, engine, history
<1>3. Popped
  BY <1>1, <1>2, Returns, Zenon
<1>4. stack' # <<>> => Top'.pc = "callback"
  BY <1>1, <1>3 DEF OwnerInv, Owns, Popped, Top
<1>5. TypeOK'
  BY <1>1, <1>2, <1>3, Zenon DEF TypeOK, Popped, Levels
<1>6. OwnerInv'
  BY <1>1, <1>2, <1>3, <1>4
     DEF OwnerInv, Owns, Popped, Owning, Attaching, Updating, Detaching, Free
<1>7. AttachmentInv'
  BY <1>1, <1>2, Zenon DEF AttachmentInv, Attached, AdmissionMatchesAttachment
<1>8. GenerationInv'
  BY <1>1, <1>2, <1>4, Zenon DEF GenerationInv, Attached, At, Issuing
<1>9. HeldInv'
  BY <1>1, <1>2, <1>3, HeldPops, Zenon
<1>10. CountInv'
  BY <1>1, <1>2, Zenon DEF CountInv
<1>11. LevelInv'
  BY <1>1, <1>2, <1>3, LevelPops, Zenon DEF Attached, Senders
<1>12. NotifyInv'
  BY <1>1, <1>2, <1>4, Zenon DEF NotifyInv, NotifiedOnce, At
<1> QED
  BY <1>5, <1>6, <1>7, <1>8, <1>9, <1>10, <1>11, <1>12, Zenon DEF SessionInv

=============================================================================
