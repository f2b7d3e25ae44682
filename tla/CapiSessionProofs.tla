-------------------------- MODULE CapiSessionProofs --------------------------
(***************************************************************************)
(* What holds of the Surface lifecycle of a Session, for every number of   *)
(* public generations, pending commands and nested calls: the reservation, *)
(* the levels, destroy, the engine and the releases keep the invariant of  *)
(* CapiSessionCalls too, and the properties follow from it.                *)
(***************************************************************************)
EXTENDS CapiSessionCalls, FiniteSetTheorems

-----------------------------------------------------------------------------
(* Reservation, levels, destroy, the engine and the releases *)

\* Registrations are of generations that can be issued, and so finitely many.
LEMMA RegisteredIsFinite ==
  ASSUME TypeOK
  PROVE  IsFiniteSet(registered) /\ Cardinality(registered) \in Nat
<1>1. IsFiniteSet(Internal)
  BY FS_Interval, SessionAssumption DEF Internal, MaxInternal
<1> QED
  BY <1>1, FS_Subset, FS_CardinalityType, Zenon DEF TypeOK

\* A call reserves the transition and unlocks.
LEMMA ReserveKeeps ==
  ASSUME SessionInv,
         (\E g \in Public : AttachReserve(g)) \/ UpdateReserve \/ DetachReserve
  PROVE  SessionInv'
<1>1. TypeOK /\ OwnerInv /\ AttachmentInv /\ GenerationInv /\ HeldInv /\ CountInv
      /\ LevelInv /\ NotifyInv
  BY Zenon DEF SessionInv
<1>2. /\ MayCall /\ transition = "idle"
      /\ UNCHANGED <<closed, pendingLoss, attachment, lastPublic, activeGen, level,
                     lifecycle, sent, asked, release, host, gate, queue, slot,
                     binding, losses, notified>>
  <2>1. CASE \E g \in Public : AttachReserve(g)
    <3>1. PICK g \in Public : AttachReserve(g)
      BY <2>1, Zenon
    <3> QED
      BY <3>1, Zenon DEF AttachReserve, levels, releases, engine, history
  <2>2. CASE UpdateReserve
    BY <2>2, Zenon DEF UpdateReserve, levels, releases, engine, history
  <2>3. CASE DetachReserve
    BY <2>3, Zenon DEF DetachReserve, levels, engine, history
  <2> QED
    BY <2>1, <2>2, <2>3, Zenon
<1> DEFINE Own == [internal |-> attachment.internal, public |-> attachment.public]
<1>3. Own \in Leases
  BY <1>1, Zenon DEF TypeOK, Attachments, Leases
<1>4. PICK pc \in {"attach", "update", "detach"}, l \in Leases :
        /\ Call(pc, l, <<>>)
        /\ pc = "attach" =>
             /\ transition' = "attaching" /\ ~Attached /\ l.internal = 0
             /\ l.public > lastPublic /\ reserved' = l.public
        /\ pc = "update" =>
             transition' = "updating" /\ Attached /\ l = Own /\ reserved' = l.public
        /\ pc = "detach" =>
             transition' = "detaching" /\ Attached /\ l = Own /\ reserved' = l.public
        /\ pc # "detach" => UNCHANGED <<pending, registered>>
        /\ pc = "detach" =>
             /\ attachment.internal \notin registered
             /\ pending' = pending + 1
             /\ registered' = registered \cup {attachment.internal}
  <2>1. CASE \E g \in Public : AttachReserve(g)
    <3>1. PICK g \in Public : AttachReserve(g)
      BY <2>1, Zenon
    <3> DEFINE l == [NoLease EXCEPT !.public = g]
    <3>2. l \in Leases /\ l.internal = 0 /\ l.public = g
      BY SessionAssumption DEF NoLease, Leases, Public
    <3>3. /\ Call("attach", l, <<>>) /\ transition' = "attaching" /\ ~Attached
          /\ l.public > lastPublic /\ reserved' = l.public
          /\ UNCHANGED <<pending, registered>>
      BY <3>1, <3>2, Zenon DEF AttachReserve, Reserve, releases
    <3> HIDE DEF l
    <3> QED
      BY <3>2, <3>3, Zenon
  <2>2. CASE UpdateReserve
    BY <1>3, <2>2, Zenon DEF UpdateReserve, Reserve, releases
  <2>3. CASE DetachReserve
    BY <1>3, <2>3, Zenon DEF DetachReserve, Reserve
  <2> QED
    BY <2>1, <2>2, <2>3, Zenon
<1> DEFINE f == [pc |-> pc, lease |-> l, seen |-> <<>>]
<1>5. Pushed(f) /\ f \in Frames /\ f.pc = pc /\ f.lease = l /\ f.seen = <<>>
  BY <1>1, <1>4, Calls, Zenon DEF Pcs, Frames
<1>6. /\ pc # "attach" => l.internal = attachment.internal
                          /\ l.public = attachment.public
      /\ l.internal \in {0, attachment.internal}
  BY <1>4
<1> HIDE DEF f, Own
<1>7. stack' # <<>> /\ Top' = f /\ Len(stack') = Len(stack) + 1
      /\ Len(stack) \in Nat
  BY <1>5, Zenon DEF Pushed, Top
<1>8. /\ \A i \in 1..Len(stack) : stack'[i].pc = "callback"
      /\ ~Issuing /\ ~Issuing' /\ ~At("notify") /\ ~At("notify")'
      /\ ~At("detach_commit") /\ ~At("detach_commit")'
  <2>1. stack = <<>> \/ Top.pc = "callback"
    BY <1>2, Zenon DEF MayCall, At
  <2>2. \A i \in 1..Len(stack) : stack[i].pc = "callback"
    BY <1>1, <1>7, <2>1 DEF OwnerInv, Owns, Top
  <2>3. \A i \in 1..Len(stack) : stack'[i].pc = "callback"
    BY <1>5, <2>2 DEF Pushed
  <2> QED
    BY <1>4, <1>5, <1>7, <2>1, <2>3, Zenon DEF At, Issuing
<1>9. TypeOK'
  <2>1. registered' \subseteq Internal
    BY <1>1, <1>4 DEF TypeOK, HeldInv, HeldOrNone, Attached
  <2>2. stack' \in Seq(Frames)
    BY <1>5, Zenon DEF Pushed
  <2>3. transition' \in {"idle", "attaching", "updating", "detaching"}
        /\ reserved' \in 0..MaxPublic
    BY <1>4, Zenon DEF Leases
  <2> QED
    BY <1>1, <1>2, <2>1, <2>2, <2>3, SMTT(30) DEF TypeOK, Levels
<1>10. OwnerInv'
  BY <1>1, <1>2, <1>4, <1>5, <1>6, <1>7, <1>8
     DEF OwnerInv, Owns, Owning, Attaching, Updating, Detaching, Attached, OfAttachment,
         Lease
<1>11. AttachmentInv'
  BY <1>1, <1>2, <1>4, Zenon
     DEF AttachmentInv, Attached, AdmissionMatchesAttachment
<1>12. GenerationInv'
  BY <1>1, <1>2, <1>8, Zenon DEF GenerationInv, Attached
<1>13. HeldInv'
  BY <1>1, <1>2, <1>5, <1>6, HeldPushes, Zenon
<1>14. CountInv'
  <2>1. CASE pc # "detach"
    BY <1>1, <1>2, <1>4, <2>1, Zenon DEF CountInv
  <2>2. CASE pc = "detach"
    <3>0. IsFiniteSet(registered) /\ attachment.internal \notin registered
      BY <1>1, <1>4, <2>2, RegisteredIsFinite, Zenon
    <3>1. Cardinality(registered \cup {attachment.internal})
            = Cardinality(registered) + 1
      BY <3>0, FS_AddElement, Zenon
    <3>2. release[attachment.internal] = "held"
      BY <1>1, <1>4, <2>2, Zenon DEF HeldInv, HeldOrNone, Attached
    <3>3. pending' = Cardinality(registered')
      <4>1. /\ pending' = pending + 1
            /\ registered' = registered \cup {attachment.internal}
        BY <1>4, <2>2, Zenon
      <4>2. pending = Cardinality(registered)
        BY <1>1, Zenon DEF CountInv
      <4> QED
        BY <3>1, <4>1, <4>2, Zenon
    <3>4. \A r \in registered' : release'[r] \in {"held", "dropped"}
      BY <1>1, <1>2, <1>4, <2>2, <3>2, Zenon DEF CountInv
    <3> QED
      BY <3>3, <3>4, Zenon DEF CountInv
  <2> QED
    BY <2>1, <2>2, Zenon
<1>15. LevelInv'
  BY <1>1, <1>2, <1>5, LevelPushes, Zenon DEF Attached
<1>16. NotifyInv'
  BY <1>1, <1>2, <1>8, Zenon DEF NotifyInv, NotifiedOnce
<1> QED
  BY <1>9, <1>10, <1>11, <1>12, <1>13, <1>14, <1>15, <1>16, Zenon DEF SessionInv

\* The end of an attach, update or rollback: an attach sends the levels it read.
LEMMA FinishKeeps ==
  ASSUME SessionInv, Finish
  PROVE  SessionInv'
<1>1. TypeOK /\ OwnerInv /\ AttachmentInv /\ GenerationInv /\ HeldInv /\ CountInv
      /\ LevelInv /\ NotifyInv
  BY Zenon DEF SessionInv
<1>2. /\ stack # <<>> /\ Top.pc = "finish" /\ Top \in Frames /\ Return
      /\ UNCHANGED <<closed, transition, reserved, pendingLoss, attachment,
                     lastPublic, activeGen, level, lifecycle, asked, pending,
                     release, registered, host, gate, queue, slot, binding, losses,
                     notified>>
  BY <1>1, TopIsFrame, Zenon DEF Finish, At, control, releases, engine, history
<1>3. Popped
  BY <1>1, <1>2, Returns, Zenon
<1>4. stack' # <<>> => Top'.pc = "callback"
  BY <1>1, <1>3 DEF OwnerInv, Owns, Popped, Top
<1> DEFINE Sees(k) == Running /\ k \in DOMAIN Top.seen /\ Top.seen[k] # "unset"
<1>5. sent' = [k \in Levels |-> IF Sees(k) THEN Top.seen[k] ELSE sent[k]]
  BY Zenon DEF Finish
<1>6. \A k \in Levels : Sees(k) => Top.seen[k] \in {"unset", "on", "off"}
  BY <1>2 DEF Frames, LevelMaps
<1> HIDE DEF Sees
<1>7. TypeOK'
  <2>1. sent' \in [Levels -> {"unset", "on", "off"}]
    BY <1>1, <1>5, <1>6, Zenon DEF TypeOK
  <2> QED
    BY <1>1, <1>2, <1>3, <2>1, Zenon DEF TypeOK, Popped, Levels
<1>8. OwnerInv'
  BY <1>1, <1>2, <1>3, <1>4
     DEF OwnerInv, Owns, Popped, Owning, Attaching, Updating, Detaching, Free
<1>9. AttachmentInv'
  BY <1>1, <1>2, Zenon DEF AttachmentInv, Attached, AdmissionMatchesAttachment
<1>10. GenerationInv'
  BY <1>1, <1>2, <1>4, Zenon DEF GenerationInv, Attached, At, Issuing
<1>11. HeldInv'
  BY <1>1, <1>2, <1>3, HeldPops, Zenon
<1>12. CountInv'
  BY <1>1, <1>2, Zenon DEF CountInv
<1>13. LevelInv'
  <2>1. CASE NestedLevels
    BY <1>1, <1>2, <2>1, Zenon DEF LevelInv
  <2>2. CASE ~NestedLevels
    <3>1. /\ asked = level /\ Top.seen \in {<<>>, level}
          /\ \A k \in Levels : level[k] = "unset" => sent[k] = "unset"
          /\ \A i \in 1..Len(stack) : stack[i].seen \in {<<>>, level}
      BY <1>1, <1>2, <2>2 DEF LevelInv, Top, TypeOK
    <3>2. \A k \in Levels : level[k] = "unset" => sent'[k] = "unset"
      BY <1>5, <3>1 DEF Sees, Levels
    <3>3. \A i \in 1..Len(stack') : stack'[i].seen \in {<<>>, level}
      BY <1>3, <3>1 DEF Popped
    <3>4. CASE Top.seen = level /\ Running
      <4>1. \A k \in Levels : sent'[k] = level[k]
        BY <1>5, <3>1, <3>4, Zenon DEF Sees, Levels
      <4>2. sent' = level
        <5>1. level = [k \in Levels |-> level[k]]
          BY <1>1, Zenon DEF TypeOK, LevelMaps, Levels
        <5>2. sent' = [k \in Levels |-> sent'[k]]
          BY <1>5, Zenon
        <5> QED
          BY <4>1, <5>1, <5>2, Zenon
      <4> QED
        BY <1>2, <3>1, <3>2, <3>3, <4>2, Zenon DEF LevelInv, Levels
    <3>5. CASE ~Running
      BY <1>2, <3>1, <3>2, <3>3, <3>5, Zenon DEF LevelInv, Levels, Running
    <3>6. CASE Top.seen # level
      <4>1. Top.seen = <<>>
        BY <3>1, <3>6, Zenon
      <4>2. sent' = sent
        <5>1. \A k \in Levels : ~Sees(k)
          BY <4>1 DEF Sees
        <5>2. sent = [k \in Levels |-> sent[k]]
          BY <1>1, Zenon DEF TypeOK
        <5> QED
          BY <1>5, <5>1, <5>2, Zenon
      <4>3. \A i \in 1..Len(stack) : stack[i].seen = level => i \in 1..Len(stack')
                                                          /\ stack'[i] = stack[i]
        BY <1>3, <3>6 DEF Popped, Top
      <4> QED
        BY <1>1, <1>2, <2>2, <3>2, <3>3, <4>2, <4>3, Zenon
           DEF LevelInv, Levels, Attached, Running
    <3> QED
      BY <3>4, <3>5, <3>6, Zenon
  <2> QED
    BY <2>1, <2>2, Zenon
<1>14. NotifyInv'
  BY <1>1, <1>2, <1>4, Zenon DEF NotifyInv, NotifiedOnce, At
<1> QED
  BY <1>7, <1>8, <1>9, <1>10, <1>11, <1>12, <1>13, <1>14, Zenon
     DEF SessionInv

\* migo_session_set_visibility, set_focus and set_lifecycle.
LEMMA LevelsKeep ==
  ASSUME SessionInv, NEW k \in Levels, NEW v \in {"on", "off"}, MaySetLevel,
         Drive(k, v), lifecycle' \in {"created", "running", "paused"},
         UNCHANGED <<control, stack, releases, engine, history>>
  PROVE  SessionInv'
<1>1. TypeOK /\ OwnerInv /\ AttachmentInv /\ GenerationInv /\ HeldInv /\ CountInv
      /\ LevelInv /\ NotifyInv
  BY Zenon DEF SessionInv
<1>2. UNCHANGED <<closed, transition, reserved, pendingLoss, attachment, lastPublic,
                  activeGen, stack, pending, release, registered, host, gate, queue,
                  slot, binding, losses, notified>>
  BY Zenon DEF control, releases, engine, history
<1>3. /\ level' = [level EXCEPT ![k] = v] /\ asked' = [asked EXCEPT ![k] = v]
      /\ sent' = IF CanDispatch THEN [sent EXCEPT ![k] = v] ELSE sent
  BY Zenon DEF Drive
<1>4. level' \in LevelMaps /\ DOMAIN level' = DOMAIN level
  <2>1. PICK set \in LevelSets : level \in [set -> {"unset", "on", "off"}]
    BY <1>1, Zenon DEF TypeOK, LevelMaps
  <2>2. level' \in [set -> {"unset", "on", "off"}]
    <3>1. k \in set
      BY <2>1, Zenon DEF Levels
    <3> QED
      BY <1>3, <2>1, <3>1, Zenon
  <2> QED
    BY <2>1, <2>2, Zenon DEF LevelMaps
<1>5. TypeOK'
  <2>1. sent' \in [Levels -> {"unset", "on", "off"}]
        /\ asked' \in [Levels -> {"unset", "on", "off"}]
    BY <1>1, <1>3, Zenon DEF TypeOK
  <2> QED
    BY <1>1, <1>2, <1>4, <2>1, Zenon DEF TypeOK, Levels
<1>6. OwnerInv'
  BY <1>1, <1>2, Zenon
     DEF OwnerInv, Owns, Free, Top, Lease, Attached, OfAttachment
<1>7. AttachmentInv'
  BY <1>1, <1>2, Zenon DEF AttachmentInv, Attached, AdmissionMatchesAttachment
<1>8. GenerationInv'
  BY <1>1, <1>2, Zenon DEF GenerationInv, Attached, At, Issuing, Top, Lease
<1>9. HeldInv'
  BY <1>1, <1>2, Zenon DEF HeldInv, QueueHeld, HeldOrNone
<1>10. CountInv'
  BY <1>1, <1>2, Zenon DEF CountInv
<1>11. LevelInv'
  <2>1. asked' = level'
    BY <1>1, <1>3, Zenon DEF LevelInv
  <2>2. CASE NestedLevels
    BY <2>1, <2>2, Zenon DEF LevelInv
  <2>3. CASE ~NestedLevels
    <3>1. stack = <<>> /\ stack' = <<>> /\ Len(stack') = 0 /\ Len(stack) = 0
      BY <1>2, <2>3 DEF MaySetLevel
    <3>2. \A j \in Levels : level[j] = "unset" => sent[j] = "unset"
      BY <1>1, <2>3, Zenon DEF LevelInv
    <3>3. \A j \in Levels : level'[j] = "unset" => sent'[j] = "unset"
      <4>1. \A j \in Levels : /\ level'[j] = IF j = k THEN v ELSE level[j]
                              /\ j # k => sent'[j] = sent[j]
        BY <1>1, <1>3, Zenon DEF TypeOK, Levels
      <4> QED
        BY <3>2, <4>1, Zenon
    <3>4. Attached' /\ Running' => sent' = level'
      <4>1. SUFFICES ASSUME Attached, Running PROVE sent' = level'
        BY <1>2, Zenon DEF Attached, Running
      <4>2. sent = level
        BY <1>1, <2>3, <3>1, <4>1 DEF LevelInv
      <4>3. CanDispatch
        BY <1>1, <3>1, <4>1, Zenon DEF CanDispatch, OwnerInv, Owns, Free, Running
      <4> QED
        BY <1>3, <4>2, <4>3, Zenon
    <3> QED
      BY <1>4, <2>1, <3>1, <3>3, <3>4 DEF LevelInv, Levels
  <2> QED
    BY <2>2, <2>3, Zenon
<1>12. NotifyInv'
  BY <1>1, <1>2, Zenon DEF NotifyInv, NotifiedOnce, At, Attached, Top
<1> QED
  BY <1>5, <1>6, <1>7, <1>8, <1>9, <1>10, <1>11, <1>12, Zenon DEF SessionInv

\* migo_session_destroy.
LEMMA DestroyKeeps ==
  ASSUME SessionInv, Destroy
  PROVE  SessionInv'
<1>1. TypeOK /\ OwnerInv /\ AttachmentInv /\ GenerationInv /\ HeldInv /\ CountInv
      /\ LevelInv /\ NotifyInv
  BY Zenon DEF SessionInv
<1>2. /\ ~Attached /\ MayCall /\ closed' = 1 /\ gate' = Retired
      /\ UNCHANGED <<transition, reserved, pendingLoss, attachment, lastPublic,
                     activeGen, level, lifecycle, sent, asked, stack, pending,
                     release, registered, host, queue, slot, binding, losses,
                     notified>>
  BY Zenon DEF Destroy, levels, releases, history
<1>3. gate' \in [gen : 0..MaxInternal, live : BOOLEAN] /\ gate'.gen = gate.gen
      /\ ~gate'.live
  BY <1>1, <1>2, RetiredIsGate, Zenon
<1>4. TypeOK'
  BY <1>1, <1>2, <1>3, Zenon DEF TypeOK, Levels
<1>5. OwnerInv'
  BY <1>1, <1>2, Zenon
     DEF OwnerInv, Owns, Free, Top, Lease, Attached, OfAttachment
<1>6. AttachmentInv'
  BY <1>1, <1>2, Zenon DEF AttachmentInv, Attached, AdmissionMatchesAttachment
<1>7. GenerationInv'
  BY <1>1, <1>2, <1>3, Zenon
     DEF GenerationInv, Attached, MayCall, At, Issuing, Top
<1>8. HeldInv'
  BY <1>1, <1>2, <1>3, Zenon DEF HeldInv, QueueHeld, HeldOrNone
<1>9. CountInv'
  BY <1>1, <1>2, Zenon DEF CountInv
<1>10. LevelInv'
  BY <1>1, <1>2, LevelStays, Zenon DEF Attached, Running
<1>11. NotifyInv'
  BY <1>1, <1>2, Zenon DEF NotifyInv, NotifiedOnce, At, Attached, Top
<1> QED
  BY <1>4, <1>5, <1>6, <1>7, <1>8, <1>9, <1>10, <1>11, Zenon DEF SessionInv

\* The host takes an update or a destroyed command; the render thread lets go of a
\* retired Surface.
LEMMA EngineKeeps ==
  ASSUME SessionInv, HostUpdate \/ HostDestroyed \/ RenderRelease
  PROVE  SessionInv'
<1>1. TypeOK /\ OwnerInv /\ AttachmentInv /\ GenerationInv /\ HeldInv /\ CountInv
      /\ LevelInv /\ NotifyInv
  BY Zenon DEF SessionInv
<1>2. UNCHANGED <<closed, transition, reserved, pendingLoss, attachment, lastPublic,
                  activeGen, level, lifecycle, sent, asked, stack, pending, release,
                  registered, host, gate, losses, notified>>
  BY Zenon
     DEF HostUpdate, HostDestroyed, RenderRelease, control, levels, releases, history
<1>3. NoLease \in Leases /\ NoLease.internal = 0
  BY SessionAssumption DEF NoLease, Leases
<1>4. HeldOrNone' = HeldOrNone /\ 0 \in HeldOrNone
  BY <1>2, Zenon DEF HeldOrNone
<1>5. queue' \in Seq(Commands) /\ QueueHeld'
  <2>1. CASE HostUpdate \/ HostDestroyed
    <3>1. queue # <<>> /\ queue' = Tail(queue)
      BY <2>1, Zenon DEF HostUpdate, HostDestroyed, Receive
    <3> QED
      BY <1>1, <1>4, <3>1, Receives, Zenon DEF HeldInv, QueueHeld
  <2>2. CASE RenderRelease
    BY <1>1, <1>4, <2>2, Zenon DEF RenderRelease, TypeOK, HeldInv, QueueHeld
  <2> QED
    BY <2>1, <2>2, Zenon
<1>6. /\ slot' \in Leases /\ binding' \in Leases
      /\ slot'.internal \in HeldOrNone /\ binding'.internal \in HeldOrNone
      /\ binding'.internal # 0 => binding'.public # 0
  <2>1. /\ slot \in Leases /\ binding \in Leases
        /\ slot.internal \in HeldOrNone /\ binding.internal \in HeldOrNone
        /\ binding.internal # 0 => binding.public # 0
    BY <1>1, Zenon DEF TypeOK, HeldInv
  <2>2. CASE HostUpdate
    <3>1. queue # <<>> /\ queue' = Tail(queue) /\ Head(queue).kind = "update"
      BY <2>2, Zenon DEF HostUpdate, Receive
    <3>2. Received \in Leases /\ Received.internal \in HeldOrNone
          /\ Received.public # 0
      BY <1>1, <3>1, Receives, Zenon DEF Received, HeldInv, QueueHeld, Commands
    <3>3. slot' \in {slot, Received} /\ binding' \in {binding, Received}
      BY <2>2, Zenon DEF HostUpdate
    <3> QED
      BY <2>1, <3>2, <3>3, Zenon
  <2>3. CASE HostDestroyed
    BY <1>3, <1>4, <2>1, <2>3, Zenon DEF HostDestroyed
  <2>4. CASE RenderRelease
    BY <1>3, <1>4, <2>1, <2>4, Zenon DEF RenderRelease
  <2> QED
    BY <2>2, <2>3, <2>4, Zenon
<1>7. TypeOK'
  BY <1>1, <1>2, <1>5, <1>6, Zenon DEF TypeOK, Levels
<1>8. OwnerInv'
  BY <1>1, <1>2, Zenon
     DEF OwnerInv, Owns, Free, Top, Lease, Attached, OfAttachment
<1>9. AttachmentInv'
  BY <1>1, <1>2, Zenon DEF AttachmentInv, Attached, AdmissionMatchesAttachment
<1>10. GenerationInv'
  BY <1>1, <1>2, Zenon DEF GenerationInv, Attached, At, Issuing, Top, Lease
<1>11. HeldInv'
  BY <1>1, <1>2, <1>4, <1>5, <1>6, Zenon DEF HeldInv
<1>12. CountInv'
  BY <1>1, <1>2, Zenon DEF CountInv
<1>13. LevelInv'
  BY <1>1, <1>2, LevelStays, Zenon DEF Attached, Running
<1>14. NotifyInv'
  BY <1>1, <1>2, Zenon DEF NotifyInv, NotifiedOnce, At, Attached, Top
<1> QED
  BY <1>7, <1>8, <1>9, <1>10, <1>11, <1>12, <1>13, <1>14, Zenon DEF SessionInv

\* notify_surface_lost on the host thread.
LEMMA HostLostKeeps ==
  ASSUME SessionInv, HostLost
  PROVE  SessionInv'
<1>1. TypeOK /\ OwnerInv /\ AttachmentInv /\ GenerationInv /\ HeldInv /\ CountInv
      /\ LevelInv /\ NotifyInv
  BY Zenon DEF SessionInv
<1> DEFINE g == Received.public
<1>2. /\ queue # <<>> /\ queue' = Tail(queue) /\ Head(queue).kind = "lost"
      /\ pendingLoss' = IF HoldsLoss(g) THEN g ELSE pendingLoss
      /\ activeGen' = IF MarksLost(g) THEN 0 ELSE activeGen
      /\ attachment' = IF MarksLost(g) THEN [attachment EXCEPT !.lost = TRUE]
                       ELSE attachment
      /\ notified' = IF MarksLost(g) THEN [notified EXCEPT ![g] = @ + 1]
                     ELSE notified
      /\ UNCHANGED <<closed, transition, reserved, lastPublic, level, lifecycle,
                     sent, asked, stack, pending, release, registered, host, gate,
                     slot, binding, losses>>
  BY Zenon DEF HostLost, Receive, levels, releases
<1>3. g \in Public
  <2>1. g \in 0..MaxPublic /\ g # 0
    <3>1. Head(queue) \in Commands /\ Head(queue) = queue[1] /\ 1 \in 1..Len(queue)
      BY <1>1, <1>2, Receives, Zenon
    <3>2. Head(queue).lease \in Leases
      BY <3>1, Zenon DEF Commands
    <3>3. Head(queue).lease.public # 0
      BY <1>1, <1>2, <3>1, Zenon DEF HeldInv, QueueHeld
    <3> QED
      BY <3>2, <3>3, Zenon DEF Received, Leases
  <2> QED
    BY <2>1, SessionAssumption DEF Public
<1> HIDE DEF g
<1>4. queue' \in Seq(Commands) /\ QueueHeld'
  <2>1. HeldOrNone' = HeldOrNone
    BY <1>2, Zenon DEF HeldOrNone
  <2> QED
    BY <1>1, <1>2, <2>1, Receives, Zenon DEF HeldInv, QueueHeld
<1>5. /\ attachment' \in Attachments
      /\ attachment'.internal = attachment.internal
      /\ attachment'.public = attachment.public
      /\ MarksLost(g) => attachment'.lost
      /\ ~MarksLost(g) => attachment' = attachment
  <2>1. attachment \in Attachments
    BY <1>1, Zenon DEF TypeOK
  <2>2. CASE MarksLost(g)
    BY <1>2, <2>1, <2>2, LostIsAttachment, Zenon DEF Attachments
  <2>3. CASE ~MarksLost(g)
    BY <1>2, <2>1, <2>3, Zenon
  <2> QED
    BY <2>2, <2>3, Zenon
<1>6. MarksLost(g) => /\ Attached /\ attachment.public = g /\ notified[g] = 0
                      /\ transition = "idle" /\ ~At("notify")
  BY <1>1, <1>3
     DEF MarksLost, AttachmentInv, NoAttachment, NotifyInv, Public
<1>7. TypeOK'
  <2>1. notified' \in [Public -> Nat]
    BY <1>1, <1>2, <1>3, SMTT(30) DEF TypeOK
  <2>2. pendingLoss' \in 0..MaxPublic /\ activeGen' \in 0..MaxPublic
    BY <1>1, <1>2, <1>3, SessionAssumption DEF TypeOK, Public
  <2>3. UNCHANGED <<closed, transition, reserved, lastPublic, level, lifecycle, sent,
                    asked, stack, registered, release, host, gate, slot, binding,
                    losses>>
    BY <1>2, Zenon
  <2>4. TypeOK /\ attachment' \in Attachments /\ queue' \in Seq(Commands)
    BY <1>1, <1>4, <1>5, Zenon
  <2> QED
    BY <2>1, <2>2, <2>3, <2>4, Zenon DEF TypeOK, Levels
<1>8. OwnerInv'
  BY <1>1, <1>2, <1>5, Zenon
     DEF OwnerInv, Owns, Free, Top, Lease, Attached, OfAttachment
<1>9. AttachmentInv'
  <2>1. CASE MarksLost(g)
    BY <1>1, <1>2, <1>5, <1>6, <2>1, Zenon
       DEF AttachmentInv, Attached, AdmissionMatchesAttachment
  <2>2. CASE ~MarksLost(g)
    BY <1>1, <1>2, <1>5, <2>2, Zenon
       DEF AttachmentInv, Attached, AdmissionMatchesAttachment
  <2> QED
    BY <2>1, <2>2, Zenon
<1>10. GenerationInv'
  BY <1>1, <1>2, <1>5, Zenon DEF GenerationInv, Attached, At, Issuing, Top, Lease
<1>11. HeldInv'
  BY <1>1, <1>2, <1>4, <1>5 DEF HeldInv, HeldOrNone
<1>12. CountInv'
  BY <1>1, <1>2, Zenon DEF CountInv
<1>13. LevelInv'
  BY <1>1, <1>2, <1>5, LevelStays, Zenon DEF Attached, Running
<1>14. NotifyInv'
  <2>1. CASE MarksLost(g)
    <3>1. notified' = [notified EXCEPT ![g] = @ + 1] /\ attachment'.lost
          /\ attachment'.public = g /\ ~At("notify")' /\ lastPublic' = g
      BY <1>1, <1>2, <1>5, <1>6, <2>1, Zenon DEF At, Top, AttachmentInv
    <3>2. \A h \in Public : notified'[h] = IF h = g THEN 1 ELSE notified[h]
      BY <1>1, <1>3, <1>6, <2>1, <3>1 DEF TypeOK
    <3>3. lastPublic = g
      BY <1>2, <3>1, Zenon
    <3> QED
      BY <1>1, <1>3, <3>1, <3>2, <3>3 DEF NotifyInv, NotifiedOnce, Public
  <2>2. CASE ~MarksLost(g)
    BY <1>1, <1>2, <1>5, <2>2, Zenon
       DEF NotifyInv, NotifiedOnce, At, Attached, Top
  <2> QED
    BY <2>1, <2>2, Zenon
<1> QED
  BY <1>7, <1>8, <1>9, <1>10, <1>11, <1>12, <1>13, <1>14, Zenon DEF SessionInv

\* The engine's threads end.
LEMMA HostExitKeeps ==
  ASSUME SessionInv, HostExit
  PROVE  SessionInv'
<1>1. TypeOK /\ OwnerInv /\ AttachmentInv /\ GenerationInv /\ HeldInv /\ CountInv
      /\ LevelInv /\ NotifyInv
  BY Zenon DEF SessionInv
<1>2. /\ host' = "exited" /\ queue' = <<>> /\ slot' = NoLease /\ binding' = NoLease
      /\ UNCHANGED <<closed, transition, reserved, pendingLoss, attachment,
                     lastPublic, activeGen, level, lifecycle, sent, asked, stack,
                     pending, release, registered, gate, losses, notified>>
  BY Zenon DEF HostExit, control, levels, releases, history
<1>3. NoLease \in Leases /\ NoLease.internal = 0
  BY SessionAssumption DEF NoLease, Leases
<1>4. TypeOK'
  BY <1>1, <1>2, <1>3 DEF TypeOK, Levels
<1>5. OwnerInv'
  BY <1>1, <1>2, Zenon
     DEF OwnerInv, Owns, Free, Top, Lease, Attached, OfAttachment
<1>6. AttachmentInv'
  BY <1>1, <1>2, Zenon DEF AttachmentInv, Attached, AdmissionMatchesAttachment
<1>7. GenerationInv'
  BY <1>1, <1>2, Zenon DEF GenerationInv
<1>8. HeldInv'
  BY <1>1, <1>2, <1>3 DEF HeldInv, QueueHeld, HeldOrNone
<1>9. CountInv'
  BY <1>1, <1>2, Zenon DEF CountInv
<1>10. LevelInv'
  BY <1>1, <1>2, LevelStays, Zenon DEF Attached, Running
<1>11. NotifyInv'
  BY <1>1, <1>2, Zenon DEF NotifyInv, NotifiedOnce, At, Attached, Top
<1> QED
  BY <1>4, <1>5, <1>6, <1>7, <1>8, <1>9, <1>10, <1>11, Zenon DEF SessionInv

\* A generation that the render thread finds live has a resource, so it is not that
\* of a late update.
LEMMA LiveIsHeld ==
  ASSUME SessionInv, binding.internal # 0, Live(binding)
  PROVE  release[gate.gen] = "held"
BY Zenon DEF SessionInv, HeldInv, HeldOrNone, Live

\* retire_unexpected_surface on the render thread.
LEMMA RenderLoseKeeps ==
  ASSUME SessionInv, RenderLose
  PROVE  SessionInv'
<1>1. TypeOK /\ OwnerInv /\ AttachmentInv /\ GenerationInv /\ HeldInv /\ CountInv
      /\ LevelInv /\ NotifyInv
  BY Zenon DEF SessionInv
<1>2. /\ binding.internal # 0 /\ Live(binding) /\ gate' = Retired
      /\ queue' = Append(queue, Lost(binding))
      /\ losses' = losses \cup {binding.public}
      /\ UNCHANGED <<closed, transition, reserved, pendingLoss, attachment,
                     lastPublic, activeGen, level, lifecycle, sent, asked, stack,
                     pending, release, registered, host, slot, binding, notified>>
  BY Zenon DEF RenderLose, Send, control, levels, releases
<1>3. gate' \in [gen : 0..MaxInternal, live : BOOLEAN] /\ gate'.gen = gate.gen
      /\ ~gate'.live
  BY <1>1, <1>2, RetiredIsGate, Zenon
<1>4. binding.public \in Public /\ binding \in Leases
  BY <1>1, <1>2, SessionAssumption DEF HeldInv, TypeOK, Leases, Public
<1>5. queue' \in Seq(Commands) /\ QueueHeld'
  <2> DEFINE c == Lost(binding)
  <2>1. c \in Commands /\ c.kind = "lost" /\ c.lease.public = binding.public
    BY <1>4, Zenon DEF Lost, Commands, Leases
  <2> HIDE DEF c
  <2>2. HeldOrNone' = HeldOrNone
    BY <1>2, Zenon DEF HeldOrNone
  <2>3. queue' \in Seq(Commands)
        /\ \A i \in 1..Len(queue') :
             queue'[i] = c \/ (i \in 1..Len(queue) /\ queue'[i] = queue[i])
    BY <1>1, <1>2, <2>1, Sends, Zenon DEF c
  <2> QED
    BY <1>1, <1>2, <2>1, <2>2, <2>3, Zenon DEF HeldInv, QueueHeld
<1>6. TypeOK'
  BY <1>1, <1>2, <1>3, <1>4, <1>5, Zenon DEF TypeOK, Levels
<1>7. OwnerInv'
  BY <1>1, <1>2, Zenon
     DEF OwnerInv, Owns, Free, Top, Lease, Attached, OfAttachment
<1>8. AttachmentInv'
  BY <1>1, <1>2, Zenon DEF AttachmentInv, Attached, AdmissionMatchesAttachment
<1>9. GenerationInv'
  BY <1>1, <1>2, <1>3, LiveIsHeld, Zenon
     DEF GenerationInv, Attached, At, Issuing, Top, Lease
<1>10. HeldInv'
  BY <1>1, <1>2, <1>3, <1>5, Zenon DEF HeldInv, HeldOrNone
<1>11. CountInv'
  BY <1>1, <1>2, Zenon DEF CountInv
<1>12. LevelInv'
  BY <1>1, <1>2, LevelStays, Zenon DEF Attached, Running
<1>13. NotifyInv'
  BY <1>1, <1>2, Zenon DEF NotifyInv, NotifiedOnce, At, Attached, Top
<1> QED
  BY <1>6, <1>7, <1>8, <1>9, <1>10, <1>11, <1>12, <1>13, Zenon DEF SessionInv

\* SurfaceResource::drop, the count and RELEASED.
LEMMA ReleaseKeeps ==
  ASSUME SessionInv, NEW r \in Internal, ReleaseStep(r)
  PROVE  SessionInv'
<1>1. TypeOK /\ OwnerInv /\ AttachmentInv /\ GenerationInv /\ HeldInv /\ CountInv
      /\ LevelInv /\ NotifyInv
  BY Zenon DEF SessionInv
<1>2. UNCHANGED <<closed, transition, reserved, pendingLoss, attachment, lastPublic,
                  activeGen, level, lifecycle, sent, asked, stack, host, gate, queue,
                  slot, binding, losses, notified>>
  BY Zenon
     DEF ReleaseStep, DropAnchor, Uncount, PublishReleased, control, levels, engine,
         history
<1>3. PICK next \in {"dropped", "uncounted", "released"} :
        release' = [release EXCEPT ![r] = next]
  BY Zenon DEF ReleaseStep, DropAnchor, Uncount, PublishReleased
<1>4. /\ release' \in [Internal -> {"none", "held", "dropped", "uncounted", "released"}]
      /\ release'[r] = next /\ \A q \in Internal : q # r => release'[q] = release[q]
  BY <1>1, <1>3, Zenon DEF TypeOK
<1>5. /\ release[r] \in {"held", "dropped", "uncounted"}
      /\ release[r] = "held" => r \notin Leased
  BY Zenon DEF ReleaseStep, DropAnchor, Uncount, PublishReleased
<1>6. /\ pending' = Cardinality(registered') /\ registered' \subseteq registered
      /\ \A q \in registered' : release'[q] \in {"held", "dropped"}
  <2>1. registered \subseteq Internal /\ pending = Cardinality(registered)
        /\ \A q \in registered : release[q] \in {"held", "dropped"}
    BY <1>1, Zenon DEF TypeOK, CountInv
  <2>2. CASE DropAnchor(r)
    <3>1. release'[r] = "dropped" /\ UNCHANGED <<pending, registered>>
      BY <1>1, <2>2, Zenon DEF DropAnchor, TypeOK
    <3> QED
      BY <1>4, <2>1, <3>1, Zenon
  <2>3. CASE PublishReleased(r)
    <3>1. r \notin registered /\ UNCHANGED <<pending, registered>>
      BY <2>1, <2>3, Zenon DEF PublishReleased
    <3> QED
      BY <1>4, <2>1, <3>1, Zenon
  <2>4. CASE Uncount(r)
    <3>1. registered' = registered \ {r}
          /\ pending' = IF r \in registered THEN pending - 1 ELSE pending
      BY <2>4, Zenon DEF Uncount
    <3>2. IsFiniteSet(registered)
      BY <1>1, RegisteredIsFinite, Zenon
    <3>3. Cardinality(registered \ {r})
            = IF r \in registered THEN Cardinality(registered) - 1
              ELSE Cardinality(registered)
      BY <3>2, FS_RemoveElement, Zenon
    <3>4. pending' = Cardinality(registered')
      BY <2>1, <3>1, <3>3, Zenon
    <3> QED
      BY <1>4, <2>1, <3>1, <3>4, Zenon
  <2> QED
    BY <2>2, <2>3, <2>4, Zenon DEF ReleaseStep
<1>7. TypeOK'
  BY <1>1, <1>2, <1>4, <1>6, Zenon DEF TypeOK, Levels
<1>8. OwnerInv'
  BY <1>1, <1>2, Zenon
     DEF OwnerInv, Owns, Free, Top, Lease, Attached, OfAttachment
<1>9. AttachmentInv'
  BY <1>1, <1>2, Zenon DEF AttachmentInv, Attached, AdmissionMatchesAttachment
<1>10. GenerationInv'
  <2>1. Attached /\ gate.gen = attachment.internal + 1 /\ release[gate.gen] = "none"
        /\ host # "exited" => release'[gate.gen] = "none"
    <3>1. SUFFICES ASSUME Attached, gate.gen = attachment.internal + 1,
                          release[gate.gen] = "none"
                   PROVE  release'[gate.gen] = "none"
      OBVIOUS
    <3>2. gate.gen \in Internal
      BY <1>1, <3>1 DEF TypeOK, Attachments, Internal
    <3> QED
      BY <1>4, <1>5, <3>1, <3>2, Zenon
  <2> QED
    BY <1>1, <1>2, <2>1, Zenon
       DEF GenerationInv, Attached, At, Issuing, Top, Lease
<1>11. HeldInv'
  <2>1. \A q \in HeldOrNone : q \in HeldOrNone' \/ (q = r /\ q # 0 /\ q \notin Leased)
    BY <1>4, <1>5, Zenon DEF HeldOrNone, Internal
  <2>2. \A q : q # 0 /\ q \in {attachment.internal, slot.internal, binding.internal}
               => q \in Leased
    BY Zenon DEF Leased
  <2>3. \A i \in 1..Len(stack) :
          stack[i].lease.internal # 0 => stack[i].lease.internal \in Leased
    BY <1>1, SMTT(30) DEF Leased, TypeOK
  <2>4. \A i \in 1..Len(queue) :
          queue[i].kind = "update" /\ queue[i].lease.internal # 0 =>
            queue[i].lease.internal \in Leased
    BY <1>1 DEF Leased, UpdateLeases, TypeOK
  <2>5. QueueHeld'
    BY <1>1, <1>2, <2>1, <2>4, Zenon DEF HeldInv, QueueHeld
  <2>6. \A i \in 1..Len(stack) : stack[i].lease.internal \in HeldOrNone'
    BY <1>1, <2>1, <2>3, Zenon DEF HeldInv
  <2>7. {attachment.internal, slot.internal, binding.internal} \subseteq HeldOrNone'
    BY <1>1, <2>1, <2>2, Zenon DEF HeldInv
  <2>8. \A q \in Internal : q > gate.gen => release'[q] = "none"
    BY <1>1, <1>4, <1>5, Zenon DEF HeldInv
  <2> QED
    BY <1>1, <1>2, <2>5, <2>6, <2>7, <2>8, Zenon DEF HeldInv
<1>12. CountInv'
  BY <1>6, Zenon DEF CountInv
<1>13. LevelInv'
  BY <1>1, <1>2, LevelStays, Zenon DEF Attached, Running
<1>14. NotifyInv'
  BY <1>1, <1>2, Zenon DEF NotifyInv, NotifiedOnce, At, Attached, Top
<1> QED
  BY <1>7, <1>8, <1>9, <1>10, <1>11, <1>12, <1>13, <1>14, Zenon DEF SessionInv

-----------------------------------------------------------------------------
(* The theorems *)

\* A new Session satisfies the invariant.
LEMMA Starts == Init => SessionInv
<1> SUFFICES ASSUME Init PROVE SessionInv
  OBVIOUS
<1>1. NoLease \in Leases /\ NoLease.internal = 0 /\ NoAttachment \in Attachments
      /\ NoAttachment.internal = 0 /\ NoAttachment.public = 0
  BY SessionAssumption DEF NoLease, Leases, NoAttachment, Attachments
<1>2. PICK set \in LevelSets : level = [k \in set |-> "unset"]
  BY Zenon DEF Init
<1>3. level \in [set -> {"unset", "on", "off"}] /\ DOMAIN level = set
  BY <1>2, Zenon
<1>4. level \in LevelMaps
  BY <1>3, Zenon DEF LevelMaps
<1>5. TypeOK
  <2>1. sent = level /\ asked = level /\ stack = <<>> /\ queue = <<>>
    BY Zenon DEF Init
  <2>2. stack \in Seq(Frames) /\ queue \in Seq(Commands)
    BY <2>1
  <2>3. gate \in [gen : 0..MaxInternal, live : BOOLEAN]
    BY SessionAssumption DEF Init, MaxInternal
  <2> QED
    BY <1>1, <1>3, <1>4, <2>1, <2>2, <2>3, SessionAssumption, SMTT(30)
       DEF Init, TypeOK, Levels
<1>6. stack = <<>> /\ Len(stack) = 0 /\ queue = <<>> /\ Len(queue) = 0
  BY Zenon DEF Init
<1>7. OwnerInv
  BY <1>6 DEF Init, OwnerInv, Owns, Free
<1>8. AttachmentInv
  BY <1>1, Zenon DEF Init, AttachmentInv, Attached, AdmissionMatchesAttachment
<1>9. GenerationInv
  BY <1>1, <1>6 DEF Init, GenerationInv, Attached, Issuing
<1>10. HeldInv
  BY <1>1, <1>6 DEF Init, HeldInv, QueueHeld, HeldOrNone
<1>11. CountInv
  BY FS_EmptySet, Zenon DEF Init, CountInv
<1>12. LevelInv
  BY <1>6 DEF Init, LevelInv, Levels
<1>13. NotifyInv
  BY <1>6 DEF Init, NotifyInv, NotifiedOnce, At
<1> QED
  BY <1>5, <1>7, <1>8, <1>9, <1>10, <1>11, <1>12, <1>13, Zenon DEF SessionInv

\* The invariant only speaks of the Session's variables.
LEMMA StutterKeeps ==
  ASSUME SessionInv, UNCHANGED vars
  PROVE  SessionInv'
<1>1. UNCHANGED <<closed, transition, reserved, pendingLoss, attachment, lastPublic,
                  activeGen, level, lifecycle, sent, asked, stack, pending, release,
                  registered, host, gate, queue, slot, binding, losses, notified>>
  BY Zenon DEF vars, control, levels, releases, engine, history
<1>2. (TypeOK /\ OwnerInv)'
  BY <1>1
     DEF SessionInv, TypeOK, Levels, OwnerInv, Owns, Free, Top, Lease, Attached,
         OfAttachment
<1>3. (AttachmentInv /\ GenerationInv)'
  BY <1>1, Zenon
     DEF SessionInv, AttachmentInv, Attached, AdmissionMatchesAttachment,
         GenerationInv, At, Issuing, Top, Lease
<1>4. (HeldInv /\ CountInv)'
  BY <1>1, Zenon DEF SessionInv, HeldInv, QueueHeld, HeldOrNone, CountInv
<1>5. (LevelInv /\ NotifyInv)'
  BY <1>1, Zenon
     DEF SessionInv, LevelInv, Levels, Attached, Running, NotifyInv, NotifiedOnce,
         At, Top
<1> QED
  BY <1>2, <1>3, <1>4, <1>5, Zenon DEF SessionInv

\* Every step of the embedder's calls, the engine and the releases keeps it.
LEMMA NextKeeps ==
  ASSUME SessionInv, [Next]_vars
  PROVE  SessionInv'
<1>1. CASE NewCall
  <2>1. CASE (\E g \in Public : AttachReserve(g)) \/ UpdateReserve \/ DetachReserve
    BY <2>1, ReserveKeeps, Zenon
  <2>2. CASE Destroy
    BY <2>2, DestroyKeeps, Zenon
  <2>3. CASE \E k \in Levels, v \in {"on", "off"} : SetLevel(k, v)
    <3>1. PICK k \in Levels, v \in {"on", "off"} : SetLevel(k, v)
      BY <2>3, Zenon
    <3>2. lifecycle' \in {"created", "running", "paused"}
      BY <3>1, Zenon DEF SetLevel, SessionInv, TypeOK
    <3>3. /\ MaySetLevel /\ Drive(k, v)
          /\ UNCHANGED <<control, stack, releases, engine, history>>
      BY <3>1, Zenon DEF SetLevel
    <3> QED
      BY <3>2, <3>3, LevelsKeep, Zenon
  <2>4. CASE \E s \in {"running", "paused"} : "visible" \in Levels /\ SetLifecycle(s)
    <3>1. PICK s \in {"running", "paused"} : "visible" \in Levels /\ SetLifecycle(s)
      BY <2>4, Zenon
    <3>2. PICK v \in {"on", "off"} : Drive("visible", v)
      BY <3>1, Zenon DEF SetLifecycle
    <3>3. /\ MaySetLevel /\ lifecycle' \in {"created", "running", "paused"}
          /\ UNCHANGED <<control, stack, releases, engine, history>>
      BY <3>1, Zenon DEF SetLifecycle
    <3> QED
      BY <3>1, <3>2, <3>3, LevelsKeep, Zenon
  <2> QED
    BY <1>1, <2>1, <2>2, <2>3, <2>4, Zenon DEF NewCall
<1>2. CASE CallStep
  <2>1. CASE AttachSend \/ UpdateSend
    BY <2>1, FailKeeps, UpdateIsSent, Zenon
  <2>2. CASE Rollback \/ UpdateCommit
    BY <2>2, RollbackKeeps, Zenon
  <2>3. CASE Notify \/ NotifyInline \/ CallbackReturns \/ Finish
    BY <2>3, NotifyKeeps, CallbackReturnsKeeps, FinishKeeps, Zenon
  <2>4. CASE AttachFails \/ UpdateFails
    BY <2>4, FailKeeps, Zenon
  <2>5. CASE AttachLease \/ AttachSpawn \/ AttachCommit \/ UpdateLease
    BY <2>5, IssueKeeps, AttachCommitKeeps, UpdateLeaseKeeps, Zenon
  <2>6. CASE DetachClose \/ DetachRetire \/ DetachCommit \/ DetachSend \/ DetachDrop
    BY <2>6, DetachCloseKeeps, DetachRetireKeeps, DetachCommitKeeps,
       DetachSendKeeps, DetachDropKeeps
  <2> QED
    BY <1>2, <2>1, <2>2, <2>3, <2>4, <2>5, <2>6, Zenon DEF CallStep
<1>3. CASE HostStep \/ HostExit \/ RenderLose \/ RenderRelease
  BY <1>3, EngineKeeps, HostLostKeeps, HostExitKeeps, RenderLoseKeeps, Zenon
     DEF HostStep
<1>4. CASE \E r \in Internal : ReleaseStep(r)
  BY <1>4, ReleaseKeeps, Zenon
<1>5. CASE UNCHANGED vars
  BY <1>5, StutterKeeps, Zenon
<1> QED
  BY <1>1, <1>2, <1>3, <1>4, <1>5, Zenon DEF Next

\* The inductive invariant holds in every state of every Session.
THEOREM SessionInvariant == Spec => []SessionInv
<1>1. Init => SessionInv
  BY Starts, Zenon
<1>2. SessionInv /\ [Next]_vars => SessionInv'
  BY NextKeeps, Zenon
<1> QED
  BY <1>1, <1>2, PTL DEF Spec

\* The fields stay in their ranges, and the gate issues at most two generations for
\* each public one.
THEOREM SessionTyping == Spec => []TypeOK
<1>1. SessionInv => TypeOK
  BY Zenon DEF SessionInv
<1> QED
  BY <1>1, SessionInvariant, PTL

\* The data plane is open exactly for the installed attachment that is not lost and
\* not being detached (active_surface_generation of capi/src/surface.rs).
THEOREM AdmissionHolds == Spec => []AdmissionMatchesAttachment
<1>1. SessionInv => AdmissionMatchesAttachment
  BY Zenon DEF SessionInv, AttachmentInv
<1> QED
  BY <1>1, SessionInvariant, PTL

\* No presentation reaches a generation after begin_detach has returned.
THEOREM DetachedHolds == Spec => []DetachedNeverPresents
<1>1. SessionInv => DetachedNeverPresents
  <2>1. SUFFICES ASSUME SessionInv, Running, binding.internal # 0, Live(binding)
                 PROVE  \/ attachment.internal = binding.internal
                        \/ \E i \in DOMAIN stack :
                             stack[i].lease.internal = binding.internal
    BY Zenon DEF DetachedNeverPresents
  <2>2. release[gate.gen] = "held" /\ gate.live /\ gate.gen = binding.internal
    BY <2>1, LiveIsHeld, Zenon DEF Live
  <2>3. GenerationInv /\ host # "exited" /\ TypeOK
    BY <2>1, Zenon DEF SessionInv, Running
  <2>4. CASE Attached
    BY <2>2, <2>3, <2>4, Zenon DEF GenerationInv
  <2>5. CASE ~Attached
    <3>1. Issuing /\ gate.gen = Lease.internal
      BY <2>2, <2>3, <2>5, Zenon DEF GenerationInv
    <3>2. Len(stack) \in DOMAIN stack
      BY <2>3, <3>1 DEF TypeOK, Issuing
    <3> QED
      BY <2>2, <3>1, <3>2, Zenon DEF Lease, Top
  <2> QED
    BY <2>4, <2>5, Zenon
<1> QED
  BY <1>1, SessionInvariant, PTL

\* Nothing reaches a native resource that has been given up (SurfaceResource::drop
\* of shared/src/surface/attachment.rs).
THEOREM ReleaseHolds == Spec => []NeverUsedAfterRelease
<1>1. SessionInv => NeverUsedAfterRelease
  <2>1. SUFFICES ASSUME SessionInv, NEW r \in Internal,
                        release[r] \in {"dropped", "uncounted", "released"}
                 PROVE  r \notin {attachment.internal, slot.internal,
                                  binding.internal} \cup UpdateLeases
    BY Zenon DEF NeverUsedAfterRelease
  <2>2. r \notin HeldOrNone
    BY <2>1 DEF HeldOrNone, Internal
  <2>3. HeldInv /\ queue \in Seq(Commands)
    BY <2>1, Zenon DEF SessionInv, TypeOK
  <2>4. r \notin UpdateLeases
    BY <2>2, <2>3 DEF HeldInv, QueueHeld, UpdateLeases
  <2> QED
    BY <2>2, <2>3, <2>4, Zenon DEF HeldInv
<1> QED
  BY <1>1, SessionInvariant, PTL

\* With every detached Surface seen RELEASED and no call in progress, a destroy is
\* accepted, unless an attach without launch_nonce left its reservation behind.
THEOREM DestroyHolds == ~MissingNonce => (Spec => []DestroyIsNotRefused)
<1> SUFFICES ASSUME ~MissingNonce PROVE Spec => []DestroyIsNotRefused
  OBVIOUS
<1>1. SessionInv => DestroyIsNotRefused
  <2>1. SUFFICES ASSUME SessionInv, stack = <<>>,
                        \A r \in Internal : release[r] \in {"none", "released"}
                 PROVE  pending = 0 /\ transition = "idle"
    BY Zenon DEF DestroyIsNotRefused
  <2>2. transition = "idle"
    BY <2>1, Zenon DEF SessionInv, OwnerInv, Owns, Free
  <2>3. registered = {}
    BY <2>1, Zenon DEF SessionInv, CountInv, TypeOK
  <2> QED
    BY <2>1, <2>2, <2>3, FS_EmptySet, Zenon DEF SessionInv, CountInv
<1> QED
  BY <1>1, SessionInvariant, PTL

\* A failed pre-commit operation always releases its reservation, the return for
\* want of launch_nonce excepted (MissingNonce), which leaves it taken for good.
THEOREM ReservationHolds == ~MissingNonce => (Spec => []ReservationIsOwned)
<1> SUFFICES ASSUME ~MissingNonce PROVE Spec => []ReservationIsOwned
  OBVIOUS
<1>1. SessionInv => ReservationIsOwned
  BY Zenon DEF SessionInv, OwnerInv, Owns, Free, ReservationIsOwned
<1> QED
  BY <1>1, SessionInvariant, PTL

\* The engine was told the levels the embedder set last, if none is set inside an
\* inline callback (finding of the run session_levels_inline).
THEOREM LevelsHold == ~NestedLevels => (Spec => []LevelsAgree)
<1> SUFFICES ASSUME ~NestedLevels PROVE Spec => []LevelsAgree
  OBVIOUS
<1>1. SessionInv => LevelsAgree
  BY DEF SessionInv, LevelInv, LevelsAgree
<1> QED
  BY <1>1, SessionInvariant, PTL

\* A loss of one public generation is reported at most once.
THEOREM NotifiedOnceHolds == Spec => []NotifiedOnce
<1>1. SessionInv => NotifiedOnce
  BY Zenon DEF SessionInv, NotifyInv
<1> QED
  BY <1>1, SessionInvariant, PTL

=============================================================================
