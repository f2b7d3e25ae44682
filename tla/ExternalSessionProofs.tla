----------------------- MODULE ExternalSessionProofs -----------------------
(***************************************************************************)
(* Proofs about a session whose frames come from another process, for every *)
(* credit window, every number of warm frames and every bound.             *)
(***************************************************************************)
EXTENDS ExternalSession, FiniteSetTheorems, TLAPS

\* The packet being submitted is the newest one accepted.
SubmitsNewest ==
  \/ submit = Idle
  \/ /\ submit.at \in {"decode", "hold"} /\ submit.sequence = ingress.last
     /\ {"at", "sequence"} \subseteq DOMAIN submit

\* The credits with what they rest on: the window is kept, and what is counted
\* are numbers.
CreditInv ==
  /\ CreditsExact /\ SubmitsNewest
  /\ credits \in 0..MaxCredits
  /\ "last" \in DOMAIN ingress /\ ingress.last \in Nat
  /\ \E S : held \in Seq(S)

\* The order of the frames with what it rests on: every frame on its way was
\* accepted, and the one not yet dispatched is newer than the others.
OrderInv ==
  /\ FramesInOrder
  /\ \E S : rq \in Seq(S)
  /\ executed \in Nat /\ executed <= ingress.last
  /\ \A i \in Frames : rq[i].sequence \in Nat /\ rq[i].sequence <= ingress.last
  /\ submit.at = "decode" => /\ executed < ingress.last
                             /\ \A i \in Frames : rq[i].sequence < ingress.last

-----------------------------------------------------------------------------
(* Credits *)

\* Steps that leave the producer's state and the last sequence number alone.
LEMMA CreditsUntouched ==
  ASSUME CreditInv, UNCHANGED <<credits, submit, held>>,
         ingress'.last = ingress.last, "last" \in DOMAIN ingress'
  PROVE  CreditInv'
BY DEF CreditInv, CreditsExact, SubmitsNewest, Idle

\* Every change of the ingress but an accepted packet keeps its last sequence.
LEMMA IngressKept ==
  ASSUME CreditInv,
         \/ UNCHANGED ingress
         \/ MarkResourcesReady \/ DrainEvents
         \/ HandleUpdate
  PROVE  ingress'.last = ingress.last /\ "last" \in DOMAIN ingress'
<1>1. CASE UNCHANGED ingress
  BY <1>1 DEF CreditInv
<1>2. CASE MarkResourcesReady
  BY <1>2 DEF MarkResourcesReady, CreditInv
<1>3. CASE DrainEvents
  BY <1>3 DEF DrainEvents, CreditInv
<1>4. CASE HandleUpdate
  BY <1>4 DEF HandleUpdate, SetSurfaceGeneration, CreditInv
<1> QED
  BY <1>1, <1>2, <1>3, <1>4

\* The steps of a packet: accepted, refused, failed, dispatched, held.
LEMMA PacketKeepsCredits ==
  ASSUME CreditInv,
         \/ \E p \in Packets : SubmitAccepted(p) \/ SubmitRefused(p)
         \/ RenderFails \/ Dispatch \/ Hold
  PROVE  CreditInv'
<1> USE ExternalAssumption
<1>1. ASSUME NEW p \in Packets, SubmitAccepted(p)
      PROVE  CreditInv'
  <2>1. p.sequence = ingress.last + 1
    <3>1. Legal(p)
      BY <1>1 DEF SubmitAccepted
    <3> QED
      BY <3>1 DEF Legal
  <2>2. credits' = credits + 1 /\ credits < MaxCredits
    BY <1>1 DEF SubmitAccepted, TryAcquire
  <2>3. /\ submit = Idle /\ held' = held
        /\ submit' = [at |-> "decode", sequence |-> p.sequence, surface |-> p.surface]
        /\ ingress' = [ingress EXCEPT !.last = p.sequence]
    BY <1>1 DEF SubmitAccepted
  <2>4. submit' # Idle
    BY <2>3 DEF Idle
  <2>5. ingress'.last = ingress.last + 1 /\ "last" \in DOMAIN ingress'
    BY <2>1, <2>3 DEF CreditInv
  <2>6. SubmitsNewest'
    BY <2>1, <2>3, <2>5 DEF SubmitsNewest
  <2>7. CreditsExact'
    BY <2>2, <2>3, <2>4 DEF CreditInv, CreditsExact
  <2> QED
    BY <2>2, <2>3, <2>5, <2>6, <2>7, SMTT(30) DEF CreditInv
<1>2. ASSUME NEW p \in Packets, SubmitRefused(p)
      PROVE  CreditInv'
  <2>1. UNCHANGED <<ingress, credits, submit, held>>
    BY <1>2 DEF SubmitRefused
  <2> QED
    BY <2>1, CreditsUntouched DEF CreditInv
<1>3. CASE RenderFails
  <2>1. /\ submit # Idle /\ submit' = Idle
        /\ credits' = credits - 1 /\ UNCHANGED <<ingress, held>>
    BY <1>3 DEF RenderFails, Idle
  <2>2. Len(held) \in Nat
    BY DEF CreditInv
  <2> QED
    BY <2>1, <2>2 DEF CreditInv, CreditsExact, SubmitsNewest
<1>4. CASE Dispatch
  <2>1. /\ submit.at = "decode" /\ submit' = [submit EXCEPT !.at = "hold"]
        /\ UNCHANGED <<ingress, credits, held>>
    BY <1>4 DEF Dispatch
  <2>2. submit # Idle /\ submit' # Idle
    <3>1. submit # Idle
      BY <2>1 DEF Idle
    <3>2. submit'.at = "hold"
      BY <2>1, <3>1 DEF CreditInv, SubmitsNewest
    <3> QED
      BY <3>1, <3>2 DEF Idle
  <2> QED
    BY <2>1, <2>2 DEF CreditInv, CreditsExact, SubmitsNewest
<1>5. CASE Hold
  <2>1. /\ submit # Idle /\ submit' = Idle
        /\ held' = Append(held, submit.sequence) /\ UNCHANGED <<ingress, credits>>
    BY <1>5 DEF Hold, Idle
  <2>2. PICK S : held \in Seq(S)
    BY DEF CreditInv
  <2>3. held \in Seq(S \cup {submit.sequence})
    BY <2>2
  <2>4. held' \in Seq(S \cup {submit.sequence}) /\ Len(held') = Len(held) + 1
    BY <2>1, <2>3
  <2> QED
    BY <2>1, <2>3, <2>4 DEF CreditInv, CreditsExact, SubmitsNewest
<1> QED
  BY <1>1, <1>2, <1>3, <1>4, <1>5

\* A frame signal returns the credit of the frame it releases, and only that.
LEMMA SignalKeepsCredits ==
  ASSUME CreditInv, FrameSignal
  PROVE  CreditInv'
<1> USE ExternalAssumption
<1>1. UNCHANGED <<ingress, submit>>
  BY DEF FrameSignal
<1>2. PICK S : held \in Seq(S)
  BY DEF CreditInv
<1>3. CASE held # <<>> /\ held' = Tail(held) /\ credits' = credits - 1
  <2>1. held' \in Seq(S) /\ Len(held') = Len(held) - 1 /\ Len(held) \in Nat \ {0}
    BY <1>2, <1>3
  <2>2. Len(held) <= credits
    BY <2>1 DEF CreditInv, CreditsExact
  <2>3. CreditsExact' /\ credits' \in 0..MaxCredits
    <3>1. credits \in 0..MaxCredits /\ credits' = credits - 1 /\ submit' = submit
      BY <1>1, <1>3 DEF CreditInv
    <3>2. CASE submit = Idle
      BY <2>1, <2>2, <3>1, <3>2 DEF CreditInv, CreditsExact, Idle
    <3>3. CASE submit # Idle
      BY <2>1, <2>2, <3>1, <3>3 DEF CreditInv, CreditsExact, Idle
    <3> QED
      BY <3>2, <3>3
  <2>4. SubmitsNewest'
    BY <1>1 DEF CreditInv, SubmitsNewest, Idle
  <2>5. \E T : held' \in Seq(T)
    BY <2>1
  <2> QED
    BY <1>1, <2>3, <2>4, <2>5 DEF CreditInv
<1>4. CASE UNCHANGED <<held, credits>>
  BY <1>1, <1>4, CreditsUntouched DEF CreditInv
<1> QED
  BY <1>3, <1>4 DEF FrameSignal

\* The steps that have nothing to do with packets: the host's, the session
\* thread's but for frame signals, the render thread's.
Elsewhere ==
  \/ RequestFrame \/ HostStep \/ Tick \/ Execute \/ LossStep
  \/ HandleUpdate \/ Publish \/ UpdateReplied \/ UpdateTimeout \/ HandleDestroyed
  \/ HandlePause \/ HandleShow \/ HandleInput \/ HandleShutdown \/ DrainEvents

\* They leave the packets, the held frames and the credits alone, ...
LEMMA ElsewherePackets ==
  ASSUME Elsewhere
  PROVE  UNCHANGED producer
<1>1. CASE HostStep
  BY <1>1 DEF HostStep, SetVisibility, AttachBegin, AttachCommit, SurfaceUpdate,
              SurfaceUpdateFails, Detach, MarkResourcesReady, SendInput, Shutdown
<1>2. CASE Execute
  BY <1>2 DEF Execute, ExecuteFrame, ExecuteLevel, ExecuteDestroyed, ExecuteRecreate
<1>3. CASE RequestFrame \/ Tick \/ LossStep
  BY <1>3 DEF RequestFrame, Tick, LossStep, SurfaceLost, Report, ContextLost
<1> QED
  BY <1>1, <1>2, <1>3, SMTT(30)
  DEF Elsewhere, HandleUpdate, Publish, UpdateReplied, UpdateTimeout, HandleDestroyed,
      HandlePause, HandleShow, HandleInput, HandleShutdown, DrainEvents

\* ... and the last sequence number of the ingress.
LEMMA ElsewhereFrame ==
  ASSUME CreditInv, Elsewhere
  PROVE  /\ UNCHANGED <<credits, submit, held>>
         /\ ingress'.last = ingress.last /\ "last" \in DOMAIN ingress'
<1>1. UNCHANGED producer
  BY ElsewherePackets
<1>2. UNCHANGED ingress \/ MarkResourcesReady \/ DrainEvents \/ HandleUpdate
  <2>1. CASE HostStep
    BY <2>1 DEF HostStep, SetVisibility, AttachBegin, AttachCommit, SurfaceUpdate,
                SurfaceUpdateFails, Detach, SendInput, Shutdown
  <2>2. CASE Execute
    BY <2>2 DEF Execute, ExecuteFrame, ExecuteLevel, ExecuteDestroyed, ExecuteRecreate
  <2>3. CASE RequestFrame \/ Tick \/ LossStep
    BY <2>3 DEF RequestFrame, Tick, LossStep, SurfaceLost, Report, ContextLost
  <2> QED
    BY <2>1, <2>2, <2>3, SMTT(30)
    DEF Elsewhere, Publish, UpdateReplied, UpdateTimeout, HandleDestroyed,
        HandlePause, HandleShow, HandleInput, HandleShutdown
<1> QED
  BY <1>1, <1>2, IngressKept DEF producer

\* Every step is one of these.
LEMMA Steps ==
  ASSUME Next
  PROVE  \/ \E p \in Packets : SubmitAccepted(p) \/ SubmitRefused(p)
         \/ RenderFails \/ Dispatch \/ Hold \/ FrameSignal \/ Elsewhere
BY DEF Next, ProducerStep, SessionStep, Elsewhere

\* Credits are never lost, doubled or overdrawn, for every window: the pool of
\* frame-wire/src/pool.rs, the error path of render and the frame signal of
\* run_external_session together return each credit once.
THEOREM CreditsInvariant == Spec => []CreditInv
<1>1. Init => CreditInv
  <2> SUFFICES ASSUME Init PROVE CreditInv
    OBVIOUS
  <2>1. held = <<>> /\ held \in Seq({}) /\ Len(held) = 0
    BY DEF Init
  <2> QED
    BY <2>1, ExternalAssumption DEF Init, CreditInv, CreditsExact, SubmitsNewest
<1>2. CreditInv /\ [Next]_vars => CreditInv'
  <2> SUFFICES ASSUME CreditInv, [Next]_vars PROVE CreditInv'
    OBVIOUS
  <2>1. CASE UNCHANGED vars
    BY <2>1, CreditsUntouched DEF vars, producer, CreditInv
  <2>2. CASE Elsewhere
    BY <2>2, ElsewhereFrame, CreditsUntouched
  <2> QED
    BY <2>1, <2>2, Steps, PacketKeepsCredits, SignalKeepsCredits
<1> QED
  BY <1>1, <1>2, PTL DEF Spec

\* The property of the runs.
THEOREM CreditsHold == Spec => []CreditsExact
<1>1. CreditInv => CreditsExact
  BY DEF CreditInv
<1> QED
  BY <1>1, CreditsInvariant, PTL

-----------------------------------------------------------------------------
(* The order of the frames *)

\* No new packet, and the render queue is left alone.
LEMMA OrderUntouched ==
  ASSUME OrderInv, UNCHANGED <<rq, executed>>, ingress'.last = ingress.last,
         submit'.at = "decode" => submit.at = "decode"
  PROVE  OrderInv'
BY DEF OrderInv, FramesInOrder, Frames

\* A command that is no frame joins the render queue.
LEMMA OtherCommandKeepsOrder ==
  ASSUME OrderInv, NEW c, c.op # "frame", rq' = Append(rq, c),
         executed' = executed, ingress'.last = ingress.last, submit' = submit
  PROVE  OrderInv'
<1>1. PICK S : rq \in Seq(S)
  BY DEF OrderInv
<1>2. rq \in Seq(S \cup {c})
  BY <1>1
<1>3. /\ rq' \in Seq(S \cup {c}) /\ Len(rq') = Len(rq) + 1 /\ Len(rq) \in Nat
      /\ rq'[Len(rq) + 1] = c
      /\ \A i \in 1..Len(rq) : rq'[i] = rq[i]
      /\ DOMAIN rq = 1..Len(rq) /\ DOMAIN rq' = 1..(Len(rq) + 1)
  BY <1>2
<1>4. Frames' = Frames /\ \A i \in Frames : rq'[i] = rq[i]
  BY <1>3 DEF Frames
<1>5. \E T : rq' \in Seq(T)
  BY <1>3
<1> QED
  BY <1>4, <1>5, Zenon DEF OrderInv, FramesInOrder

\* The render thread takes the oldest command; a frame it executes.
LEMMA DrainKeepsOrder ==
  ASSUME OrderInv, rq # <<>>, rq' = Tail(rq),
         IF Head(rq).op = "frame" THEN executed' = Head(rq).sequence
                                  ELSE executed' = executed,
         ingress'.last = ingress.last, submit' = submit
  PROVE  OrderInv'
<1>1. PICK S : rq \in Seq(S)
  BY DEF OrderInv
<1>2. /\ rq' \in Seq(S) /\ Len(rq) \in Nat \ {0} /\ Len(rq') = Len(rq) - 1
      /\ \A i \in 1..Len(rq') : rq'[i] = rq[i + 1]
      /\ DOMAIN rq = 1..Len(rq) /\ DOMAIN rq' = 1..Len(rq')
      /\ Head(rq) = rq[1]
  BY <1>1
<1>3. \A i \in Frames' : i + 1 \in Frames /\ rq'[i] = rq[i + 1] /\ i \in Nat \ {0}
  BY <1>2 DEF Frames
<1>4. \A i, j \in Frames' : j < i => rq'[j].sequence < rq'[i].sequence
  <2> TAKE i, j \in Frames'
  <2> HAVE j < i
  <2>1. i + 1 \in Frames /\ j + 1 \in Frames /\ j + 1 < i + 1
    BY <1>3
  <2> QED
    BY <1>3, <2>1, Zenon DEF OrderInv, FramesInOrder
<1>5. \E T : rq' \in Seq(T)
  BY <1>2
<1>6. CASE Head(rq).op = "frame"
  <2>1. 1 \in Frames /\ executed' = rq[1].sequence
    BY <1>2, <1>6 DEF Frames
  <2>2. ASSUME NEW i \in Frames' PROVE rq'[i].sequence > executed'
    <3>1. i \in Nat \ {0}
      BY <1>3, Zenon
    <3>2. i + 1 \in Frames /\ rq'[i] = rq[i + 1]
      BY <1>3, Zenon
    <3>3. 1 < i + 1
      BY <3>1
    <3>4. rq[1].sequence < rq[i + 1].sequence
      BY <2>1, <3>2, <3>3 DEF OrderInv, FramesInOrder
    <3>5. rq[1].sequence \in Nat /\ rq[i + 1].sequence \in Nat
      BY <2>1, <3>2 DEF OrderInv
    <3> QED
      BY <2>1, <3>2, <3>4, <3>5, Zenon
  <2>3. executed' \in Nat /\ executed' <= ingress.last
    BY <2>1 DEF OrderInv
  <2>4. submit.at = "decode" => executed' < ingress.last
    BY <2>1 DEF OrderInv
  <2> QED
    BY <1>4, <1>5, <2>2, <2>3, <2>4, <1>3, Zenon DEF OrderInv, FramesInOrder
<1>7. CASE Head(rq).op # "frame"
  <2>1. \A i \in Frames' : rq'[i].sequence > executed'
    BY <1>3, <1>7, Zenon DEF OrderInv, FramesInOrder
  <2> QED
    BY <1>4, <1>5, <2>1, <1>3, <1>7, Zenon DEF OrderInv, FramesInOrder
<1> QED
  BY <1>6, <1>7

\* An accepted packet is newer than everything on its way.
LEMMA AcceptKeepsOrder ==
  ASSUME OrderInv, CreditInv, NEW p \in Packets, SubmitAccepted(p)
  PROVE  OrderInv'
<1>1. p.sequence = ingress.last + 1
  <2>1. Legal(p)
    BY DEF SubmitAccepted
  <2> QED
    BY <2>1 DEF Legal
<1>2. ingress'.last = ingress.last + 1 /\ UNCHANGED <<rq, executed>>
  BY <1>1 DEF SubmitAccepted, CreditInv, thread
<1>3. ingress.last \in Nat
  BY DEF CreditInv
<1> QED
  BY <1>2, <1>3 DEF OrderInv, FramesInOrder, Frames

\* The packet dispatched goes behind the frames accepted before it.
LEMMA DispatchKeepsOrder ==
  ASSUME OrderInv, CreditInv, Dispatch
  PROVE  OrderInv'
<1> DEFINE f == [op |-> "frame", sequence |-> submit.sequence]
<1>1. /\ rq' = Append(rq, f) /\ UNCHANGED <<ingress, executed>>
      /\ submit.at = "decode" /\ submit' = [submit EXCEPT !.at = "hold"]
  BY DEF Dispatch
<1>2. submit # Idle
  BY <1>1 DEF Idle
<1>3. /\ submit.sequence = ingress.last /\ ingress.last \in Nat
      /\ submit'.at = "hold"
  BY <1>1, <1>2 DEF CreditInv, SubmitsNewest
<1>4. PICK S : rq \in Seq(S)
  BY DEF OrderInv
<1>5. rq \in Seq(S \cup {f})
  BY <1>4
<1>6. /\ rq' \in Seq(S \cup {f}) /\ Len(rq') = Len(rq) + 1 /\ Len(rq) \in Nat
      /\ rq'[Len(rq) + 1] = f
      /\ \A i \in 1..Len(rq) : rq'[i] = rq[i]
      /\ DOMAIN rq = 1..Len(rq) /\ DOMAIN rq' = 1..(Len(rq) + 1)
  BY <1>1, <1>5
<1>7. \A i \in Frames' :
        \/ i = Len(rq) + 1 /\ rq'[i].sequence = ingress.last
        \/ i \in Frames /\ i < Len(rq) + 1 /\ rq'[i] = rq[i]
  BY <1>3, <1>6 DEF Frames
<1>8. executed < ingress.last /\ \A i \in Frames : rq[i].sequence < ingress.last
  BY <1>1 DEF OrderInv
<1>9. ASSUME NEW i \in Frames', NEW j \in Frames', j < i
      PROVE  rq'[j].sequence < rq'[i].sequence
  <2>1. j \in Frames /\ rq'[j] = rq[j] /\ i \in Nat /\ j \in Nat
    BY <1>6, <1>7, <1>9 DEF Frames
  <2>2. CASE i = Len(rq) + 1 /\ rq'[i].sequence = ingress.last
    BY <1>8, <2>1, <2>2
  <2>3. CASE i \in Frames /\ rq'[i] = rq[i]
    BY <1>9, <2>1, <2>3 DEF OrderInv, FramesInOrder
  <2> QED
    BY <1>7, <2>2, <2>3, SMTT(30)
<1>10. \A i \in Frames' : rq'[i].sequence > executed'
  BY <1>1, <1>3, <1>7, <1>8, Zenon DEF OrderInv, FramesInOrder
<1>11. \E T : rq' \in Seq(T)
  BY <1>6
<1>12. \A i \in Frames' : rq'[i].sequence \in Nat /\ rq'[i].sequence <= ingress.last
  BY <1>3, <1>7 DEF OrderInv
<1> QED
  BY <1>1, <1>3, <1>9, <1>10, <1>11, <1>12, Zenon DEF OrderInv, FramesInOrder

\* What the steps that have nothing to do with packets do to the render queue.
LEMMA ElsewhereQueue ==
  ASSUME Elsewhere
  PROVE  \/ UNCHANGED <<rq, executed>>
         \/ \E c : c.op # "frame" /\ rq' = Append(rq, c) /\ executed' = executed
         \/ /\ rq # <<>> /\ rq' = Tail(rq)
            /\ IF Head(rq).op = "frame" THEN executed' = Head(rq).sequence
                                        ELSE executed' = executed
<1>1. CASE RequestFrame \/ HostStep \/ Tick \/ LossStep
  BY <1>1
  DEF RequestFrame, Tick, LossStep, SurfaceLost, Report, ContextLost, HostStep,
      SetVisibility, AttachBegin, AttachCommit, SurfaceUpdate, SurfaceUpdateFails, Detach,
      MarkResourcesReady, SendInput, Shutdown, thread
<1>2. CASE Execute
  BY <1>2 DEF Execute, ExecuteFrame, ExecuteLevel, ExecuteDestroyed, ExecuteRecreate,
              Drained
<1>3. CASE HandleUpdate \/ UpdateReplied \/ UpdateTimeout \/ HandleInput
           \/ HandleShutdown \/ DrainEvents
  BY <1>3 DEF HandleUpdate, UpdateReplied, UpdateTimeout, HandleInput, HandleShutdown,
              DrainEvents, thread
<1>4. CASE Publish
  BY <1>4 DEF Publish
<1>5. CASE HandleDestroyed
  BY <1>5 DEF HandleDestroyed, Take
<1>6. CASE HandlePause
  BY <1>6 DEF HandlePause
<1>7. CASE HandleShow
  BY <1>7 DEF HandleShow
<1> QED
  BY <1>1, <1>2, <1>3, <1>4, <1>5, <1>6, <1>7, SMTT(30) DEF Elsewhere

\* Frames are executed at most once and in order, for every window: the sequence
\* check of FrameIngress::submit, the one submission at a time and the first-in,
\* first-out render queue together leave no way for two frames to change places.
THEOREM FramesOrdered == Spec => []OrderInv
<1>1. Init => OrderInv
  <2> SUFFICES ASSUME Init PROVE OrderInv
    OBVIOUS
  <2>1. rq = <<>> /\ rq \in Seq({}) /\ Frames = {}
    BY DEF Init, Frames
  <2> QED
    BY <2>1 DEF Init, OrderInv, FramesInOrder, Idle
<1>2. CreditInv /\ OrderInv /\ [Next]_vars => OrderInv'
  <2> SUFFICES ASSUME CreditInv, OrderInv, [Next]_vars PROVE OrderInv'
    OBVIOUS
  <2>1. CASE UNCHANGED vars
    BY <2>1, OrderUntouched DEF vars, producer, thread
  <2>2. CASE Elsewhere
    <3>1. submit' = submit /\ ingress'.last = ingress.last
      BY <2>2, ElsewhereFrame
    <3> QED
      BY <2>2, <3>1, ElsewhereQueue, OrderUntouched, OtherCommandKeepsOrder,
         DrainKeepsOrder
  <2>3. ASSUME NEW p \in Packets, SubmitRefused(p) PROVE OrderInv'
    BY <2>3, OrderUntouched DEF SubmitRefused, thread
  <2>4. CASE RenderFails \/ Hold
    BY <2>4, OrderUntouched DEF RenderFails, Hold, thread, Idle
  <2>5. CASE FrameSignal
    BY <2>5, OrderUntouched DEF FrameSignal, thread
  <2> QED
    BY <2>1, <2>2, <2>3, <2>4, <2>5, Steps, AcceptKeepsOrder, DispatchKeepsOrder
<1> QED
  BY <1>1, <1>2, CreditsInvariant, PTL DEF Spec

\* The property of the runs.
THEOREM OrderHolds == Spec => []FramesInOrder
<1>1. OrderInv => FramesInOrder
  BY DEF OrderInv
<1> QED
  BY <1>1, FramesOrdered, PTL

-----------------------------------------------------------------------------
(* Packets for old surfaces *)

\* Every update on its way names a generation.
InboxInv ==
  /\ \E S : inbox \in Seq(S)
  /\ \A i \in DOMAIN inbox : inbox[i].op = "update" => inbox[i].generation \in Nat
  /\ issued \in Nat /\ live \in Nat

\* The ingress is ahead of the renderer: it has taken every generation that the
\* renderer has, or is about to have.
SurfaceInv ==
  /\ "surface" \in DOMAIN ingress /\ ingress.surface \in Nat
  /\ \E S : rq \in Seq(S)
  /\ \A i \in DOMAIN rq : rq[i].op = "recreate" =>
       rq[i].generation \in Nat /\ rq[i].generation <= ingress.surface
  /\ "newest" \in DOMAIN render /\ render.newest \in Nat
  /\ render.newest > 1 => render.newest <= ingress.surface

\* A command joins the inbox.
LEMMA InboxAppend ==
  ASSUME InboxInv, NEW c, c.op = "update" => c.generation \in Nat,
         inbox' = Append(inbox, c), issued' \in Nat, live' \in Nat
  PROVE  InboxInv'
<1>1. PICK S : inbox \in Seq(S)
  BY DEF InboxInv
<1>2. inbox \in Seq(S \cup {c})
  BY <1>1
<1>3. /\ inbox' \in Seq(S \cup {c}) /\ Len(inbox) \in Nat
      /\ inbox'[Len(inbox) + 1] = c
      /\ \A i \in 1..Len(inbox) : inbox'[i] = inbox[i]
      /\ DOMAIN inbox = 1..Len(inbox) /\ DOMAIN inbox' = 1..(Len(inbox) + 1)
  BY <1>2
<1>4. \A i \in DOMAIN inbox' : i \in DOMAIN inbox \/ i = Len(inbox) + 1
  BY <1>3
<1>5. \A i \in DOMAIN inbox' : inbox'[i].op = "update" => inbox'[i].generation \in Nat
  BY <1>3, <1>4 DEF InboxInv
<1>6. \E T : inbox' \in Seq(T)
  BY <1>3
<1> QED
  BY <1>5, <1>6 DEF InboxInv

\* The session thread takes a command.
LEMMA InboxTake ==
  ASSUME InboxInv, inbox # <<>>, inbox' = Tail(inbox), issued' \in Nat, live' \in Nat
  PROVE  InboxInv'
<1>1. PICK S : inbox \in Seq(S)
  BY DEF InboxInv
<1>2. /\ inbox' \in Seq(S) /\ Len(inbox) \in Nat \ {0}
      /\ DOMAIN inbox = 1..Len(inbox) /\ DOMAIN inbox' = 1..(Len(inbox) - 1)
      /\ \A i \in 1..(Len(inbox) - 1) : inbox'[i] = inbox[i + 1]
  BY <1>1
<1>3. \A i \in DOMAIN inbox' : inbox'[i].op = "update" => inbox'[i].generation \in Nat
  BY <1>2 DEF InboxInv
<1>4. \E T : inbox' \in Seq(T)
  BY <1>2
<1> QED
  BY <1>3, <1>4 DEF InboxInv

\* What a step does to the inbox.
LEMMA InboxSteps ==
  ASSUME InboxInv, Next
  PROVE  /\ issued' \in Nat /\ live' \in Nat
         /\ \/ UNCHANGED inbox
            \/ inbox # <<>> /\ inbox' = Tail(inbox)
            \/ \E c : /\ c.op = "update" => c.generation \in Nat
                      /\ inbox' = Append(inbox, c)
<1> DEFINE Step == /\ issued' \in Nat /\ live' \in Nat
                   /\ \/ UNCHANGED inbox
                      \/ inbox # <<>> /\ inbox' = Tail(inbox)
                      \/ \E c : /\ c.op = "update" => c.generation \in Nat
                                /\ inbox' = Append(inbox, c)
<1>0. issued \in Nat /\ live \in Nat /\ issued + 1 \in Nat
  BY DEF InboxInv
<1>1. CASE ProducerStep \/ RenderFails \/ Dispatch \/ Hold
  BY <1>0, <1>1 DEF ProducerStep, SubmitAccepted, SubmitRefused, RequestFrame, RenderFails,
                    Dispatch, Hold, loop, host
<1>2. CASE HostStep
  <2>1. ASSUME NEW v, SetVisibility(v) PROVE Step
    BY <1>0, <2>1 DEF SetVisibility, Reliable, VisibilityCommand
  <2>2. CASE AttachBegin
    BY <1>0, <2>2 DEF AttachBegin, Reliable
  <2>3. CASE AttachCommit
    BY <1>0, <2>3 DEF AttachCommit, Reliable, VisibilityCommand
  <2>4. CASE SurfaceUpdate
    BY <1>0, <2>4 DEF SurfaceUpdate, Reliable
  <2>5. CASE Detach
    BY <1>0, <2>5 DEF Detach, Reliable
  <2>6. CASE SurfaceUpdateFails
    BY <1>0, <2>6 DEF SurfaceUpdateFails, loop
  <2>7. CASE MarkResourcesReady
    BY <1>0, <2>7 DEF MarkResourcesReady, loop
  <2>8. CASE SendInput
    BY <1>0, <2>8 DEF SendInput, TrySend
  <2>9. CASE Shutdown
    BY <1>0, <2>9 DEF Shutdown, TrySend
  <2> QED
    BY <1>2, <2>1, <2>2, <2>3, <2>4, <2>5, <2>6, <2>7, <2>8, <2>9 DEF HostStep
<1>3. CASE SessionStep
  <2>1. CASE HandleUpdate \/ HandleDestroyed \/ HandlePause \/ HandleShow
             \/ HandleInput \/ HandleShutdown
    <3>1. UNCHANGED host
      BY <2>1 DEF HandleUpdate, HandleDestroyed, HandlePause, HandleShow, HandleInput,
                  HandleShutdown
    <3>2. inbox # <<>> /\ inbox' = Tail(inbox)
      BY <2>1 DEF HandleUpdate, HandleDestroyed, HandlePause, HandleShow, HandleInput,
                  HandleShutdown, Take
    <3> QED
      BY <1>0, <3>1, <3>2, SMTT(30) DEF host
  <2>2. CASE Publish \/ UpdateReplied \/ UpdateTimeout \/ DrainEvents \/ FrameSignal
    <3>1. UNCHANGED <<host, inbox>>
      BY <2>2 DEF Publish, UpdateReplied, UpdateTimeout, DrainEvents, FrameSignal, loop
    <3> QED
      BY <1>0, <3>1 DEF host
  <2> QED
    BY <1>3, <2>1, <2>2 DEF SessionStep
<1>4. CASE Tick \/ Execute
  BY <1>0, <1>4
  DEF Tick, Execute, ExecuteFrame, ExecuteLevel, ExecuteDestroyed, ExecuteRecreate, loop,
      host
<1>5. CASE LossStep
  BY <1>0, <1>5 DEF LossStep, SurfaceLost, Report, ContextLost, Reliable, loop, host
<1> QED
  BY <1>1, <1>2, <1>3, <1>4, <1>5 DEF Next

\* The commands the session thread handles are well formed.
LEMMA InboxTyped == Spec => []InboxInv
<1>1. Init => InboxInv
  <2> SUFFICES ASSUME Init PROVE InboxInv
    OBVIOUS
  <2>1. inbox = <<>> /\ inbox \in Seq({}) /\ DOMAIN inbox = {}
    BY DEF Init
  <2>2. \E S : inbox \in Seq(S)
    BY <2>1
  <2>3. issued \in Nat /\ live \in Nat
    BY DEF Init
  <2> QED
    BY <2>1, <2>2, <2>3 DEF InboxInv
<1>2. InboxInv /\ [Next]_vars => InboxInv'
  <2> SUFFICES ASSUME InboxInv, [Next]_vars PROVE InboxInv'
    OBVIOUS
  <2>1. CASE UNCHANGED vars
    BY <2>1 DEF InboxInv, vars, loop, host
  <2>2. CASE Next
    <3>1. CASE UNCHANGED inbox
      BY <2>2, <3>1, InboxSteps DEF InboxInv
    <3> QED
      BY <2>2, <3>1, InboxSteps, InboxAppend, InboxTake
  <2> QED
    BY <2>1, <2>2, SMTT(30)
<1> QED
  BY <1>1, <1>2, PTL DEF Spec

\* The render queue and the renderer are left alone, the ingress does not go back.
LEMMA SurfaceForward ==
  ASSUME SurfaceInv, UNCHANGED <<rq, render>>,
         "surface" \in DOMAIN ingress', ingress'.surface \in Nat,
         ingress.surface <= ingress'.surface
  PROVE  SurfaceInv'
BY DEF SurfaceInv

\* A command joins the render queue.
LEMMA SurfaceAppend ==
  ASSUME SurfaceInv, UNCHANGED <<ingress, render>>, NEW c, rq' = Append(rq, c),
         c.op = "recreate" => c.generation \in Nat /\ c.generation <= ingress.surface
  PROVE  SurfaceInv'
<1>1. PICK S : rq \in Seq(S)
  BY DEF SurfaceInv
<1>2. rq \in Seq(S \cup {c})
  BY <1>1
<1>3. /\ rq' \in Seq(S \cup {c}) /\ Len(rq) \in Nat
      /\ rq'[Len(rq) + 1] = c
      /\ \A i \in 1..Len(rq) : rq'[i] = rq[i]
      /\ DOMAIN rq = 1..Len(rq) /\ DOMAIN rq' = 1..(Len(rq) + 1)
  BY <1>2
<1>4. \A i \in DOMAIN rq' : i \in DOMAIN rq \/ i = Len(rq) + 1
  BY <1>3
<1>5. \A i \in DOMAIN rq' : rq'[i].op = "recreate" =>
        rq'[i].generation \in Nat /\ rq'[i].generation <= ingress.surface
  BY <1>3, <1>4 DEF SurfaceInv
<1>6. \E T : rq' \in Seq(T)
  BY <1>3
<1> QED
  BY <1>5, <1>6 DEF SurfaceInv

\* The render thread takes a command; only a recreate binds a newer generation.
LEMMA SurfaceDrain ==
  ASSUME SurfaceInv, UNCHANGED ingress, rq # <<>>, rq' = Tail(rq),
         "newest" \in DOMAIN render',
         \/ render'.newest = render.newest
         \/ Head(rq).op = "recreate" /\ render'.newest = Head(rq).generation
  PROVE  SurfaceInv'
<1>1. PICK S : rq \in Seq(S)
  BY DEF SurfaceInv
<1>2. /\ rq' \in Seq(S) /\ Len(rq) \in Nat \ {0}
      /\ DOMAIN rq = 1..Len(rq) /\ DOMAIN rq' = 1..(Len(rq) - 1)
      /\ \A i \in 1..(Len(rq) - 1) : rq'[i] = rq[i + 1]
      /\ Head(rq) = rq[1] /\ 1 \in DOMAIN rq
  BY <1>1
<1>3. \A i \in DOMAIN rq' : rq'[i].op = "recreate" =>
        rq'[i].generation \in Nat /\ rq'[i].generation <= ingress.surface
  BY <1>2 DEF SurfaceInv
<1>4. \E T : rq' \in Seq(T)
  BY <1>2
<1>5. render'.newest \in Nat /\ (render'.newest > 1 => render'.newest <= ingress.surface)
  BY <1>2 DEF SurfaceInv
<1> QED
  BY <1>3, <1>4, <1>5 DEF SurfaceInv

\* Every step keeps the ingress ahead of the renderer.
LEMMA StepKeepsSurface ==
  ASSUME InboxInv, SurfaceInv, Next
  PROVE  SurfaceInv'
<1>1. ASSUME NEW p \in Packets, SubmitAccepted(p) PROVE SurfaceInv'
  BY <1>1, SurfaceForward, SMTT(30) DEF SubmitAccepted, SurfaceInv, thread
<1>2. ASSUME NEW p \in Packets, SubmitRefused(p) PROVE SurfaceInv'
  BY <1>2, SurfaceForward, SMTT(30) DEF SubmitRefused, SurfaceInv, thread
<1>3. CASE RequestFrame \/ RenderFails \/ Hold \/ Tick \/ LossStep
  BY <1>3, SurfaceForward
  DEF RequestFrame, RenderFails, Hold, Tick, LossStep, SurfaceLost, Report, ContextLost,
      SurfaceInv, thread
<1>4. CASE Dispatch
  BY <1>4, SurfaceAppend DEF Dispatch
<1>5. CASE HostStep
  <2>1. CASE MarkResourcesReady
    BY <2>1, SurfaceForward, SMTT(30) DEF MarkResourcesReady, SurfaceInv, thread
  <2>2. CASE ~MarkResourcesReady
    <3>1. UNCHANGED <<ingress, rq, render>>
      BY <1>5, <2>2 DEF HostStep, SetVisibility, AttachBegin, AttachCommit, SurfaceUpdate,
                        SurfaceUpdateFails, Detach, SendInput, Shutdown, thread
    <3> QED
      BY <3>1, SurfaceForward, SMTT(30) DEF SurfaceInv
  <2> QED
    BY <2>1, <2>2
<1>6. CASE HandleUpdate
  <2>1. inbox # <<>> /\ Head(inbox).op = "update" /\ UNCHANGED <<rq, render>>
    BY <1>6 DEF HandleUpdate, Take, thread
  <2>2. Head(inbox).generation \in Nat
    <3>1. PICK S : inbox \in Seq(S)
      BY DEF InboxInv
    <3>2. 1 \in DOMAIN inbox /\ Head(inbox) = inbox[1]
      BY <2>1, <3>1
    <3> QED
      BY <2>1, <3>2 DEF InboxInv
  <2>3. /\ "surface" \in DOMAIN ingress'
        /\ ingress'.surface = IF Head(inbox).generation < ingress.surface
                              THEN ingress.surface ELSE Head(inbox).generation
    BY <1>6 DEF HandleUpdate, SetSurfaceGeneration, SurfaceInv
  <2>4. ingress.surface \in Nat
    BY DEF SurfaceInv
  <2>5. ingress'.surface \in Nat /\ ingress.surface <= ingress'.surface
    BY <2>2, <2>3, <2>4
  <2> QED
    BY <2>1, <2>3, <2>5, SurfaceForward
<1>7. CASE Publish
  <2>1. CASE UNCHANGED rq
    BY <1>7, <2>1, SurfaceForward, Zenon DEF Publish, SurfaceInv
  <2>2. CASE rq' = Append(rq, [op |-> "recreate", generation |-> Candidate])
    <3>1. UNCHANGED <<ingress, render>>
      BY <1>7, Zenon DEF Publish
    <3>2. ingress.surface \in Nat
      BY ZenonT(60) DEF SurfaceInv
    <3> QED
      BY <2>2, <3>1, <3>2, SurfaceAppend, SMTT(30) DEF Candidate
  <2> QED
    BY <1>7, <2>1, <2>2, SMTT(30) DEF Publish
<1>8. CASE UpdateReplied \/ UpdateTimeout \/ HandleInput \/ HandleShutdown \/ FrameSignal
  BY <1>8, SurfaceForward, Zenon
  DEF UpdateReplied, UpdateTimeout, HandleInput, HandleShutdown, FrameSignal, SurfaceInv,
      thread
<1>9. CASE DrainEvents
  BY <1>9, SurfaceForward DEF DrainEvents, SurfaceInv, thread
<1>10. CASE HandleDestroyed \/ HandlePause \/ HandleShow
  <2>1. UNCHANGED <<ingress, render>>
    BY <1>10 DEF HandleDestroyed, HandlePause, HandleShow
  <2>2. UNCHANGED rq \/ \E c : c.op # "recreate" /\ rq' = Append(rq, c)
    <3>1. CASE HandleDestroyed
      BY <3>1 DEF HandleDestroyed, Take
    <3>2. CASE HandlePause
      BY <3>2 DEF HandlePause
    <3>3. CASE HandleShow
      BY <3>3, SMTT(30) DEF HandleShow
    <3> QED
      BY <1>10, <3>1, <3>2, <3>3
  <2>3. CASE UNCHANGED rq
    BY <2>1, <2>3, SurfaceForward DEF SurfaceInv
  <2> QED
    BY <2>1, <2>2, <2>3, SurfaceAppend
<1>11. CASE ExecuteFrame \/ ExecuteLevel \/ ExecuteDestroyed
  BY <1>11, SurfaceDrain
  DEF ExecuteFrame, ExecuteLevel, ExecuteDestroyed, Drained, SurfaceInv
<1>12. CASE ExecuteRecreate
  <2>1. /\ UNCHANGED ingress /\ rq # <<>> /\ rq' = Tail(rq)
        /\ Head(rq).op = "recreate"
    BY <1>12 DEF ExecuteRecreate, Drained
  <2>2. \/ UNCHANGED render
        \/ render' = [render EXCEPT !.bound = Head(rq).generation,
                                    !.newest = Head(rq).generation]
    BY <1>12, SMTT(30) DEF ExecuteRecreate
  <2> QED
    BY <2>1, <2>2, SurfaceDrain, Zenon DEF SurfaceInv
<1> QED
  BY <1>1, <1>2, <1>3, <1>4, <1>5, <1>6, <1>7, <1>8, <1>9, <1>10, <1>11, <1>12, SMTT(30)
  DEF Next, ProducerStep, SessionStep, Execute

\* The ingress stays ahead of the renderer: UpdateSurface moves the ingress before
\* it tells the renderer, and the ingress never goes back.
THEOREM IngressAhead == Spec => []SurfaceInv
<1>1. Init => SurfaceInv
  <2> SUFFICES ASSUME Init PROVE SurfaceInv
    OBVIOUS
  <2>1. rq = <<>> /\ rq \in Seq({}) /\ DOMAIN rq = {}
    BY DEF Init
  <2>2. \E S : rq \in Seq(S)
    BY <2>1
  <2> QED
    BY <2>1, <2>2 DEF Init, SurfaceInv
<1>2. InboxInv /\ SurfaceInv /\ [Next]_vars => SurfaceInv'
  <2>1. SurfaceInv /\ UNCHANGED vars => SurfaceInv'
    BY DEF SurfaceInv, vars, thread
  <2> QED
    BY <2>1, StepKeepsSurface, SMTT(30)
<1> QED
  BY <1>1, <1>2, InboxTyped, PTL DEF Spec

\* No packet for an older surface is accepted once the renderer has a newer one,
\* for every number of surfaces: the property of the runs.
THEOREM NoOldSurface == Spec => NoFrameForAnOldSurface
<1>1. SurfaceInv /\ [Next]_vars =>
        [submit = Idle /\ submit' # Idle /\ render.newest > 1
           => submit'.surface >= render.newest]_vars
  <2> SUFFICES ASSUME SurfaceInv, Next, submit = Idle, submit' # Idle, render.newest > 1
               PROVE  submit'.surface >= render.newest
    OBVIOUS
  <2>1. PICK p \in Packets : SubmitAccepted(p)
    <3>1. ASSUME Elsewhere PROVE FALSE
      BY <3>1, ElsewherePackets DEF producer
    <3>2. ASSUME NEW p \in Packets, SubmitRefused(p) PROVE FALSE
      BY <3>2 DEF SubmitRefused
    <3>3. ASSUME RenderFails \/ Dispatch \/ Hold \/ FrameSignal PROVE FALSE
      BY <3>3 DEF RenderFails, Dispatch, Hold, FrameSignal, Idle
    <3> QED
      BY <3>1, <3>2, <3>3, Steps
  <2>2. Legal(p) /\ submit'.surface = p.surface
    BY <2>1 DEF SubmitAccepted
  <2>3. ingress.surface # 0 /\ render.newest <= ingress.surface
        /\ ingress.surface \in Nat /\ render.newest \in Nat
    BY DEF SurfaceInv
  <2>4. p.surface = ingress.surface
    BY <2>2, <2>3 DEF Legal
  <2> QED
    BY <2>2, <2>3, <2>4
<1> QED
  BY <1>1, IngressAhead, PTL DEF Spec, NoFrameForAnOldSurface

-----------------------------------------------------------------------------
(* The backlog of the render thread *)

OnHold == IF submit.at = "hold" THEN 1 ELSE 0
Signalled == IF raf THEN 1 ELSE 0
Allowance == IF owes THEN 2 ELSE 1

\* Every frame in the queue still has its credit but for those that a signal let
\* go: a frame that owes its drain has signalled once, and the signal before it may
\* still be waiting for the session thread.
BacklogInv ==
  /\ IsFiniteSet(Frames)
  /\ Cardinality(Frames) + Signalled <= Len(held) + OnHold + Allowance

\* What is counted are numbers.
LEMMA Counts ==
  ASSUME CreditInv
  PROVE  /\ Len(held) \in Nat /\ OnHold \in {0, 1} /\ Signalled \in {0, 1}
         /\ Allowance \in {1, 2}
<1>1. Len(held) \in Nat
  BY DEF CreditInv
<1> QED
  BY <1>1, Zenon DEF OnHold, Signalled, Allowance

NoFrameJoins ==
  \/ rq' = rq
  \/ \E c : c.op # "frame" /\ rq' = Append(rq, c)
  \/ rq # <<>> /\ rq' = Tail(rq)

\* Then there are no more frames than before.
LEMMA FramesStay ==
  ASSUME OrderInv, BacklogInv, NoFrameJoins
  PROVE  /\ IsFiniteSet(Frames') /\ Cardinality(Frames') <= Cardinality(Frames)
         /\ Cardinality(Frames) \in Nat /\ Cardinality(Frames') \in Nat
<1>1. IsFiniteSet(Frames) /\ Cardinality(Frames) \in Nat
  BY FS_CardinalityType, Zenon DEF BacklogInv
<1>2. PICK S : rq \in Seq(S)
  BY DEF OrderInv
<1>3. CASE rq' = rq
  BY <1>1, <1>3 DEF Frames
<1>4. ASSUME NEW c, c.op # "frame", rq' = Append(rq, c)
      PROVE  Frames' = Frames
  <2>1. rq \in Seq(S \cup {c})
    BY <1>2
  <2>2. /\ rq'[Len(rq) + 1] = c /\ Len(rq) \in Nat
        /\ \A i \in 1..Len(rq) : rq'[i] = rq[i]
        /\ DOMAIN rq = 1..Len(rq) /\ DOMAIN rq' = (1..Len(rq)) \cup {Len(rq) + 1}
    BY <1>4, <2>1
  <2>3. \A i \in DOMAIN rq' : i \in Frames' <=> i \in Frames
    <3>1. Len(rq) + 1 \notin 1..Len(rq)
      BY <2>2
    <3>2. rq'[Len(rq) + 1].op # "frame"
      BY <1>4, <2>2, Zenon
    <3> QED
      BY <2>2, <3>1, <3>2, Zenon DEF Frames
  <2>4. Frames' \subseteq DOMAIN rq' /\ Frames \subseteq DOMAIN rq'
    BY <2>2, Zenon DEF Frames
  <2> QED
    BY <2>3, <2>4, Zenon
<1>5. CASE rq # <<>> /\ rq' = Tail(rq)
  <2>1. /\ Len(rq) \in Nat \ {0} /\ Len(rq') = Len(rq) - 1
        /\ \A i \in 1..Len(rq') : rq'[i] = rq[i + 1]
        /\ DOMAIN rq = 1..Len(rq) /\ DOMAIN rq' = 1..Len(rq')
    BY <1>2, <1>5
  <2>2. \A i \in Frames' : i + 1 \in Frames /\ i \in Nat
    BY <2>1 DEF Frames
  <2> DEFINE f == [i \in Frames' |-> i + 1]
  <2>3. ASSUME NEW i \in Frames', NEW j \in Frames', f[i] = f[j] PROVE i = j
    <3>1. i + 1 = j + 1
      BY <2>3, Zenon
    <3>2. i \in Nat /\ j \in Nat
      BY <2>2, Zenon
    <3> QED
      BY <3>1, <3>2
  <2>4. f \in [Frames' -> Frames]
    BY <2>2, Zenon
  <2> HIDE DEF f
  <2>5. f \in Injection(Frames', Frames)
    BY <2>3, <2>4, Zenon DEF Injection, IsInjective
  <2>6. IsFiniteSet(Frames') /\ Cardinality(Frames') <= Cardinality(Frames)
    BY <1>1, <2>5, FS_Injection, Zenon
  <2>7. Cardinality(Frames') \in Nat
    BY <2>6, FS_CardinalityType, Zenon
  <2> QED
    BY <1>1, <2>6, <2>7
<1> QED
  BY <1>1, <1>3, <1>4, <1>5 DEF NoFrameJoins

\* render dispatches the frame of the packet.
LEMMA DispatchKeepsBacklog ==
  ASSUME CreditInv, OrderInv, BacklogInv, Dispatch
  PROVE  BacklogInv'
<1> DEFINE f == [op |-> "frame", sequence |-> submit.sequence]
<1>1. /\ rq' = Append(rq, f) /\ UNCHANGED <<held, raf, owes>>
      /\ submit.at = "decode" /\ submit' = [submit EXCEPT !.at = "hold"]
  BY DEF Dispatch, clock
<1>2. submit'.at = "hold"
  <2>1. submit # Idle
    BY <1>1 DEF Idle
  <2> QED
    BY <1>1, <2>1 DEF CreditInv, SubmitsNewest
<1>3. OnHold = 0 /\ OnHold' = 1
  BY <1>1, <1>2 DEF OnHold
<1>4. Signalled' = Signalled /\ Allowance' = Allowance /\ Len(held') = Len(held)
  BY <1>1, Zenon DEF Signalled, Allowance
<1>5. PICK S : rq \in Seq(S)
  BY DEF OrderInv
<1>6. rq \in Seq(S \cup {f})
  BY <1>5
<1>7. /\ \A i \in 1..Len(rq) : rq'[i] = rq[i]
      /\ DOMAIN rq = 1..Len(rq) /\ DOMAIN rq' = (1..Len(rq)) \cup {Len(rq) + 1}
  BY <1>1, <1>6
<1>8. Frames' \subseteq Frames \cup {Len(rq) + 1}
  BY <1>7, Zenon DEF Frames
<1> DEFINE A == Frames \cup {Len(rq) + 1}
<1>9. /\ IsFiniteSet(A) /\ Cardinality(A) <= Cardinality(Frames) + 1
      /\ Cardinality(Frames) \in Nat
  <2>1. IsFiniteSet(Frames) /\ Cardinality(Frames) \in Nat
    BY FS_CardinalityType, Zenon DEF BacklogInv
  <2> DEFINE k == Len(rq) + 1
  <2>2. /\ IsFiniteSet(Frames \cup {k})
        /\ Cardinality(Frames \cup {k}) =
             IF k \in Frames THEN Cardinality(Frames) ELSE Cardinality(Frames) + 1
    <3> HIDE DEF k
    <3> QED
      BY <2>1, FS_AddElement
  <2>3. Cardinality(Frames) <= Cardinality(Frames) + 1
    BY <2>1
  <2>4. Cardinality(Frames) + 1 <= Cardinality(Frames) + 1
    BY <2>1
  <2> QED
    BY <2>1, <2>2, <2>3, <2>4, Zenon
<1>10. IsFiniteSet(Frames') /\ Cardinality(Frames') <= Cardinality(A)
  BY <1>8, <1>9, FS_Subset, Zenon
<1>11. Cardinality(Frames') \in Nat /\ Cardinality(A) \in Nat
  BY <1>9, <1>10, FS_CardinalityType, Zenon
<1>12. Cardinality(Frames) + Signalled <= Len(held) + OnHold + Allowance
  BY Zenon DEF BacklogInv
<1> HIDE DEF A
<1>13. Cardinality(Frames') + Signalled' <= Len(held') + OnHold' + Allowance'
  BY <1>3, <1>4, <1>9, <1>10, <1>11, <1>12, Counts
<1> QED
  BY <1>10, <1>13, Zenon DEF BacklogInv

\* Signals and credits change so that the bound moves no less than what it bounds.
LEMMA BacklogKept ==
  ASSUME CreditInv, CreditInv', OrderInv, BacklogInv, NoFrameJoins,
         Signalled' + (Len(held) + OnHold + Allowance)
           <= Signalled + (Len(held') + OnHold' + Allowance')
  PROVE  BacklogInv'
<1>1. /\ IsFiniteSet(Frames') /\ Cardinality(Frames') <= Cardinality(Frames)
      /\ Cardinality(Frames) \in Nat /\ Cardinality(Frames') \in Nat
  BY FramesStay
<1>2. Cardinality(Frames) + Signalled <= Len(held) + OnHold + Allowance
  BY Zenon DEF BacklogInv
<1>3. Len(held) \in Nat /\ Len(held') \in Nat
  BY DEF CreditInv
<1>4. /\ OnHold \in {0, 1} /\ OnHold' \in {0, 1}
      /\ Signalled \in {0, 1} /\ Signalled' \in {0, 1}
      /\ Allowance \in {1, 2} /\ Allowance' \in {1, 2}
  BY Zenon DEF OnHold, Signalled, Allowance
<1>5. Cardinality(Frames') + Signalled' <= Len(held') + OnHold' + Allowance'
  BY <1>1, <1>2, <1>3, <1>4, SMTT(30)
<1> QED
  BY <1>1, <1>5, Zenon DEF BacklogInv

\* The queue is empty.
LEMMA NoBacklog ==
  ASSUME CreditInv', Frames' = {}
  PROVE  BacklogInv'
<1>1. IsFiniteSet(Frames') /\ Cardinality(Frames') = 0
  BY FS_EmptySet
<1>2. Len(held') \in Nat
  BY DEF CreditInv
<1>3. OnHold' \in {0, 1} /\ Signalled' \in {0, 1} /\ Allowance' \in {1, 2}
  BY Zenon DEF OnHold, Signalled, Allowance
<1> QED
  BY <1>1, <1>2, <1>3 DEF BacklogInv

\* The steps of a packet but its dispatch, and the frame signal.
LEMMA PacketKeepsBacklog ==
  ASSUME CreditInv, CreditInv', OrderInv, BacklogInv,
         \/ \E p \in Packets : SubmitAccepted(p) \/ SubmitRefused(p)
         \/ RenderFails \/ Hold \/ FrameSignal
  PROVE  BacklogInv'
<1>1. /\ rq' = rq /\ owes' = owes
  BY DEF SubmitAccepted, SubmitRefused, RenderFails, Hold, FrameSignal, thread
<1>2. NoFrameJoins /\ Allowance' = Allowance
  BY <1>1, Zenon DEF NoFrameJoins, Allowance
<1>3. /\ Len(held) \in Nat /\ OnHold \in {0, 1} /\ Signalled \in {0, 1}
      /\ Allowance \in {1, 2}
  BY Counts
<1>4. ASSUME NEW p \in Packets, SubmitAccepted(p) PROVE BacklogInv'
  <2>1. Len(held') = Len(held) /\ raf' = raf /\ submit = Idle /\ submit'.at = "decode"
    BY <1>4 DEF SubmitAccepted, clock
  <2>2. OnHold = 0 /\ OnHold' = 0 /\ Signalled' = Signalled
    BY <2>1 DEF OnHold, Signalled, Idle
  <2> QED
    BY <1>2, <1>3, <2>1, <2>2, BacklogKept
<1>5. ASSUME NEW p \in Packets, SubmitRefused(p) PROVE BacklogInv'
  <2>1. Len(held') = Len(held) /\ raf' = raf /\ submit' = submit
    BY <1>5 DEF SubmitRefused, clock
  <2>2. OnHold' = OnHold /\ Signalled' = Signalled
    BY <2>1, Zenon DEF OnHold, Signalled
  <2> QED
    BY <1>2, <1>3, <2>1, <2>2, BacklogKept
<1>6. CASE RenderFails
  <2>1. Len(held') = Len(held) /\ raf' = raf /\ submit.at = "decode" /\ submit' = Idle
    BY <1>6 DEF RenderFails, clock
  <2>2. OnHold = 0 /\ OnHold' = 0 /\ Signalled' = Signalled
    BY <2>1 DEF OnHold, Signalled, Idle
  <2> QED
    BY <1>2, <1>3, <2>1, <2>2, BacklogKept
<1>7. CASE Hold
  <2>1. /\ held' = Append(held, submit.sequence) /\ raf' = raf
        /\ submit.at = "hold" /\ submit' = Idle
    BY <1>7 DEF Hold, clock
  <2>2. OnHold = 1 /\ OnHold' = 0 /\ Signalled' = Signalled
    BY <2>1 DEF OnHold, Signalled, Idle
  <2>3. Len(held') = Len(held) + 1
    BY <2>1 DEF CreditInv
  <2> QED
    BY <1>2, <1>3, <2>2, <2>3, BacklogKept
<1>8. CASE FrameSignal
  <2>1. /\ raf /\ ~raf' /\ submit' = submit
        /\ held' = held \/ (held # <<>> /\ held' = Tail(held))
    BY <1>8 DEF FrameSignal
  <2>2. OnHold' = OnHold /\ Signalled = 1 /\ Signalled' = 0
    BY <2>1, Zenon DEF OnHold, Signalled
  <2>3. Len(held') \in Nat /\ Len(held) <= Len(held') + 1
    BY <2>1 DEF CreditInv
  <2> QED
    BY <1>2, <1>3, <2>2, <2>3, BacklogKept, SMTT(30)
<1> QED
  BY <1>4, <1>5, <1>6, <1>7, <1>8

\* A frame of the render thread signals once, and owes its drain from then on.
LEMMA TickKeepsBacklog ==
  ASSUME CreditInv, CreditInv', OrderInv, BacklogInv, Tick
  PROVE  BacklogInv'
<1>1. /\ ~owes /\ owes' = (rq # <<>>) /\ rq' = rq /\ held' = held /\ submit' = submit
  BY DEF Tick, producer
<1>2. CASE rq = <<>>
  <2>1. Frames' = {}
    BY <1>1, <1>2 DEF Frames
  <2> QED
    BY <2>1, NoBacklog
<1>3. CASE rq # <<>>
  <2>1. NoFrameJoins /\ Len(held') = Len(held) /\ OnHold' = OnHold
    BY <1>1, Zenon DEF NoFrameJoins, OnHold
  <2>2. owes'
    BY <1>1, <1>3, Zenon
  <2>3. Allowance = 1 /\ Allowance' = 2 /\ Signalled \in {0, 1} /\ Signalled' \in {0, 1}
    BY <1>1, <2>2, Zenon DEF Allowance, Signalled
  <2>4. Len(held) \in Nat /\ OnHold \in {0, 1}
    BY Counts
  <2> QED
    BY <2>1, <2>3, <2>4, BacklogKept
<1> QED
  BY <1>2, <1>3

\* The drain takes a frame, and is over only once the queue is empty.
LEMMA DrainKeepsBacklog ==
  ASSUME CreditInv, CreditInv', OrderInv, BacklogInv, Execute
  PROVE  BacklogInv'
<1>1. /\ UNCHANGED producer /\ UNCHANGED clock
      /\ rq # <<>> /\ rq' = Tail(rq) /\ owes' = (owes /\ rq' # <<>>)
  BY DEF Execute, ExecuteFrame, ExecuteLevel, ExecuteDestroyed, ExecuteRecreate, Drained
<1>2. /\ NoFrameJoins /\ Len(held') = Len(held) /\ OnHold' = OnHold
      /\ Signalled' = Signalled
  BY <1>1, Zenon DEF NoFrameJoins, OnHold, Signalled, producer, clock
<1>3. CASE rq' = <<>>
  <2>1. Frames' = {}
    BY <1>3 DEF Frames
  <2> QED
    BY <2>1, NoBacklog
<1>4. CASE rq' # <<>>
  <2>1. owes' <=> owes
    BY <1>1, <1>4, Zenon
  <2>2. Allowance' = Allowance
    BY <2>1, Zenon DEF Allowance
  <2> QED
    BY <1>2, <2>2, Counts, BacklogKept
<1> QED
  BY <1>3, <1>4

\* The other steps of the session thread and the host neither signal nor drain.
LEMMA OthersKeepBacklog ==
  ASSUME CreditInv, CreditInv', OrderInv, BacklogInv,
         (Elsewhere /\ ~Tick /\ ~Execute) \/ UNCHANGED vars
  PROVE  BacklogInv'
<1>1. NoFrameJoins
  <2>1. CASE Elsewhere
    BY <2>1, ElsewhereQueue DEF NoFrameJoins
  <2> QED
    BY <2>1 DEF NoFrameJoins, vars, thread
<1>2. UNCHANGED <<held, submit>>
  BY ElsewherePackets DEF producer, vars
<1>3. UNCHANGED <<raf, owes>>
  <2>1. CASE RequestFrame \/ HostStep \/ LossStep
    <3>1. CASE RequestFrame \/ LossStep
      BY <3>1, ZenonT(60)
      DEF RequestFrame, LossStep, SurfaceLost, Report, ContextLost, thread, clock
    <3>2. CASE HostStep
      BY <3>2, ZenonT(60)
      DEF HostStep, SetVisibility, AttachBegin, AttachCommit, SurfaceUpdate,
          SurfaceUpdateFails, Detach, MarkResourcesReady, SendInput, Shutdown, thread, clock
    <3> QED
      BY <2>1, <3>1, <3>2, Zenon
  <2>2. CASE HandleUpdate \/ Publish \/ UpdateReplied \/ UpdateTimeout
             \/ HandleDestroyed \/ HandlePause \/ HandleShow \/ HandleInput
             \/ HandleShutdown \/ DrainEvents
    BY <2>2 DEF HandleUpdate, Publish, UpdateReplied, UpdateTimeout, HandleDestroyed,
                HandlePause, HandleShow, HandleInput, HandleShutdown, DrainEvents,
                thread, clock
  <2>3. CASE UNCHANGED vars
    BY <2>3 DEF vars, thread, clock
  <2> QED
    BY <2>1, <2>2, <2>3, SMTT(30) DEF Elsewhere
<1>4. /\ Len(held') = Len(held) /\ OnHold' = OnHold
      /\ Signalled' = Signalled /\ Allowance' = Allowance
  BY <1>2, <1>3, Zenon DEF OnHold, Signalled, Allowance
<1> QED
  BY <1>1, <1>4, Counts, BacklogKept

\* The inductive invariant of the backlog.
THEOREM BacklogInvariant == Spec => []BacklogInv
<1>1. Init => BacklogInv
  <2> SUFFICES ASSUME Init PROVE BacklogInv
    OBVIOUS
  <2>1. Frames = {} /\ Len(held) = 0
    BY DEF Init, Frames
  <2>2. IsFiniteSet(Frames) /\ Cardinality(Frames) = 0
    BY <2>1, FS_EmptySet
  <2>3. OnHold = 0 /\ Signalled = 0 /\ Allowance = 1
    BY DEF Init, Idle, OnHold, Signalled, Allowance
  <2> QED
    BY <2>1, <2>2, <2>3 DEF BacklogInv
<1>2. CreditInv /\ CreditInv' /\ OrderInv /\ BacklogInv /\ [Next]_vars => BacklogInv'
  <2> SUFFICES ASSUME CreditInv, CreditInv', OrderInv, BacklogInv, [Next]_vars
               PROVE  BacklogInv'
    OBVIOUS
  <2> QED
    BY Steps, PacketKeepsBacklog, DispatchKeepsBacklog, TickKeepsBacklog,
       DrainKeepsBacklog, OthersKeepBacklog, Zenon
<1> QED
  BY <1>1, <1>2, CreditsInvariant, FramesOrdered, PTL DEF Spec

\* At most two frames more than the window wait in the render queue, for every
\* window: the credit that comes back at the frame signal of run_external_session,
\* before the drain of the same frame, lets no producer run further ahead.
THEOREM BacklogHolds == Spec => []BacklogBounded
<1>1. CreditInv /\ BacklogInv => BacklogBounded
  <2> SUFFICES ASSUME CreditInv, BacklogInv PROVE BacklogBounded
    OBVIOUS
  <2>1. Cardinality(Frames) \in Nat
    BY FS_CardinalityType, Zenon DEF BacklogInv
  <2>2. Cardinality(Frames) + Signalled <= Len(held) + OnHold + Allowance
    BY Zenon DEF BacklogInv
  <2>3. Len(held) \in Nat /\ OnHold \in {0, 1} /\ Signalled \in {0, 1}
        /\ Allowance \in {1, 2}
    BY Counts
  <2>4. Len(held) + OnHold <= credits
    BY <2>3 DEF CreditInv, CreditsExact, OnHold, Idle
  <2>5. credits \in Nat /\ credits <= MaxCredits /\ MaxCredits \in Nat
    BY ExternalAssumption DEF CreditInv
  <2> QED
    BY <2>1, <2>2, <2>3, <2>4, <2>5 DEF BacklogBounded
<1> QED
  BY <1>1, CreditsInvariant, BacklogInvariant, PTL

-----------------------------------------------------------------------------
(* Types *)

\* The types of the ingress and its packets, of the render thread, of the session
\* thread and of the host, each with what the others rest on.
IngressTypes ==
  /\ ingress \in [surface : 0..MaxGeneration, epoch : Epochs, ready : BOOLEAN,
                  last : 0..MaxSequence]
  /\ events \in Nat /\ losses \in Epochs /\ ingress.epoch + events = losses

PacketTypes ==
  /\ credits \in 0..MaxCredits /\ blocked \in BOOLEAN
  /\ submit \in [at : {"idle", "decode", "hold"}, sequence : 0..MaxSequence,
                 surface : 0..MaxGeneration]
  /\ submit.at # "idle" => submit.sequence \in Sequences
  /\ held \in Seq(Sequences)

ThreadTypes ==
  /\ rq \in Seq(RenderCommands)
  /\ render \in [paused : BOOLEAN, bound : 0..MaxGeneration, newest : Generations]
  /\ executed \in 0..MaxSequence

ClockTypes ==
  /\ owes \in BOOLEAN /\ waiter \in BOOLEAN /\ raf \in BOOLEAN
  /\ warm \in 0..WarmFrames

LoopTypes ==
  /\ session \in {"select", "publish", "wait", "exited"}
  /\ session = "publish" => ingress.surface # 0
  /\ slot \in 0..MaxGeneration /\ reply \in {"none", "ok", "failed"}
  /\ late \in BOOLEAN

HostTypes ==
  /\ inbox \in Seq(Commands)
  /\ live \in 0..MaxGeneration /\ issued \in Generations /\ owned \in Generations
  /\ attached \in {"none", "attaching", "active"}
  /\ visibility \in {"unset", "shown", "hidden"} /\ closing \in BOOLEAN
  /\ ops \in 0..MaxOps

LossTypes == reporting \in BOOLEAN /\ stray \in BOOLEAN

TypeInv ==
  /\ IngressTypes /\ PacketTypes /\ ThreadTypes /\ ClockTypes /\ LoopTypes /\ HostTypes
  /\ LossTypes

\* The head of a queue is one of its commands.
LEMMA HeadTyped ==
  ASSUME NEW S, NEW s \in Seq(S), s # <<>>
  PROVE  Head(s) \in S /\ Tail(s) \in Seq(S)
OBVIOUS

\* What the fields of a command are, by its operation.
LEMMA CommandFields ==
  ASSUME NEW c \in Commands
  PROVE  /\ c.op \in {"update", "destroyed"} => c.generation \in Generations
         /\ c.op = "destroyed" => c \in RenderCommands
BY DEF Commands, RenderCommands

LEMMA RenderFields ==
  ASSUME NEW c \in RenderCommands
  PROVE  /\ c.op \in {"recreate", "destroyed"} => c.generation \in Generations
         /\ c.op = "frame" => c.sequence \in Sequences
BY DEF RenderCommands

LEMMA Bounds ==
  /\ MaxSequence \in Nat /\ MaxGeneration \in Nat /\ 1 \in Generations
  /\ Sequences \subseteq 0..MaxSequence /\ Generations \subseteq 0..MaxGeneration
  /\ \A n \in Nat, k \in Nat : 3 * n + 5 * k <= MaxWork => n <= MaxSequence
BY ExternalAssumption DEF MaxSequence, Sequences, Generations

\* The ingress and the epochs: a packet, an update, the resources, a loss.
LEMMA IngressTyped ==
  ASSUME TypeInv, Next
  PROVE  IngressTypes'
<1>1. ASSUME NEW p \in Packets, SubmitAccepted(p) PROVE IngressTypes'
  <2>1. /\ Legal(p) /\ Fits(1, 0) /\ UNCHANGED <<events, losses>>
        /\ ingress' = [ingress EXCEPT !.last = p.sequence]
    BY <1>1 DEF SubmitAccepted, context
  <2>2. ingress.last \in Nat /\ ops \in Nat /\ p.sequence = ingress.last + 1
    BY <2>1, Bounds, ExternalAssumption DEF TypeInv, IngressTypes, HostTypes, Legal
  <2>3. 3 * (ingress.last + 1) + 5 * ops <= MaxWork
    BY <2>1, <2>2 DEF Fits
  <2>4. p.sequence \in Nat /\ p.sequence <= MaxSequence
    <3>1. ingress.last + 1 \in Nat
      BY <2>2
    <3> QED
      BY <2>2, <2>3, <3>1, Bounds, Zenon
  <2>5. p.sequence \in 0..MaxSequence
    BY <2>4, Bounds
  <2> QED
    BY <2>1, <2>5, Zenon DEF TypeInv, IngressTypes
<1>2. CASE HandleUpdate
  <2>1. /\ inbox # <<>> /\ Head(inbox).op = "update" /\ UNCHANGED <<events, losses>>
        /\ ingress' = [ingress EXCEPT !.surface =
             IF Head(inbox).generation < ingress.surface THEN @ ELSE Head(inbox).generation]
    BY <1>2 DEF HandleUpdate, Take, SetSurfaceGeneration, context
  <2>2. Head(inbox).generation \in Generations
    BY <2>1, HeadTyped, CommandFields DEF TypeInv, HostTypes
  <2>3. ingress \in [surface : 0..MaxGeneration, epoch : Epochs, ready : BOOLEAN,
                     last : 0..MaxSequence]
    BY DEF TypeInv, IngressTypes
  <2> DEFINE g == IF Head(inbox).generation < ingress.surface THEN ingress.surface
                  ELSE Head(inbox).generation
  <2>4. g \in 0..MaxGeneration
    BY <2>2, <2>3, Bounds, Zenon
  <2>5. ingress' = [ingress EXCEPT !.surface = g]
    BY <2>1, Zenon
  <2> HIDE DEF g
  <2> QED
    BY <2>1, <2>3, <2>4, <2>5, Zenon DEF TypeInv, IngressTypes
<1>3. CASE MarkResourcesReady
  <2>1. ingress' = [ingress EXCEPT !.ready = TRUE] /\ UNCHANGED <<events, losses>>
    BY <1>3, Zenon DEF MarkResourcesReady, context
  <2> QED
    BY <2>1, Zenon DEF TypeInv, IngressTypes
<1>4. CASE DrainEvents
  <2>1. /\ ingress' = [ingress EXCEPT !.epoch = @ + events, !.ready = FALSE]
        /\ events' = 0 /\ losses' = losses
    BY <1>4 DEF DrainEvents
  <2>2. /\ ingress.epoch \in Nat /\ events \in Nat /\ losses \in Epochs
        /\ ingress.epoch + events = losses
    BY ExternalAssumption DEF TypeInv, IngressTypes, Epochs
  <2>3. losses \in Nat
    BY <2>2, ExternalAssumption DEF Epochs
  <2>4. ingress' = [ingress EXCEPT !.epoch = losses, !.ready = FALSE]
    BY <2>1, <2>2, Zenon
  <2>5. ingress' \in [surface : 0..MaxGeneration, epoch : Epochs, ready : BOOLEAN,
                      last : 0..MaxSequence] /\ ingress'.epoch = losses
    BY <2>2, <2>4, Zenon DEF TypeInv, IngressTypes
  <2>6. events' \in Nat /\ ingress'.epoch + events' = losses'
    BY <2>1, <2>3, <2>5
  <2> QED
    BY <2>1, <2>2, <2>5, <2>6, Zenon DEF IngressTypes
<1>5. CASE ContextLost
  <2>1. /\ ingress' = ingress /\ losses < MaxLosses
        /\ losses' = losses + 1 /\ events' = events + 1
    BY <1>5 DEF ContextLost
  <2>2. /\ ingress.epoch \in Nat /\ events \in Nat /\ losses \in 0..MaxLosses
        /\ ingress.epoch + events = losses
    BY ExternalAssumption DEF TypeInv, IngressTypes, Epochs
  <2>3. losses' \in 0..MaxLosses /\ events' \in Nat /\ ingress.epoch + events' = losses'
    BY <2>1, <2>2, ExternalAssumption
  <2> QED
    BY <2>1, <2>3 DEF TypeInv, IngressTypes, Epochs
<1>6. CASE UNCHANGED <<ingress, events, losses>>
  BY <1>6, SMTT(30) DEF TypeInv, IngressTypes
<1>7. CASE HostStep
  <2>1. MarkResourcesReady \/ UNCHANGED <<ingress, events, losses>>
    BY <1>7, Zenon
    DEF HostStep, SetVisibility, AttachBegin, AttachCommit, SurfaceUpdate,
        SurfaceUpdateFails, Detach, SendInput, Shutdown, context
  <2> QED
    BY <1>3, <1>6, <2>1, Zenon
<1>8. CASE SessionStep
  BY <1>2, <1>4, <1>6, <1>8, Zenon
  DEF SessionStep, Publish, UpdateReplied, UpdateTimeout, HandleDestroyed, HandlePause,
      HandleShow, HandleInput, HandleShutdown, FrameSignal, context
<1>9. CASE Tick \/ Execute
  BY <1>6, <1>9
  DEF Tick, Execute, ExecuteFrame, ExecuteLevel, ExecuteDestroyed, ExecuteRecreate, context
<1>10. CASE ProducerStep \/ RenderFails \/ Dispatch \/ Hold
  BY <1>1, <1>6, <1>10, SMTT(30)
  DEF ProducerStep, SubmitRefused, RequestFrame, RenderFails, Dispatch, Hold, context
<1>11. CASE SurfaceLost \/ Report
  BY <1>6, <1>11, Zenon DEF SurfaceLost, Report
<1> QED
  BY <1>5, <1>7, <1>8, <1>9, <1>10, <1>11 DEF Next, LossStep

\* The packets and the credits.
LEMMA PacketTyped ==
  ASSUME TypeInv, CreditInv', Next
  PROVE  PacketTypes'
<1>0. credits' \in 0..MaxCredits
  BY DEF CreditInv
<1>1. ASSUME NEW p \in Packets, SubmitAccepted(p) PROVE PacketTypes'
  <2>1. /\ Legal(p) /\ Fits(1, 0) /\ blocked' = FALSE /\ held' = held
        /\ submit' = [at |-> "decode", sequence |-> p.sequence, surface |-> p.surface]
    BY <1>1, SMTT(30) DEF SubmitAccepted
  <2>2. ingress.last \in Nat /\ ops \in Nat /\ p.sequence = ingress.last + 1
    BY <2>1, Bounds, ExternalAssumption, SMTT(30) DEF TypeInv, IngressTypes, HostTypes, Legal
  <2>3. 3 * (ingress.last + 1) + 5 * ops <= MaxWork
    BY <2>1, <2>2 DEF Fits
  <2>4. p.sequence \in Sequences
    <3>1. ingress.last + 1 \in Nat
      BY <2>2
    <3>2. p.sequence <= MaxSequence
      BY <2>2, <2>3, <3>1, Bounds, Zenon
    <3> QED
      BY <2>2, <3>2, Bounds DEF Sequences
  <2>5. p.surface \in 0..MaxGeneration
    <3>1. p.surface \in 0..issued
      BY DEF Packets
    <3>2. issued \in 1..MaxGeneration
      BY DEF TypeInv, HostTypes, Generations
    <3> QED
      BY <3>1, <3>2, Bounds
  <2>6. p.sequence \in 0..MaxSequence
    BY <2>4, Bounds, Zenon
  <2>7. /\ submit' \in [at : {"idle", "decode", "hold"}, sequence : 0..MaxSequence,
                        surface : 0..MaxGeneration]
        /\ submit'.sequence \in Sequences
    BY <2>1, <2>4, <2>5, <2>6
  <2> QED
    BY <1>0, <2>1, <2>7, Zenon DEF TypeInv, PacketTypes
<1>2. ASSUME NEW p \in Packets, SubmitRefused(p) PROVE PacketTypes'
  <2>1. blocked' = Legal(p) /\ UNCHANGED <<submit, held>>
    BY <1>2 DEF SubmitRefused
  <2>2. blocked' \in BOOLEAN
    BY <2>1, Zenon DEF Legal
  <2> QED
    BY <1>0, <2>1, <2>2 DEF TypeInv, PacketTypes
<1>3. CASE RenderFails
  BY <1>0, <1>3, Bounds DEF RenderFails, TypeInv, PacketTypes, Idle
<1>4. CASE Dispatch
  BY <1>0, <1>4, SMTT(30) DEF Dispatch, TypeInv, PacketTypes
<1>5. CASE Hold
  BY <1>0, <1>5, Bounds DEF Hold, TypeInv, PacketTypes, Idle
<1>6. CASE FrameSignal
  <2>1. UNCHANGED <<submit, blocked>> /\ (held' = held \/ (held # <<>> /\ held' = Tail(held)))
    BY <1>6 DEF FrameSignal
  <2>2. held' \in Seq(Sequences)
    <3>1. held \in Seq(Sequences)
      BY DEF TypeInv, PacketTypes
    <3> QED
      BY <2>1, <3>1
  <2> QED
    BY <1>0, <2>1, <2>2 DEF TypeInv, PacketTypes
<1>7. CASE Elsewhere
  BY <1>0, <1>7, ElsewherePackets DEF producer, TypeInv, PacketTypes
<1> QED
  BY <1>1, <1>2, <1>3, <1>4, <1>5, <1>6, <1>7, Steps, SMTT(30)

\* The clock of the frames.
LEMMA ClockTyped ==
  ASSUME TypeInv, Next
  PROVE  ClockTypes'
<1>1. CASE Tick
  <2>1. /\ waiter' = FALSE /\ warm' = IF waiter THEN WarmFrames ELSE warm - 1
        /\ waiter \/ warm > 0
        /\ raf' = (raf \/ (warm' > 0 /\ ~render.paused)) /\ owes' = (rq # <<>>)
    BY <1>1 DEF Tick
  <2>2. raf' \in BOOLEAN /\ owes' \in BOOLEAN /\ waiter' \in BOOLEAN
    BY <2>1, Zenon
  <2>3. warm \in 0..WarmFrames /\ waiter \in BOOLEAN
    BY DEF TypeInv, ClockTypes
  <2>4. warm' \in 0..WarmFrames
    BY <2>1, <2>3, ExternalAssumption
  <2> QED
    BY <2>2, <2>4, Zenon DEF ClockTypes
<1>2. CASE Execute
  <2>1. UNCHANGED clock /\ owes' = (owes /\ rq' # <<>>)
    BY <1>2 DEF Execute, ExecuteFrame, ExecuteLevel, ExecuteDestroyed, ExecuteRecreate,
                Drained
  <2>2. owes' \in BOOLEAN
    BY <2>1, Zenon
  <2> QED
    BY <2>1, <2>2 DEF TypeInv, ClockTypes, clock
<1>3. CASE RequestFrame
  BY <1>3 DEF RequestFrame, TypeInv, ClockTypes, thread
<1>4. CASE FrameSignal
  <2>1. raf' = FALSE /\ UNCHANGED <<waiter, warm, owes>>
    BY <1>4, Zenon DEF FrameSignal, thread
  <2> QED
    BY <2>1, Zenon DEF TypeInv, ClockTypes
<1>5. CASE UNCHANGED <<clock, owes>>
  BY <1>5, SMTT(30) DEF clock, TypeInv, ClockTypes
<1>6. CASE LossStep \/ HostStep
  BY <1>5, <1>6
  DEF HostStep, SetVisibility, AttachBegin, AttachCommit, SurfaceUpdate,
      SurfaceUpdateFails, Detach, MarkResourcesReady, SendInput, Shutdown, LossStep,
      SurfaceLost, Report, ContextLost, thread
<1>7. CASE SessionStep
  BY <1>4, <1>5, <1>7
  DEF SessionStep, HandleUpdate, Publish, UpdateReplied, UpdateTimeout, HandleDestroyed,
      HandlePause, HandleShow, HandleInput, HandleShutdown, DrainEvents, thread
<1>8. CASE ProducerStep \/ RenderFails \/ Dispatch \/ Hold
  BY <1>3, <1>5, <1>8
  DEF ProducerStep, SubmitAccepted, SubmitRefused, RenderFails, Dispatch, Hold, thread
<1> QED
  BY <1>1, <1>2, <1>6, <1>7, <1>8 DEF Next

\* The render thread and its queue.
LEMMA ThreadTyped ==
  ASSUME TypeInv, Next
  PROVE  ThreadTypes'
<1>0. /\ rq \in Seq(RenderCommands) /\ executed \in 0..MaxSequence
      /\ render \in [paused : BOOLEAN, bound : 0..MaxGeneration, newest : Generations]
  BY DEF TypeInv, ThreadTypes
<1>1. ASSUME NEW c \in RenderCommands, rq' = Append(rq, c), UNCHANGED <<render, executed>>
      PROVE  ThreadTypes'
  <2>1. rq' \in Seq(RenderCommands)
    BY <1>0, <1>1
  <2> QED
    BY <1>0, <1>1, <2>1, Zenon DEF ThreadTypes
<1>2. CASE UNCHANGED <<rq, render, executed>>
  BY <1>0, <1>2, Zenon DEF ThreadTypes
<1>3. CASE Dispatch
  <2>1. submit.sequence \in Sequences
    BY <1>3 DEF Dispatch, TypeInv, PacketTypes
  <2>2. [op |-> "frame", sequence |-> submit.sequence] \in RenderCommands
    BY <2>1 DEF RenderCommands
  <2> QED
    BY <1>1, <1>3, <2>2, Zenon DEF Dispatch
<1>4. CASE Publish
  <2>1. CASE UNCHANGED rq
    BY <1>2, <1>4, <2>1, Zenon DEF Publish
  <2>2. CASE rq' = Append(rq, [op |-> "recreate", generation |-> Candidate])
    <3>1. ingress.surface # 0 /\ ingress.surface \in 0..MaxGeneration
      BY <1>4 DEF Publish, TypeInv, LoopTypes, IngressTypes
    <3>2. Candidate \in Generations
      BY <3>1, Bounds DEF Candidate, Generations
    <3>3. [op |-> "recreate", generation |-> Candidate] \in RenderCommands
      BY <3>2 DEF RenderCommands
    <3> QED
      BY <1>1, <1>4, <2>2, <3>3, Zenon DEF Publish
  <2> QED
    BY <1>4, <2>1, <2>2, Zenon DEF Publish
<1>5. CASE HandleDestroyed
  <2>1. inbox # <<>> /\ Head(inbox).op = "destroyed"
    BY <1>5 DEF HandleDestroyed, Take
  <2>2. Head(inbox) \in Commands
    BY <2>1, HeadTyped DEF TypeInv, HostTypes
  <2>3. Head(inbox) \in RenderCommands
    BY <2>1, <2>2, CommandFields
  <2> QED
    BY <1>1, <1>2, <1>5, <2>3, Zenon DEF HandleDestroyed
<1>6. CASE HandlePause \/ HandleShow
  <2>1. [op |-> "pause"] \in RenderCommands /\ [op |-> "resume"] \in RenderCommands
    BY DEF RenderCommands
  <2>2. CASE HandlePause
    BY <1>1, <2>1, <2>2, Zenon DEF HandlePause
  <2>3. CASE HandleShow
    BY <1>1, <1>2, <2>1, <2>3, Zenon DEF HandleShow
  <2> QED
    BY <1>6, <2>2, <2>3
<1>7. CASE Execute
  <2>1. rq # <<>> /\ rq' = Tail(rq)
    BY <1>7 DEF Execute, ExecuteFrame, ExecuteLevel, ExecuteDestroyed, ExecuteRecreate,
                Drained
  <2>2. Head(rq) \in RenderCommands /\ rq' \in Seq(RenderCommands)
    BY <1>0, <2>1, HeadTyped
  <2>3. CASE ExecuteFrame
    <3>1. executed' = Head(rq).sequence /\ render' = render /\ Head(rq).op = "frame"
      BY <2>3 DEF ExecuteFrame, Drained
    <3>2. executed' \in 0..MaxSequence
      BY <2>2, <3>1, RenderFields, Bounds, Zenon
    <3> QED
      BY <1>0, <2>2, <3>1, <3>2, Zenon DEF ThreadTypes
  <2>4. CASE ExecuteLevel
    <3>1. /\ executed' = executed
          /\ render' = [render EXCEPT !.paused = (Head(rq).op = "pause")]
      BY <2>4, Zenon DEF ExecuteLevel
    <3>2. (Head(rq).op = "pause") \in BOOLEAN
      BY Zenon
    <3> QED
      BY <1>0, <2>2, <3>1, <3>2, Zenon DEF ThreadTypes
  <2>5. CASE ExecuteDestroyed
    <3> DEFINE b == IF render.bound = Head(rq).generation THEN 0 ELSE render.bound
    <3>1. executed' = executed /\ render' = [render EXCEPT !.bound = b]
      BY <2>5, Zenon DEF ExecuteDestroyed
    <3>2. b \in 0..MaxGeneration
      BY <1>0, Bounds
    <3> HIDE DEF b
    <3> QED
      BY <1>0, <2>2, <3>1, <3>2, Zenon DEF ThreadTypes
  <2>6. CASE ExecuteRecreate
    <3> DEFINE g == Head(rq).generation
    <3>1. /\ executed' = executed /\ Head(rq).op = "recreate"
          /\ render' = render \/ render' = [render EXCEPT !.bound = g, !.newest = g]
      BY <2>6 DEF ExecuteRecreate, Drained
    <3>2. g \in Generations /\ g \in 0..MaxGeneration
      BY <2>2, <3>1, RenderFields, Bounds, Zenon
    <3> HIDE DEF g
    <3> QED
      BY <1>0, <2>2, <3>1, <3>2, Zenon DEF ThreadTypes
  <2> QED
    BY <1>7, <2>3, <2>4, <2>5, <2>6 DEF Execute
<1>8. CASE Tick \/ LossStep \/ HostStep
  BY <1>2, <1>8
  DEF HostStep, SetVisibility, AttachBegin, AttachCommit, SurfaceUpdate,
      SurfaceUpdateFails, Detach, MarkResourcesReady, SendInput, Shutdown, LossStep,
      SurfaceLost, Report, ContextLost, Tick, thread
<1>9. CASE SessionStep
  BY <1>2, <1>4, <1>5, <1>6, <1>9
  DEF SessionStep, HandleUpdate, UpdateReplied, UpdateTimeout, HandleInput,
      HandleShutdown, DrainEvents, FrameSignal, thread
<1>10. CASE ProducerStep \/ RenderFails \/ Hold
  BY <1>2, <1>10
  DEF ProducerStep, SubmitAccepted, SubmitRefused, RequestFrame, RenderFails, Hold, thread
<1> QED
  BY <1>3, <1>7, <1>8, <1>9, <1>10 DEF Next

\* The session thread.
LEMMA LoopTyped ==
  ASSUME TypeInv, Next
  PROVE  LoopTypes'
<1>0. /\ session \in {"select", "publish", "wait", "exited"}
      /\ session = "publish" => ingress.surface # 0
      /\ slot \in 0..MaxGeneration /\ reply \in {"none", "ok", "failed"}
      /\ late \in BOOLEAN
  BY DEF TypeInv, LoopTypes
<1>1. ASSUME UNCHANGED <<session, slot, late>>, reply' \in {"none", "ok", "failed"},
             ingress'.surface = ingress.surface
      PROVE  LoopTypes'
  BY <1>0, <1>1, Zenon DEF LoopTypes
<1>2. CASE HandleUpdate
  <2>1. /\ inbox # <<>> /\ Head(inbox).op = "update" /\ session' = "publish"
        /\ UNCHANGED <<slot, reply, late>>
        /\ ingress' = [ingress EXCEPT !.surface =
             IF Head(inbox).generation < ingress.surface THEN @ ELSE Head(inbox).generation]
    BY <1>2 DEF HandleUpdate, Take, SetSurfaceGeneration
  <2>2. Head(inbox).generation \in 1..MaxGeneration
    BY <2>1, HeadTyped, CommandFields DEF TypeInv, HostTypes, Generations
  <2>3. "surface" \in DOMAIN ingress /\ ingress.surface \in 0..MaxGeneration
    BY DEF TypeInv, IngressTypes
  <2>4. ingress'.surface # 0
    BY <2>1, <2>2, <2>3, Bounds
  <2> QED
    BY <1>0, <2>1, <2>4, Zenon DEF LoopTypes
<1>3. CASE Publish
  BY <1>0, <1>3, Zenon DEF Publish, LoopTypes
<1>4. CASE UpdateReplied
  <2>1. Candidate \in 0..MaxGeneration
    BY DEF TypeInv, IngressTypes, Candidate
  <2>2. slot' \in 0..MaxGeneration
    BY <1>0, <1>4, <2>1, Zenon DEF UpdateReplied
  <2>3. session' = "select" /\ reply' = "none" /\ late' = late
    BY <1>4, Zenon DEF UpdateReplied
  <2> QED
    BY <1>0, <2>2, <2>3, Zenon DEF LoopTypes
<1>5. CASE UpdateTimeout
  BY <1>0, <1>5, Zenon DEF UpdateTimeout, LoopTypes
<1>6. CASE HandleDestroyed
  <2>1. slot' \in 0..MaxGeneration
    BY <1>0, <1>6, Bounds DEF HandleDestroyed
  <2>2. UNCHANGED <<ingress, session, reply, late>>
    BY <1>6, Zenon DEF HandleDestroyed
  <2> QED
    BY <1>0, <2>1, <2>2, Zenon DEF LoopTypes
<1>7. CASE HandleShutdown
  BY <1>0, <1>7, Zenon DEF HandleShutdown, LoopTypes
<1>8. CASE DrainEvents
  <2>1. ingress'.surface = ingress.surface /\ UNCHANGED loop
    BY <1>8 DEF DrainEvents, TypeInv, IngressTypes
  <2> QED
    BY <1>0, <1>1, <2>1, Zenon DEF loop
<1>9. CASE HandlePause \/ HandleShow \/ HandleInput \/ FrameSignal
  BY <1>0, <1>1, <1>9, Zenon DEF HandlePause, HandleShow, HandleInput, FrameSignal, loop
<1>10. CASE Execute
  <2>1. UNCHANGED <<ingress, session, slot, late>>
    BY <1>10
    DEF Execute, ExecuteFrame, ExecuteLevel, ExecuteDestroyed, ExecuteRecreate, loop
  <2>2. reply' \in {"none", "ok", "failed"}
    BY <1>0, <1>10
    DEF Execute, ExecuteFrame, ExecuteLevel, ExecuteDestroyed, ExecuteRecreate, loop,
        Answer
  <2> QED
    BY <1>1, <2>1, <2>2, Zenon
<1>11. CASE MarkResourcesReady
  <2>1. ingress'.surface = ingress.surface /\ UNCHANGED loop
    BY <1>11, SMTT(30) DEF MarkResourcesReady, TypeInv, IngressTypes
  <2> QED
    BY <1>0, <1>1, <2>1, Zenon DEF loop
<1>12. CASE HostStep \/ Tick \/ LossStep
  <2>1. CASE UNCHANGED <<ingress, session, slot, reply, late>>
    BY <1>0, <1>1, <2>1, Zenon
  <2> QED
    BY <1>11, <1>12, <2>1, Zenon
    DEF HostStep, SetVisibility, AttachBegin, AttachCommit, SurfaceUpdate,
        SurfaceUpdateFails, Detach, SendInput, Shutdown, Tick, LossStep, SurfaceLost,
        Report, ContextLost, loop
<1>13. ASSUME NEW p \in Packets, SubmitAccepted(p) PROVE LoopTypes'
  <2>1. ingress'.surface = ingress.surface /\ UNCHANGED loop
    BY <1>13 DEF SubmitAccepted, TypeInv, IngressTypes
  <2> QED
    BY <1>0, <1>1, <2>1, Zenon DEF loop
<1>14. ASSUME NEW p \in Packets, SubmitRefused(p) PROVE LoopTypes'
  BY <1>0, <1>1, <1>14, Zenon DEF SubmitRefused, loop
<1>15. CASE RequestFrame \/ RenderFails \/ Dispatch \/ Hold
  BY <1>0, <1>1, <1>15, Zenon DEF RequestFrame, RenderFails, Dispatch, Hold, loop
<1> QED
  BY <1>2, <1>3, <1>4, <1>5, <1>6, <1>7, <1>8, <1>9, <1>10, <1>12, <1>13, <1>14, <1>15, SMTT(30)
  DEF Next, ProducerStep, SessionStep

\* The host's calls and the commands they send.
LEMMA HostTyped ==
  ASSUME TypeInv, Next
  PROVE  HostTypes'
<1>0. /\ inbox \in Seq(Commands) /\ live \in 0..MaxGeneration
      /\ issued \in Generations /\ owned \in Generations
      /\ attached \in {"none", "attaching", "active"}
      /\ visibility \in {"unset", "shown", "hidden"} /\ closing \in BOOLEAN
      /\ ops \in 0..MaxOps
  BY DEF TypeInv, HostTypes
<1>1. ASSUME Operate PROVE ops' \in 0..MaxOps
  BY <1>0, <1>1, ExternalAssumption DEF Operate
<1>2. ASSUME NEW c \in Commands PROVE Append(inbox, c) \in Seq(Commands)
  BY <1>0, SMTT(30)
<1>3. /\ \A o \in {"show", "hide", "lost", "input", "shutdown"} : [op |-> o] \in Commands
      /\ \A o \in {"update", "destroyed"}, g \in Generations :
           [op |-> o, generation |-> g] \in Commands
  BY DEF Commands
<1>4. \A v : VisibilityCommand(v) \in Commands
  BY <1>3, Zenon DEF VisibilityCommand
<1>5. 0 \in 0..MaxGeneration
  BY Bounds
<1>6. ASSUME NEW v \in {"shown", "hidden"}, SetVisibility(v) PROVE HostTypes'
  <2>1. inbox' \in Seq(Commands)
    BY <1>0, <1>2, <1>4, <1>6, Zenon DEF SetVisibility, Reliable
  <2>2. ops' \in 0..MaxOps
    BY <1>1, <1>6, Zenon DEF SetVisibility
  <2>3. visibility' = v /\ UNCHANGED <<live, issued, owned, attached, closing>>
    BY <1>6, Zenon DEF SetVisibility
  <2> QED
    BY <1>0, <2>1, <2>2, <2>3, Zenon DEF HostTypes
<1>7. CASE AttachBegin
  <2>1. issued + 1 \in Generations
    <3>1. issued \in Generations /\ issued < MaxGeneration
      BY <1>0, <1>7, Zenon DEF AttachBegin
    <3> QED
      BY <3>1, ExternalAssumption DEF Generations
  <2>2. inbox' \in Seq(Commands)
    BY <1>2, <1>3, <1>7, <2>1, Zenon DEF AttachBegin, Reliable
  <2>3. /\ issued' \in Generations /\ owned' \in Generations
        /\ live' \in 0..MaxGeneration /\ ops' \in 0..MaxOps
    BY <1>1, <1>7, <2>1, Bounds, Zenon DEF AttachBegin
  <2>4. attached' = "attaching" /\ UNCHANGED <<visibility, closing>>
    BY <1>7, Zenon DEF AttachBegin
  <2> QED
    BY <1>0, <2>2, <2>3, <2>4, Zenon DEF HostTypes
<1>8. CASE AttachCommit
  <2>1. inbox' \in Seq(Commands)
    BY <1>0, <1>2, <1>4, <1>8, Zenon DEF AttachCommit, Reliable
  <2> QED
    BY <1>0, <1>8, <2>1, Zenon DEF AttachCommit, HostTypes
<1>9. CASE SurfaceUpdate
  <2>1. live \in Generations
    BY <1>0, <1>9 DEF SurfaceUpdate, Current, Generations
  <2>2. inbox' \in Seq(Commands)
    BY <1>2, <1>3, <1>9, <2>1, Zenon DEF SurfaceUpdate, Reliable
  <2> QED
    BY <1>0, <1>1, <1>9, <2>2, Zenon DEF SurfaceUpdate, HostTypes
<1>10. CASE Detach
  <2>1. inbox' \in Seq(Commands)
    BY <1>0, <1>2, <1>3, <1>10, Zenon DEF Detach, Reliable
  <2> QED
    BY <1>0, <1>1, <1>5, <1>10, <2>1, Zenon DEF Detach, HostTypes
<1>11. CASE SurfaceUpdateFails
  <2>1. /\ ops' \in 0..MaxOps
        /\ UNCHANGED <<inbox, owned, attached, visibility, closing>>
    BY <1>1, <1>11, Zenon DEF SurfaceUpdateFails, loop
  <2>2. issued' \in Generations /\ live' \in 0..MaxGeneration
    <3>1. issued < MaxGeneration => issued + 1 \in Generations
      BY <1>0, ExternalAssumption DEF Generations
    <3> QED
      BY <1>0, <1>11, <3>1, Bounds, Zenon DEF SurfaceUpdateFails
  <2> QED
    BY <1>0, <2>1, <2>2, Zenon DEF HostTypes
<1>12. CASE MarkResourcesReady \/ ContextLost
  BY <1>0, <1>1, <1>12, Zenon DEF MarkResourcesReady, ContextLost, HostTypes, loop
<1>13. CASE SendInput
  <2>1. inbox' \in Seq(Commands)
    BY <1>0, <1>2, <1>3, <1>13, Zenon DEF SendInput, TrySend
  <2> QED
    BY <1>0, <1>1, <1>13, <2>1, Zenon DEF SendInput, HostTypes
<1>14. CASE Shutdown
  <2>1. inbox' \in Seq(Commands)
    BY <1>0, <1>2, <1>3, <1>14, Zenon DEF Shutdown, TrySend
  <2>2. closing' \in BOOLEAN
    BY <1>14, Zenon DEF Shutdown
  <2> QED
    BY <1>0, <1>1, <1>5, <1>14, <2>1, <2>2, Zenon DEF Shutdown, HostTypes
<1>15. CASE SurfaceLost \/ Report
  <2>1. inbox' \in Seq(Commands)
    BY <1>0, <1>2, <1>3, <1>15, Zenon DEF SurfaceLost, Report, Reliable, loop
  <2>2. ops' \in 0..MaxOps /\ live' \in 0..MaxGeneration
    BY <1>0, <1>1, <1>5, <1>15, Zenon DEF SurfaceLost, Report, host
  <2> QED
    BY <1>0, <1>15, <2>1, <2>2, Zenon DEF SurfaceLost, Report, host, HostTypes
<1>16. ASSUME UNCHANGED host, inbox' = inbox \/ (inbox # <<>> /\ inbox' = Tail(inbox))
       PROVE  HostTypes'
  <2>1. inbox' \in Seq(Commands)
    BY <1>0, <1>16
  <2> QED
    BY <1>0, <1>16, <2>1, Zenon DEF HostTypes, host
<1>17. CASE SessionStep
  BY <1>16, <1>17
  DEF SessionStep, HandleUpdate, Publish, UpdateReplied, UpdateTimeout, HandleDestroyed,
      HandlePause, HandleShow, HandleInput, HandleShutdown, DrainEvents, FrameSignal,
      Take, loop
<1>18. CASE ProducerStep \/ RenderFails \/ Dispatch \/ Hold
  BY <1>16, <1>18
  DEF ProducerStep, SubmitAccepted, SubmitRefused, RequestFrame, RenderFails, Dispatch,
      Hold, loop
<1>19. CASE Tick \/ Execute
  BY <1>16, <1>19
  DEF Tick, Execute, ExecuteFrame, ExecuteLevel, ExecuteDestroyed, ExecuteRecreate, loop
<1> QED
  BY <1>6, <1>7, <1>8, <1>9, <1>10, <1>11, <1>12, <1>13, <1>14, <1>15, <1>17, <1>18,
     <1>19, SMTT(30)
  DEF Next, HostStep, LossStep

\* The loss on its way and the history of the reports.
LEMMA LossTyped ==
  ASSUME TypeInv, Next
  PROVE  LossTypes'
<1>1. CASE UNCHANGED <<reporting, stray>>
  BY <1>1, Zenon DEF TypeInv, LossTypes
<1>2. CASE stray' = FALSE /\ reporting' = reporting
  BY <1>2, Zenon DEF TypeInv, LossTypes
<1>3. CASE HostStep
  BY <1>1, <1>2, <1>3, Zenon
  DEF HostStep, SetVisibility, AttachBegin, AttachCommit, SurfaceUpdate,
      SurfaceUpdateFails, Detach, MarkResourcesReady, SendInput, Shutdown, context
<1>4. CASE SessionStep
  BY <1>1, <1>4, Zenon
  DEF SessionStep, HandleUpdate, Publish, UpdateReplied, UpdateTimeout, HandleDestroyed,
      HandlePause, HandleShow, HandleInput, HandleShutdown, DrainEvents, FrameSignal,
      context
<1>5. CASE Tick \/ Execute
  BY <1>1, <1>5, Zenon
  DEF Tick, Execute, ExecuteFrame, ExecuteLevel, ExecuteDestroyed, ExecuteRecreate, context
<1>6. CASE ProducerStep \/ RenderFails \/ Dispatch \/ Hold
  BY <1>1, <1>6, Zenon
  DEF ProducerStep, SubmitAccepted, SubmitRefused, RequestFrame, RenderFails, Dispatch,
      Hold, context
<1>7. CASE SurfaceLost \/ ContextLost
  BY <1>7, Zenon DEF SurfaceLost, ContextLost, TypeInv, LossTypes
<1>8. CASE Report
  <2>1. reporting' = FALSE /\ stray' = (stray \/ (attached = "active" /\ Current))
    BY <1>8, Zenon DEF Report
  <2> QED
    BY <2>1, Zenon DEF LossTypes
<1> QED
  BY <1>3, <1>4, <1>5, <1>6, <1>7, <1>8, Zenon DEF Next, LossStep

\* The session starts within its types.
LEMMA InitTyped ==
  ASSUME Init
  PROVE  TypeInv
<1>1. held \in Seq(Sequences) /\ rq \in Seq(RenderCommands) /\ inbox \in Seq(Commands)
  BY DEF Init
<1>2. /\ 0 \in 0..MaxSequence /\ 0 \in 0..MaxCredits /\ 0 \in 0..WarmFrames
      /\ 0 \in 0..MaxGeneration /\ 1 \in 0..MaxGeneration /\ 0 \in 0..MaxOps
      /\ 0 \in Epochs /\ 0 + 0 = 0 /\ 0 \in Nat /\ 1 \in Generations
  BY Bounds, ExternalAssumption DEF Epochs
<1>3. IngressTypes
  BY <1>2, Zenon DEF Init, IngressTypes
<1>4. PacketTypes
  BY <1>1, <1>2, Zenon DEF Init, PacketTypes, Idle
<1>5. ThreadTypes
  BY <1>1, <1>2, Zenon DEF Init, ThreadTypes
<1>6. ClockTypes /\ LoopTypes /\ HostTypes /\ LossTypes
  BY <1>1, <1>2, Zenon DEF Init, ClockTypes, LoopTypes, HostTypes, LossTypes
<1> QED
  BY <1>3, <1>4, <1>5, <1>6, Zenon DEF TypeInv

\* The inductive invariant of the types.
LEMMA TypesKept == Spec => []TypeInv
<1>1. Init => TypeInv
  BY InitTyped
<1>2. TypeInv /\ CreditInv' /\ [Next]_vars => TypeInv'
  <2> SUFFICES ASSUME TypeInv, CreditInv', [Next]_vars PROVE TypeInv'
    OBVIOUS
  <2>1. CASE Next
    BY <2>1, IngressTyped, PacketTyped, ThreadTyped, ClockTyped, LoopTyped, HostTyped,
       LossTyped, Zenon DEF TypeInv
  <2>2. CASE UNCHANGED vars
    <3>1. IngressTypes' /\ PacketTypes'
      BY <2>2, Zenon DEF TypeInv, IngressTypes, PacketTypes, vars, context, producer
    <3>2. ThreadTypes' /\ ClockTypes'
      BY <2>2, Zenon DEF TypeInv, ThreadTypes, ClockTypes, vars, thread, clock
    <3>3. LoopTypes' /\ HostTypes' /\ LossTypes'
      BY <2>2, Zenon DEF TypeInv, LoopTypes, HostTypes, LossTypes, vars, loop, host, context
    <3> QED
      BY <3>1, <3>2, <3>3, Zenon DEF TypeInv
  <2> QED
    BY <2>1, <2>2
<1> QED
  BY <1>1, <1>2, CreditsInvariant, PTL DEF Spec

\* Every variable keeps its type; in particular the epoch of the ingress never runs
\* ahead of the contexts lost, and a surface that is published is never the empty one.
THEOREM ExternalTyping == Spec => []TypeOK
<1>1. TypeInv => TypeOK
  <2> SUFFICES ASSUME TypeInv PROVE TypeOK
    OBVIOUS
  <2>1. events \in Epochs
    BY ExternalAssumption DEF TypeInv, IngressTypes, Epochs
  <2> QED
    BY <2>1, Zenon
    DEF TypeInv, TypeOK, IngressTypes, PacketTypes, ThreadTypes, ClockTypes, LoopTypes,
        HostTypes, LossTypes
<1> QED
  BY <1>1, TypesKept, PTL

-----------------------------------------------------------------------------
(* A shown session renders *)

\* Command c is in queue s; c is in s with no command of O behind it; c is, and u
\* before it; no command of O is in s.
Has(s, c) == \E i \in DOMAIN s : s[i] = c

Last(s, c, O) ==
  \E i \in DOMAIN s : s[i] = c /\ \A j \in DOMAIN s : j > i => s[j].op \notin O

After(s, u, c, O) ==
  \E i \in DOMAIN s : /\ s[i] = c /\ \A j \in DOMAIN s : j > i => s[j].op \notin O
                      /\ \E j \in DOMAIN s : j < i /\ s[j] = u

Free(s, O) == \A i \in DOMAIN s : s[i].op \notin O

\* The commands o in s are about generations below n.
Below(s, o, n) == \A i \in DOMAIN s : s[i].op = o => s[i].generation < n

Stops == {"hide", "lost"}
ShowCommand == [op |-> "show"]
ResumeCommand == [op |-> "resume"]
UpdateTo(g) == [op |-> "update", generation |-> g]
RecreateTo(g) == [op |-> "recreate", generation |-> g]

\* The live generation is the newest one, and what is on its way to destroy is older;
\* no attachment owns one that has not been issued.
OrderOfSurfaces ==
  /\ live \in {0, issued} /\ ingress.surface <= issued /\ owned <= issued
  /\ Below(inbox, "update", issued + 1)
  /\ Below(inbox, "destroyed", issued + 1) /\ Below(rq, "destroyed", issued + 1)
  /\ live # 0 => Below(inbox, "destroyed", live) /\ Below(rq, "destroyed", live)

\* The recreate that the session waits for is the last one in the queue until it is
\* answered, and fails only if its surface is gone.
Waiting ==
  /\ session = "wait" /\ reply = "none" => Last(rq, RecreateTo(Candidate), {"recreate"})
  /\ reply # "none" => session = "wait" /\ Free(rq, {"recreate"})
  /\ reply = "failed" /\ live # 0 => Candidate # live

\* The live surface of the attachment is bound, or on its way to the renderer.
Binding ==
  Current =>
    \/ render.bound = live \/ Has(inbox, UpdateTo(live))
    \/ (session = "publish" /\ Candidate = live) \/ Has(rq, RecreateTo(live))

\* The slot has it, or the update that the session is in will give it to the slot.
Installed ==
  slot = live \/ (session \in {"publish", "wait"} /\ Candidate = live)

Installing ==
  Current /\ ~late => Installed \/ Has(inbox, UpdateTo(live))

\* Nothing pauses the renderer for good: it runs once its queue is empty, or a show
\* is on its way that will find the surface installed.
RendererRuns ==
  Last(rq, ResumeCommand, {"pause"}) \/ (Free(rq, {"pause"}) /\ ~render.paused)

Showing ==
  Current /\ ~late /\ ~stray /\ attached = "active" /\ visibility = "shown" =>
    \/ Installed /\ Last(inbox, ShowCommand, Stops)
    \/ After(inbox, UpdateTo(live), ShowCommand, Stops)
    \/ Free(inbox, Stops) /\ RendererRuns

RunInv == OrderOfSurfaces /\ Waiting /\ Binding /\ Installing /\ Showing

\* What joins a queue is behind everything in it.
LEMMA AppendPlaces ==
  ASSUME NEW S, NEW s \in Seq(S), NEW c
  PROVE  /\ DOMAIN Append(s, c) = DOMAIN s \cup {Len(s) + 1}
         /\ \A i \in DOMAIN s : Append(s, c)[i] = s[i] /\ i < Len(s) + 1 /\ i \in Nat
         /\ Append(s, c)[Len(s) + 1] = c /\ Len(s) + 1 \in Nat
<1>1. s \in Seq(S \cup {c})
  OBVIOUS
<1> QED
  BY <1>1

\* What leaves a queue is before everything that stays.
LEMMA TailPlaces ==
  ASSUME NEW S, NEW s \in Seq(S), s # <<>>
  PROVE  /\ \A i \in DOMAIN Tail(s) : i + 1 \in DOMAIN s /\ Tail(s)[i] = s[i + 1]
         /\ \A i \in DOMAIN s :
              i = 1 \/ (i - 1 \in DOMAIN Tail(s) /\ Tail(s)[i - 1] = s[i] /\ 1 < i)
         /\ \A i \in DOMAIN s : i \in Nat
         /\ \A i \in DOMAIN Tail(s) : i \in Nat
         /\ Head(s) = s[1] /\ 1 \in DOMAIN s
OBVIOUS

LEMMA HasAppend ==
  ASSUME NEW S, NEW s \in Seq(S), NEW c, NEW d, Has(s, d) \/ d = c
  PROVE  Has(Append(s, c), d)
<1>1. /\ DOMAIN Append(s, c) = DOMAIN s \cup {Len(s) + 1}
      /\ \A i \in DOMAIN s : Append(s, c)[i] = s[i]
      /\ Append(s, c)[Len(s) + 1] = c
  BY AppendPlaces
<1> QED
  BY <1>1, Zenon DEF Has

LEMMA HasTail ==
  ASSUME NEW S, NEW s \in Seq(S), s # <<>>, NEW d, Has(s, d)
  PROVE  Has(Tail(s), d) \/ Head(s) = d
<1>1. /\ \A i \in DOMAIN Tail(s) : i + 1 \in DOMAIN s /\ Tail(s)[i] = s[i + 1]
      /\ \A i \in DOMAIN s :
           i = 1 \/ (i - 1 \in DOMAIN Tail(s) /\ Tail(s)[i - 1] = s[i] /\ 1 < i)
      /\ Head(s) = s[1]
  BY TailPlaces
<1> QED
  BY <1>1, Zenon DEF Has

LEMMA FreeAppend ==
  ASSUME NEW S, NEW s \in Seq(S), NEW c, NEW O, Free(s, O), c.op \notin O
  PROVE  Free(Append(s, c), O)
<1>1. /\ DOMAIN Append(s, c) = DOMAIN s \cup {Len(s) + 1}
      /\ \A i \in DOMAIN s : Append(s, c)[i] = s[i]
      /\ Append(s, c)[Len(s) + 1] = c
  BY AppendPlaces
<1> QED
  BY <1>1, Zenon DEF Free

LEMMA FreeTail ==
  ASSUME NEW S, NEW s \in Seq(S), s # <<>>, NEW O, Free(s, O)
  PROVE  Free(Tail(s), O) /\ Head(s).op \notin O
<1>1. /\ \A i \in DOMAIN Tail(s) : i + 1 \in DOMAIN s /\ Tail(s)[i] = s[i + 1]
      /\ Head(s) = s[1] /\ 1 \in DOMAIN s
  BY TailPlaces
<1> QED
  BY <1>1, Zenon DEF Free

LEMMA LastAppend ==
  ASSUME NEW S, NEW s \in Seq(S), NEW c, NEW d, NEW O,
         d = c \/ (Last(s, d, O) /\ c.op \notin O)
  PROVE  Last(Append(s, c), d, O)
<1> DEFINE n == Len(s) + 1
           t == Append(s, c)
<1>1. /\ DOMAIN t = DOMAIN s \cup {n} /\ t[n] = c /\ n \in Nat
      /\ \A i \in DOMAIN s : t[i] = s[i] /\ i < n /\ i \in Nat
  BY AppendPlaces, ZenonT(60), SMTT(30)
<1>2. ~(n < n) /\ \A i \in Nat : i > n <=> n < i
  BY <1>1
<1>3. \A i, j \in Nat : i > j <=> j < i
  OBVIOUS
<1>4. \A i \in Nat : i < n => ~(n < i)
  BY <1>1
<1> HIDE DEF n, t
<1>5. CASE d = c
  <2>1. \A j \in DOMAIN t : ~(j > n)
    BY <1>1, <1>2, <1>4, Zenon
  <2> QED
    BY <1>1, <1>5, <2>1, Zenon DEF Last, t
<1>6. CASE Last(s, d, O) /\ c.op \notin O
  <2>1. PICK i \in DOMAIN s : s[i] = d /\ \A j \in DOMAIN s : j > i => s[j].op \notin O
    BY <1>6, Zenon DEF Last
  <2>2. \A j \in DOMAIN t : j > i => t[j].op \notin O
    BY <1>1, <1>6, <2>1, Zenon
  <2> QED
    BY <1>1, <2>1, <2>2, Zenon DEF Last, t
<1> QED
  BY <1>5, <1>6

LEMMA LastTail ==
  ASSUME NEW S, NEW s \in Seq(S), s # <<>>, NEW d, NEW O, Last(s, d, O)
  PROVE  Last(Tail(s), d, O) \/ (Head(s) = d /\ Free(Tail(s), O))
<1> DEFINE t == Tail(s)
<1>1. /\ \A i \in DOMAIN t : i + 1 \in DOMAIN s /\ t[i] = s[i + 1] /\ i \in Nat
      /\ \A i \in DOMAIN s : i \in Nat
      /\ \A i \in DOMAIN s : i = 1 \/ (i - 1 \in DOMAIN t /\ t[i - 1] = s[i] /\ 1 < i)
      /\ Head(s) = s[1]
  BY TailPlaces
<1>2. PICK i \in DOMAIN s : s[i] = d /\ \A j \in DOMAIN s : j > i => s[j].op \notin O
  BY Zenon DEF Last
<1>3. \A j \in DOMAIN t : j > i - 1 => j + 1 \in DOMAIN s /\ j + 1 > i /\ t[j] = s[j + 1]
  BY <1>1
<1> HIDE DEF t
<1>4. \A j \in DOMAIN t : j > i - 1 => t[j].op \notin O
  BY <1>2, <1>3, Zenon
<1>5. CASE i = 1
  <2>1. \A j \in DOMAIN t : j + 1 > 1
    BY <1>1, <1>3, <1>5 DEF t
  <2>2. \A j \in DOMAIN t : t[j].op \notin O
    BY <1>1, <1>2, <1>5, <2>1, Zenon
  <2> QED
    BY <1>1, <1>2, <1>5, <2>2, Zenon DEF Free, t
<1>6. CASE i # 1
  BY <1>1, <1>2, <1>4, <1>6, Zenon DEF Last, t
<1> QED
  BY <1>5, <1>6

LEMMA AfterAppend ==
  ASSUME NEW S, NEW s \in Seq(S), NEW c, NEW u, NEW d, NEW O,
         (Has(s, u) /\ d = c) \/ (After(s, u, d, O) /\ c.op \notin O)
  PROVE  After(Append(s, c), u, d, O)
<1> DEFINE n == Len(s) + 1
           t == Append(s, c)
<1>1. /\ DOMAIN t = DOMAIN s \cup {n} /\ t[n] = c /\ n \in Nat
      /\ \A i \in DOMAIN s : t[i] = s[i] /\ i < n /\ i \in Nat
  BY AppendPlaces, ZenonT(60), SMTT(30)
<1>2. ~(n > n) /\ \A i \in Nat : i < n => ~(i > n)
  BY <1>1
<1> HIDE DEF n, t
<1>3. CASE Has(s, u) /\ d = c
  <2>1. \A j \in DOMAIN t : ~(j > n)
    BY <1>1, <1>2, Zenon
  <2>2. \E j \in DOMAIN t : j < n /\ t[j] = u
    BY <1>1, <1>3, Zenon DEF Has
  <2> QED
    BY <1>1, <1>3, <2>1, <2>2, Zenon DEF After, t
<1>4. CASE After(s, u, d, O) /\ c.op \notin O
  <2>1. PICK i \in DOMAIN s : /\ s[i] = d /\ \A j \in DOMAIN s : j > i => s[j].op \notin O
                              /\ \E j \in DOMAIN s : j < i /\ s[j] = u
    BY <1>4, Zenon DEF After
  <2>2. \A j \in DOMAIN t : j > i => t[j].op \notin O
    BY <1>1, <1>4, <2>1, Zenon
  <2>3. \E j \in DOMAIN t : j < i /\ t[j] = u
    BY <1>1, <2>1, Zenon
  <2> QED
    BY <1>1, <2>1, <2>2, <2>3, Zenon DEF After, t
<1> QED
  BY <1>3, <1>4

LEMMA AfterTail ==
  ASSUME NEW S, NEW s \in Seq(S), s # <<>>, NEW u, NEW d, NEW O, After(s, u, d, O)
  PROVE  After(Tail(s), u, d, O) \/ (Head(s) = u /\ Last(Tail(s), d, O))
<1> DEFINE t == Tail(s)
<1>1. /\ \A i \in DOMAIN t : i + 1 \in DOMAIN s /\ t[i] = s[i + 1] /\ i \in Nat
      /\ \A i \in DOMAIN s : i \in Nat
      /\ \A i \in DOMAIN s : i = 1 \/ (i - 1 \in DOMAIN t /\ t[i - 1] = s[i] /\ 1 < i)
      /\ Head(s) = s[1]
  BY TailPlaces
<1>2. PICK i \in DOMAIN s : /\ s[i] = d /\ \A j \in DOMAIN s : j > i => s[j].op \notin O
                            /\ \E j \in DOMAIN s : j < i /\ s[j] = u
  BY Zenon DEF After
<1>3. PICK k \in DOMAIN s : k < i /\ s[k] = u
  BY <1>2, Zenon
<1>4. \A j \in DOMAIN t : j > i - 1 => j + 1 \in DOMAIN s /\ j + 1 > i /\ t[j] = s[j + 1]
  BY <1>1
<1>5. i # 1 /\ (k # 1 => k - 1 < i - 1)
  BY <1>1, <1>3 DEF t
<1> HIDE DEF t
<1>6. i - 1 \in DOMAIN t /\ t[i - 1] = d /\ \A j \in DOMAIN t : j > i - 1 => t[j].op \notin O
  BY <1>1, <1>2, <1>4, <1>5, Zenon
<1>7. CASE k = 1
  BY <1>1, <1>3, <1>6, <1>7, Zenon DEF Last, t
<1>8. CASE k # 1
  <2>1. k - 1 \in DOMAIN t /\ t[k - 1] = u
    BY <1>1, <1>3, <1>8, Zenon
  <2> QED
    BY <1>5, <1>6, <1>8, <2>1, Zenon DEF After, t
<1> QED
  BY <1>7, <1>8

LEMMA BelowAppend ==
  ASSUME NEW S, NEW s \in Seq(S), NEW c, NEW o, NEW n,
         Below(s, o, n), c.op = o => c.generation < n
  PROVE  Below(Append(s, c), o, n)
<1>1. /\ DOMAIN Append(s, c) = DOMAIN s \cup {Len(s) + 1}
      /\ \A i \in DOMAIN s : Append(s, c)[i] = s[i]
      /\ Append(s, c)[Len(s) + 1] = c
  BY AppendPlaces
<1> QED
  BY <1>1, Zenon DEF Below

LEMMA BelowTail ==
  ASSUME NEW S, NEW s \in Seq(S), s # <<>>, NEW o, NEW n, Below(s, o, n)
  PROVE  Below(Tail(s), o, n) /\ (Head(s).op = o => Head(s).generation < n)
<1>1. /\ \A i \in DOMAIN Tail(s) : i + 1 \in DOMAIN s /\ Tail(s)[i] = s[i + 1]
      /\ Head(s) = s[1] /\ 1 \in DOMAIN s
  BY TailPlaces
<1> QED
  BY <1>1, Zenon DEF Below

LEMMA BelowMore ==
  ASSUME NEW s, NEW o, NEW n \in Nat, Below(s, o, n + 1),
         \A i \in DOMAIN s : s[i].op = o => s[i].generation \in Nat
  PROVE  Below(s, o, n + 2)
BY DEF Below

\* What a queue is like after command c has joined it, or its head has left it.
Grows(s, c, t) ==
  /\ \A d : Has(s, d) \/ d = c => Has(t, d)
  /\ \A o, n : Below(s, o, n) /\ (c.op = o => c.generation < n) => Below(t, o, n)
  /\ \A O : Free(s, O) /\ c.op \notin O => Free(t, O)
  /\ \A d, O : d = c \/ (Last(s, d, O) /\ c.op \notin O) => Last(t, d, O)
  /\ \A u, d, O : (Has(s, u) /\ d = c) \/ (After(s, u, d, O) /\ c.op \notin O)
                    => After(t, u, d, O)

Shrinks(s, h, t) ==
  /\ \A d : Has(s, d) => Has(t, d) \/ h = d
  /\ \A o, n : Below(s, o, n) => Below(t, o, n) /\ (h.op = o => h.generation < n)
  /\ \A O : Free(s, O) => Free(t, O) /\ h.op \notin O
  /\ \A d, O : Last(s, d, O) => Last(t, d, O) \/ (h = d /\ Free(t, O))
  /\ \A u, d, O : After(s, u, d, O) => After(t, u, d, O) \/ (h = u /\ Last(t, d, O))

LEMMA Joins ==
  ASSUME NEW S, NEW s \in Seq(S), NEW c, NEW t, t = Append(s, c)
  PROVE  Grows(s, c, t)
<1>1. \A d : Has(s, d) \/ d = c => Has(t, d)
  BY HasAppend, Zenon
<1>2. \A o, n : Below(s, o, n) /\ (c.op = o => c.generation < n) => Below(t, o, n)
  BY BelowAppend, Zenon
<1>3. \A O : Free(s, O) /\ c.op \notin O => Free(t, O)
  BY FreeAppend, Zenon
<1>4. \A d, O : d = c \/ (Last(s, d, O) /\ c.op \notin O) => Last(t, d, O)
  BY LastAppend, Zenon
<1>5. \A u, d, O : (Has(s, u) /\ d = c) \/ (After(s, u, d, O) /\ c.op \notin O)
                     => After(t, u, d, O)
  BY AfterAppend, Zenon
<1> QED
  BY <1>1, <1>2, <1>3, <1>4, <1>5, Zenon DEF Grows

LEMMA Leaves ==
  ASSUME NEW S, NEW s \in Seq(S), s # <<>>, NEW t, t = Tail(s)
  PROVE  Shrinks(s, Head(s), t)
<1>1. \A d : Has(s, d) => Has(t, d) \/ Head(s) = d
  BY HasTail, Zenon
<1>2. \A o, n : Below(s, o, n) =>
        Below(t, o, n) /\ (Head(s).op = o => Head(s).generation < n)
  BY BelowTail, Zenon
<1>3. \A O : Free(s, O) => Free(t, O) /\ Head(s).op \notin O
  BY FreeTail, Zenon
<1>4. \A d, O : Last(s, d, O) => Last(t, d, O) \/ (Head(s) = d /\ Free(t, O))
  BY LastTail, Zenon
<1>5. \A u, d, O : After(s, u, d, O) => After(t, u, d, O) \/ (Head(s) = u /\ Last(t, d, O))
  BY AfterTail, Zenon
<1> QED
  BY <1>1, <1>2, <1>3, <1>4, <1>5, Zenon DEF Shrinks

LEMMA GenerationsNamed ==
  ASSUME TypeInv
  PROVE  /\ \A i \in DOMAIN inbox : inbox[i].op = "update" => inbox[i].generation \in Nat
         /\ \A i \in DOMAIN inbox :
              inbox[i].op = "destroyed" => inbox[i].generation \in Nat
         /\ \A i \in DOMAIN rq : rq[i].op = "destroyed" => rq[i].generation \in Nat
<1>1. \A i \in DOMAIN inbox : inbox[i] \in Commands
  BY DEF TypeInv, HostTypes
<1>2. \A i \in DOMAIN rq : rq[i] \in RenderCommands
  BY DEF TypeInv, ThreadTypes
<1>3. Generations \subseteq Nat
  BY DEF Generations
<1>4. \A i \in DOMAIN inbox :
        inbox[i].op \in {"update", "destroyed"} => inbox[i].generation \in Generations
  BY <1>1, CommandFields, Zenon
<1>5. \A i \in DOMAIN rq :
        rq[i].op \in {"recreate", "destroyed"} => rq[i].generation \in Generations
  BY <1>2, RenderFields, Zenon
<1> QED
  BY <1>3, <1>4, <1>5, Zenon

LEMMA TypeFacts ==
  ASSUME TypeInv
  PROVE  /\ inbox \in Seq(Commands) /\ rq \in Seq(RenderCommands)
         /\ issued \in Nat /\ issued # 0 /\ live \in Nat /\ ingress.surface \in Nat
         /\ owned \in Nat
BY Bounds DEF TypeInv, HostTypes, ThreadTypes, IngressTypes, Generations

\* Steps that touch neither the queues nor a surface nor a level.
Quiet ==
  /\ ingress'.surface = ingress.surface
  /\ UNCHANGED <<rq, render, session, inbox, slot, reply, late, stray, live, issued,
                 owned, attached, visibility>>

LEMMA QuietKeeps ==
  ASSUME RunInv, Quiet
  PROVE  RunInv'
<1> USE DEF Candidate, Current, RunInv, Quiet
<1>1. OrderOfSurfaces' /\ Waiting'
  BY DEF OrderOfSurfaces, Waiting
<1>2. Binding' /\ Installing'
  BY DEF Binding, Installing, Installed
<1>3. Showing'
  BY DEF Showing, Installed, RendererRuns
<1> QED
  BY <1>1, <1>2, <1>3, SMTT(30)

LEMMA QuietSteps ==
  ASSUME TypeInv,
         \/ \E p \in Packets : SubmitAccepted(p) \/ SubmitRefused(p)
         \/ RequestFrame \/ RenderFails \/ Hold \/ MarkResourcesReady \/ DrainEvents
         \/ FrameSignal \/ Tick \/ ContextLost
  PROVE  Quiet
<1>1. ASSUME NEW p \in Packets, SubmitAccepted(p) PROVE Quiet
  <2>1. /\ ingress' = [ingress EXCEPT !.last = p.sequence]
        /\ UNCHANGED <<thread, loop, context, host>>
    BY <1>1, Zenon DEF SubmitAccepted
  <2>2. ingress'.surface = ingress.surface
    BY <2>1 DEF TypeInv, IngressTypes
  <2> QED
    BY <2>1, <2>2, Zenon DEF Quiet, thread, loop, context, host
<1>2. ASSUME NEW p \in Packets, SubmitRefused(p) PROVE Quiet
  BY <1>2, Zenon DEF SubmitRefused, Quiet, thread, loop, context, host
<1>3. CASE MarkResourcesReady
  <2>1. ingress'.surface = ingress.surface
    BY <1>3 DEF MarkResourcesReady, TypeInv, IngressTypes
  <2> QED
    BY <1>3, <2>1, Zenon DEF MarkResourcesReady, Quiet, thread, loop, context
<1>4. CASE DrainEvents
  <2>1. ingress'.surface = ingress.surface
    BY <1>4 DEF DrainEvents, TypeInv, IngressTypes
  <2> QED
    BY <1>4, <2>1, Zenon DEF DrainEvents, Quiet, thread, loop, host
<1>5. CASE RequestFrame \/ RenderFails \/ Hold \/ FrameSignal \/ Tick \/ ContextLost
  BY <1>5, Zenon
  DEF RequestFrame, RenderFails, Hold, FrameSignal, Tick, ContextLost, Quiet, thread, loop,
      context, host
<1> QED
  BY <1>1, <1>2, <1>3, <1>4, <1>5

\* The host sends a command about no surface or about the live one.
LEMMA CommandJoins ==
  ASSUME TypeInv, RunInv, NEW c, inbox' = Append(inbox, c),
         c.op = "update" => c.generation < issued + 1, c.op # "destroyed",
         UNCHANGED <<ingress, rq, render, session, slot, reply, late, live, issued, owned>>
  PROVE  /\ OrderOfSurfaces' /\ Waiting' /\ Binding' /\ Installing'
         /\ c.op \notin Stops /\ UNCHANGED <<stray, attached, visibility>> => Showing'
<1> USE DEF Candidate, RunInv
<1>1. Grows(inbox, c, inbox')
  BY TypeFacts, Joins, Zenon
<1>2. OrderOfSurfaces'
  BY <1>1, Zenon DEF OrderOfSurfaces, Grows
<1>3. Current' <=> Current
  BY Zenon DEF Current
<1>4. Waiting' /\ Binding' /\ Installing'
  BY <1>1, <1>3, Zenon DEF Waiting, Binding, Installing, Installed, Grows
<1>5. ASSUME c.op \notin Stops, UNCHANGED <<stray, attached, visibility>> PROVE Showing'
  <2>1. /\ RendererRuns' <=> RendererRuns
        /\ Installed' <=> Installed
    BY Zenon DEF RendererRuns, Installed
  <2>2. /\ Last(inbox, ShowCommand, Stops) => Last(inbox', ShowCommand, Stops)
        /\ After(inbox, UpdateTo(live), ShowCommand, Stops)
             => After(inbox', UpdateTo(live), ShowCommand, Stops)
        /\ Free(inbox, Stops) => Free(inbox', Stops)
    BY <1>1, <1>5, Zenon DEF Grows
  <2> QED
    BY <1>3, <1>5, <2>1, <2>2, Zenon DEF Showing
<1> QED
  BY <1>2, <1>4, <1>5

\* The surface is retired, and the session may be told.
LEMMA Retires ==
  ASSUME TypeInv, RunInv, live' = 0,
         UNCHANGED <<ingress, rq, session, reply, issued, owned>>,
         \/ inbox' = inbox
         \/ \E c : /\ c.op # "update" /\ (c.op = "destroyed" => c.generation < issued + 1)
                   /\ inbox' = Append(inbox, c)
  PROVE  RunInv'
<1> USE DEF Candidate, Current, RunInv
<1>1. OrderOfSurfaces'
  <2>1. CASE inbox' = inbox
    BY <2>1, Zenon DEF OrderOfSurfaces
  <2>2. ASSUME NEW c, c.op # "update", c.op = "destroyed" => c.generation < issued + 1,
               inbox' = Append(inbox, c)
        PROVE  OrderOfSurfaces'
    <3>1. Grows(inbox, c, inbox')
      BY <2>2, TypeFacts, Joins, Zenon
    <3> QED
      BY <2>2, <3>1, Zenon DEF OrderOfSurfaces, Grows
  <2> QED
    BY <2>1, <2>2
<1>2. Waiting' /\ Binding' /\ Installing' /\ Showing'
  BY Zenon DEF Waiting, Binding, Installing, Showing
<1> QED
  BY <1>1, <1>2

\* The calls of the host.
LEMMA HostKeepsRunning ==
  ASSUME TypeInv, RunInv, HostStep
  PROVE  RunInv'
<1> USE DEF Current
<1>1. ASSUME NEW v \in {"shown", "hidden"}, SetVisibility(v) PROVE RunInv'
  <2>1. /\ visibility' = v /\ attached' = attached
        /\ UNCHANGED <<ingress, rq, render, session, slot, reply, late, live, issued, owned>>
    BY <1>1 DEF SetVisibility, thread
  <2>2. CASE attached # "active" /\ inbox' = inbox
    <3>1. OrderOfSurfaces' /\ Waiting' /\ Binding' /\ Installing'
      BY <2>1, <2>2
      DEF RunInv, OrderOfSurfaces, Waiting, Binding, Installing, Installed, Candidate
    <3>2. Showing'
      BY <2>1, <2>2, Zenon DEF Showing
    <3> QED
      BY <3>1, <3>2, SMTT(30) DEF RunInv
  <2>3. CASE attached = "active" /\ inbox' = Append(inbox, VisibilityCommand(v))
    <3>1. VisibilityCommand(v).op \in {"show", "hide"}
      BY DEF VisibilityCommand
    <3>2. OrderOfSurfaces' /\ Waiting' /\ Binding' /\ Installing'
      BY <2>1, <2>3, <3>1, CommandJoins
    <3>3. Showing'
      <4>1. CASE v = "hidden"
        BY <2>1, <4>1 DEF Showing
      <4>2. CASE v = "shown"
        <5>1. inbox' = Append(inbox, ShowCommand)
          BY <2>3, <4>2, Zenon DEF VisibilityCommand, ShowCommand
        <5>2. Grows(inbox, ShowCommand, inbox')
          BY <5>1, TypeFacts, Joins, Zenon
        <5> QED
          BY <2>1, <5>2, Zenon DEF RunInv, Showing, Installing, Installed, Candidate, Grows
      <4> QED
        BY <4>1, <4>2
    <3> QED
      BY <3>2, <3>3 DEF RunInv
  <2> QED
    BY <1>1, <2>2, <2>3, SMTT(30) DEF SetVisibility, Reliable
<1>2. CASE AttachBegin
  <2> DEFINE c == UpdateTo(issued + 1)
  <2>1. /\ issued' = issued + 1 /\ live' = issued + 1 /\ owned' = issued + 1
        /\ attached' = "attaching"
        /\ inbox' = Append(inbox, c)
        /\ UNCHANGED <<ingress, rq, render, session, slot, reply, late>>
    BY <1>2 DEF AttachBegin, Reliable, UpdateTo, thread
  <2>2. Grows(inbox, c, inbox') /\ c.op = "update" /\ c.generation = issued + 1
    <3>1. Grows(inbox, c, inbox')
      BY <2>1, TypeFacts, Joins, Zenon
    <3> QED
      BY <3>1 DEF UpdateTo
  <2> HIDE DEF c
  <2>3. /\ issued \in Nat /\ ingress.surface \in Nat /\ ingress.surface <= issued
        /\ Below(inbox, "update", issued + 1)
        /\ Below(inbox, "destroyed", issued + 1) /\ Below(rq, "destroyed", issued + 1)
    BY TypeFacts DEF RunInv, OrderOfSurfaces
  <2>4. Below(inbox, "update", issued + 2) /\ Below(inbox, "destroyed", issued + 2)
        /\ Below(rq, "destroyed", issued + 2)
    BY <2>3, BelowMore, GenerationsNamed, Zenon
  <2>5. issued + 1 < issued + 2 /\ issued + 1 + 1 = issued + 2
        /\ ingress.surface <= issued + 1 /\ ingress.surface # issued + 1
        /\ issued + 1 <= issued + 1
    BY <2>3
  <2>6. OrderOfSurfaces'
    BY <2>1, <2>2, <2>3, <2>4, <2>5, Zenon DEF OrderOfSurfaces, Grows
  <2>7. Waiting'
    BY <2>1, <2>5, Zenon DEF RunInv, Waiting, Candidate
  <2>8. Has(inbox', UpdateTo(live'))
    BY <2>1, <2>2, Zenon DEF Grows, c
  <2>9. Binding' /\ Installing'
    BY <2>8, Zenon DEF Binding, Installing
  <2>10. Showing'
    BY <2>1 DEF Showing
  <2> QED
    BY <2>6, <2>7, <2>9, <2>10, SMTT(30) DEF RunInv
<1>3. CASE AttachCommit
  <2>1. /\ attached' = "active" /\ visibility' = visibility
        /\ UNCHANGED <<ingress, rq, render, session, slot, reply, late, live, issued, owned>>
    BY <1>3 DEF AttachCommit, thread
  <2>2. CASE visibility = "unset" /\ inbox' = inbox
    <3>1. OrderOfSurfaces' /\ Waiting' /\ Binding' /\ Installing'
      BY <2>1, <2>2
      DEF RunInv, OrderOfSurfaces, Waiting, Binding, Installing, Installed, Candidate
    <3>2. Showing'
      BY <2>1, <2>2 DEF Showing
    <3> QED
      BY <3>1, <3>2, SMTT(30) DEF RunInv
  <2>3. CASE inbox' = Append(inbox, VisibilityCommand(visibility))
    <3>1. VisibilityCommand(visibility).op \in {"show", "hide"}
      BY DEF VisibilityCommand
    <3>2. OrderOfSurfaces' /\ Waiting' /\ Binding' /\ Installing'
      BY <2>1, <2>3, <3>1, CommandJoins
    <3>3. Showing'
      <4>1. CASE visibility # "shown"
        BY <2>1, <4>1 DEF Showing
      <4>2. CASE visibility = "shown"
        <5>1. inbox' = Append(inbox, ShowCommand)
          BY <2>3, <4>2, Zenon DEF VisibilityCommand, ShowCommand
        <5>2. Grows(inbox, ShowCommand, inbox')
          BY <5>1, TypeFacts, Joins, Zenon
        <5> QED
          BY <2>1, <5>2, Zenon DEF RunInv, Showing, Installing, Installed, Candidate, Grows
      <4> QED
        BY <4>1, <4>2
    <3> QED
      BY <3>2, <3>3 DEF RunInv
  <2> QED
    BY <1>3, <2>2, <2>3 DEF AttachCommit, Reliable
<1>4. CASE SurfaceUpdate
  <2>1. /\ live # 0 /\ inbox' = Append(inbox, UpdateTo(live))
        /\ UNCHANGED <<ingress, rq, render, session, slot, reply, late, live, issued, owned>>
        /\ UNCHANGED <<stray, attached, visibility>>
    BY <1>4 DEF SurfaceUpdate, Reliable, UpdateTo, thread, context
  <2>2. UpdateTo(live).op = "update" /\ UpdateTo(live).generation < issued + 1
    BY <2>1, TypeFacts, SMTT(30) DEF RunInv, OrderOfSurfaces, UpdateTo
  <2> QED
    BY <2>1, <2>2, CommandJoins, SMTT(30) DEF RunInv, Stops
<1>5. CASE Detach
  <2>1. /\ live' = 0 /\ UNCHANGED <<ingress, rq, session, reply, issued, owned>>
        /\ inbox' = Append(inbox, [op |-> "destroyed", generation |-> owned])
    BY <1>5 DEF Detach, Reliable, thread
  <2>2. owned < issued + 1
    BY TypeFacts DEF RunInv, OrderOfSurfaces
  <2> QED
    BY <2>1, <2>2, Retires, SMTT(30)
<1>6. CASE SurfaceUpdateFails
  <2>1. UNCHANGED <<ingress, rq, render, session, inbox, slot, reply, late, stray, owned,
                    attached, visibility>>
    BY <1>6 DEF SurfaceUpdateFails, thread, loop, context
  <2>2. CASE UNCHANGED <<issued, live>>
    BY <2>1, <2>2, QuietKeeps DEF Quiet
  <2>3. CASE issued' = issued + 1 /\ live' = issued + 1
    <3>1. /\ issued \in Nat /\ ingress.surface \in Nat /\ ingress.surface <= issued
          /\ owned \in Nat /\ owned <= issued
          /\ Below(inbox, "update", issued + 1)
          /\ Below(inbox, "destroyed", issued + 1) /\ Below(rq, "destroyed", issued + 1)
      BY TypeFacts DEF RunInv, OrderOfSurfaces
    <3>2. Below(inbox, "update", issued + 2) /\ Below(inbox, "destroyed", issued + 2)
          /\ Below(rq, "destroyed", issued + 2)
      BY <3>1, BelowMore, GenerationsNamed, Zenon
    <3>3. /\ issued + 1 + 1 = issued + 2 /\ owned # issued + 1 /\ owned <= issued + 1
          /\ ingress.surface <= issued + 1 /\ ingress.surface # issued + 1
      BY <3>1
    <3>4. OrderOfSurfaces'
      BY <2>1, <2>3, <3>1, <3>2, <3>3, Zenon DEF OrderOfSurfaces
    <3>5. Waiting'
      BY <2>1, <2>3, <3>3, Zenon DEF RunInv, Waiting, Candidate
    <3>6. Binding' /\ Installing' /\ Showing'
      BY <2>1, <2>3, <3>3, Zenon DEF Binding, Installing, Showing
    <3> QED
      BY <3>4, <3>5, <3>6, SMTT(30) DEF RunInv
  <2> QED
    BY <1>6, <2>2, <2>3 DEF SurfaceUpdateFails
<1>7. CASE MarkResourcesReady
  BY <1>7, QuietSteps, QuietKeeps
<1>8. CASE SendInput
  <2>1. /\ UNCHANGED <<ingress, rq, render, session, slot, reply, late, live, issued, owned>>
        /\ UNCHANGED <<stray, attached, visibility>>
        /\ inbox' = inbox \/ inbox' = Append(inbox, [op |-> "input"])
    BY <1>8 DEF SendInput, TrySend, thread, context
  <2>2. CASE inbox' = inbox
    BY <2>1, <2>2, QuietKeeps, SMTT(30) DEF Quiet
  <2>3. CASE inbox' = Append(inbox, [op |-> "input"])
    BY <2>1, <2>3, CommandJoins DEF RunInv, Stops
  <2> QED
    BY <2>1, <2>2, <2>3, SMTT(30)
<1>9. CASE Shutdown
  <2>1. /\ live' = 0 /\ UNCHANGED <<ingress, rq, session, reply, issued, owned>>
        /\ inbox' = inbox \/ inbox' = Append(inbox, [op |-> "shutdown"])
    BY <1>9 DEF Shutdown, TrySend, thread
  <2> QED
    BY <2>1, Retires
<1> QED
  BY <1>1, <1>2, <1>3, <1>4, <1>5, <1>6, <1>7, <1>8, <1>9, SMTT(30) DEF HostStep

\* The losses: the report of an old one strays if it pauses another surface.
LEMMA LossKeepsRunning ==
  ASSUME TypeInv, RunInv, LossStep
  PROVE  RunInv'
<1>1. CASE SurfaceLost
  <2>1. live' = 0 /\ UNCHANGED <<ingress, rq, session, reply, issued, owned, inbox>>
    BY <1>1, Zenon DEF SurfaceLost, thread, loop
  <2> QED
    BY <2>1, Retires
<1>2. CASE Report
  <2> DEFINE c == [op |-> "lost"]
  <2>1. /\ inbox' = Append(inbox, c)
        /\ UNCHANGED <<ingress, rq, render, session, slot, reply, late, live, issued, owned>>
        /\ attached' = attached /\ stray' = (stray \/ (attached = "active" /\ Current))
    BY <1>2, Zenon DEF Report, Reliable, thread, host
  <2>2. OrderOfSurfaces' /\ Waiting' /\ Binding' /\ Installing'
    BY <2>1, CommandJoins
  <2>3. Showing'
    BY <2>1, Zenon DEF Showing, Current
  <2> QED
    BY <2>2, <2>3 DEF RunInv
<1>3. CASE ContextLost
  BY <1>3, QuietSteps, QuietKeeps
<1> QED
  BY <1>1, <1>2, <1>3, Zenon DEF LossStep

\* The session thread takes a command; it is not waiting then.
LEMMA Takes ==
  ASSUME TypeInv, RunInv, NEW o, Take(o)
  PROVE  /\ session = "select" /\ reply = "none" /\ Head(inbox).op = o
         /\ Head(inbox) \in Commands /\ Shrinks(inbox, Head(inbox), inbox')
<1>1. session = "select" /\ inbox # <<>> /\ Head(inbox).op = o /\ inbox' = Tail(inbox)
  BY Zenon DEF Take
<1>2. reply = "none"
  BY <1>1 DEF RunInv, Waiting
<1>3. Head(inbox) \in Commands
  BY <1>1, TypeFacts, HeadTyped, Zenon
<1>4. Shrinks(inbox, Head(inbox), inbox')
  BY <1>1, TypeFacts, Leaves, Zenon
<1> QED
  BY <1>1, <1>2, <1>3, <1>4

\* What a taken command must leave of a shown session.
LEMMA StillShowing ==
  ASSUME Showing, UNCHANGED <<late, stray, live, owned, attached, visibility>>,
         NEW h, Shrinks(inbox, h, inbox'), h # UpdateTo(live),
         live # 0 /\ Installed => Installed',
         h = ShowCommand /\ live # 0 /\ Installed => RendererRuns',
         h.op \notin Stops /\ RendererRuns => RendererRuns'
  PROVE  Showing'
<1>1. /\ Last(inbox, ShowCommand, Stops) =>
           Last(inbox', ShowCommand, Stops) \/ (h = ShowCommand /\ Free(inbox', Stops))
      /\ After(inbox, UpdateTo(live), ShowCommand, Stops) =>
           After(inbox', UpdateTo(live), ShowCommand, Stops)
      /\ Free(inbox, Stops) => Free(inbox', Stops) /\ h.op \notin Stops
  BY Zenon DEF Shrinks
<1>2. /\ live' = live /\ late' = late /\ attached' = attached /\ visibility' = visibility
      /\ stray' = stray /\ (Current' <=> Current) /\ (Current => live # 0)
  BY Zenon DEF Current
<1> SUFFICES ASSUME Current, ~late, ~stray, attached = "active", visibility = "shown"
             PROVE  \/ Installed' /\ Last(inbox', ShowCommand, Stops)
                    \/ After(inbox', UpdateTo(live), ShowCommand, Stops)
                    \/ Free(inbox', Stops) /\ RendererRuns'
  BY <1>2 DEF Showing
<1>3. \/ Installed /\ Last(inbox, ShowCommand, Stops)
      \/ After(inbox, UpdateTo(live), ShowCommand, Stops)
      \/ Free(inbox, Stops) /\ RendererRuns
  BY Zenon DEF Showing
<1> QED
  BY <1>1, <1>2, <1>3, Zenon

\* UpdateSurface: an update to the live surface goes to the ingress as it is.
LEMMA UpdateKeepsRunning ==
  ASSUME TypeInv, RunInv, HandleUpdate
  PROVE  RunInv'
<1> USE DEF Candidate, Current
<1> DEFINE h == Head(inbox)
<1>1. /\ session = "select" /\ reply = "none" /\ h.op = "update" /\ h \in Commands
      /\ Shrinks(inbox, h, inbox')
  BY Takes DEF HandleUpdate
<1>2. /\ session' = "publish"
      /\ UNCHANGED <<rq, render, slot, reply, late, stray, live, issued, owned, attached,
                     visibility>>
      /\ ingress' = [ingress EXCEPT !.surface =
           IF h.generation < ingress.surface THEN @ ELSE h.generation]
  BY DEF HandleUpdate, SetSurfaceGeneration, thread, context, host
<1>3. /\ h.generation \in Nat /\ h.generation < issued + 1
      /\ issued \in Nat /\ ingress.surface \in Nat /\ ingress.surface <= issued
  <2>1. h.generation \in Generations
    BY <1>1, CommandFields, Zenon
  <2>2. h.generation < issued + 1
    BY <1>1, Zenon DEF RunInv, OrderOfSurfaces, Shrinks
  <2> QED
    BY <2>1, <2>2, TypeFacts DEF RunInv, OrderOfSurfaces, Generations
<1>4. ingress'.surface = IF h.generation < ingress.surface THEN ingress.surface
                         ELSE h.generation
  BY <1>2 DEF TypeInv, IngressTypes
<1>5. ingress'.surface <= issued /\ (h.generation = issued => ingress'.surface = issued)
  BY <1>3, <1>4, SMTT(30)
<1>6. live # 0 /\ h = UpdateTo(live) => ingress'.surface = live
  BY <1>5 DEF RunInv, OrderOfSurfaces, UpdateTo
<1>7. h # ShowCommand
  BY <1>1 DEF ShowCommand
<1> HIDE DEF h
<1>8. OrderOfSurfaces'
  BY <1>1, <1>2, <1>5, Zenon DEF RunInv, OrderOfSurfaces, Shrinks
<1>9. Waiting'
  BY <1>1, <1>2 DEF Waiting
<1>10. Binding' /\ Installing'
  BY <1>1, <1>2, <1>6 DEF RunInv, Binding, Installing, Installed, Shrinks
<1>11. Showing'
  BY <1>1, <1>2, <1>6, <1>7 DEF RunInv, Showing, Installed, RendererRuns, Shrinks
<1> QED
  BY <1>8, <1>9, <1>10, <1>11 DEF RunInv

\* The other commands.
LEMMA CommandKeepsRunning ==
  ASSUME TypeInv, RunInv,
         HandleDestroyed \/ HandlePause \/ HandleShow \/ HandleInput \/ HandleShutdown
  PROVE  RunInv'
<1> USE DEF Candidate, Current
<1> DEFINE h == Head(inbox)
<1>1. /\ session = "select" /\ reply = "none" /\ h \in Commands
      /\ Shrinks(inbox, h, inbox') /\ h.op # "update"
  <2>1. \E o \in {"destroyed", "hide", "lost", "show", "input", "shutdown"} : Take(o)
    BY Zenon DEF HandleDestroyed, HandlePause, HandleShow, HandleInput, HandleShutdown
  <2>2. PICK o \in {"destroyed", "hide", "lost", "show", "input", "shutdown"} : Take(o)
    BY <2>1, Zenon
  <2>3. /\ session = "select" /\ reply = "none" /\ h.op = o
        /\ h \in Commands /\ Shrinks(inbox, h, inbox')
    BY <2>2, Takes, ZenonT(60), SMTT(30)
  <2> QED
    BY <2>2, <2>3
<1>2. /\ UNCHANGED <<ingress, render, reply, late, stray, live, issued, owned, attached,
                     visibility>>
      /\ session' \in {"select", "exited"}
  BY <1>1
  DEF HandleDestroyed, HandlePause, HandleShow, HandleInput, HandleShutdown, thread,
      context, host
<1>3. \A g : h # UpdateTo(g)
  BY <1>1 DEF UpdateTo
<1> HIDE DEF h
<1>4. Waiting'
  BY <1>1, <1>2 DEF Waiting
<1>5. CASE HandleDestroyed
  <2>1. /\ h.op = "destroyed" /\ session' = session
        /\ \/ slot = h.generation /\ rq' = Append(rq, h)
           \/ slot' = slot /\ rq' = rq
    BY <1>5 DEF HandleDestroyed, Take, h
  <2>2. live # 0 => h.generation < live /\ h.generation # live
    <3>1. live # 0 => h.generation < live
      BY <1>1, <2>1, Zenon DEF RunInv, OrderOfSurfaces, Shrinks
    <3> QED
      BY <3>1, TypeFacts
  <2>3. live # 0 /\ slot = live => slot' = live
    BY <1>5, <2>2 DEF HandleDestroyed, h
  <2>4. rq' = rq \/ Grows(rq, h, rq')
    BY <2>1, TypeFacts, Joins, Zenon
  <2>5. h.generation < issued + 1
    BY <1>1, <2>1, Zenon DEF RunInv, OrderOfSurfaces, Shrinks
  <2>6. OrderOfSurfaces'
    BY <1>1, <1>2, <2>1, <2>2, <2>4, <2>5, Zenon
    DEF RunInv, OrderOfSurfaces, Shrinks, Grows
  <2>7. Binding'
    BY <1>1, <1>2, <1>3, <2>4, ZenonT(60), SMTT(30) DEF RunInv, Binding, Shrinks, Grows
  <2>8. Installing'
    BY <1>1, <1>2, <1>3, <2>3 DEF RunInv, Installing, Installed, Shrinks
  <2>9. RendererRuns => RendererRuns'
    <3>1. h.op \notin {"pause"}
      BY <2>1, SMTT(30)
    <3> QED
      BY <1>2, <2>4, <3>1, Zenon DEF RendererRuns, Grows
  <2>10. h # ShowCommand
    BY <2>1 DEF ShowCommand
  <2>11. live # 0 /\ Installed => Installed'
    BY <1>1, <1>2, <2>3 DEF Installed
  <2>12. Showing'
    BY <1>1, <1>2, <1>3, <2>9, <2>10, <2>11, StillShowing, Zenon DEF RunInv
  <2> QED
    BY <1>4, <2>6, <2>7, <2>8, <2>12, SMTT(30) DEF RunInv
<1>6. CASE HandlePause
  <2>1. /\ h.op \in Stops /\ session' = session /\ slot' = slot
        /\ rq' = Append(rq, [op |-> "pause"])
    BY <1>6 DEF HandlePause, Take, h, Stops
  <2>2. Grows(rq, [op |-> "pause"], rq')
    BY <2>1, TypeFacts, Joins, Zenon
  <2>3. OrderOfSurfaces'
    BY <1>1, <1>2, <2>2, Zenon DEF RunInv, OrderOfSurfaces, Shrinks, Grows
  <2>4. Binding' /\ Installing'
    BY <1>1, <1>2, <1>3, <2>1, <2>2, Zenon
    DEF RunInv, Binding, Installing, Installed, Shrinks, Grows
  <2>5. h # ShowCommand
    BY <2>1, SMTT(30) DEF ShowCommand, Stops
  <2>6. live # 0 /\ Installed => Installed'
    BY <1>1, <1>2, <2>1 DEF Installed
  <2>7. Showing'
    BY <1>1, <1>2, <1>3, <2>1, <2>5, <2>6, StillShowing, ZenonT(60), SMTT(30) DEF RunInv
  <2> QED
    BY <1>4, <2>3, <2>4, <2>7, SMTT(30) DEF RunInv
<1>7. CASE HandleShow
  <2>1. /\ session' = session /\ slot' = slot
        /\ rq' = IF HasLiveSurface THEN Append(rq, ResumeCommand) ELSE rq
    BY <1>7 DEF HandleShow, ResumeCommand
  <2>2. rq' = rq \/ Grows(rq, ResumeCommand, rq')
    BY <2>1, TypeFacts, Joins, Zenon
  <2>3. live # 0 /\ slot = live => Grows(rq, ResumeCommand, rq')
    BY <2>1, TypeFacts, Joins, Zenon DEF HasLiveSurface
  <2>4. ResumeCommand.op = "resume"
    BY SMTT(30) DEF ResumeCommand
  <2>5. OrderOfSurfaces'
    BY <1>1, <1>2, <2>2, <2>4, Zenon DEF RunInv, OrderOfSurfaces, Shrinks, Grows
  <2>6. Binding' /\ Installing'
    BY <1>1, <1>2, <1>3, <2>1, <2>2, Zenon
    DEF RunInv, Binding, Installing, Installed, Shrinks, Grows
  <2>7. /\ RendererRuns => RendererRuns'
        /\ live # 0 /\ slot = live => RendererRuns'
    BY <1>2, <2>2, <2>3, Zenon DEF RendererRuns, Grows
  <2>8. /\ live # 0 /\ Installed => Installed'
        /\ live # 0 /\ Installed => slot = live
    BY <1>1, <1>2, <2>1 DEF Installed
  <2>9. Showing'
    BY <1>1, <1>2, <1>3, <2>7, <2>8, StillShowing, ZenonT(60), SMTT(30) DEF RunInv
  <2> QED
    BY <1>4, <2>5, <2>6, <2>9 DEF RunInv
<1>8. CASE HandleInput \/ HandleShutdown
  <2>1. h.op \in {"input", "shutdown"} /\ UNCHANGED <<rq, slot>>
    BY <1>8 DEF HandleInput, HandleShutdown, Take, h, thread
  <2>2. h # ShowCommand
    BY <2>1 DEF ShowCommand
  <2>3. OrderOfSurfaces'
    BY <1>1, <1>2, <2>1, ZenonT(60) DEF RunInv, OrderOfSurfaces, Shrinks
  <2>4. Binding' /\ Installing'
    BY <1>1, <1>2, <1>3, <2>1, SMTT(30) DEF RunInv, Binding, Installing, Installed, Shrinks
  <2>5. /\ live # 0 /\ Installed => Installed'
        /\ RendererRuns => RendererRuns'
    BY <1>1, <1>2, <2>1 DEF Installed, RendererRuns
  <2>6. Showing'
    BY <1>1, <1>2, <1>3, <2>2, <2>5, StillShowing, Zenon DEF RunInv
  <2> QED
    BY <1>4, <2>3, <2>4, <2>6 DEF RunInv
<1> QED
  BY <1>5, <1>6, <1>7, <1>8, SMTT(30)

\* RenderService::update_surface: the recreate is sent and waited for.
LEMMA InstallKeepsRunning ==
  ASSUME TypeInv, RunInv, Publish \/ UpdateReplied \/ UpdateTimeout
  PROVE  RunInv'
<1> USE DEF Candidate, Current
<1>1. UNCHANGED <<ingress, render, inbox, stray, live, issued, owned, attached, visibility>>
  BY SMTT(30) DEF Publish, UpdateReplied, UpdateTimeout, thread, context, host
<1>2. CASE Publish
  <2> DEFINE c == RecreateTo(Candidate)
  <2>1. reply = "none" /\ UNCHANGED <<slot, reply, late>>
    BY <1>2 DEF Publish, RunInv, Waiting
  <2>2. CASE Candidate = live /\ session' = "wait" /\ rq' = Append(rq, c)
    <3>1. Grows(rq, c, rq') /\ c.op = "recreate"
      <4>1. Grows(rq, c, rq')
        BY <2>2, TypeFacts, Joins, Zenon
      <4> QED
        BY <4>1 DEF RecreateTo
    <3>2. c = RecreateTo(Candidate') /\ c = RecreateTo(live')
      BY <1>1, <2>2, ZenonT(60)
    <3> HIDE DEF c
    <3>3. OrderOfSurfaces'
      BY <1>1, <3>1 DEF RunInv, OrderOfSurfaces, Grows
    <3>4. Waiting'
      BY <2>1, <3>1, <3>2, Zenon DEF Waiting, Grows
    <3>5. Binding'
      BY <3>1, <3>2, Zenon DEF Binding, Grows
    <3>6. Installed'
      BY <1>1, <2>2, ZenonT(60) DEF Installed
    <3>7. RendererRuns => RendererRuns'
      BY <1>1, <3>1 DEF RendererRuns, Grows
    <3>8. Installing' /\ Showing'
      BY <1>1, <2>1, <3>6, <3>7, Zenon DEF RunInv, Installing, Showing
    <3> QED
      BY <3>3, <3>4, <3>5, <3>8, SMTT(30) DEF RunInv
  <2>3. CASE Candidate # live /\ session' = "select" /\ UNCHANGED rq
    <3>1. session = "publish"
      BY <1>2, ZenonT(60) DEF Publish
    <3>2. OrderOfSurfaces' /\ Waiting'
      BY <1>1, <2>1, <2>3 DEF RunInv, OrderOfSurfaces, Waiting
    <3>3. Binding' /\ Installing' /\ Showing'
      BY <1>1, <2>1, <2>3, <3>1, Zenon
      DEF RunInv, Binding, Installing, Showing, Installed, RendererRuns
    <3> QED
      BY <3>2, <3>3 DEF RunInv
  <2> QED
    BY <1>2, <2>2, <2>3, SMTT(30) DEF Publish, RecreateTo
<1>3. CASE UpdateReplied
  <2>1. /\ session = "wait" /\ reply \in {"ok", "failed"} /\ reply' = "none"
        /\ session' = "select" /\ UNCHANGED <<rq, late>>
        /\ slot' = IF reply = "ok" /\ Candidate = live THEN Candidate ELSE slot
    BY <1>3, SMTT(30) DEF UpdateReplied, thread, TypeInv, LoopTypes
  <2>2. live # 0 /\ Installed => slot' = live'
    BY <1>1, <2>1, SMTT(30) DEF RunInv, Waiting, Installed
  <2>3. OrderOfSurfaces' /\ Waiting'
    BY <1>1, <2>1, SMTT(30) DEF RunInv, OrderOfSurfaces, Waiting
  <2>4. Binding'
    BY <1>1, <2>1 DEF RunInv, Binding
  <2>5. Installing' /\ Showing'
    BY <1>1, <2>1, <2>2, Zenon DEF RunInv, Installing, Showing, Installed, RendererRuns
  <2> QED
    BY <2>3, <2>4, <2>5, SMTT(30) DEF RunInv
<1>4. CASE UpdateTimeout
  <2>1. /\ session = "wait" /\ reply = "none" /\ reply' = "none"
        /\ session' = "select" /\ late' /\ rq' = rq
    BY <1>4, SMTT(30) DEF UpdateTimeout, thread
  <2>2. OrderOfSurfaces' /\ Waiting'
    BY <1>1, <2>1, SMTT(30) DEF RunInv, OrderOfSurfaces, Waiting
  <2>3. Binding'
    BY <1>1, <2>1 DEF RunInv, Binding
  <2>4. Installing' /\ Showing'
    BY <2>1, Zenon DEF Installing, Showing
  <2> QED
    BY <2>2, <2>3, <2>4 DEF RunInv
<1> QED
  BY <1>2, <1>3, <1>4, SMTT(30)

\* A frame joins the render queue.
LEMMA DispatchKeepsRunning ==
  ASSUME TypeInv, RunInv, Dispatch
  PROVE  RunInv'
<1> USE DEF Candidate, Current
<1> DEFINE c == [op |-> "frame", sequence |-> submit.sequence]
<1>1. /\ rq' = Append(rq, c)
      /\ UNCHANGED <<ingress, render, session, inbox, slot, reply, late, stray, live, issued,
                     owned, attached, visibility>>
  BY DEF Dispatch, loop, context, host
<1>2. Grows(rq, c, rq')
  BY <1>1, TypeFacts, Joins, Zenon
<1>3. c.op = "frame"
  BY SMTT(30)
<1> HIDE DEF c
<1>4. OrderOfSurfaces'
  BY <1>1, <1>2, <1>3, SMTT(30) DEF RunInv, OrderOfSurfaces, Grows
<1>5. Waiting'
  BY <1>1, <1>2, <1>3, SMTT(30) DEF RunInv, Waiting, Grows
<1>6. Binding' /\ Installing'
  BY <1>1, <1>2, SMTT(30) DEF RunInv, Binding, Installing, Installed, Grows
<1>7. RendererRuns => RendererRuns'
  BY <1>1, <1>2, <1>3 DEF RendererRuns, Grows
<1>8. Showing'
  BY <1>1, <1>7, Zenon DEF RunInv, Showing, Installed
<1> QED
  BY <1>4, <1>5, <1>6, <1>8 DEF RunInv

\* The last recreate is a recreate.
LEMMA LastIsThere ==
  ASSUME NEW s, NEW c, NEW O, c.op \in O, Last(s, c, O)
  PROVE  ~Free(s, O)
BY Zenon DEF Last, Free

\* The session waits for the head of the queue if no recreate is behind it.
LEMMA AwaitedIsLast ==
  ASSUME TypeInv, rq # <<>>, rq' = Tail(rq)
  PROVE  Awaited <=> session = "wait" /\ Free(rq', {"recreate"})
<1>1. /\ \A i \in DOMAIN Tail(rq) : i + 1 \in DOMAIN rq /\ Tail(rq)[i] = rq[i + 1]
      /\ \A i \in DOMAIN rq :
           i = 1 \/ (i - 1 \in DOMAIN Tail(rq) /\ Tail(rq)[i - 1] = rq[i] /\ 1 < i)
      /\ \A i \in DOMAIN rq : i \in Nat
  BY TypeFacts, TailPlaces
<1>2. \A i \in DOMAIN Tail(rq) : i + 1 > 1
  BY TypeFacts
<1>3. \A i \in DOMAIN rq : i > 1 => i # 1
  BY <1>1
<1> QED
  BY <1>1, <1>2, <1>3, Zenon DEF Awaited, Free

\* The render thread executes a command.
LEMMA ExecuteKeepsRunning ==
  ASSUME TypeInv, RunInv, Execute
  PROVE  RunInv'
<1> USE DEF Candidate, Current
<1> DEFINE h == Head(rq)
<1>1. /\ UNCHANGED <<ingress, session, inbox, slot, late, stray, live, issued, owned,
                     attached, visibility>>
      /\ rq # <<>> /\ rq' = Tail(rq)
  BY DEF Execute, ExecuteFrame, ExecuteLevel, ExecuteDestroyed, ExecuteRecreate, Drained,
         loop, context, host
<1>2. h \in RenderCommands /\ Shrinks(rq, h, rq')
  <2>1. h \in RenderCommands
    BY <1>1, TypeFacts, HeadTyped, Zenon
  <2>2. Shrinks(rq, h, rq')
    BY <1>1, TypeFacts, Leaves, Zenon
  <2> QED
    BY <2>1, <2>2
<1>3. CASE ExecuteFrame \/ ExecuteLevel \/ ExecuteDestroyed
  <2>1. reply' = reply /\ h.op # "recreate"
    BY <1>3 DEF ExecuteFrame, ExecuteLevel, ExecuteDestroyed, Drained, loop
  <2>2. \A g : h # RecreateTo(g)
    BY <2>1 DEF RecreateTo
  <2>3. live # 0 /\ render.bound = live => render'.bound = live
    <3>1. CASE ExecuteFrame \/ ExecuteLevel
      BY <3>1 DEF ExecuteFrame, ExecuteLevel, TypeInv, ThreadTypes
    <3>2. CASE ExecuteDestroyed
      <4>1. live # 0 => h.generation < live
        <5>1. h.op = "destroyed"
          BY <3>2 DEF ExecuteDestroyed, Drained
        <5> QED
          BY <1>2, <5>1, Zenon DEF RunInv, OrderOfSurfaces, Shrinks
      <4>2. live # 0 => h.generation # live
        BY <4>1, TypeFacts
      <4> QED
        BY <3>2, <4>2 DEF ExecuteDestroyed, TypeInv, ThreadTypes
    <3> QED
      BY <1>3, <3>1, <3>2
  <2>4. RendererRuns => RendererRuns'
    <3>1. CASE ExecuteLevel
      <4>1. /\ h.op \in {"pause", "resume"}
            /\ render' = [render EXCEPT !.paused = (h.op = "pause")]
        BY <3>1 DEF ExecuteLevel, Drained
      <4>2. "paused" \in DOMAIN render
        BY DEF TypeInv, ThreadTypes
      <4>3. h.op # "pause" => ~render'.paused
        BY <4>1, <4>2, Zenon
      <4>4. h = ResumeCommand => h.op # "pause"
        BY DEF ResumeCommand
      <4> QED
        BY <1>2, <4>1, <4>3, <4>4 DEF RendererRuns, Shrinks
    <3>2. CASE ExecuteFrame \/ ExecuteDestroyed
      <4>1. render'.paused = render.paused /\ h.op \in {"frame", "destroyed"}
        BY <3>2 DEF ExecuteFrame, ExecuteDestroyed, Drained, TypeInv, ThreadTypes
      <4>2. h # ResumeCommand
        BY <4>1 DEF ResumeCommand
      <4> QED
        BY <1>2, <4>1, <4>2, Zenon DEF RendererRuns, Shrinks
    <3> QED
      BY <1>3, <3>1, <3>2
  <2> HIDE DEF h
  <2>5. OrderOfSurfaces'
    BY <1>1, <1>2, <2>1, ZenonT(60), SMTT(30) DEF RunInv, OrderOfSurfaces, Shrinks
  <2>6. Waiting'
    BY <1>1, <1>2, <2>1, <2>2, SMTT(30) DEF RunInv, Waiting, Shrinks
  <2>7. Binding' /\ Installing'
    BY <1>1, <1>2, <2>1, <2>2, <2>3, SMTT(30)
    DEF RunInv, Binding, Installing, Installed, Shrinks
  <2>8. Showing'
    BY <1>1, <2>1, <2>4, Zenon DEF RunInv, Showing, Installed
  <2> QED
    BY <2>5, <2>6, <2>7, <2>8 DEF RunInv
<1>4. CASE ExecuteRecreate
  <2> DEFINE g == h.generation
  <2>1. h.op = "recreate"
    BY <1>4, SMTT(30) DEF ExecuteRecreate, Drained
  <2>2. /\ reply = "none" /\ ~Free(rq, {"recreate"})
        /\ Awaited <=> session = "wait" /\ Free(rq', {"recreate"})
    BY <1>1, <1>2, <2>1, AwaitedIsLast DEF RunInv, Waiting, Shrinks
  <2>3. Awaited => h = RecreateTo(Candidate)
    <3>1. RecreateTo(Candidate).op = "recreate"
      BY DEF RecreateTo
    <3>2. Last(rq', RecreateTo(Candidate), {"recreate"}) => ~Free(rq', {"recreate"})
      BY <3>1, LastIsThere, SMTT(30)
    <3> QED
      BY <1>2, <2>2, <3>2, Zenon DEF RunInv, Waiting, Shrinks
  <2>4. Awaited /\ g # live => Candidate # live
    BY <2>3 DEF RecreateTo
  <2>5. ~Awaited /\ session = "wait" => Last(rq', RecreateTo(Candidate), {"recreate"})
    BY <1>2, <2>2, Zenon DEF RunInv, Waiting, Shrinks
  <2>6. h # ResumeCommand
    BY <2>1 DEF ResumeCommand
  <2>7. CASE g = live /\ Answer("ok")
             /\ render' = [render EXCEPT !.bound = g, !.newest = g]
    <3>1. OrderOfSurfaces'
      BY <1>1, <1>2, <2>7, Zenon DEF RunInv, OrderOfSurfaces, Shrinks
    <3>2. Waiting'
      BY <1>1, <2>2, <2>5, <2>7 DEF Waiting, Answer
    <3>3. render'.bound = live /\ render'.paused = render.paused
      BY <2>7 DEF TypeInv, ThreadTypes
    <3>4. Binding' /\ Installing'
      BY <1>1, <2>7, <3>3, Zenon DEF RunInv, Binding, Installing, Installed
    <3>5. RendererRuns => RendererRuns'
      BY <1>2, <2>6, <3>3, Zenon DEF RendererRuns, Shrinks
    <3>6. Showing'
      BY <1>1, <2>7, <3>5, Zenon DEF RunInv, Showing, Installed
    <3> QED
      BY <3>1, <3>2, <3>4, <3>6 DEF RunInv
  <2>8. CASE g # live /\ Answer("failed") /\ UNCHANGED render
    <3>1. OrderOfSurfaces'
      BY <1>1, <1>2, <2>8, ZenonT(60) DEF RunInv, OrderOfSurfaces, Shrinks
    <3>2. Waiting'
      BY <1>1, <2>2, <2>4, <2>5, <2>8, SMTT(30) DEF Waiting, Answer
    <3>3. h # RecreateTo(live)
      BY <2>8 DEF RecreateTo
    <3>4. Binding' /\ Installing'
      BY <1>1, <1>2, <2>8, <3>3, Zenon DEF RunInv, Binding, Installing, Installed, Shrinks
    <3>5. RendererRuns => RendererRuns'
      BY <1>2, <2>6, <2>8, Zenon DEF RendererRuns, Shrinks
    <3>6. Showing'
      BY <1>1, <2>8, <3>5, Zenon DEF RunInv, Showing, Installed
    <3> QED
      BY <3>1, <3>2, <3>4, <3>6 DEF RunInv
  <2> QED
    BY <1>4, <2>7, <2>8 DEF ExecuteRecreate
<1> QED
  BY <1>3, <1>4, SMTT(30) DEF Execute

\* The inductive invariant of ForegroundRuns.
THEOREM RunInvariant == Spec => [](TypeInv /\ RunInv)
<1>1. Init => TypeInv /\ RunInv
  <2> SUFFICES ASSUME Init PROVE RunInv
    BY InitTyped, SMTT(30)
  <2>1. /\ inbox = <<>> /\ rq = <<>> /\ live = 1 /\ issued = 1 /\ ingress.surface = 0
        /\ render.bound = 1 /\ session = "select" /\ reply = "none" /\ slot = 1
        /\ visibility = "unset" /\ owned = 1
    BY DEF Init
  <2>2. OrderOfSurfaces
    BY <2>1, SMTT(30) DEF OrderOfSurfaces, Below
  <2>3. Waiting /\ Binding /\ Installing /\ Showing
    BY <2>1 DEF Waiting, Binding, Installing, Installed, Showing, Current
  <2> QED
    BY <2>2, <2>3 DEF RunInv
<1>2. TypeInv /\ RunInv /\ [Next]_vars => RunInv'
  <2> SUFFICES ASSUME TypeInv, RunInv, [Next]_vars PROVE RunInv'
    OBVIOUS
  <2>1. CASE UNCHANGED vars
    BY <2>1, QuietKeeps DEF vars, thread, loop, context, host, Quiet
  <2>2. CASE Next
    BY <2>2, QuietSteps, QuietKeeps, HostKeepsRunning, UpdateKeepsRunning,
       CommandKeepsRunning, InstallKeepsRunning, DispatchKeepsRunning,
       ExecuteKeepsRunning, LossKeepsRunning, Zenon
    DEF Next, ProducerStep, SessionStep
  <2> QED
    BY <2>1, <2>2, SMTT(30)
<1> QED
  BY <1>1, <1>2, TypesKept, PTL DEF Spec

\* A shown session whose attached surface is live renders to it once its commands are
\* handled, for every number of surfaces, commands and losses, although a loss is
\* reported late and a failing update hides a generation from the attachment: the
\* attach repeats the visibility behind its update.  Only a recreate that timed out and
\* a report that came after the next attach, until the visibility is set, defeat it.
THEOREM ExternalForegroundHolds == Spec => []ForegroundRuns
<1>1. RunInv => ForegroundRuns
  <2> SUFFICES ASSUME RunInv, Settled, attached = "active", Current,
                      visibility = "shown", ~late, ~stray
               PROVE  ~render.paused /\ render.bound = live
    BY DEF ForegroundRuns
  <2>1. session = "select" /\ DOMAIN inbox = {} /\ DOMAIN rq = {}
    BY DEF Settled
  <2>2. render.bound = live
    BY <2>1 DEF RunInv, Binding, Has
  <2>3. ~render.paused
    BY <2>1, Zenon DEF RunInv, Showing, RendererRuns, Last, After
  <2> QED
    BY <2>2, <2>3
<1> QED
  BY <1>1, RunInvariant, PTL

=============================================================================
