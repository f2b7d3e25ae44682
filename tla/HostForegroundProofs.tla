------------------------ MODULE HostForegroundProofs ------------------------
(***************************************************************************)
(* Proofs about foreground, background and restart of an embedded session, *)
(* for every number of generations, every length of the two queues and any *)
(* number of retries.                                                      *)
(***************************************************************************)
EXTENDS HostForeground, SequenceTheorems, TLAPS

-----------------------------------------------------------------------------
(* The inductive invariant *)

\* The newest generation is the only one that can be live, so that what is older
\* than a live one has been retired for good.
GateInv ==
  /\ live \in {0, issued} /\ torelease <= issued
  /\ live # 0 => torelease < live
  /\ slot <= issued /\ binding <= issued /\ staged.generation <= issued

Waiting == host \in {"updating", "restoring"}

Recreates(i) == i \in 1..Len(rq) /\ rq[i].op = "recreate"

\* Recreates are asked for in the order of the generations, none older than what
\* the slot holds; a staged one is no older than what is bound.
OrderInv ==
  /\ \A i \in 1..Len(rq) :
       rq[i].op = "recreate" => slot <= rq[i].generation /\ rq[i].generation <= issued
  /\ staged.generation # 0 => /\ slot <= staged.generation
                              /\ binding <= staged.generation
  /\ staged.generation = 0 => ~staged.awaited

\* One recreate at most has a host that waits for it, it is the last one asked
\* for, and its reply is about the candidate of that host.
ReplyInv ==
  /\ Waiting => cand \in 1..issued /\ slot <= cand
  /\ host = "restoring" => cand = slot
  /\ \A i \in 1..Len(rq) :
       rq[i].op = "recreate" /\ rq[i].awaited =>
         /\ Waiting /\ reply = "none" /\ rq[i].generation = cand
         /\ \A j \in (i + 1)..Len(rq) : rq[j].op # "recreate"
  /\ staged.awaited =>
       /\ Waiting /\ reply = "none" /\ staged.generation = cand
       /\ \A j \in 1..Len(rq) : rq[j].op # "recreate"
  /\ reply # "none" =>
       /\ Waiting /\ staged.generation = 0
       /\ \A j \in 1..Len(rq) : rq[j].op # "recreate"
  /\ reply = "ok" /\ IsLive(cand) => binding = cand

\* What the render thread has bound and is live has a size, and is ready unless
\* rendering is paused.
SystemInv ==
  /\ render = "running" => system.state # "paused"
  /\ IsLive(binding) => system.sized /\ (render = "running" => system.state = "ready")

IsLevel(c) == c.op \in {"pause", "resume"}

LevelOp(level) == IF level = "running" THEN "resume" ELSE "pause"

\* Unless a Pause or Resume was lost, the render thread will have followed audio
\* once it has handled its queue.
LevelInv ==
  ~dropped =>
    /\ \A i \in 1..Len(rq) :
         IsLevel(rq[i]) /\ (\A j \in (i + 1)..Len(rq) : ~IsLevel(rq[j]))
           => rq[i].op = LevelOp(audio)
    /\ (\A i \in 1..Len(rq) : ~IsLevel(rq[i])) => render = audio

\* What the host's flags say of each other between two commands.
ShowInv ==
  /\ visible = "hidden" /\ ~restarted => audio = "paused"
  /\ pendingShow => visible = "shown" /\ ~HasLiveSurface
  /\ visible = "shown" => pendingShow \/ timers = "shown"
  /\ visible = "shown" /\ HasLiveSurface /\ host \notin {"rebuild", "restoring", "resume"}
       => audio = "running"

ForegroundInv ==
  TypeOK /\ GateInv /\ OrderInv /\ ReplyInv /\ SlotIsBound /\ SystemInv /\ LevelInv /\ ShowInv

-----------------------------------------------------------------------------
(* Types *)

\* The platform's command is put behind the ones that wait.
LEMMA EnqueueTypes ==
  ASSUME TypeOK, NEW c \in Commands, Enqueue(c)
  PROVE  inbox' \in Seq(Commands) /\ Len(inbox') <= MaxInbox
BY ForegroundAssumption DEF TypeOK, Enqueue

\* The host takes the oldest command.
LEMMA TakeTypes ==
  ASSUME TypeOK, NEW op, Take(op)
  PROVE  /\ inbox' \in Seq(Commands) /\ Len(inbox') <= MaxInbox
         /\ Head(inbox) \in Commands /\ Head(inbox).op = op
  BY ForegroundAssumption DEF TypeOK, Take

\* A send adds the command at the end, or nothing.
LEMMA SendTypes ==
  ASSUME TypeOK, NEW c \in RenderCommands, Send(c)
  PROVE  rq' \in Seq(RenderCommands) /\ Len(rq') <= QueueCapacity
BY ForegroundAssumption DEF TypeOK, Send

\* The render thread takes the oldest command.
LEMMA TakeRenderTypes ==
  ASSUME TypeOK, NEW op, TakeRender(op)
  PROVE  /\ rq' \in Seq(RenderCommands) /\ Len(rq') <= QueueCapacity
         /\ Head(rq) \in RenderCommands /\ Head(rq).op = op
BY ForegroundAssumption DEF TypeOK, TakeRender

\* An abandoned reply changes who waits, not what is queued.
LEMMA AbandonTypes ==
  ASSUME TypeOK, AbandonReply
  PROVE  /\ rq' \in Seq(RenderCommands) /\ Len(rq') = Len(rq)
         /\ \A i \in 1..Len(rq) :
              /\ rq'[i].op = rq[i].op
              /\ rq[i].op = "recreate" =>
                   rq'[i].generation = rq[i].generation /\ ~rq'[i].awaited
         /\ staged' = [generation |-> staged.generation, awaited |-> FALSE]
<1>1. rq \in Seq(RenderCommands) /\ DOMAIN rq = 1..Len(rq) /\ Len(rq) \in Nat
  BY DEF TypeOK
<1>2. ASSUME NEW i \in 1..Len(rq), rq[i].op = "recreate"
      PROVE  /\ rq'[i] = [rq[i] EXCEPT !.awaited = FALSE]
             /\ rq[i] \in [op : {"recreate"}, generation : Generations, awaited : BOOLEAN]
  BY <1>1, <1>2 DEF AbandonReply, RenderCommands
<1>3. ASSUME NEW i \in 1..Len(rq), rq[i].op # "recreate"
      PROVE  rq'[i] = rq[i]
  BY <1>1, <1>3, Zenon DEF AbandonReply
<1>4. ASSUME NEW i \in 1..Len(rq)
      PROVE  rq'[i] \in RenderCommands
  <2>1. CASE rq[i].op = "recreate"
    <3>1. rq'[i] \in [op : {"recreate"}, generation : Generations, awaited : BOOLEAN]
      BY <1>2, <2>1, Zenon
    <3> QED
      BY <3>1, Zenon DEF RenderCommands
  <2>2. CASE rq[i].op # "recreate"
    BY <1>1, <1>3, <2>2
  <2> QED
    BY <2>1, <2>2, Zenon
<1>5. rq' = [i \in 1..Len(rq) |-> rq'[i]]
  BY <1>1, Zenon DEF AbandonReply
<1>6. rq' \in Seq(RenderCommands) /\ Len(rq') = Len(rq)
  BY <1>1, <1>4, <1>5
<1>7. staged' = [generation |-> staged.generation, awaited |-> FALSE]
  BY Zenon DEF TypeOK, AbandonReply
<1> QED
  BY <1>2, <1>3, <1>6, <1>7, Zenon

\* The plain commands of the two queues.
LEMMA PlainCommands ==
  /\ \A o \in {"show", "hide", "restart"} : [op |-> o] \in Commands
  /\ \A o \in {"update", "destroyed"}, g \in Generations :
       [op |-> o, generation |-> g] \in Commands
  /\ \A o \in {"pause", "resume", "draw"} : [op |-> o] \in RenderCommands
  /\ \A g \in Generations, a \in BOOLEAN :
       [op |-> "recreate", generation |-> g, awaited |-> a] \in RenderCommands
  /\ \A c \in Commands : c.op \in {"update", "destroyed"} => c.generation \in Generations
  /\ \A c \in Commands : c.op = "destroyed" => c \in RenderCommands
  /\ \A c \in RenderCommands : c.op = "recreate" =>
       c.generation \in Generations /\ c.awaited \in BOOLEAN
BY Zenon DEF Commands, RenderCommands

\* The state machine of the onscreen Surface.
LEMMA SystemTypes ==
  ASSUME NEW s \in SurfaceSystems
  PROVE  /\ OnSurfaceAvailable(s) \in SurfaceSystems
         /\ OnSurfaceDestroyed(s) \in SurfaceSystems
         /\ OnPause(s) \in SurfaceSystems /\ OnResume(s) \in SurfaceSystems
BY Zenon
   DEF SurfaceSystems, OnSurfaceAvailable, OnSurfaceDestroyed, OnPause, OnResume

\* A handler that keeps what the host waits for and what is queued.
LEMMA PlatformTypes ==
  ASSUME TypeOK, PlatformStep
  PROVE  TypeOK'
<1>1. CASE OnShow \/ OnHide \/ OnRestart
  <2>1. PICK c \in Commands : Enqueue(c)
    BY <1>1, PlainCommands, Zenon DEF OnShow, OnHide, OnRestart
  <2>2. inbox' \in Seq(Commands) /\ Len(inbox') <= MaxInbox
    BY <2>1, EnqueueTypes, Zenon
  <2> QED
    BY <1>1, <2>2, SMTT(30) DEF TypeOK, OnShow, OnHide, OnRestart, gate, wait, levels, thread
<1>2. CASE UpdateSurface
  <2>1. live' \in Generations /\ issued' \in 0..MaxGeneration
    BY <1>2, ForegroundAssumption DEF UpdateSurface, TypeOK, Generations
  <2>2. inbox' \in Seq(Commands) /\ Len(inbox') <= MaxInbox
    <3>1. [op |-> "update", generation |-> live'] \in Commands
      BY <2>1, PlainCommands, Zenon
    <3> QED
      BY <1>2, <3>1, EnqueueTypes, Zenon DEF UpdateSurface
  <2> QED
    BY <1>2, <2>1, <2>2 DEF TypeOK, UpdateSurface, Generations, wait, levels, thread
<1>3. CASE SurfaceDestroyed
  <2>1. live \in Generations
    BY <1>3, ForegroundAssumption DEF SurfaceDestroyed, TypeOK, Generations
  <2>2. inbox' \in Seq(Commands) /\ Len(inbox') <= MaxInbox
    <3>1. [op |-> "destroyed", generation |-> live] \in Commands
      BY <2>1, PlainCommands, Zenon
    <3> QED
      BY <1>3, <3>1, EnqueueTypes, Zenon DEF SurfaceDestroyed
  <2> QED
    BY <1>3, <2>1, <2>2, ForegroundAssumption
       DEF TypeOK, SurfaceDestroyed, RetireLive, Generations, wait, levels, thread
<1> QED
  BY <1>1, <1>2, <1>3, Zenon DEF PlatformStep

\* A Pause or Resume is queued or noted as lost.
LEMMA SendLevelTypes ==
  ASSUME TypeOK, NEW op \in {"pause", "resume"}, SendLevel(op)
  PROVE  rq' \in Seq(RenderCommands) /\ Len(rq') <= QueueCapacity /\ dropped' \in BOOLEAN
<1>1. rq' \in Seq(RenderCommands) /\ Len(rq') <= QueueCapacity
  BY PlainCommands, SendTypes, Zenon DEF SendLevel
<1>2. dropped' \in BOOLEAN
  BY Zenon DEF SendLevel
<1> QED
  BY <1>1, <1>2, Zenon

\* A recreate is queued for a live generation.
LEMMA RequestTypes ==
  ASSUME TypeOK, NEW g, Requests(g)
  PROVE  /\ g \in Generations /\ g = live
         /\ rq' \in Seq(RenderCommands) /\ Len(rq') <= QueueCapacity
         /\ Len(rq') = Len(rq) + 1
         /\ rq'[Len(rq) + 1] = [op |-> "recreate", generation |-> g, awaited |-> TRUE]
         /\ \A i \in 1..Len(rq) : rq'[i] = rq[i]
<1>1. g \in Generations /\ g = live
  BY ForegroundAssumption DEF TypeOK, Requests, Prepare, IsLive, Generations
<1> DEFINE c == [op |-> "recreate", generation |-> g, awaited |-> TRUE]
<1>2. c \in RenderCommands
  BY <1>1, PlainCommands, Zenon
<1>3. rq' = Append(rq, c) /\ Len(rq) < QueueCapacity /\ rq \in Seq(RenderCommands)
  BY Zenon DEF Requests, TypeOK
<1> HIDE DEF c
<1>4. /\ rq' \in Seq(RenderCommands) /\ Len(rq') <= QueueCapacity
      /\ Len(rq') = Len(rq) + 1
      /\ rq'[Len(rq) + 1] = c
      /\ \A i \in 1..Len(rq) : rq'[i] = rq[i]
  BY <1>2, <1>3, ForegroundAssumption
<1> QED
  BY <1>1, <1>4, Zenon DEF c

\* A failed attempt is retried or ends the handler.
LEMMA AttemptFailedTypes ==
  ASSUME TypeOK, AttemptFailed
  PROVE  /\ host' \in {"idle", "update"}
         /\ cand' \in 0..MaxGeneration /\ attempts' \in 0..MaxAttempts
BY ForegroundAssumption DEF TypeOK, AttemptFailed

\* The host's handlers keep the types.
LEMMA HostTypes ==
  ASSUME TypeOK, HostStep \/ Draw
  PROVE  TypeOK'
<1> USE DEF gate, wait, levels, thread
<1>1. CASE HandleShow
  <2>1. inbox' \in Seq(Commands) /\ Len(inbox') <= MaxInbox
    BY <1>1, TakeTypes, Zenon DEF HandleShow
  <2>2. CASE HasLiveSurface
    <3>1. rq' \in Seq(RenderCommands) /\ Len(rq') <= QueueCapacity /\ dropped' \in BOOLEAN
      BY <1>1, <2>2, SendLevelTypes, Zenon DEF HandleShow, EnterForeground
    <3> QED
      BY <1>1, <2>1, <2>2, <3>1, Zenon DEF TypeOK, HandleShow, EnterForeground
  <2>3. CASE ~HasLiveSurface
    BY <1>1, <2>1, <2>3, ZenonT(60) DEF TypeOK, HandleShow
  <2> QED
    BY <2>2, <2>3, Zenon
<1>2. CASE HandleHide
  <2>1. inbox' \in Seq(Commands) /\ Len(inbox') <= MaxInbox
    BY <1>2, TakeTypes, Zenon DEF HandleHide
  <2>2. rq' \in Seq(RenderCommands) /\ Len(rq') <= QueueCapacity /\ dropped' \in BOOLEAN
    BY <1>2, SendLevelTypes, Zenon DEF HandleHide
  <2> QED
    BY <1>2, <2>1, <2>2, Zenon DEF TypeOK, HandleHide
<1>3. CASE HandleDestroyed
  <2>1. /\ inbox' \in Seq(Commands) /\ Len(inbox') <= MaxInbox
        /\ Head(inbox) \in Commands /\ Head(inbox).op = "destroyed"
    BY <1>3, TakeTypes, Zenon DEF HandleDestroyed
  <2>2. Head(inbox) \in RenderCommands
    BY <2>1, PlainCommands, Zenon
  <2>3. CASE slot' = 0 /\ Send(Head(inbox))
    <3>1. rq' \in Seq(RenderCommands) /\ Len(rq') <= QueueCapacity
      BY <2>2, <2>3, SendTypes, Zenon
    <3> QED
      BY <1>3, <2>1, <2>3, <3>1, ForegroundAssumption DEF TypeOK, HandleDestroyed
  <2>4. CASE UNCHANGED <<slot, rq>>
    BY <1>3, <2>1, <2>4 DEF TypeOK, HandleDestroyed
  <2> QED
    BY <1>3, <2>3, <2>4, Zenon DEF HandleDestroyed
<1>4. CASE HandleUpdate
  <2>1. /\ inbox' \in Seq(Commands) /\ Len(inbox') <= MaxInbox
        /\ Head(inbox) \in Commands /\ Head(inbox).op = "update"
    BY <1>4, TakeTypes, Zenon DEF HandleUpdate
  <2>2. Head(inbox).generation \in 0..MaxGeneration
    BY <2>1, PlainCommands DEF Generations
  <2> QED
    BY <1>4, <2>1, <2>2, ForegroundAssumption DEF TypeOK, HandleUpdate
<1>5. CASE Attempt
  <2>1. CASE Requests(cand) /\ host' = "updating" /\ UNCHANGED <<cand, attempts>>
    <3>1. rq' \in Seq(RenderCommands) /\ Len(rq') <= QueueCapacity
      BY <2>1, RequestTypes, Zenon
    <3> QED
      BY <1>5, <2>1, <3>1 DEF TypeOK, Attempt
  <2>2. CASE Refused(cand) /\ AttemptFailed
    <3>1. /\ host' \in {"idle", "update"} /\ UNCHANGED rq
          /\ cand' \in 0..MaxGeneration /\ attempts' \in 0..MaxAttempts
      BY <2>2, AttemptFailedTypes, Zenon DEF Refused
    <3> QED
      BY <1>5, <3>1 DEF TypeOK, Attempt
  <2> QED
    BY <1>5, <2>1, <2>2, Zenon DEF Attempt
<1>6. CASE UpdateReplied
  <2>1. CASE reply = "ok" /\ Prepare(cand)
    <3>1. /\ reply' = "none" /\ slot' = cand /\ host' = "idle" /\ attempts' = 0 /\ cand' = 0
          /\ SurfaceInstalled /\ UNCHANGED <<gate, inbox, visible, thread, restarted>>
      BY <1>6, <2>1, Zenon DEF UpdateReplied
    <3>2. CASE visible = "shown"
      <4>1. EnterForeground /\ pendingShow' = FALSE /\ timers' \in {"shown", "hidden"}
        BY <3>1, <3>2, Zenon DEF SurfaceInstalled, TypeOK
      <4>2. rq' \in Seq(RenderCommands) /\ Len(rq') <= QueueCapacity /\ dropped' \in BOOLEAN
        BY <4>1, SendLevelTypes, Zenon DEF EnterForeground
      <4>3. pendingShow' \in BOOLEAN /\ audio' \in {"paused", "running"}
        BY <4>1, Zenon DEF EnterForeground
      <4>4. cand' \in 0..MaxGeneration /\ attempts' \in 0..MaxAttempts
            /\ slot' \in 0..MaxGeneration
        BY <3>1, ForegroundAssumption DEF TypeOK
      <4> QED
        BY <3>1, <4>1, <4>2, <4>3, <4>4, Zenon DEF TypeOK
    <3>3. CASE visible # "shown"
      BY <3>1, <3>3, ForegroundAssumption DEF TypeOK, SurfaceInstalled
    <3> QED
      BY <3>2, <3>3, Zenon
  <2>2. CASE ~(reply = "ok" /\ Prepare(cand))
    <3>1. /\ host' \in {"idle", "update"}
          /\ cand' \in 0..MaxGeneration /\ attempts' \in 0..MaxAttempts
      BY <1>6, <2>2, AttemptFailedTypes, Zenon DEF UpdateReplied
    <3> QED
      BY <1>6, <2>2, <3>1, SMTT(30) DEF TypeOK, UpdateReplied
  <2> QED
    BY <2>1, <2>2, Zenon
<1>7. CASE UpdateTimeout \/ RestoreTimeout
  <2>1. /\ rq' \in Seq(RenderCommands) /\ Len(rq') = Len(rq)
        /\ staged' = [generation |-> staged.generation, awaited |-> FALSE]
    BY <1>7, AbandonTypes, Zenon DEF UpdateTimeout, RestoreTimeout
  <2>2. staged' \in [generation : 0..MaxGeneration, awaited : BOOLEAN]
    BY <2>1, Zenon DEF TypeOK
  <2>3. /\ host' \in {"idle", "update", "resume"}
        /\ cand' \in 0..MaxGeneration /\ attempts' \in 0..MaxAttempts
    <3>1. CASE UpdateTimeout
      BY <3>1, AttemptFailedTypes, Zenon DEF UpdateTimeout
    <3>2. CASE RestoreTimeout
      BY <3>2, ForegroundAssumption DEF RestoreTimeout, TypeOK
    <3> QED
      BY <1>7, <3>1, <3>2, Zenon
  <2> QED
    BY <1>7, <2>1, <2>2, <2>3, ZenonT(60), SMTT(30) DEF TypeOK, UpdateTimeout, RestoreTimeout
<1>8. CASE RestartFails
  <2>1. inbox' \in Seq(Commands) /\ Len(inbox') <= MaxInbox
    BY <1>8, TakeTypes, Zenon DEF RestartFails
  <2> QED
    BY <1>8, <2>1 DEF TypeOK, RestartFails
<1>9. CASE HandleRestart
  <2>1. inbox' \in Seq(Commands) /\ Len(inbox') <= MaxInbox
    BY <1>9, TakeTypes, Zenon DEF HandleRestart
  <2>2. rq' \in Seq(RenderCommands) /\ Len(rq') <= QueueCapacity /\ dropped' \in BOOLEAN
    BY <1>9, SendLevelTypes, Zenon DEF HandleRestart
  <2> QED
    BY <1>9, <2>1, <2>2 DEF TypeOK, HandleRestart
<1>10. CASE RestoreSurface
  <2>1. CASE Requests(slot) /\ host' = "restoring" /\ cand' = slot
    <3>1. rq' \in Seq(RenderCommands) /\ Len(rq') <= QueueCapacity
      BY <2>1, RequestTypes, Zenon
    <3> QED
      BY <1>10, <2>1, <3>1 DEF TypeOK, RestoreSurface
  <2>2. CASE host' = "resume" /\ UNCHANGED <<rq, cand>>
    BY <1>10, <2>2 DEF TypeOK, RestoreSurface
  <2> QED
    BY <1>10, <2>1, <2>2, Zenon DEF RestoreSurface, Refused
<1>11. CASE RestoreReplied
  <2>1. slot' \in 0..MaxGeneration
    BY <1>11, Zenon DEF TypeOK, RestoreReplied
  <2> QED
    BY <1>11, <2>1, ForegroundAssumption DEF TypeOK, RestoreReplied
<1>12. CASE RestartResumes
  <2>1. rq' \in Seq(RenderCommands) /\ Len(rq') <= QueueCapacity /\ dropped' \in BOOLEAN
    BY <1>12, SendLevelTypes, Zenon DEF RestartResumes
  <2>2. restarted' \in BOOLEAN
    BY <1>12, Zenon DEF RestartResumes
  <2> QED
    BY <1>12, <2>1, <2>2, Zenon DEF TypeOK, RestartResumes
<1>13. CASE Draw
  <2>1. rq' \in Seq(RenderCommands) /\ Len(rq') <= QueueCapacity
    BY <1>13, SendTypes, PlainCommands, Zenon DEF Draw
  <2> QED
    BY <1>13, <2>1 DEF TypeOK, Draw
<1> QED
  BY <1>1, <1>2, <1>3, <1>4, <1>5, <1>6, <1>7, <1>8, <1>9, <1>10, <1>11, <1>12, <1>13, Zenon
     DEF HostStep

\* The render thread's steps keep the types.
LEMMA RenderTypes ==
  ASSUME TypeOK, RenderStep
  PROVE  TypeOK'
<1> USE DEF gate, wait, levels, thread
<1>1. CASE RenderPause \/ RenderResume \/ RenderDraw \/ RenderDestroyed
  <2>1. PICK op : TakeRender(op)
    BY <1>1, Zenon DEF RenderPause, RenderResume, RenderDraw, RenderDestroyed
  <2>2. rq' \in Seq(RenderCommands) /\ Len(rq') <= QueueCapacity
    BY <2>1, TakeRenderTypes, Zenon
  <2>3. system \in SurfaceSystems
    BY Zenon DEF TypeOK
  <2>4. system' \in SurfaceSystems /\ render' \in {"paused", "running"}
    BY <1>1, <2>3, SystemTypes, Zenon
       DEF TypeOK, RenderPause, RenderResume, RenderDraw, RenderDestroyed
  <2>5. UNCHANGED <<gate, inbox, wait, slot, levels, binding, staged, dropped, restarted>>
    BY <1>1, Zenon DEF RenderPause, RenderResume, RenderDraw, RenderDestroyed
  <2> QED
    BY <2>2, <2>4, <2>5, ZenonT(60), SMTT(30) DEF TypeOK
<1>2. CASE RenderRecreate
  <2>1. /\ rq' \in Seq(RenderCommands) /\ Len(rq') <= QueueCapacity
        /\ Head(rq) \in RenderCommands /\ Head(rq).op = "recreate"
    BY <1>2, TakeRenderTypes, Zenon DEF RenderRecreate
  <2>2. Head(rq).generation \in 0..MaxGeneration /\ Head(rq).awaited \in BOOLEAN
    BY <2>1, PlainCommands DEF Generations
  <2>3. staged' \in [generation : 0..MaxGeneration, awaited : BOOLEAN]
    BY <1>2, <2>2 DEF RenderRecreate, TypeOK
  <2>4. reply' \in {"none", "ok", "failed"}
    BY <1>2, Zenon DEF RenderRecreate, Respond, TypeOK
  <2> QED
    BY <1>2, <2>1, <2>3, <2>4 DEF TypeOK, RenderRecreate
<1>3. Unstaged \in [generation : 0..MaxGeneration, awaited : BOOLEAN]
  BY ForegroundAssumption DEF Unstaged
<1>4. system \in SurfaceSystems /\ OnSurfaceAvailable(system) \in SurfaceSystems
      /\ OnSurfaceDestroyed(system) \in SurfaceSystems
  BY SystemTypes, Zenon DEF TypeOK
<1>5. staged.generation \in 0..MaxGeneration
  BY Zenon DEF TypeOK
<1>6. CASE InstallOk
  <2>1. reply' \in {"none", "ok", "failed"}
    BY <1>6, Zenon DEF InstallOk, Respond, TypeOK
  <2>2. system' \in SurfaceSystems
    BY <1>4, <1>6, Zenon DEF InstallOk
  <2> QED
    BY <1>3, <1>5, <1>6, <2>1, <2>2 DEF TypeOK, InstallOk
<1>7. ASSUME NEW phase \in Phases, InstallFails(phase) PROVE TypeOK'
  <2>1. reply' \in {"none", "ok", "failed"}
    BY <1>7, Zenon DEF InstallFails, Respond, TypeOK
  <2>2. system' \in SurfaceSystems
    BY <1>4, <1>7, Zenon DEF InstallFails
  <2>3. live' \in 0..MaxGeneration /\ torelease' \in 0..MaxGeneration
    BY <1>7, ForegroundAssumption DEF InstallFails, RetireLive, TypeOK
  <2>4. binding' \in 0..MaxGeneration
    BY <1>5, <1>7, Zenon DEF InstallFails, TypeOK
  <2>5. staged' = Unstaged
    BY <1>7, Zenon DEF InstallFails
  <2>6. UNCHANGED <<issued, inbox, host, cand, attempts, slot, levels, rq, render,
                    dropped, restarted>>
    BY <1>7, Zenon DEF InstallFails
  <2> QED
    BY <1>3, <2>1, <2>2, <2>3, <2>4, <2>5, <2>6 DEF TypeOK
<1>8. CASE SwapLost \/ FrameWithoutSurface
  <2>1. live' \in 0..MaxGeneration /\ torelease' \in 0..MaxGeneration
    BY <1>8, ForegroundAssumption, SMTT(30) DEF SwapLost, FrameWithoutSurface, RetireLive, TypeOK
  <2> QED
    BY <1>4, <1>8, <2>1, SMTT(30) DEF TypeOK, SwapLost, FrameWithoutSurface
<1>9. CASE ReleaseOnscreen
  <2>1. binding' \in 0..MaxGeneration /\ system' \in SurfaceSystems
    BY <1>4, <1>9, ForegroundAssumption DEF ReleaseOnscreen, TypeOK
  <2> QED
    BY <1>9, <2>1, ForegroundAssumption DEF TypeOK, ReleaseOnscreen
<1> QED
  BY <1>1, <1>2, <1>6, <1>7, <1>8, <1>9, Zenon DEF RenderStep

-----------------------------------------------------------------------------
(* The render queue *)

\* A send that fits adds one command at the end, the others keep their places.
LEMMA Sends ==
  ASSUME TypeOK, NEW c \in RenderCommands, Send(c)
  PROVE  \/ rq' = rq /\ Len(rq) = QueueCapacity
         \/ /\ Len(rq) # QueueCapacity
            /\ Len(rq') = Len(rq) + 1 /\ rq'[Len(rq) + 1] = c
            /\ \A i \in 1..Len(rq) : rq'[i] = rq[i]
<1>1. rq \in Seq(RenderCommands) /\ Len(rq) \in Nat /\ Len(rq) <= QueueCapacity
  BY DEF TypeOK
<1>2. CASE Len(rq) < QueueCapacity
  <2>1. rq' = Append(rq, c)
    BY <1>2, Zenon DEF Send
  <2> QED
    BY <1>1, <1>2, <2>1, ForegroundAssumption
<1>3. CASE ~(Len(rq) < QueueCapacity)
  BY <1>1, <1>3, ForegroundAssumption DEF Send
<1> QED
  BY <1>2, <1>3, Zenon

\* The render thread takes the first command, the others move up.
LEMMA Takes ==
  ASSUME TypeOK, NEW op, TakeRender(op)
  PROVE  /\ 1 \in 1..Len(rq) /\ rq[1] = Head(rq) /\ rq[1].op = op /\ rq[1] \in RenderCommands
         /\ Len(rq') \in Nat /\ Len(rq) = Len(rq') + 1
         /\ \A i \in 1..Len(rq') : i + 1 \in 1..Len(rq) /\ rq'[i] = rq[i + 1]
         /\ staged = Unstaged
<1>1. rq \in Seq(RenderCommands) /\ rq # <<>> /\ rq' = Tail(rq) /\ Head(rq).op = op
      /\ staged = Unstaged
  BY Zenon DEF TypeOK, TakeRender, Free
<1> QED
  BY <1>1

\* A queue that only got commands other than recreates has no new recreate.
LEMMA NoNewRecreate ==
  ASSUME TypeOK, NEW c \in RenderCommands, c.op # "recreate", Send(c) \/ UNCHANGED rq
  PROVE  /\ \A i \in 1..Len(rq') :
              rq'[i].op = "recreate" => i \in 1..Len(rq) /\ rq'[i] = rq[i]
         /\ Len(rq') \in Nat /\ Len(rq) \in Nat
         /\ \A i \in 1..Len(rq) : i \in 1..Len(rq') /\ rq'[i] = rq[i]
<1>1. Len(rq) \in Nat
  BY DEF TypeOK
<1>2. CASE UNCHANGED rq
  BY <1>1, <1>2, Zenon
<1>3. CASE /\ Len(rq') = Len(rq) + 1 /\ rq'[Len(rq) + 1] = c
           /\ \A i \in 1..Len(rq) : rq'[i] = rq[i]
  BY <1>1, <1>3
<1> QED
  BY <1>2, <1>3, Sends, Zenon

\* What the render queue becomes in a step of the host other than the request
\* for a recreate or its abandonment.
LEMMA HostSends ==
  ASSUME TypeOK, \/ HandleShow \/ HandleHide \/ HandleDestroyed \/ HandleUpdate
                 \/ UpdateReplied \/ RestartFails \/ HandleRestart
                 \/ RestoreReplied \/ RestartResumes \/ Draw \/ PlatformStep
  PROVE  \E c \in RenderCommands : c.op # "recreate" /\ (Send(c) \/ UNCHANGED rq)
<1>1. ASSUME NEW o \in {"pause", "resume", "draw"}
      PROVE  [op |-> o] \in RenderCommands /\ [op |-> o].op # "recreate"
  BY <1>1, PlainCommands, Zenon
<1>2. CASE UNCHANGED rq
  <2>1. [op |-> "draw"] \in RenderCommands /\ [op |-> "draw"].op # "recreate"
    BY <1>1, Zenon
  <2> QED
    BY <1>2, <2>1, Zenon
<1>3. CASE \E o \in {"pause", "resume", "draw"} : Send([op |-> o])
  BY <1>1, <1>3, Zenon
<1>4. CASE HandleDestroyed /\ Send(Head(inbox))
  <2>1. Head(inbox) \in Commands /\ Head(inbox).op = "destroyed"
    BY <1>4, TakeTypes, Zenon DEF HandleDestroyed
  <2>2. Head(inbox) \in RenderCommands
    BY <2>1, PlainCommands, Zenon
  <2> QED
    BY <1>4, <2>1, <2>2, Zenon
<1> QED
  BY <1>2, <1>3, <1>4, Zenon
     DEF HandleShow, HandleHide, HandleDestroyed, HandleUpdate, UpdateReplied,
         RestartFails, HandleRestart, RestoreReplied, RestartResumes, Draw,
         PlatformStep, OnShow, OnHide, OnRestart, UpdateSurface, SurfaceDestroyed,
         SendLevel, EnterForeground, SurfaceInstalled

-----------------------------------------------------------------------------
(* What the host's slot names is installed *)

CoreInv == GateInv /\ OrderInv /\ ReplyInv /\ SlotIsBound

\* Numbers and lengths, for the arithmetic of the steps below.
LEMMA Numbers ==
  ASSUME TypeOK
  PROVE  /\ live \in Nat /\ issued \in Nat /\ torelease \in Nat /\ slot \in Nat
         /\ binding \in Nat /\ cand \in Nat /\ staged.generation \in Nat
         /\ Len(rq) \in Nat /\ rq \in Seq(RenderCommands)
         /\ staged \in [generation : 0..MaxGeneration, awaited : BOOLEAN]
         /\ reply \in {"none", "ok", "failed"}
         /\ \A i \in 1..Len(rq) : rq[i].op = "recreate" => rq[i].generation \in Nat
<1>1. \A i \in 1..Len(rq) : rq[i] \in RenderCommands
  BY DEF TypeOK
<1>2. \A i \in 1..Len(rq) : rq[i].op = "recreate" => rq[i].generation \in Nat
  BY <1>1, PlainCommands DEF Generations
<1> QED
  BY <1>2, SMTT(30) DEF TypeOK

\* A handler that asks for no recreate, begun and ended without one to wait for.
LEMMA CoreSends ==
  ASSUME TypeOK, CoreInv, host \notin {"updating", "restoring"},
         host' \notin {"updating", "restoring"},
         \A i \in 1..Len(rq') : rq'[i].op = "recreate" => i \in 1..Len(rq) /\ rq'[i] = rq[i],
         slot' \in {0, slot},
         UNCHANGED <<live, issued, torelease, binding, staged, reply>>
  PROVE  CoreInv'
<1> USE Numbers DEF CoreInv
<1>1. GateInv'
  BY DEF GateInv
<1>2. /\ reply = "none" /\ ~staged.awaited
      /\ \A i \in 1..Len(rq) : rq[i].op = "recreate" => ~rq[i].awaited
  BY Zenon DEF ReplyInv, Waiting
<1>3. OrderInv'
  <2>1. ASSUME NEW i \in 1..Len(rq'), rq'[i].op = "recreate"
        PROVE  slot' <= rq'[i].generation /\ rq'[i].generation <= issued'
    <3>1. i \in 1..Len(rq) /\ rq'[i] = rq[i]
      BY <2>1, Zenon
    <3>2. slot <= rq[i].generation /\ rq[i].generation <= issued /\ rq[i].generation \in Nat
      BY <2>1, <3>1, Zenon DEF OrderInv
    <3> QED
      BY <3>1, <3>2, SMTT(30)
  <2>2. staged.generation # 0 => slot' <= staged.generation /\ binding <= staged.generation
    BY DEF OrderInv
  <2> QED
    BY <1>2, <2>1, <2>2, Zenon DEF OrderInv
<1>4. ReplyInv'
  <2>1. /\ reply' = "none" /\ ~staged'.awaited
        /\ \A i \in 1..Len(rq') : rq'[i].op = "recreate" => ~rq'[i].awaited
    BY <1>2, Zenon
  <2>2. ~Waiting'
    BY Zenon DEF Waiting
  <2> QED
    BY <2>1, <2>2, Zenon DEF ReplyInv, Waiting
<1>5. SlotIsBound'
  BY Zenon DEF SlotIsBound, HasLiveSurface, IsLive
<1> QED
  BY <1>1, <1>3, <1>4, <1>5, Zenon

\* A recreate is asked for: it is the only one waited for.
LEMMA CoreRequests ==
  ASSUME TypeOK, CoreInv, host \notin {"updating", "restoring"},
         host' \in {"updating", "restoring"}, host' = "restoring" => cand' = slot,
         Requests(cand'),
         UNCHANGED <<live, issued, torelease, slot, binding, staged, reply>>
  PROVE  CoreInv'
<1> USE Numbers DEF CoreInv
<1>0. /\ cand' \in Generations /\ cand' = live
      /\ rq' \in Seq(RenderCommands)
      /\ Len(rq') = Len(rq) + 1
      /\ rq'[Len(rq) + 1] = [op |-> "recreate", generation |-> cand', awaited |-> TRUE]
      /\ \A i \in 1..Len(rq) : rq'[i] = rq[i]
  BY RequestTypes, Zenon
<1>1. /\ cand' \in 1..issued /\ slot <= cand'
  <2>1. slot <= cand'
    BY Zenon DEF Requests, Prepare
  <2> QED
    BY <1>0, <2>1 DEF GateInv, Generations
<1>2. GateInv' /\ SlotIsBound'
  BY Zenon DEF GateInv, SlotIsBound, HasLiveSurface, IsLive
<1>3. /\ reply = "none" /\ ~staged.awaited
      /\ \A i \in 1..Len(rq) : rq[i].op = "recreate" => ~rq[i].awaited
  BY Zenon DEF ReplyInv, Waiting
<1>4. \A i \in 1..Len(rq') : i \in 1..Len(rq) \/ i = Len(rq) + 1
  BY <1>0
<1>5. OrderInv'
  <2>1. ASSUME NEW i \in 1..Len(rq'), rq'[i].op = "recreate"
        PROVE  slot' <= rq'[i].generation /\ rq'[i].generation <= issued'
    <3>1. CASE i \in 1..Len(rq)
      BY <2>1, <3>1, <1>0, Zenon DEF OrderInv
    <3>2. CASE i = Len(rq) + 1
      <4>1. rq'[i].generation = cand'
        BY <3>2, <1>0
      <4> QED
        BY <4>1, <1>1
    <3> QED
      BY <3>1, <3>2, <1>4, Zenon
  <2> QED
    BY <2>1, Zenon DEF OrderInv
<1>6. ReplyInv'
  <2>1. Waiting' /\ cand' \in 1..issued' /\ slot' <= cand' /\ (host' = "restoring" => cand' = slot')
    BY <1>1, Zenon DEF Waiting
  <2>2. ASSUME NEW i \in 1..Len(rq'), rq'[i].op = "recreate", rq'[i].awaited
        PROVE  /\ Waiting' /\ reply' = "none" /\ rq'[i].generation = cand'
               /\ \A j \in (i + 1)..Len(rq') : rq'[j].op # "recreate"
    <3>1. i = Len(rq) + 1
      BY <2>2, <1>0, <1>3, <1>4, Zenon
    <3>2. rq'[i].generation = cand'
      BY <3>1, <1>0
    <3>3. (i + 1)..Len(rq') = {}
      BY <3>1, <1>0
    <3> QED
      BY <2>1, <3>2, <3>3, <1>3, Zenon
  <2>3. ~staged'.awaited /\ reply' = "none"
    BY <1>3, Zenon
  <2> QED
    BY <2>1, <2>2, <2>3, Zenon DEF ReplyInv
<1> QED
  BY <1>2, <1>5, <1>6, Zenon

\* A reply is taken: nothing else was asked for, and a success is about the
\* candidate.
LEMMA CoreReplies ==
  ASSUME TypeOK, CoreInv, host \in {"updating", "restoring"}, reply # "none",
         host' \notin {"updating", "restoring"}, reply' = "none",
         \A i \in 1..Len(rq') : rq'[i].op = "recreate" => i \in 1..Len(rq) /\ rq'[i] = rq[i],
         slot' = slot \/ (slot' = cand /\ reply = "ok" /\ Prepare(cand)),
         UNCHANGED <<live, issued, torelease, binding, staged>>
  PROVE  CoreInv'
<1> USE Numbers DEF CoreInv
<1>1. /\ staged.generation = 0 /\ \A j \in 1..Len(rq) : rq[j].op # "recreate"
      /\ cand \in 1..issued
      /\ reply = "ok" /\ IsLive(cand) => binding = cand
  BY Zenon DEF ReplyInv, Waiting
<1>2. \A i \in 1..Len(rq') : rq'[i].op # "recreate"
  BY <1>1, Zenon
<1>3. ~staged.awaited
  BY <1>1, Zenon DEF OrderInv
<1>4. GateInv'
  BY <1>1 DEF GateInv
<1>5. OrderInv'
  BY <1>1, <1>2, <1>3, Zenon DEF OrderInv
<1>6. ReplyInv'
  <2>1. ~Waiting' /\ ~staged'.awaited
    BY <1>3, Zenon DEF Waiting
  <2> QED
    BY <1>2, <2>1, Zenon DEF ReplyInv, Waiting
<1>7. SlotIsBound'
  <2>1. CASE slot' = slot
    BY <2>1, Zenon DEF SlotIsBound, HasLiveSurface, IsLive
  <2>2. CASE slot' = cand /\ reply = "ok" /\ Prepare(cand)
    BY <2>2, <1>1, Zenon DEF SlotIsBound, HasLiveSurface, IsLive, Prepare
  <2> QED
    BY <2>1, <2>2, Zenon
<1> QED
  BY <1>4, <1>5, <1>6, <1>7, Zenon

\* A wait that ends at its deadline leaves no reply to come.
LEMMA CoreAbandons ==
  ASSUME TypeOK, CoreInv, reply = "none", AbandonReply,
         host' \notin {"updating", "restoring"},
         UNCHANGED <<live, issued, torelease, slot, binding, reply>>
  PROVE  CoreInv'
<1> USE Numbers DEF CoreInv
<1>1. /\ Len(rq') = Len(rq)
      /\ \A i \in 1..Len(rq) :
           /\ rq'[i].op = rq[i].op
           /\ rq[i].op = "recreate" =>
                rq'[i].generation = rq[i].generation /\ ~rq'[i].awaited
      /\ staged' = [generation |-> staged.generation, awaited |-> FALSE]
  BY AbandonTypes, Zenon
<1>2. staged'.generation = staged.generation /\ ~staged'.awaited
  BY <1>1, Zenon
<1>3. GateInv' /\ SlotIsBound'
  BY <1>2, Zenon DEF GateInv, SlotIsBound, HasLiveSurface, IsLive
<1>4. OrderInv'
  BY <1>1, <1>2, Zenon DEF OrderInv
<1>5. ReplyInv'
  <2>1. ~Waiting'
    BY Zenon DEF Waiting
  <2>2. \A i \in 1..Len(rq') : rq'[i].op = "recreate" => ~rq'[i].awaited
    BY <1>1, Zenon
  <2> QED
    BY <1>2, <2>1, <2>2, Zenon DEF ReplyInv, Waiting
<1> QED
  BY <1>3, <1>4, <1>5, Zenon

\* A new generation is newer than everything known; a retired one is not live.
LEMMA CoreGate ==
  ASSUME TypeOK, CoreInv, UpdateSurface \/ SurfaceDestroyed \/ SwapLost
  PROVE  CoreInv'
<1> USE Numbers DEF CoreInv, wait, levels, thread
<1>1. /\ UNCHANGED <<slot, binding, staged, rq, host, cand, reply>>
      /\ \/ live' = live /\ issued' = issued /\ torelease' = torelease
         \/ live' = issued + 1 /\ issued' = issued + 1 /\ torelease' = torelease
         \/ live # 0 /\ live' = 0 /\ issued' = issued /\ torelease' = live
  BY Zenon DEF UpdateSurface, SurfaceDestroyed, SwapLost, RetireLive, IsLive
<1>2. GateInv'
  BY <1>1 DEF GateInv
<1>3. issued <= issued' /\ issued' \in Nat
  BY <1>1
<1>4. \A g \in Nat : g <= issued /\ g # 0 /\ g = live' => g = live
  BY <1>1
<1>5. OrderInv'
  <2>1. \A i \in 1..Len(rq) : rq[i].op = "recreate" =>
          slot <= rq[i].generation /\ rq[i].generation <= issued'
    BY <1>3, SMTT(30) DEF OrderInv
  <2> QED
    BY <1>1, <2>1, Zenon DEF OrderInv
<1>6. ReplyInv'
  <2>1. Waiting => cand \in 1..issued' /\ slot <= cand
    BY <1>3 DEF ReplyInv
  <2>2. reply = "ok" /\ cand # 0 /\ cand = live' => binding = cand
    <3> HAVE reply = "ok" /\ cand # 0 /\ cand = live'
    <3>1. cand \in 1..issued
      BY Zenon DEF ReplyInv, Waiting
    <3>2. cand = live
      BY <1>4, <3>1
    <3> QED
      BY <3>2, Zenon DEF ReplyInv, IsLive
  <2> QED
    BY <1>1, <2>1, <2>2, Zenon DEF ReplyInv, Waiting, IsLive
<1>7. SlotIsBound'
  BY <1>1, <1>4, Zenon DEF SlotIsBound, HasLiveSurface, IsLive, GateInv
<1> QED
  BY <1>2, <1>5, <1>6, <1>7, Zenon

\* The render thread takes a command that is no recreate.
LEMMA CoreTakes ==
  ASSUME TypeOK, CoreInv, NEW op, op # "recreate", TakeRender(op),
         UNCHANGED <<live, issued, torelease, slot, binding, staged, host, cand, reply>>
  PROVE  CoreInv'
<1> USE Numbers DEF CoreInv
<1>1. /\ Len(rq') \in Nat /\ Len(rq) = Len(rq') + 1
      /\ \A i \in 1..Len(rq') : i + 1 \in 1..Len(rq) /\ rq'[i] = rq[i + 1]
  BY Takes, Zenon
<1>2. GateInv' /\ SlotIsBound'
  BY Zenon DEF GateInv, SlotIsBound, HasLiveSurface, IsLive
<1>3. OrderInv'
  BY <1>1, Zenon DEF OrderInv
<1>4. ReplyInv'
  <2>1. ASSUME NEW i \in 1..Len(rq'), rq'[i].op = "recreate", rq'[i].awaited
        PROVE  /\ Waiting /\ reply = "none" /\ rq'[i].generation = cand
               /\ \A j \in (i + 1)..Len(rq') : rq'[j].op # "recreate"
    <3>1. i + 1 \in 1..Len(rq) /\ rq'[i] = rq[i + 1]
      BY <1>1, Zenon
    <3>2. /\ Waiting /\ reply = "none" /\ rq[i + 1].generation = cand
          /\ \A j \in (i + 2)..Len(rq) : rq[j].op # "recreate"
      <4>1. (i + 1) + 1 = i + 2
        BY <3>1
      <4>2. rq[i + 1].op = "recreate" /\ rq[i + 1].awaited
        BY <2>1, <3>1, Zenon
      <4> QED
        BY <3>1, <4>1, <4>2, Zenon DEF ReplyInv
    <3>3. \A j \in (i + 1)..Len(rq') : j + 1 \in (i + 2)..Len(rq) /\ rq'[j] = rq[j + 1]
      BY <1>1
    <3> QED
      BY <3>1, <3>2, <3>3, Zenon
  <2>2. (\A j \in 1..Len(rq) : rq[j].op # "recreate") =>
          \A j \in 1..Len(rq') : rq'[j].op # "recreate"
    BY <1>1, Zenon
  <2> QED
    BY <2>1, <2>2, Zenon DEF ReplyInv, Waiting, IsLive
<1> QED
  BY <1>2, <1>3, <1>4, Zenon

\* A recreate is staged, or refused and answered.
LEMMA CoreRecreate ==
  ASSUME TypeOK, CoreInv, RenderRecreate
  PROVE  CoreInv'
<1> USE Numbers DEF CoreInv, gate, levels
<1>0. UNCHANGED <<live, issued, torelease, slot, binding, host, cand>>
  BY Zenon DEF RenderRecreate
<1>1. /\ 1 \in 1..Len(rq) /\ rq[1] = Head(rq) /\ rq[1].op = "recreate"
      /\ rq[1] \in RenderCommands
      /\ Len(rq') \in Nat /\ Len(rq) = Len(rq') + 1
      /\ \A i \in 1..Len(rq') : i + 1 \in 1..Len(rq) /\ rq'[i] = rq[i + 1]
      /\ staged = Unstaged
  BY Takes, Zenon DEF RenderRecreate
<1>2. rq[1].generation \in Generations /\ rq[1].awaited \in BOOLEAN
  BY <1>1, PlainCommands, Zenon
<1>3. /\ slot <= rq[1].generation /\ rq[1].generation <= issued
  BY <1>1, Zenon DEF OrderInv
<1>4. rq[1].awaited =>
        /\ Waiting /\ reply = "none" /\ rq[1].generation = cand
        /\ \A j \in 1..Len(rq') : rq'[j].op # "recreate"
  <2> HAVE rq[1].awaited
  <2>1. /\ Waiting /\ reply = "none" /\ rq[1].generation = cand
        /\ \A j \in (1 + 1)..Len(rq) : rq[j].op # "recreate"
    BY <1>1, Zenon DEF ReplyInv
  <2>2. \A j \in 1..Len(rq') : j + 1 \in (1 + 1)..Len(rq)
    BY <1>1
  <2> QED
    BY <1>1, <2>1, <2>2, SMTT(30)
<1>5. reply = "none"
  BY <1>1, Zenon DEF ReplyInv
<1>6. ASSUME NEW i \in 1..Len(rq'), rq'[i].op = "recreate", rq'[i].awaited
      PROVE  /\ Waiting /\ rq'[i].generation = cand /\ ~rq[1].awaited
             /\ \A j \in (i + 1)..Len(rq') : rq'[j].op # "recreate"
  <2>1. i + 1 \in 1..Len(rq) /\ rq'[i] = rq[i + 1]
    BY <1>1, Zenon
  <2>2. /\ Waiting /\ rq[i + 1].generation = cand
        /\ \A j \in (i + 2)..Len(rq) : rq[j].op # "recreate"
    <3>1. (i + 1) + 1 = i + 2
      BY <2>1
    <3>2. rq[i + 1].op = "recreate" /\ rq[i + 1].awaited
      BY <1>6, <2>1, Zenon
    <3> QED
      BY <2>1, <3>1, <3>2, Zenon DEF ReplyInv
  <2>3. \A j \in (i + 1)..Len(rq') : j + 1 \in (i + 2)..Len(rq) /\ rq'[j] = rq[j + 1]
    BY <1>1
  <2>4. ~rq[1].awaited
    BY <1>4, <1>6, Zenon
  <2> QED
    BY <2>1, <2>2, <2>3, <2>4, Zenon
<1>7. \A i \in 1..Len(rq') : rq'[i].op = "recreate" =>
        slot <= rq'[i].generation /\ rq'[i].generation <= issued
  BY <1>1, Zenon DEF OrderInv
<1>8. SlotIsBound'
  BY <1>0, Zenon DEF SlotIsBound, HasLiveSurface, IsLive
<1>9. Waiting => cand \in 1..issued /\ slot <= cand
  BY Zenon DEF ReplyInv
<1>10. host = "restoring" => cand = slot
  BY Zenon DEF ReplyInv
<1>11. CASE Preflight(rq[1].generation)
  <2>1. /\ staged' = [generation |-> rq[1].generation, awaited |-> rq[1].awaited]
        /\ reply' = reply
    BY <1>1, <1>11, Zenon DEF RenderRecreate
  <2>2. staged'.generation = rq[1].generation /\ (staged'.awaited <=> rq[1].awaited)
    BY <2>1, Zenon
  <2>3. binding <= rq[1].generation /\ rq[1].generation # 0
    BY <1>11, Zenon DEF Preflight, IsLive
  <2>4. GateInv'
    BY <1>0, <1>3, <2>2, Zenon DEF GateInv
  <2>5. OrderInv'
    BY <1>0, <1>3, <1>7, <2>2, <2>3, Zenon DEF OrderInv
  <2>6. ReplyInv'
    <3>1. Waiting' <=> Waiting
      BY <1>0, Zenon DEF Waiting
    <3> QED
      BY <1>0, <1>4, <1>5, <1>6, <1>9, <1>10, <2>1, <2>2, <3>1, Zenon DEF ReplyInv
  <2> QED
    BY <1>8, <2>4, <2>5, <2>6, Zenon
<1>12. CASE ~Preflight(rq[1].generation)
  <2>1. staged' = staged /\ reply' = IF rq[1].awaited THEN "failed" ELSE reply
    BY <1>1, <1>12, Zenon DEF RenderRecreate, Respond
  <2>2. staged'.generation = 0 /\ ~staged'.awaited
    BY <1>1, <2>1, Zenon DEF Unstaged
  <2>3. GateInv'
    BY <1>0, <2>1, Zenon DEF GateInv
  <2>4. OrderInv'
    BY <1>0, <1>7, <2>2, Zenon DEF OrderInv
  <2>5. ReplyInv'
    <3>1. Waiting' <=> Waiting
      BY <1>0, Zenon DEF Waiting
    <3>2. CASE rq[1].awaited
      <4>1. reply' = "failed" /\ \A j \in 1..Len(rq') : rq'[j].op # "recreate"
        BY <1>4, <2>1, <3>2, Zenon
      <4> QED
        BY <1>0, <1>4, <1>9, <1>10, <2>2, <3>1, <3>2, <4>1, Zenon DEF ReplyInv
    <3>3. CASE ~rq[1].awaited
      <4>1. reply' = "none"
        BY <1>5, <2>1, <3>3, Zenon
      <4> QED
        BY <1>0, <1>6, <1>9, <1>10, <2>2, <3>1, <4>1, Zenon DEF ReplyInv
    <3> QED
      BY <3>2, <3>3, Zenon
  <2> QED
    BY <1>8, <2>3, <2>4, <2>5, Zenon
<1> QED
  BY <1>11, <1>12, Zenon

\* While a recreate is under way its generation is no older than the slot's and
\* than what is bound; so a live slot names that generation.
LEMMA StagedGeneration ==
  ASSUME TypeOK, GateInv, OrderInv, ~Free
  PROVE  /\ staged.generation # 0
         /\ slot <= staged.generation /\ binding <= staged.generation
         /\ IsLive(slot) => slot = staged.generation
         /\ IsLive(binding) => IsLive(staged.generation)
<1> USE Numbers
<1>1. staged.generation # 0
  <2> SUFFICES ASSUME staged.generation = 0 PROVE FALSE
    OBVIOUS
  <2>1. staged.awaited = FALSE
    BY Zenon DEF OrderInv, TypeOK
  <2>2. staged = [generation |-> 0, awaited |-> FALSE]
    BY <2>1, Zenon
  <2> QED
    BY <2>2, Zenon DEF Free, Unstaged
<1>2. slot <= staged.generation /\ binding <= staged.generation
  BY <1>1, Zenon DEF OrderInv
<1> QED
  BY <1>1, <1>2 DEF IsLive, GateInv

\* A recreate ends: what it bound is what a live slot names.
LEMMA CoreInstall ==
  ASSUME TypeOK, CoreInv, InstallOk \/ \E phase \in Phases : InstallFails(phase)
  PROVE  CoreInv'
<1> USE Numbers DEF CoreInv, gate, levels
<1>0. ~Free
  BY Zenon DEF InstallOk, InstallFails
<1>1. /\ staged.generation # 0 /\ staged.generation <= issued
      /\ slot <= staged.generation /\ binding <= staged.generation
      /\ IsLive(slot) => slot = staged.generation
  BY <1>0, StagedGeneration, Zenon DEF GateInv
<1>2. /\ staged' = Unstaged /\ UNCHANGED <<issued, slot, rq, host, cand>>
      /\ binding' \in {binding, staged.generation}
      /\ \/ live' = live /\ torelease' = torelease
         \/ live # 0 /\ live' = 0 /\ torelease' = live
  BY Zenon DEF InstallOk, InstallFails, RetireLive, IsLive
<1>3. staged'.generation = 0 /\ ~staged'.awaited
  BY <1>2, Zenon DEF Unstaged
<1>4. GateInv'
  BY <1>1, <1>2, <1>3 DEF GateInv
<1>5. OrderInv'
  BY <1>2, <1>3, Zenon DEF OrderInv
<1>6. /\ Waiting => cand \in 1..issued /\ slot <= cand
      /\ host = "restoring" => cand = slot
      /\ \A i \in 1..Len(rq) :
           rq[i].op = "recreate" /\ rq[i].awaited =>
             /\ Waiting /\ reply = "none" /\ rq[i].generation = cand /\ ~staged.awaited
             /\ \A j \in (i + 1)..Len(rq) : rq[j].op # "recreate"
      /\ staged.awaited =>
           /\ Waiting /\ reply = "none" /\ staged.generation = cand
           /\ \A j \in 1..Len(rq) : rq[j].op # "recreate"
      /\ reply = "none"
  BY <1>1, Zenon DEF ReplyInv
<1>7. Waiting' <=> Waiting
  BY <1>2, Zenon DEF Waiting
<1>8. CASE InstallOk
  <2>1. /\ reply' = IF staged.awaited THEN "ok" ELSE reply
        /\ binding' = staged.generation /\ live' = live
    BY <1>8, Zenon DEF InstallOk, Respond
  <2>2. ReplyInv'
    <3>1. CASE staged.awaited
      <4>1. reply' = "ok" /\ binding' = cand'
        BY <1>2, <1>6, <2>1, <3>1, Zenon
      <4> QED
        BY <1>2, <1>3, <1>6, <1>7, <3>1, <4>1, Zenon DEF ReplyInv
    <3>2. CASE ~staged.awaited
      <4>1. reply' = "none"
        BY <1>6, <2>1, <3>2, Zenon
      <4> QED
        BY <1>2, <1>3, <1>6, <1>7, <4>1 DEF ReplyInv
    <3> QED
      BY <3>1, <3>2, Zenon
  <2>3. SlotIsBound'
    BY <1>1, <1>2, <2>1, Zenon DEF SlotIsBound, HasLiveSurface, IsLive
  <2> QED
    BY <1>4, <1>5, <2>2, <2>3, Zenon
<1>9. CASE \E phase \in Phases : InstallFails(phase)
  <2>1. /\ reply' = IF staged.awaited THEN "failed" ELSE reply
        /\ IsLive(staged.generation) => live' = 0
        /\ ~IsLive(staged.generation) => live' = live
    BY <1>9, Zenon DEF InstallFails, Respond, RetireLive
  <2>2. ReplyInv'
    <3>1. CASE staged.awaited
      <4>1. reply' = "failed"
        BY <2>1, <3>1, Zenon
      <4> QED
        BY <1>2, <1>3, <1>6, <1>7, <3>1, <4>1, Zenon DEF ReplyInv
    <3>2. CASE ~staged.awaited
      <4>1. reply' = "none"
        BY <1>6, <2>1, <3>2, Zenon
      <4> QED
        BY <1>2, <1>3, <1>6, <1>7, <4>1 DEF ReplyInv
    <3> QED
      BY <3>1, <3>2, Zenon
  <2>3. SlotIsBound'
    <3>1. ~HasLiveSurface'
      BY <1>1, <1>2, <2>1, Zenon DEF HasLiveSurface, IsLive
    <3> QED
      BY <3>1, Zenon DEF SlotIsBound
  <2> QED
    BY <1>4, <1>5, <2>2, <2>3, Zenon
<1> QED
  BY <1>8, <1>9, Zenon

\* The release of an older generation leaves a live one bound.
LEMMA CoreRelease ==
  ASSUME TypeOK, CoreInv, ReleaseOnscreen
  PROVE  CoreInv'
<1> USE Numbers DEF CoreInv, wait, levels
<1>1. /\ staged = Unstaged /\ torelease' = 0
      /\ UNCHANGED <<live, issued, slot, staged, rq, host, cand, reply>>
      /\ \/ binding <= torelease /\ binding' = 0
         \/ binding' = binding
  BY Zenon DEF ReleaseOnscreen, Free
<1>2. staged.generation = 0 /\ ~staged.awaited
  BY <1>1, Zenon DEF Unstaged
<1>3. GateInv'
  BY <1>1 DEF GateInv
<1>4. OrderInv'
  BY <1>1, <1>2, Zenon DEF OrderInv
<1>5. \A g \in Nat : IsLive(g) /\ binding = g => binding' = g
  BY <1>1 DEF IsLive, GateInv
<1>6. SlotIsBound'
  BY <1>1, <1>5, Zenon DEF SlotIsBound, HasLiveSurface, IsLive
<1>7. ReplyInv'
  <2>1. reply = "ok" /\ IsLive(cand) => binding' = cand
    BY <1>5, Zenon DEF ReplyInv
  <2>2. IsLive(cand)' <=> IsLive(cand)
    BY <1>1, Zenon DEF IsLive
  <2>3. Waiting' <=> Waiting
    BY <1>1, Zenon DEF Waiting
  <2> QED
    BY <1>1, <1>2, <2>1, <2>2, <2>3 DEF ReplyInv
<1> QED
  BY <1>3, <1>4, <1>6, <1>7, Zenon

\* A step that touches nothing of it.
LEMMA CoreStill ==
  ASSUME CoreInv,
         UNCHANGED <<live, issued, torelease, slot, binding, staged, rq, host, cand, reply>>
  PROVE  CoreInv'
BY DEF CoreInv, GateInv, OrderInv, ReplyInv, SlotIsBound, HasLiveSurface, IsLive, Waiting

\* Every step keeps it.
LEMMA CoreKeeps ==
  ASSUME TypeOK, CoreInv, Next
  PROVE  CoreInv'
<1> USE DEF gate, wait, levels, thread
<1>1. CASE OnShow \/ OnHide \/ OnRestart \/ RestartFails \/ FrameWithoutSurface
  BY <1>1, CoreStill, Zenon
     DEF OnShow, OnHide, OnRestart, RestartFails, FrameWithoutSurface
<1>2. CASE UpdateSurface \/ SurfaceDestroyed \/ SwapLost
  BY <1>2, CoreGate, Zenon
<1>3. CASE \/ HandleShow \/ HandleHide \/ HandleDestroyed \/ HandleUpdate
           \/ HandleRestart \/ RestartResumes \/ Draw
  <2>1. PICK c \in RenderCommands : c.op # "recreate" /\ (Send(c) \/ UNCHANGED rq)
    BY <1>3, HostSends, Zenon
  <2>2. \A i \in 1..Len(rq') :
          rq'[i].op = "recreate" => i \in 1..Len(rq) /\ rq'[i] = rq[i]
    BY <2>1, NoNewRecreate, Zenon
  <2>3. /\ host \notin {"updating", "restoring"} /\ host' \notin {"updating", "restoring"}
        /\ slot' \in {0, slot}
        /\ UNCHANGED <<live, issued, torelease, binding, staged, reply>>
    BY <1>3, Zenon
       DEF HandleShow, HandleHide, HandleDestroyed, HandleUpdate, HandleRestart,
                RestartResumes, Draw, Take
  <2> QED
    BY <2>2, <2>3, CoreSends, Zenon
<1>4. CASE Attempt \/ RestoreSurface
  <2>1. /\ host \in {"update", "rebuild"}
        /\ UNCHANGED <<live, issued, torelease, slot, binding, staged, reply>>
        /\ \/ /\ Requests(cand') /\ host' \in {"updating", "restoring"}
              /\ host' = "restoring" => cand' = slot
           \/ UNCHANGED rq /\ host' \in {"idle", "update", "resume"}
    BY <1>4, Zenon DEF Attempt, RestoreSurface, Refused, AttemptFailed
  <2>2. CASE Requests(cand') /\ host' \in {"updating", "restoring"}
             /\ (host' = "restoring" => cand' = slot)
    BY <2>1, <2>2, CoreRequests, Zenon
  <2>3. CASE UNCHANGED rq /\ host' \in {"idle", "update", "resume"}
    BY <2>1, <2>3, CoreSends, Zenon
  <2> QED
    BY <2>1, <2>2, <2>3, Zenon
<1>5. CASE UpdateReplied \/ RestoreReplied
  <2>1. PICK c \in RenderCommands : c.op # "recreate" /\ (Send(c) \/ UNCHANGED rq)
    BY <1>5, HostSends, Zenon
  <2>2. \A i \in 1..Len(rq') :
          rq'[i].op = "recreate" => i \in 1..Len(rq) /\ rq'[i] = rq[i]
    BY <2>1, NoNewRecreate, Zenon
  <2>3. /\ host \in {"updating", "restoring"} /\ reply # "none" /\ reply' = "none"
        /\ host' \in {"idle", "update", "resume"}
        /\ slot' = slot \/ (slot' = cand /\ reply = "ok" /\ Prepare(cand))
        /\ UNCHANGED <<live, issued, torelease, binding, staged>>
    BY <1>5, Zenon DEF UpdateReplied, RestoreReplied, AttemptFailed
  <2> QED
    BY <2>2, <2>3, CoreReplies, Zenon
<1>6. CASE UpdateTimeout \/ RestoreTimeout
  <2>1. /\ reply = "none" /\ AbandonReply /\ host' \in {"idle", "update", "resume"}
        /\ UNCHANGED <<live, issued, torelease, slot, binding, reply>>
    BY <1>6, Zenon DEF UpdateTimeout, RestoreTimeout, AttemptFailed
  <2> QED
    BY <2>1, CoreAbandons, Zenon
<1>7. CASE RenderPause \/ RenderResume \/ RenderDraw \/ RenderDestroyed
  <2>1. PICK op \in {"pause", "resume", "draw", "destroyed"} : TakeRender(op)
    BY <1>7, Zenon DEF RenderPause, RenderResume, RenderDraw, RenderDestroyed
  <2>2. UNCHANGED <<live, issued, torelease, slot, binding, staged, host, cand, reply>>
    BY <1>7, Zenon DEF RenderPause, RenderResume, RenderDraw, RenderDestroyed
  <2> QED
    BY <2>1, <2>2, CoreTakes, Zenon
<1>8. CASE RenderRecreate
  BY <1>8, CoreRecreate, Zenon
<1>9. CASE InstallOk \/ \E phase \in Phases : InstallFails(phase)
  BY <1>9, CoreInstall, Zenon
<1>10. CASE ReleaseOnscreen
  BY <1>10, CoreRelease, Zenon
<1> QED
  BY <1>1, <1>2, <1>3, <1>4, <1>5, <1>6, <1>7, <1>8, <1>9, <1>10, Zenon
     DEF Next, PlatformStep, HostStep, RenderStep

-----------------------------------------------------------------------------
(* What is bound can be presented to *)

\* The four events of the state machine.
LEMMA SystemEvents ==
  ASSUME NEW s \in SurfaceSystems
  PROVE  /\ OnSurfaceAvailable(s).sized
         /\ s.state # "paused" => OnSurfaceAvailable(s).state = "ready"
         /\ OnSurfaceDestroyed(s).state # "paused"
         /\ OnPause(s).sized = s.sized
         /\ OnResume(s).state # "paused" /\ OnResume(s).sized = s.sized
         /\ s.sized => OnResume(s).state = "ready"
BY Zenon
   DEF SurfaceSystems, OnSurfaceAvailable, OnSurfaceDestroyed, OnPause, OnResume

\* Every step keeps a live binding sized, and ready while rendering runs.
LEMMA SystemKeeps ==
  ASSUME TypeOK, CoreInv, SystemInv, Next
  PROVE  SystemInv'
<1> USE Numbers DEF gate, wait, levels, thread, CoreInv
<1>0. system \in SurfaceSystems /\ render \in {"paused", "running"}
  BY Zenon DEF TypeOK
<1>1. CASE UNCHANGED <<render, system, binding>> /\ (IsLive(binding)' => IsLive(binding))
  BY <1>1, Zenon DEF SystemInv
<1>2. CASE UpdateSurface \/ SurfaceDestroyed
  <2>1. UNCHANGED <<render, system, binding>>
    BY <1>2, Zenon DEF UpdateSurface, SurfaceDestroyed
  <2>2. IsLive(binding)' => IsLive(binding)
    BY <1>2 DEF UpdateSurface, SurfaceDestroyed, RetireLive, IsLive, GateInv
  <2> QED
    BY <1>1, <2>1, <2>2, Zenon
<1>3. CASE OnShow \/ OnHide \/ OnRestart \/ HostStep \/ Draw \/ RenderDraw \/ RenderRecreate
  <2>1. UNCHANGED <<render, system, binding, live>>
    BY <1>3, Zenon
       DEF OnShow, OnHide, OnRestart, HostStep, HandleShow, HandleHide,
                HandleDestroyed, HandleUpdate, Attempt, UpdateReplied, UpdateTimeout,
                RestartFails, HandleRestart, RestoreSurface, RestoreReplied,
                RestoreTimeout, RestartResumes, Draw, RenderDraw, RenderRecreate
  <2> QED
    BY <1>1, <2>1, Zenon DEF IsLive
<1>4. CASE RenderPause
  <2>1. /\ render' = "paused" /\ UNCHANGED <<binding, live>>
        /\ system' = IF render = "running" THEN OnPause(system) ELSE system
    BY <1>4, Zenon DEF RenderPause
  <2>2. IsLive(binding) => system'.sized
    BY <1>0, <2>1, SystemEvents, Zenon DEF SystemInv
  <2> QED
    BY <2>1, <2>2, Zenon DEF SystemInv, IsLive
<1>5. CASE RenderResume
  <2>1. /\ render' = "running" /\ UNCHANGED <<binding, live>>
        /\ system' = IF render = "paused" THEN OnResume(system) ELSE system
    BY <1>5, Zenon DEF RenderResume
  <2>2. system'.state # "paused"
    BY <1>0, <2>1, SystemEvents, Zenon DEF SystemInv
  <2>3. IsLive(binding) => system'.sized /\ system'.state = "ready"
    BY <1>0, <2>1, SystemEvents, Zenon DEF SystemInv
  <2> QED
    BY <2>1, <2>2, <2>3, Zenon DEF SystemInv, IsLive
<1>6. CASE RenderDestroyed
  <2>1. /\ UNCHANGED <<binding, live, render>>
        /\ system' = system \/ (system' = OnSurfaceDestroyed(system) /\ ~IsLive(binding))
    BY <1>6, Zenon DEF RenderDestroyed
  <2>2. render' = "running" => system'.state # "paused"
    BY <1>0, <2>1, SystemEvents, Zenon DEF SystemInv
  <2> QED
    BY <2>1, <2>2, Zenon DEF SystemInv, IsLive
<1>7. CASE InstallOk
  <2>1. /\ binding' = staged.generation /\ UNCHANGED <<live, render>>
        /\ system' = IF IsLive(staged.generation) THEN OnSurfaceAvailable(system)
                     ELSE OnSurfaceDestroyed(system)
    BY <1>7, Zenon DEF InstallOk
  <2>2. CASE IsLive(staged.generation)
    <3>1. /\ system'.sized /\ (render = "running" => system'.state = "ready")
      BY <1>0, <2>1, <2>2, SystemEvents, Zenon DEF SystemInv
    <3> QED
      BY <2>1, <3>1, Zenon DEF SystemInv
  <2>3. CASE ~IsLive(staged.generation)
    <3>1. system'.state # "paused"
      BY <1>0, <2>1, <2>3, SystemEvents, Zenon
    <3>2. ~IsLive(binding)'
      BY <2>1, <2>3, Zenon DEF IsLive
    <3> QED
      BY <3>1, <3>2, Zenon DEF SystemInv
  <2> QED
    BY <2>2, <2>3, Zenon
<1>8. ASSUME NEW phase \in Phases, InstallFails(phase) PROVE SystemInv'
  <2>1. IsLive(binding) => IsLive(staged.generation)
    BY <1>8, StagedGeneration, Zenon DEF InstallFails
  <2>2. /\ UNCHANGED render /\ system' \in {system, OnSurfaceDestroyed(system)}
        /\ binding' \in {binding, staged.generation}
        /\ IsLive(staged.generation) => live' = 0
        /\ ~IsLive(staged.generation) => live' = live
    BY <1>8, Zenon DEF InstallFails, RetireLive
  <2>3. ~IsLive(binding)'
    BY <2>1, <2>2, Zenon DEF IsLive
  <2>4. render' = "running" => system'.state # "paused"
    BY <1>0, <2>2, SystemEvents, Zenon DEF SystemInv
  <2> QED
    BY <2>3, <2>4, Zenon DEF SystemInv
<1>9. CASE SwapLost \/ FrameWithoutSurface \/ ReleaseOnscreen
  <2>1. /\ UNCHANGED render /\ system' \in {system, OnSurfaceDestroyed(system)}
        /\ ~IsLive(binding)' \/ (system' = system /\ UNCHANGED <<binding, live>>)
    BY <1>9, Zenon
       DEF SwapLost, FrameWithoutSurface, ReleaseOnscreen, RetireLive, IsLive
  <2>2. render' = "running" => system'.state # "paused"
    BY <1>0, <2>1, SystemEvents, Zenon DEF SystemInv
  <2> QED
    BY <2>1, <2>2, Zenon DEF SystemInv, IsLive
<1> QED
  BY <1>2, <1>3, <1>4, <1>5, <1>6, <1>7, <1>8, <1>9, Zenon
     DEF Next, PlatformStep, RenderStep

-----------------------------------------------------------------------------
(* What the session was told *)

\* Only the tail of on_update_surface gives the host a live Surface it had not.
LEMMA LiveSlot ==
  ASSUME TypeOK, CoreInv, Next, ~UpdateReplied
  PROVE  HasLiveSurface' => HasLiveSurface
<1> USE Numbers DEF gate, wait, levels, thread, CoreInv
<1>1. CASE UpdateSurface
  BY <1>1 DEF UpdateSurface, HasLiveSurface, IsLive, GateInv
<1>2. CASE RestoreReplied
  BY <1>2, Zenon DEF RestoreReplied, HasLiveSurface, IsLive, ReplyInv
<1>3. CASE HandleDestroyed
  BY <1>3, Zenon DEF HandleDestroyed, HasLiveSurface, IsLive
<1>4. CASE ~(UpdateSurface \/ RestoreReplied \/ HandleDestroyed)
  <2>1. slot' = slot /\ live' \in {live, 0}
    BY <1>4, Zenon DEF Next, PlatformStep, RenderStep, HostStep,
            OnShow, OnHide, OnRestart, SurfaceDestroyed, HandleShow, HandleHide,
            HandleUpdate, Attempt, UpdateTimeout,
            RestartFails, HandleRestart, RestoreSurface,
            RestoreTimeout, RestartResumes, Draw, RenderDraw, RenderRecreate,
            RenderPause, RenderResume, RenderDestroyed, InstallOk, InstallFails,
            SwapLost, FrameWithoutSurface, ReleaseOnscreen, RetireLive
  <2> QED
    BY <2>1, Zenon DEF HasLiveSurface, IsLive
<1> QED
  BY <1>1, <1>2, <1>3, <1>4, Zenon

\* The host's flags agree after every step.
LEMMA ShowKeeps ==
  ASSUME TypeOK, CoreInv, ShowInv, Next
  PROVE  ShowInv'
<1> USE DEF gate, wait, levels, thread
<1>0. visible \in {"shown", "hidden"} /\ pendingShow \in BOOLEAN /\ restarted \in BOOLEAN
  BY Zenon DEF TypeOK
<1>1. CASE HandleShow
  <2>1. /\ host = "idle" /\ visible' = "shown" /\ UNCHANGED <<live, slot, host>>
    BY <1>1, Zenon DEF HandleShow, Take
  <2>2. HasLiveSurface' <=> HasLiveSurface
    BY <2>1, Zenon DEF HasLiveSurface, IsLive
  <2>3. CASE HasLiveSurface
    <3>1. audio' = "running" /\ timers' = "shown" /\ pendingShow' = pendingShow
      BY <1>1, <2>3, Zenon DEF HandleShow, EnterForeground
    <3> QED
      BY <2>1, <2>2, <2>3, <3>1, Zenon DEF ShowInv
  <2>4. CASE ~HasLiveSurface
    <3>1. pendingShow' = TRUE
      BY <1>1, <2>4, Zenon DEF HandleShow
    <3> QED
      BY <2>1, <2>2, <2>4, <3>1, Zenon DEF ShowInv
  <2> QED
    BY <2>3, <2>4, Zenon
<1>2. CASE HandleHide
  <2>1. visible' = "hidden" /\ audio' = "paused" /\ pendingShow' = FALSE
    BY <1>2, Zenon DEF HandleHide
  <2> QED
    BY <2>1, Zenon DEF ShowInv
<1>3. CASE UpdateReplied /\ reply = "ok" /\ Prepare(cand)
  <2>1. SurfaceInstalled /\ UNCHANGED <<visible, restarted>>
    BY <1>3, Zenon DEF UpdateReplied
  <2>2. CASE visible = "shown"
    <3>1. /\ audio' = "running" /\ pendingShow' = FALSE
          /\ timers' = IF pendingShow THEN "shown" ELSE timers
      BY <2>1, <2>2, Zenon DEF SurfaceInstalled, EnterForeground
    <3>2. timers' = "shown"
      BY <2>2, <3>1, Zenon DEF ShowInv
    <3> QED
      BY <2>1, <2>2, <3>1, <3>2, Zenon DEF ShowInv
  <2>3. CASE visible = "hidden"
    <3>1. UNCHANGED <<audio, pendingShow, timers>>
      BY <2>1, <2>3, Zenon DEF SurfaceInstalled
    <3> QED
      BY <2>1, <2>3, <3>1, Zenon DEF ShowInv
  <2> QED
    BY <1>0, <2>2, <2>3, Zenon
<1>4. CASE UpdateReplied /\ ~(reply = "ok" /\ Prepare(cand))
  <2>1. /\ host = "updating" /\ host' \in {"idle", "update"}
        /\ UNCHANGED <<live, slot, visible, restarted, audio, pendingShow, timers>>
    BY <1>4, Zenon DEF UpdateReplied, AttemptFailed
  <2> QED
    BY <2>1, Zenon DEF ShowInv, HasLiveSurface, IsLive
<1>5. CASE HandleRestart
  <2>1. /\ audio' = "paused" /\ host' = "rebuild"
        /\ UNCHANGED <<visible, pendingShow, timers, restarted, live, slot>>
    BY <1>5, Zenon DEF HandleRestart
  <2> QED
    BY <2>1, Zenon DEF ShowInv, HasLiveSurface, IsLive
<1>6. CASE RestartResumes
  <2>1. /\ audio' = "running" /\ (restarted' <=> (restarted \/ visible = "hidden"))
        /\ UNCHANGED <<visible, pendingShow, timers, live, slot>>
    BY <1>6, Zenon DEF RestartResumes
  <2> QED
    BY <2>1, Zenon DEF ShowInv, HasLiveSurface, IsLive
<1>7. CASE \/ PlatformStep \/ RenderStep \/ Draw \/ HandleDestroyed \/ HandleUpdate
           \/ Attempt \/ UpdateTimeout \/ RestartFails \/ RestoreSurface
           \/ RestoreReplied \/ RestoreTimeout
  <2>1. /\ UNCHANGED <<visible, pendingShow, timers, audio, restarted>>
        /\ host' \notin {"rebuild", "restoring", "resume"} =>
             host \notin {"rebuild", "restoring", "resume"}
        /\ ~UpdateReplied
    BY <1>7, Zenon DEF PlatformStep, RenderStep,
            OnShow, OnHide, OnRestart, UpdateSurface, SurfaceDestroyed, HandleDestroyed,
            HandleUpdate, Take, Attempt, AttemptFailed, UpdateTimeout, UpdateReplied,
            RestartFails, RestoreSurface, RestoreReplied, RestoreTimeout, Draw,
            RenderDraw, RenderRecreate, RenderPause, RenderResume, RenderDestroyed,
            InstallOk, InstallFails, SwapLost, FrameWithoutSurface, ReleaseOnscreen
  <2>2. HasLiveSurface' => HasLiveSurface
    BY <2>1, LiveSlot, Zenon
  <2> QED
    BY <2>1, <2>2, Zenon DEF ShowInv
<1> QED
  BY <1>1, <1>2, <1>3, <1>4, <1>5, <1>6, <1>7, Zenon DEF Next, HostStep

-----------------------------------------------------------------------------
(* Pause and Resume *)

\* A Pause or Resume that fits is the last one queued.
LEMMA LevelSends ==
  ASSUME TypeOK, NEW level \in {"paused", "running"},
         SendLevel(LevelOp(level)), audio' = level
  PROVE  LevelInv'
<1> DEFINE c == [op |-> LevelOp(level)]
           n == Len(rq)
<1>1. c \in RenderCommands /\ c.op = LevelOp(level) /\ IsLevel(c)
  BY PlainCommands, Zenon DEF LevelOp, IsLevel
<1>2. Send(c) /\ dropped' = (n = QueueCapacity)
  BY Zenon DEF SendLevel
<1> HIDE DEF c
<1>3. CASE n = QueueCapacity
  BY <1>2, <1>3, Zenon DEF LevelInv
<1>4. CASE /\ n # QueueCapacity /\ Len(rq') = n + 1 /\ rq'[n + 1] = c
           /\ \A i \in 1..n : rq'[i] = rq[i]
  <2>1. n \in Nat
    BY DEF TypeOK
  <2>2. n + 1 \in 1..Len(rq') /\ IsLevel(rq'[n + 1]) /\ rq'[n + 1].op = LevelOp(audio')
    BY <1>1, <1>4, <2>1
  <2>3. ASSUME NEW i \in 1..Len(rq'), \A j \in (i + 1)..Len(rq') : ~IsLevel(rq'[j])
        PROVE  rq'[i].op = LevelOp(audio')
    <3>1. i = n + 1
      <4> SUFFICES ASSUME i # n + 1 PROVE FALSE
        OBVIOUS
      <4>1. n + 1 \in (i + 1)..Len(rq')
        BY <1>4, <2>1
      <4> QED
        BY <2>2, <2>3, <4>1, Zenon
    <3> QED
      BY <2>2, <3>1, Zenon
  <2> QED
    BY <2>2, <2>3, Zenon DEF LevelInv
<1> QED
  BY <1>1, <1>2, <1>3, <1>4, Sends, Zenon

\* Other commands at the end of the queue change nothing.
LEMMA LevelStays ==
  ASSUME TypeOK, TypeOK', LevelInv, UNCHANGED <<dropped, audio, render>>,
         Len(rq') >= Len(rq),
         \A i \in 1..Len(rq) : rq'[i].op = rq[i].op,
         \A i \in 1..Len(rq') : i \notin 1..Len(rq) => ~IsLevel(rq'[i])
  PROVE  LevelInv'
<1>0. rq \in Seq(RenderCommands) /\ rq' \in Seq(RenderCommands)
  BY Zenon DEF TypeOK
<1>1. Len(rq) \in Nat /\ Len(rq') \in Nat
  BY <1>0
<1>2. \A i \in 1..Len(rq) : i \in 1..Len(rq') /\ (IsLevel(rq'[i]) <=> IsLevel(rq[i]))
  BY <1>1 DEF IsLevel
<1> SUFFICES ASSUME ~dropped
             PROVE  /\ \A i \in 1..Len(rq') :
                         IsLevel(rq'[i]) /\ (\A j \in (i + 1)..Len(rq') : ~IsLevel(rq'[j]))
                           => rq'[i].op = LevelOp(audio)
                    /\ (\A i \in 1..Len(rq') : ~IsLevel(rq'[i])) => render = audio
  BY Zenon DEF LevelInv
<1>3. ASSUME NEW i \in 1..Len(rq'), IsLevel(rq'[i]),
             \A j \in (i + 1)..Len(rq') : ~IsLevel(rq'[j])
      PROVE  rq'[i].op = LevelOp(audio)
  <2>1. i \in 1..Len(rq) /\ IsLevel(rq[i])
    BY <1>2, <1>3, Zenon
  <2>2. \A j \in (i + 1)..Len(rq) : j \in 1..Len(rq) /\ j \in (i + 1)..Len(rq')
    BY <1>1, <2>1
  <2>3. \A j \in (i + 1)..Len(rq) : ~IsLevel(rq[j])
    BY <1>2, <1>3, <2>2, Zenon
  <2>4. rq[i].op = LevelOp(audio)
    BY <2>1, <2>3, Zenon DEF LevelInv
  <2> QED
    BY <2>1, <2>4, Zenon
<1>4. (\A i \in 1..Len(rq') : ~IsLevel(rq'[i])) => render = audio
  BY <1>2, Zenon DEF LevelInv
<1> QED
  BY <1>3, <1>4, Zenon

\* The render thread follows the command it takes.
LEMMA LevelTakes ==
  ASSUME TypeOK, LevelInv, UNCHANGED <<dropped, audio>>, NEW op, TakeRender(op),
         \/ op = "pause" /\ render' = "paused"
         \/ op = "resume" /\ render' = "running"
         \/ op \notin {"pause", "resume"} /\ render' = render
  PROVE  LevelInv'
<1>1. /\ 1 \in 1..Len(rq) /\ rq[1].op = op
      /\ Len(rq') \in Nat /\ Len(rq) = Len(rq') + 1
      /\ \A i \in 1..Len(rq') : i + 1 \in 1..Len(rq) /\ rq'[i] = rq[i + 1]
  BY Takes, Zenon
<1>2. audio \in {"paused", "running"}
  BY Zenon DEF TypeOK
<1>3. \A i \in 1..Len(rq) : i = 1 \/ (i - 1 \in 1..Len(rq') /\ rq[i] = rq'[i - 1])
  <2> TAKE i \in 1..Len(rq)
  <2>1. CASE i # 1
    <3>1. i - 1 \in 1..Len(rq') /\ (i - 1) + 1 = i
      BY <1>1, <2>1
    <3> QED
      BY <1>1, <3>1, Zenon
  <2> QED
    BY <2>1, Zenon
<1> SUFFICES ASSUME ~dropped
             PROVE  /\ \A i \in 1..Len(rq') :
                         IsLevel(rq'[i]) /\ (\A j \in (i + 1)..Len(rq') : ~IsLevel(rq'[j]))
                           => rq'[i].op = LevelOp(audio)
                    /\ (\A i \in 1..Len(rq') : ~IsLevel(rq'[i])) => render' = audio
  BY Zenon DEF LevelInv
<1>4. ASSUME NEW i \in 1..Len(rq'), IsLevel(rq'[i]),
             \A j \in (i + 1)..Len(rq') : ~IsLevel(rq'[j])
      PROVE  rq'[i].op = LevelOp(audio)
  <2>1. i + 1 \in 1..Len(rq) /\ rq'[i] = rq[i + 1]
    BY <1>1, Zenon
  <2>2. \A j \in (i + 2)..Len(rq) : j # 1 /\ j \in 1..Len(rq) /\ j - 1 \in (i + 1)..Len(rq')
    BY <1>1
  <2>3. \A j \in (i + 2)..Len(rq) : ~IsLevel(rq[j])
    BY <1>3, <1>4, <2>2, Zenon
  <2>4. (i + 1) + 1 = i + 2
    OBVIOUS
  <2> QED
    BY <1>4, <2>1, <2>3, <2>4, Zenon DEF LevelInv
<1>5. ASSUME \A i \in 1..Len(rq') : ~IsLevel(rq'[i])
      PROVE  render' = audio
  <2>1. \A i \in 1..Len(rq) : i # 1 => ~IsLevel(rq[i])
    BY <1>3, <1>5, Zenon
  <2>2. CASE op \notin {"pause", "resume"}
    <3>1. \A i \in 1..Len(rq) : ~IsLevel(rq[i])
      BY <1>1, <2>1, <2>2, Zenon DEF IsLevel
    <3> QED
      BY <2>2, <3>1, Zenon DEF LevelInv
  <2>3. CASE op \in {"pause", "resume"}
    <3>1. IsLevel(rq[1]) /\ \A j \in (1 + 1)..Len(rq) : ~IsLevel(rq[j])
      BY <1>1, <2>1, <2>3 DEF IsLevel
    <3>2. op = LevelOp(audio)
      BY <1>1, <3>1, Zenon DEF LevelInv
    <3> QED
      BY <1>2, <2>3, <3>2 DEF LevelOp
  <2> QED
    BY <2>2, <2>3, Zenon
<1> QED
  BY <1>4, <1>5, Zenon

\* Every step keeps it.
LEMMA LevelKeeps ==
  ASSUME TypeOK, TypeOK', LevelInv, Next
  PROVE  LevelInv'
<1> USE DEF gate, wait, levels, thread
<1>0. LevelOp("running") = "resume" /\ LevelOp("paused") = "pause" /\ Len(rq) \in Nat
  BY DEF LevelOp, TypeOK
<1>1. CASE UNCHANGED <<dropped, audio, render, rq>>
  BY <1>1, Zenon DEF LevelInv
<1>2. CASE \E level \in {"paused", "running"} : SendLevel(LevelOp(level)) /\ audio' = level
  BY <1>2, LevelSends, Zenon
<1>3. ASSUME NEW c \in RenderCommands, ~IsLevel(c), Send(c), UNCHANGED <<dropped, audio, render>>
      PROVE  LevelInv'
  <2>1. CASE rq' = rq
    BY <1>1, <1>3, <2>1, Zenon
  <2>2. CASE /\ Len(rq') = Len(rq) + 1 /\ rq'[Len(rq) + 1] = c
             /\ \A i \in 1..Len(rq) : rq'[i] = rq[i]
    <3>1. \A i \in 1..Len(rq') : i \notin 1..Len(rq) => i = Len(rq) + 1
      BY <1>0, <2>2
    <3> QED
      BY <1>0, <1>3, <2>2, <3>1, LevelStays
  <2> QED
    BY <1>3, <2>1, <2>2, Sends, Zenon
<1>4. CASE HandleShow
  <2>1. CASE HasLiveSurface
    BY <1>0, <1>2, <1>4, <2>1, Zenon DEF HandleShow, EnterForeground
  <2>2. CASE ~HasLiveSurface
    BY <1>1, <1>4, <2>2, Zenon DEF HandleShow
  <2> QED
    BY <2>1, <2>2, Zenon
<1>5. CASE HandleHide \/ HandleRestart
  BY <1>0, <1>2, <1>5, Zenon DEF HandleHide, HandleRestart
<1>6. CASE RestartResumes
  BY <1>0, <1>2, <1>6, Zenon DEF RestartResumes
<1>7. CASE UpdateReplied
  <2>1. CASE EnterForeground
    BY <1>0, <1>2, <2>1, Zenon DEF EnterForeground
  <2>2. CASE UNCHANGED <<rq, dropped, audio>>
    BY <1>1, <1>7, <2>2, Zenon DEF UpdateReplied
  <2> QED
    BY <1>7, <2>1, <2>2, Zenon DEF UpdateReplied, SurfaceInstalled
<1>8. CASE HandleDestroyed
  <2>1. CASE Send(Head(inbox))
    <3>1. Head(inbox) \in Commands /\ Head(inbox).op = "destroyed"
      BY <1>8, TakeTypes, Zenon DEF HandleDestroyed
    <3>2. Head(inbox) \in RenderCommands /\ ~IsLevel(Head(inbox))
      BY <3>1, PlainCommands, Zenon DEF IsLevel
    <3> QED
      BY <1>3, <1>8, <2>1, <3>2, Zenon DEF HandleDestroyed
  <2>2. CASE UNCHANGED rq
    BY <1>1, <1>8, <2>2, Zenon DEF HandleDestroyed
  <2> QED
    BY <1>8, <2>1, <2>2, Zenon DEF HandleDestroyed
<1>9. CASE Draw
  <2>1. [op |-> "draw"] \in RenderCommands /\ ~IsLevel([op |-> "draw"])
    BY PlainCommands, Zenon DEF IsLevel
  <2> QED
    BY <1>3, <1>9, <2>1, Zenon DEF Draw
<1>10. CASE Attempt \/ RestoreSurface
  <2>1. UNCHANGED <<dropped, audio, render>>
    BY <1>10, Zenon DEF Attempt, RestoreSurface
  <2>2. CASE UNCHANGED rq
    BY <1>1, <2>1, <2>2, Zenon
  <2>3. CASE \E g : Requests(g)
    <3>1. PICK g : Requests(g)
      BY <2>3, Zenon
    <3>2. /\ Len(rq') = Len(rq) + 1
          /\ rq'[Len(rq) + 1] = [op |-> "recreate", generation |-> g, awaited |-> TRUE]
          /\ \A i \in 1..Len(rq) : rq'[i] = rq[i]
      BY <3>1, RequestTypes, Zenon
    <3>3. ~IsLevel(rq'[Len(rq) + 1])
      BY <3>2 DEF IsLevel
    <3>4. \A i \in 1..Len(rq') : i \notin 1..Len(rq) => i = Len(rq) + 1
      BY <1>0, <3>2
    <3> QED
      BY <1>0, <2>1, <3>2, <3>3, <3>4, LevelStays
  <2> QED
    BY <1>10, <2>2, <2>3, Zenon DEF Attempt, RestoreSurface, Refused
<1>11. CASE UpdateTimeout \/ RestoreTimeout
  <2>1. /\ Len(rq') = Len(rq) /\ \A i \in 1..Len(rq) : rq'[i].op = rq[i].op
    BY <1>11, AbandonTypes, Zenon DEF UpdateTimeout, RestoreTimeout
  <2>2. UNCHANGED <<dropped, audio, render>>
    BY <1>11, Zenon DEF UpdateTimeout, RestoreTimeout
  <2> QED
    BY <1>0, <2>1, <2>2, LevelStays
<1>12. CASE RenderPause \/ RenderResume \/ RenderDraw \/ RenderDestroyed \/ RenderRecreate
  <2>1. PICK op \in {"pause", "resume", "draw", "destroyed", "recreate"} :
          /\ TakeRender(op)
          /\ \/ op = "pause" /\ render' = "paused"
             \/ op = "resume" /\ render' = "running"
             \/ op \notin {"pause", "resume"} /\ render' = render
    BY <1>12, Zenon
       DEF RenderPause, RenderResume, RenderDraw, RenderDestroyed, RenderRecreate
  <2>2. UNCHANGED <<dropped, audio>>
    BY <1>12, Zenon
       DEF RenderPause, RenderResume, RenderDraw, RenderDestroyed, RenderRecreate
  <2> QED
    BY <2>1, <2>2, LevelTakes, Zenon
<1>13. CASE \/ PlatformStep \/ HandleUpdate \/ RestartFails \/ RestoreReplied
            \/ InstallOk \/ (\E phase \in Phases : InstallFails(phase))
            \/ SwapLost \/ FrameWithoutSurface \/ ReleaseOnscreen
  <2>1. UNCHANGED <<dropped, audio, render, rq>>
    BY <1>13, Zenon
       DEF PlatformStep, OnShow, OnHide, OnRestart, UpdateSurface, SurfaceDestroyed,
                 HandleUpdate, RestartFails, RestoreReplied, InstallOk, InstallFails,
                 SwapLost, FrameWithoutSurface, ReleaseOnscreen
  <2> QED
    BY <1>1, <2>1, Zenon
<1> QED
  BY <1>4, <1>5, <1>6, <1>7, <1>8, <1>9, <1>10, <1>11, <1>12, <1>13, Zenon
     DEF Next, HostStep, RenderStep

-----------------------------------------------------------------------------

\* The inductive invariant holds in every reachable state.
THEOREM ForegroundInvariant == Spec => []ForegroundInv
<1>1. Init => ForegroundInv
  <2> SUFFICES ASSUME Init PROVE ForegroundInv
    OBVIOUS
  <2>1. /\ inbox = <<>> /\ rq = <<>> /\ inbox \in Seq(Commands) /\ rq \in Seq(RenderCommands)
        /\ Len(rq) = 0 /\ Len(inbox) = 0
    BY DEF Init
  <2>2. staged.generation = 0 /\ ~staged.awaited
        /\ staged \in [generation : 0..MaxGeneration, awaited : BOOLEAN]
    BY ForegroundAssumption DEF Init, Unstaged
  <2>3. TypeOK
    <3>1. system \in SurfaceSystems
      <4>1. CASE live = 1
        BY <4>1, Zenon DEF Init, SurfaceSystems
      <4>2. CASE live = 0
        BY <4>2, Zenon DEF Init, SurfaceSystems
      <4> QED
        BY <4>1, <4>2, Zenon DEF Init
    <3>2. /\ live \in 0..MaxGeneration /\ issued \in 0..MaxGeneration
          /\ torelease \in 0..MaxGeneration /\ cand \in 0..MaxGeneration
          /\ slot \in 0..MaxGeneration /\ binding \in 0..MaxGeneration
          /\ attempts \in 0..MaxAttempts
      BY ForegroundAssumption DEF Init
    <3>3. /\ Len(rq) <= QueueCapacity /\ Len(inbox) <= MaxInbox
      BY <2>1, ForegroundAssumption
    <3> QED
      BY <2>1, <2>2, <3>1, <3>2, <3>3, Zenon DEF Init, TypeOK
  <2>4. GateInv /\ OrderInv /\ SlotIsBound
    BY <2>1, <2>2 DEF Init, GateInv, OrderInv, SlotIsBound, HasLiveSurface, IsLive
  <2>5. ReplyInv
    BY <2>1, <2>2 DEF Init, ReplyInv, Waiting
  <2>6. SystemInv
    BY Zenon DEF Init, SystemInv, IsLive
  <2>7. LevelInv
    BY <2>1 DEF Init, LevelInv
  <2>8. ShowInv
    BY Zenon DEF Init, ShowInv
  <2> QED
    BY <2>3, <2>4, <2>5, <2>6, <2>7, <2>8, Zenon DEF ForegroundInv
<1>2. ForegroundInv /\ [Next]_vars => ForegroundInv'
  <2> SUFFICES ASSUME ForegroundInv, [Next]_vars PROVE ForegroundInv'
    BY Zenon
  <2>1. CASE UNCHANGED vars
    BY <2>1 DEF vars, gate, wait, levels, thread, ForegroundInv, TypeOK, GateInv, OrderInv,
                ReplyInv, SlotIsBound, SystemInv, LevelInv, ShowInv, HasLiveSurface,
                IsLive, Waiting, IsLevel
  <2>2. CASE Next
    <3>1. TypeOK'
      BY <2>2, PlatformTypes, HostTypes, RenderTypes, Zenon
         DEF Next, ForegroundInv
    <3>2. CoreInv'
      BY <2>2, CoreKeeps, Zenon DEF ForegroundInv, CoreInv
    <3>3. SystemInv'
      BY <2>2, SystemKeeps, Zenon DEF ForegroundInv, CoreInv
    <3>4. LevelInv'
      BY <2>2, <3>1, LevelKeeps, Zenon DEF ForegroundInv
    <3>5. ShowInv'
      BY <2>2, ShowKeeps, Zenon DEF ForegroundInv, CoreInv
    <3> QED
      BY <3>1, <3>2, <3>3, <3>4, <3>5, Zenon DEF ForegroundInv, CoreInv
  <2> QED
    BY <2>1, <2>2, Zenon
<1> QED
  BY <1>1, <1>2, PTL DEF Spec

\* The two threads' variables keep their types and the queues their bounds.
THEOREM ForegroundTyping == Spec => []TypeOK
<1>1. ForegroundInv => TypeOK
  BY Zenon DEF ForegroundInv
<1> QED
  BY <1>1, ForegroundInvariant, PTL

\* The host's live slot is what the render thread has installed, late and
\* abandoned replies included, for any number of retries and generations.
THEOREM SlotHolds == Spec => []SlotIsBound
<1>1. ForegroundInv => SlotIsBound
  BY Zenon DEF ForegroundInv
<1> QED
  BY <1>1, ForegroundInvariant, PTL

\* A hidden session that was not restarted since is quiet once everything asked
\* for has been carried out, unless its Pause was lost to a full queue.
THEOREM QuietHolds == Spec => []QuietUntilRestart
<1>1. ForegroundInv => QuietUntilRestart
  <2> SUFFICES ASSUME ForegroundInv, Settled, visible = "hidden", ~restarted, ~dropped
               PROVE  render = "paused" /\ audio = "paused"
    BY Zenon DEF QuietUntilRestart
  <2>1. Len(rq) = 0
    BY Zenon DEF Settled
  <2>2. audio = "paused"
    BY Zenon DEF ForegroundInv, ShowInv
  <2>3. render = audio
    BY <2>1 DEF ForegroundInv, LevelInv
  <2> QED
    BY <2>2, <2>3, Zenon
<1> QED
  BY <1>1, ForegroundInvariant, PTL

\* A shown session with a live Surface runs once everything asked for has been
\* carried out, in whatever order show, Surface and restart came.
THEOREM ForegroundHolds == Spec => []ForegroundRuns
<1>1. ForegroundInv => ForegroundRuns
  <2> SUFFICES ASSUME ForegroundInv, Settled, visible = "shown", HasLiveSurface, ~dropped
               PROVE  /\ render = "running" /\ audio = "running" /\ timers = "shown"
                      /\ system = [state |-> "ready", sized |-> TRUE]
                      /\ ~pendingShow
    BY Zenon DEF ForegroundRuns
  <2>1. Len(rq) = 0 /\ host = "idle"
    BY Zenon DEF Settled
  <2>2. audio = "running"
    BY <2>1, Zenon DEF ForegroundInv, ShowInv
  <2>3. render = "running"
    BY <2>1, <2>2 DEF ForegroundInv, LevelInv
  <2>4. timers = "shown" /\ ~pendingShow
    BY Zenon DEF ForegroundInv, ShowInv
  <2>5. IsLive(binding)
    BY Zenon DEF ForegroundInv, SlotIsBound, HasLiveSurface
  <2>6. system.sized = TRUE /\ system.state = "ready" /\ system \in SurfaceSystems
    BY <2>3, <2>5, Zenon DEF ForegroundInv, SystemInv, TypeOK, SurfaceSystems
  <2>7. system = [state |-> "ready", sized |-> TRUE]
    BY <2>6, Zenon DEF SurfaceSystems
  <2> QED
    BY <2>2, <2>3, <2>4, <2>7, Zenon
<1> QED
  BY <1>1, ForegroundInvariant, PTL

=============================================================================
