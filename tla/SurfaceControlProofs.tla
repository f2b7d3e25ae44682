------------------------ MODULE SurfaceControlProofs -----------------------
(***************************************************************************)
(* Proofs about SurfaceControl, for every number of threads and every      *)
(* generation bound, with and without the store buffer where not said      *)
(* otherwise.                                                              *)
(***************************************************************************)
EXTENDS SurfaceControl, TLAPS

\* A word a thread has loaded or written is not ahead of the gate.
CurBehind ==
  \A t \in Threads : pc[t] \in {"attach_swap", "attach_check", "retire_swap",
                                "publish"} => cur[t].gen <= word.gen

\* Generation g was issued and is not live.
Retired(g) == g <= word.gen /\ (g = word.gen => word.live = 0)

\* What is published, or about to be, is retired.
OnlyRetired ==
  /\ Retired(latestRetired)
  /\ \A t \in Threads : pc[t] = "publish" => Retired(cur[t].gen)
  /\ render = "lose_publish" => Retired(losing)
  /\ requested <= latestRetired

ControlInv == TypeOK /\ CurBehind /\ OnlyRetired

\* Once shutting_down is set, a live generation has a thread that is about to
\* retire it: the one that issued it, or one that runs retire_current.
RetirementOwed ==
  /\ shutdowns # {} => shuttingDown = "yes"
  /\ shuttingDown = "yes" /\ word.live = 1
       => \E t \in Threads : \/ pc[t] \in {"attach_check", "retire_load"}
                             \/ pc[t] = "retire_swap" /\ cur[t].live = 1

-----------------------------------------------------------------------------

\* Every access of the control plane and of the render thread preserves the
\* types of the state.
THEOREM ControlTyping == Spec => []TypeOK
<1>1. Init => TypeOK
  BY ControlAssumption
     DEF Init, TypeOK, Word
<1>2. TypeOK /\ [Next]_vars => TypeOK'
  <2> SUFFICES ASSUME TypeOK, [Next]_vars PROVE TypeOK'
    OBVIOUS
  <2> USE ControlAssumption DEF TypeOK, Word, Generations, gate, flag, channel,
          local, binding, Goto, Load, LiveWord, Dead, IsLive
  <2>1. CASE UNCHANGED vars
    BY <2>1 DEF vars
  <2>2. ASSUME NEW t \in Threads, Attach(t) PROVE TypeOK'
    <3>1. CASE AttachLoad(t)
      BY <3>1 DEF AttachLoad
    <3>2. CASE AttachReuse(t)
      BY <3>2 DEF AttachReuse
    <3>3. CASE AttachExhausted(t)
      BY <3>3 DEF AttachExhausted
    <3>4. CASE AttachSwap(t)
      <4>1. CASE word = cur[t]
        <5>1. word.gen + 1 \in 0..MaxGeneration
          BY <3>4, <4>1 DEF AttachSwap
        <5>2. LiveWord(word.gen + 1) \in Word
          BY <5>1
        <5> HIDE DEF LiveWord, Word
        <5> QED BY <3>4, <4>1, <5>2, Zenon DEF AttachSwap
      <4>2. CASE word # cur[t]
        <5> HIDE DEF Word
        <5> QED BY <3>4, <4>2, Zenon DEF AttachSwap
      <4> QED BY <4>1, <4>2
    <3>5. CASE AttachCheck(t)
      <4>1. pc' \in [Threads -> {"idle", "attach_load", "attach_swap",
              "attach_check", "retire_load", "retire_swap", "publish", "wake"}]
        BY <3>5 DEF AttachCheck
      <4>2. granted' \in SUBSET (0..MaxGeneration)
        <5>1. cur[t].gen \in 0..MaxGeneration
          OBVIOUS
        <5> QED BY <3>5, <5>1, Zenon DEF AttachCheck
      <4> QED BY <3>5, <4>1, <4>2 DEF AttachCheck
    <3> QED BY <2>2, <3>1, <3>2, <3>3, <3>4, <3>5 DEF Attach
  <2>3. ASSUME NEW t \in Threads, Retire(t) PROVE TypeOK'
    <3>1. CASE RetireLoad(t)
      BY <3>1 DEF RetireLoad
    <3>2. CASE RetireNone(t)
      BY <3>2 DEF RetireNone
    <3>3. CASE RetireSwap(t)
      BY <3>3 DEF RetireSwap
    <3>4. CASE Publish(t)
      BY <3>4 DEF Publish, FetchMax
    <3>5. CASE Wake(t)
      BY <3>5 DEF Wake, WakeRender
    <3> QED BY <2>3, <3>1, <3>2, <3>3, <3>4, <3>5 DEF Retire
  <2>4. ASSUME NEW t \in Threads, Begin(t) PROVE TypeOK'
    <3>1. CASE AttachBegin(t)
      BY <3>1 DEF AttachBegin
    <3>2. CASE RetireBegin(t)
      BY <3>2 DEF RetireBegin
    <3>3. CASE Shutdown(t)
      BY <3>3 DEF Shutdown
    <3>4. ASSUME NEW g \in Generations, RetireGeneration(t, g) PROVE TypeOK'
      BY <3>4 DEF RetireGeneration
    <3> QED BY <2>4, <3>1, <3>2, <3>3, <3>4 DEF Begin
  <2>5. ASSUME NEW t \in Threads, Drain(t) PROVE TypeOK'
    BY <2>5 DEF Drain
  <2>6. CASE Render
    <3>1. CASE InstallSender \/ InstallCheck
      BY <3>1, Zenon DEF InstallSender, InstallCheck
    <3>2. CASE RenderCommit \/ RenderLose
      BY <3>2 DEF RenderCommit, RenderLose
    <3>3. CASE RenderLosePublish \/ RenderLoseWake
      BY <3>3, Zenon DEF RenderLosePublish, RenderLoseWake, WakeRender, FetchMax
    <3>4. CASE RenderWoken \/ RenderRead
      BY <3>4, Zenon DEF RenderWoken, RenderRead
    <3>5. CASE \E failed \in BOOLEAN : RenderRelease(failed)
      BY <3>5 DEF RenderRelease
    <3> QED BY <2>6, <3>1, <3>2, <3>3, <3>4, <3>5 DEF Render
  <2>7. CASE RenderSwapFailed
    BY <2>7 DEF RenderSwapFailed
  <2>8. ASSUME NEW g \in Generations, RenderStage(g) PROVE TypeOK'
    BY <2>8 DEF RenderStage
  <2>9. ASSUME NEW retained \in BOOLEAN, RenderFail(retained) PROVE TypeOK'
    BY <2>9 DEF RenderFail
  <2> QED BY <2>1, <2>2, <2>3, <2>4, <2>5, <2>6, <2>7, <2>8, <2>9 DEF Next
<1> QED BY <1>1, <1>2, PTL DEF Spec

-----------------------------------------------------------------------------

\* A generation that is retired stays retired while the gate moves on.
LEMMA RetiredForever ==
  ASSUME TypeOK, TypeOK', NEW g \in 0..MaxGeneration, Retired(g),
         \/ word' = word
         \/ word' = Dead(word)
         \/ word' = LiveWord(word.gen + 1)
  PROVE  g <= word'.gen /\ (g = word'.gen => word'.live = 0)
BY ControlAssumption, SMTT(30) DEF TypeOK, Word, Retired, Dead, LiveWord

\* What every access of a host thread may do to the gate and to the words it
\* holds.
LEMMA HostStepKeepsInv ==
  ASSUME TypeOK, TypeOK', CurBehind, OnlyRetired,
         NEW t \in Threads, Attach(t) \/ Retire(t) \/ Begin(t) \/ Drain(t)
  PROVE  CurBehind' /\ OnlyRetired'
<1> USE ControlAssumption DEF TypeOK, Word, Generations, gate, flag, channel,
        local, binding, Goto, Load, LiveWord, Dead, IsLive, CurBehind, Retired,
        OnlyRetired
<1>1. CASE AttachLoad(t)
  BY <1>1 DEF AttachLoad
<1>2. CASE AttachReuse(t)
  BY <1>2 DEF AttachReuse
<1>3. CASE AttachExhausted(t)
  BY <1>3 DEF AttachExhausted
<1>4. CASE AttachSwap(t)
  <2>1. CASE word = cur[t]
    <3>1. /\ word' = LiveWord(word.gen + 1) /\ word.live = 0
          /\ \A s \in Threads \ {t} : pc'[s] = pc[s] /\ cur'[s] = cur[s]
          /\ pc'[t] = "attach_check" /\ cur'[t] = word'
          /\ UNCHANGED <<latestRetired, render, losing, requested>>
      BY <1>4, <2>1 DEF AttachSwap
    <3>2. CurBehind'
      BY <3>1
    <3>3. OnlyRetired'
      BY <3>1, RetiredForever
    <3> QED BY <3>1, <3>2, <3>3
  <2>2. CASE word # cur[t]
    BY <1>4, <2>2, SMTT(30) DEF AttachSwap
  <2> QED BY <2>1, <2>2
<1>5. CASE AttachCheck(t)
  BY <1>5 DEF AttachCheck
<1>6. CASE RetireLoad(t)
  BY <1>6 DEF RetireLoad
<1>7. CASE RetireNone(t)
  BY <1>7 DEF RetireNone
<1>8. CASE RetireSwap(t)
  BY <1>8, SMTT(30) DEF RetireSwap
<1>9. CASE Publish(t)
  BY <1>9 DEF Publish, FetchMax
<1>10. CASE Wake(t)
  BY <1>10 DEF Wake
<1>11. CASE AttachBegin(t) \/ RetireBegin(t)
  BY <1>11 DEF AttachBegin, RetireBegin
<1>12. CASE Shutdown(t)
  BY <1>12 DEF Shutdown
<1>13. ASSUME NEW g \in Generations, RetireGeneration(t, g)
       PROVE  CurBehind' /\ OnlyRetired'
  <2>1. CASE IsLive(g)
    <3>1. /\ word' = Dead(word) /\ word.gen = g
          /\ \A s \in Threads \ {t} : pc'[s] = pc[s] /\ cur'[s] = cur[s]
          /\ pc'[t] = "publish" /\ cur'[t].gen = g
          /\ UNCHANGED <<latestRetired, render, losing, requested>>
      BY <1>13, <2>1 DEF RetireGeneration
    <3>2. CurBehind'
      BY <3>1
    <3>3. OnlyRetired'
      BY <3>1, RetiredForever
    <3> QED BY <3>1, <3>2, <3>3
  <2>2. CASE ~IsLive(g)
    BY <1>13, <2>2 DEF RetireGeneration
  <2> QED BY <2>1, <2>2
<1>14. CASE Drain(t)
  BY <1>14, SMTT(30) DEF Drain
<1> QED
  BY <1>1, <1>2, <1>3, <1>4, <1>5, <1>6, <1>7, <1>8, <1>9, <1>10, <1>11,
     <1>12, <1>13, <1>14 DEF Attach, Retire, Begin

\* The same for the render thread: it retires only what is live, publishes only
\* what it has retired, and releases only up to what it has read.
LEMMA RenderStepKeepsInv ==
  ASSUME TypeOK, TypeOK', CurBehind, OnlyRetired,
         \/ Render \/ RenderSwapFailed
         \/ \E g \in Generations : RenderStage(g)
         \/ \E retained \in BOOLEAN : RenderFail(retained)
  PROVE  CurBehind' /\ OnlyRetired'
<1> USE ControlAssumption DEF TypeOK, Word, Generations, gate, flag, channel,
        local, binding, LiveWord, Dead, IsLive, CurBehind, Retired,
        OnlyRetired
<1>1. CASE InstallSender \/ InstallCheck
  BY <1>1 DEF InstallSender, InstallCheck
<1>2. CASE RenderCommit
  BY <1>2 DEF RenderCommit
<1>3. CASE RenderLose
  BY <1>3 DEF RenderLose
<1>4. CASE RenderLosePublish
  BY <1>4 DEF RenderLosePublish, FetchMax
<1>5. CASE RenderLoseWake
  BY <1>5 DEF RenderLoseWake
<1>6. CASE RenderWoken
  BY <1>6 DEF RenderWoken
<1>7. CASE RenderRead
  BY <1>7 DEF RenderRead
<1>8. CASE \E failed \in BOOLEAN : RenderRelease(failed)
  BY <1>8 DEF RenderRelease, StillLive
<1>9. CASE RenderSwapFailed
  BY <1>9 DEF RenderSwapFailed
<1>10. ASSUME NEW g \in Generations, RenderStage(g)
       PROVE  CurBehind' /\ OnlyRetired'
  BY <1>10 DEF RenderStage
<1>11. ASSUME NEW retained \in BOOLEAN, RenderFail(retained)
       PROVE  CurBehind' /\ OnlyRetired'
  BY <1>11 DEF RenderFail
<1> QED
  BY <1>1, <1>2, <1>3, <1>4, <1>5, <1>6, <1>7, <1>8, <1>9, <1>10, <1>11
     DEF Render

\* The inductive invariant of the control plane.
THEOREM ControlInvariant == Spec => []ControlInv
<1>1. Init => CurBehind /\ OnlyRetired
  BY ControlAssumption
     DEF Init, CurBehind, OnlyRetired, Retired
<1>2. /\ TypeOK /\ TypeOK' /\ CurBehind /\ OnlyRetired
      /\ [Next]_vars
      => CurBehind' /\ OnlyRetired'
  <2> SUFFICES ASSUME TypeOK, TypeOK', CurBehind, OnlyRetired, [Next]_vars
               PROVE  CurBehind' /\ OnlyRetired'
    OBVIOUS
  <2>1. CASE UNCHANGED vars
    BY <2>1 DEF vars, gate, flag, channel, local, binding, CurBehind,
                OnlyRetired, Retired
  <2>2. ASSUME NEW t \in Threads,
               Attach(t) \/ Retire(t) \/ Begin(t) \/ Drain(t)
        PROVE  CurBehind' /\ OnlyRetired'
    BY <2>2, HostStepKeepsInv
  <2>3. CASE \/ Render \/ RenderSwapFailed
             \/ \E g \in Generations : RenderStage(g)
             \/ \E retained \in BOOLEAN : RenderFail(retained)
    BY <2>3, RenderStepKeepsInv
  <2> QED BY <2>1, <2>2, <2>3 DEF Next
<1>3. TypeOK /\ CurBehind /\ OnlyRetired <=> ControlInv
  BY DEF ControlInv
<1> QED BY <1>1, <1>2, <1>3, ControlTyping, PTL DEF Spec

\* The render thread never destroys its EGL state because it was asked to
\* release a live Surface.
THEOREM ReleasesOnlyRetired == Spec => []NeverReleasesLive
<1>1. ControlInv => NeverReleasesLive
  BY ControlAssumption, SMTT(30) DEF ControlInv, TypeOK, Word, OnlyRetired, Retired,
                           NeverReleasesLive, StillLive, IsLive, LiveWord
<1> QED BY <1>1, ControlInvariant, PTL

-----------------------------------------------------------------------------

\* The gate moves only by issuing a generation when none is live, by retiring
\* the live one, or by publishing a retired one.
LEMMA GateSteps ==
  ASSUME ControlInv, [Next]_vars
  PROVE  \/ word' = word /\ latestRetired' = latestRetired
         \/ /\ word.live = 0 /\ word' = LiveWord(word.gen + 1)
            /\ latestRetired' = latestRetired
         \/ /\ word.live = 1 /\ word' = Dead(word)
            /\ latestRetired' = latestRetired
         \/ /\ word' = word
            /\ \E g \in 0..MaxGeneration :
                 Retired(g) /\ latestRetired' = FetchMax(g)
<1> USE DEF ControlInv, gate, flag, channel, local, binding
<1>1. CASE UNCHANGED vars
  BY <1>1 DEF vars
<1>2. ASSUME NEW t \in Threads, Attach(t)
      PROVE  \/ word' = word /\ latestRetired' = latestRetired
             \/ /\ word.live = 0 /\ word' = LiveWord(word.gen + 1)
                /\ latestRetired' = latestRetired
  BY <1>2, Zenon DEF Attach, AttachLoad, AttachReuse, AttachExhausted, AttachSwap,
              AttachCheck
<1>3. ASSUME NEW t \in Threads, Retire(t) \/ Begin(t) \/ Drain(t)
      PROVE  \/ word' = word /\ latestRetired' = latestRetired
             \/ /\ word.live = 1 /\ word' = Dead(word)
                /\ latestRetired' = latestRetired
             \/ /\ word' = word
                /\ \E g \in 0..MaxGeneration :
                     Retired(g) /\ latestRetired' = FetchMax(g)
  <2>1. CASE Publish(t)
    <3>1. cur[t].gen \in 0..MaxGeneration /\ Retired(cur[t].gen)
      BY <2>1, SMTT(30) DEF Publish, OnlyRetired, TypeOK, Word
    <3> QED BY <2>1, <3>1 DEF Publish
  <2>2. CASE RetireSwap(t)
    BY <2>2, Zenon DEF RetireSwap
  <2>3. ASSUME NEW g \in Generations, RetireGeneration(t, g)
        PROVE  \/ word' = word /\ latestRetired' = latestRetired
               \/ /\ word.live = 1 /\ word' = Dead(word)
                  /\ latestRetired' = latestRetired
    BY <2>3 DEF RetireGeneration, IsLive, LiveWord
  <2> QED BY <1>3, <2>1, <2>2, <2>3, SMTT(30)
          DEF Retire, Begin, RetireLoad, RetireNone, Wake, AttachBegin,
              RetireBegin, Shutdown, Drain
<1>4. CASE Render
  <2>1. CASE RenderLose
    BY <2>1 DEF RenderLose, IsLive, LiveWord
  <2>2. CASE RenderLosePublish
    <3>1. losing \in 0..MaxGeneration /\ Retired(losing)
      BY <2>2 DEF RenderLosePublish, OnlyRetired, TypeOK
    <3> QED BY <2>2, <3>1 DEF RenderLosePublish
  <2> QED BY <1>4, <2>1, <2>2
          DEF Render, InstallSender, InstallCheck, RenderCommit,
              RenderLoseWake, RenderWoken, RenderRead, RenderRelease
<1>5. CASE \/ RenderSwapFailed
           \/ \E g \in Generations : RenderStage(g)
           \/ \E retained \in BOOLEAN : RenderFail(retained)
  BY <1>5 DEF RenderSwapFailed, RenderStage, RenderFail
<1> QED BY <1>1, <1>2, <1>3, <1>4, <1>5 DEF Next

\* The atomics of the control plane and of the render thread implement
\* SurfaceGeneration: generations are issued in order, at most one is live,
\* none is revived, and only retired ones are requested for release.
THEOREM ControlRefines == Spec => ImplementsPromise
<1>1. Init => Promise!Init
  BY DEF Init, Promise!Init
<1>2. ControlInv /\ [Next]_vars => [Promise!Next]_(Promise!absVars)
  <2> SUFFICES ASSUME ControlInv, [Next]_vars
               PROVE  [Promise!Next]_(Promise!absVars)
    OBVIOUS
  <2> USE DEF Promise!Next, Promise!absVars
  <2>0. word \in Word /\ latestRetired \in 0..MaxGeneration
    BY DEF ControlInv, TypeOK
  <2>1. CASE word' = word /\ latestRetired' = latestRetired
    BY <2>1
  <2>2. CASE /\ word.live = 0 /\ word' = LiveWord(word.gen + 1)
             /\ latestRetired' = latestRetired
    BY <2>2 DEF Promise!Issue, LiveWord
  <2>3. CASE /\ word.live = 1 /\ word' = Dead(word)
             /\ latestRetired' = latestRetired
    BY <2>0, <2>3 DEF Promise!Retire, Dead, Word
  <2>4. ASSUME word' = word,
               NEW g \in 0..MaxGeneration, Retired(g),
               latestRetired' = FetchMax(g)
        PROVE  [Promise!Next]_(Promise!absVars)
    <3>1. CASE latestRetired < g
      BY <2>0, <2>4, <3>1, ControlAssumption
         DEF Promise!Request, FetchMax, Retired, Word
    <3>2. CASE ~(latestRetired < g)
      BY <2>4, <3>2 DEF FetchMax
    <3> QED BY <3>1, <3>2
  <2> QED BY <2>1, <2>2, <2>3, <2>4, GateSteps
<1> QED BY <1>1, <1>2, ControlInvariant, PTL
        DEF Spec, ImplementsPromise, Promise!Spec

-----------------------------------------------------------------------------

\* Without a store buffer every step keeps the retirement owed.
LEMMA OwedKept ==
  ASSUME StoreBuffer = FALSE, TypeOK, buffered = {}, RetirementOwed,
         [Next]_vars
  PROVE  RetirementOwed' /\ buffered' = {}
<1> USE DEF gate, flag, channel, local, binding, Goto, Load, LiveWord, Dead,
            IsLive, RetirementOwed
<1>a. /\ pc \in [Threads -> {"idle", "attach_load", "attach_swap",
                              "attach_check", "retire_load", "retire_swap",
                              "publish", "wake"}]
      /\ cur \in [Threads -> Word] /\ word \in Word
      /\ shuttingDown \in {"no", "yes"}
  BY DEF TypeOK
<1> USE DEF Word
<1>1. CASE UNCHANGED vars
  BY <1>1 DEF vars
<1>2. ASSUME NEW t \in Threads, Attach(t)
      PROVE  RetirementOwed' /\ buffered' = {}
  <2>1. CASE AttachLoad(t)
    BY <1>a, <2>1 DEF AttachLoad
  <2>2. CASE AttachReuse(t)
    BY <1>a, <2>2 DEF AttachReuse
  <2>3. CASE AttachExhausted(t)
    BY <1>a, <2>3 DEF AttachExhausted
  <2>4. CASE AttachSwap(t)
    BY <1>a, <2>4 DEF AttachSwap
  <2>5. CASE AttachCheck(t)
    BY <1>a, <2>5 DEF AttachCheck, SeesShutdown
  <2> QED BY <1>2, <2>1, <2>2, <2>3, <2>4, <2>5 DEF Attach
<1>3. ASSUME NEW t \in Threads, Retire(t)
      PROVE  RetirementOwed' /\ buffered' = {}
  <2>1. CASE RetireLoad(t)
    BY <1>a, <2>1 DEF RetireLoad
  <2>2. CASE RetireNone(t)
    BY <1>a, <2>2 DEF RetireNone
  <2>3. CASE RetireSwap(t)
    BY <1>a, <2>3 DEF RetireSwap
  <2>4. CASE Publish(t)
    BY <1>a, <2>4 DEF Publish
  <2>5. CASE Wake(t)
    BY <1>a, <2>5 DEF Wake
  <2> QED BY <1>3, <2>1, <2>2, <2>3, <2>4, <2>5 DEF Retire
<1>4. ASSUME NEW t \in Threads, Begin(t)
      PROVE  RetirementOwed' /\ buffered' = {}
  <2>1. CASE AttachBegin(t)
    BY <1>a, <2>1 DEF AttachBegin
  <2>2. CASE RetireBegin(t)
    BY <1>a, <2>2 DEF RetireBegin
  <2>3. CASE Shutdown(t)
    BY <1>a, <2>3 DEF Shutdown
  <2>4. ASSUME NEW g \in Generations, RetireGeneration(t, g)
        PROVE  RetirementOwed' /\ buffered' = {}
    BY <1>a, <2>4 DEF RetireGeneration
  <2> QED BY <1>4, <2>1, <2>2, <2>3, <2>4 DEF Begin
<1>5. ASSUME NEW t \in Threads, Drain(t)
      PROVE  RetirementOwed' /\ buffered' = {}
  BY <1>5 DEF Drain
<1>6. CASE \/ Render \/ RenderSwapFailed
           \/ \E g \in Generations : RenderStage(g)
           \/ \E retained \in BOOLEAN : RenderFail(retained)
  <2>1. UNCHANGED <<pc, cur, shutdowns, shuttingDown, buffered>>
    BY <1>6 DEF Render, InstallSender, InstallCheck, RenderCommit, RenderLose,
         RenderLosePublish, RenderLoseWake, RenderWoken, RenderRead,
         RenderRelease, RenderSwapFailed, RenderStage, RenderFail
  <2>2. word' = word \/ word'.live = 0
    BY <1>a, <1>6 DEF Render, InstallSender, InstallCheck, RenderCommit, RenderLose,
         RenderLosePublish, RenderLoseWake, RenderWoken, RenderRead,
         RenderRelease, RenderSwapFailed, RenderStage, RenderFail
  <2> QED BY <2>1, <2>2
<1> QED BY <1>1, <1>2, <1>3, <1>4, <1>5, <1>6 DEF Next

\* Where the store of shutting_down is not delayed, a shutdown is final for any
\* number of threads that attach, retire and shut down at the same time.
THEOREM ShutdownFinal ==
  ASSUME StoreBuffer = FALSE
  PROVE  Spec => []ShutdownIsFinal
<1>1. Init => RetirementOwed /\ buffered = {}
  BY DEF Init, RetirementOwed
<1>2. TypeOK /\ RetirementOwed /\ buffered = {} /\ [Next]_vars
      => (RetirementOwed /\ buffered = {})'
  BY OwedKept, Zenon
<1>3. TypeOK /\ RetirementOwed => ShutdownIsFinal
  BY DEF TypeOK, Word, RetirementOwed, ShutdownIsFinal
<1> QED BY <1>1, <1>2, <1>3, ControlTyping, PTL DEF Spec

=============================================================================
