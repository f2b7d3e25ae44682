------------------------- MODULE CallbackGateProofs -------------------------
(***************************************************************************)
(* Proofs about the callback gate, for every set of threads, every limit on *)
(* the active callbacks and every depth of nested calls.                   *)
(***************************************************************************)
EXTENDS CallbackGate, FiniteSetTheorems, SequenceTheorems, TLAPS

-----------------------------------------------------------------------------
(* The inductive invariant *)

\* A call is named by its thread and its place on the thread's stack.
Places == Threads \X (1..MaxDepth)

\* The calls in progress, those with a CallbackFrame, and the threads whose task
\* is built and not yet handed to the dispatcher.
Calls == {c \in Places : c[2] <= Len(stack[c[1]])}
FramedCalls == {c \in Calls : stack[c[1]][c[2]] \in Framed}
FreshPosts == {t \in Threads : Top(t) = "fresh"}

\* Labels of a destroy that has closed the gate.
Draining == {"drain_check", "drain_lock", "drain_test", "drain_sleep",
             "drain_wait", "consume"}

\* Only host code calls, so a call below the top of a stack runs host code.
StackInv ==
  /\ stack \in [Threads -> Seq(Labels)]
  /\ \A t \in Threads :
       /\ Len(stack[t]) <= MaxDepth
       /\ \A i \in 1..(Len(stack[t]) - 1) : stack[t][i] \in {"dispatch", "callback"}

\* The count under ACTIVE_MASK is the number of frames on the callback stacks of
\* all threads; the strong count is one for the handle, one for each queued task,
\* one for each call and one for a task that is being handed over.
CountInv ==
  /\ closed \in {0, 1} /\ raw \in {0, 1} /\ queued \in Nat
  /\ active = Cardinality(FramedCalls)
  /\ strong = raw + queued + Cardinality(Calls) + Cardinality(FreshPosts)

\* One destroy at a time drains, and the handle is consumed by that one; when it
\* has seen the gate drained every frame left is its own thread's; afterwards no
\* frame is added.
DrainInv ==
  /\ closed = 0 => raw = 1
  /\ \A t \in Threads :
       Top(t) \in Draining =>
         /\ closed = 1 /\ raw = 1
         /\ \A u \in Threads : Top(u) \in Draining => u = t
  /\ \A t \in Threads :
       Top(t) = "consume" => \A c \in FramedCalls : c[1] = t
  /\ done # <<>> =>
       /\ closed = 1 /\ done[1] \in Threads /\ active <= done[2] /\ done[2] \in Nat
       /\ \A c \in FramedCalls : c[1] = done[1]

GateInv == StackInv /\ CountInv /\ DrainInv

-----------------------------------------------------------------------------
(* Stacks *)

\* The calls under the running one.
LEMMA Below ==
  ASSUME NEW s \in Seq(Labels), s # <<>>
  PROVE  /\ Len(s) \in Nat \ {0}
         /\ SubSeq(s, 1, Len(s) - 1) \in Seq(Labels)
         /\ Len(SubSeq(s, 1, Len(s) - 1)) = Len(s) - 1
         /\ \A i \in 1..(Len(s) - 1) : SubSeq(s, 1, Len(s) - 1)[i] = s[i]
<1>1. Len(s) \in Nat \ {0}
  OBVIOUS
<1>2. \A i \in 1..(Len(s) - 1) : s[i] \in Labels
  BY <1>1
<1> DEFINE k == Len(s) - 1
<1>3. 1 \in Int /\ k \in Int /\ \A i \in 1..k : s[i] \in Labels
  BY <1>1, <1>2
<1> HIDE DEF k
<1>4. /\ SubSeq(s, 1, k) \in Seq(Labels)
      /\ Len(SubSeq(s, 1, k)) = IF 1 <= k THEN k - 1 + 1 ELSE 0
      /\ \A i \in 1..(k - 1 + 1) : SubSeq(s, 1, k)[i] = s[1 + i - 1]
  BY <1>3, SubSeqProperties
<1>5. /\ SubSeq(s, 1, k) \in Seq(Labels)
      /\ Len(SubSeq(s, 1, k)) = k
      /\ \A i \in 1..k : SubSeq(s, 1, k)[i] = s[i]
  <2>1. k \in Nat
    BY <1>1 DEF k
  <2>2. \A i \in 1..k : 1 + i - 1 = i /\ i \in 1..(k - 1 + 1)
    BY <2>1
  <2>3. \A i \in 1..k : SubSeq(s, 1, k)[i] = s[i]
    BY <1>4, <2>2, Zenon
  <2>4. Len(SubSeq(s, 1, k)) = k
    BY <1>4, <2>1
  <2> QED
    BY <1>4, <2>3, <2>4, Zenon
<1> QED
  BY <1>1, <1>5, Zenon DEF k

\* A call on top of another.
LEMMA Above ==
  ASSUME NEW s \in Seq(Labels), NEW l \in Labels
  PROVE  /\ Append(s, l) \in Seq(Labels) /\ Append(s, l) # <<>>
         /\ Len(s) \in Nat /\ Len(Append(s, l)) = Len(s) + 1
         /\ Append(s, l)[Len(s) + 1] = l
         /\ \A i \in 1..Len(s) : Append(s, l)[i] = s[i]
OBVIOUS

\* There are finitely many calls, and the numbers of them are natural numbers.
LEMMA Countable ==
  /\ IsFiniteSet(Calls) /\ IsFiniteSet(FramedCalls) /\ IsFiniteSet(FreshPosts)
  /\ Cardinality(Calls) \in Nat /\ Cardinality(FramedCalls) \in Nat
  /\ Cardinality(FreshPosts) \in Nat
<1>1. IsFiniteSet(1..MaxDepth)
  BY GateAssumption, FS_Interval
<1>2. IsFiniteSet(Places)
  BY <1>1, GateAssumption, FS_Product, Zenon DEF Places
<1>3. Calls \in SUBSET Places /\ FramedCalls \in SUBSET Places
  BY Zenon DEF Calls, FramedCalls
<1>4. IsFiniteSet(Calls) /\ IsFiniteSet(FramedCalls)
  BY <1>2, <1>3, FS_Subset, Zenon
<1>5. FreshPosts \in SUBSET Threads
  BY Zenon DEF FreshPosts
<1>6. IsFiniteSet(FreshPosts)
  BY <1>5, GateAssumption, FS_Subset, Zenon
<1> QED
  BY <1>4, <1>6, FS_CardinalityType, Zenon

\* The running call of a thread is framed when its label is.
LEMMA TopFramed ==
  ASSUME StackInv, NEW t \in Threads, Top(t) # "idle"
  PROVE  /\ stack[t] \in Seq(Labels) /\ stack[t] # <<>>
         /\ Len(stack[t]) \in 1..MaxDepth
         /\ <<t, Len(stack[t])>> \in Calls
         /\ <<t, Len(stack[t])>> \in FramedCalls <=> Top(t) \in Framed
<1>1. stack[t] \in Seq(Labels) /\ stack[t] # <<>> /\ Top(t) = stack[t][Len(stack[t])]
  BY Zenon DEF StackInv, Top
<1>2. Len(stack[t]) \in 1..MaxDepth
  BY <1>1, GateAssumption DEF StackInv
<1> QED
  BY <1>1, <1>2 DEF Calls, FramedCalls, Places

\* What a change of one thread's stack leaves alone.
LEMMA OtherThreads ==
  ASSUME StackInv, NEW t \in Threads, NEW n, stack' = [stack EXCEPT ![t] = n]
  PROVE  /\ stack'[t] = n
         /\ \A u \in Threads \ {t} : stack'[u] = stack[u] /\ Top(u)' = Top(u)
<1>1. stack'[t] = n /\ \A u \in Threads \ {t} : stack'[u] = stack[u]
  BY Zenon DEF StackInv
<1> QED
  BY <1>1 DEF Top

\* A host's call into Migo adds one call and no frame.
LEMMA Pushes ==
  ASSUME StackInv, NEW t \in Threads, NEW l \in Labels \ Framed, MayCall(t), Push(t, l)
  PROVE  /\ StackInv'
         /\ Cardinality(Calls)' = Cardinality(Calls) + 1
         /\ FramedCalls' = FramedCalls /\ FreshPosts' = FreshPosts
         /\ Top(t)' = l /\ \A u \in Threads \ {t} : Top(u)' = Top(u)
<1> DEFINE n == Append(stack[t], l)
<1>1. /\ stack[t] \in Seq(Labels)
      /\ stack' = [stack EXCEPT ![t] = n]
  BY Zenon DEF StackInv, Push
<1>2. /\ n \in Seq(Labels) /\ n # <<>> /\ Len(stack[t]) \in Nat /\ Len(n) = Len(stack[t]) + 1
      /\ n[Len(stack[t]) + 1] = l /\ \A i \in 1..Len(stack[t]) : n[i] = stack[t][i]
  BY <1>1, Above, Zenon
<1> HIDE DEF n
<1>3. /\ stack'[t] = n
      /\ \A u \in Threads \ {t} : stack'[u] = stack[u] /\ Top(u)' = Top(u)
  BY <1>1, OtherThreads, Zenon
<1>4. Len(stack[t]) + 1 \in 1..MaxDepth
  BY <1>2, GateAssumption DEF MayCall
<1>5. Top(t)' = l
  BY <1>2, <1>3, Zenon DEF Top
<1>6. stack[t] # <<>> => stack[t][Len(stack[t])] \in {"dispatch", "callback"}
  BY <1>1 DEF MayCall, HostCode, Top, Labels
<1>7. \A i \in 1..Len(stack[t]) : n[i] \in {"dispatch", "callback"}
  <2> TAKE i \in 1..Len(stack[t])
  <2>1. CASE i = Len(stack[t])
    BY <2>1, <1>1, <1>2, <1>6
  <2>2. CASE i \in 1..(Len(stack[t]) - 1)
    BY <2>2, <1>2, Zenon DEF StackInv
  <2> QED
    BY <2>1, <2>2, <1>2
<1>8. StackInv'
  <2>1. stack' \in [Threads -> Seq(Labels)]
    BY <1>1, <1>2, Zenon DEF StackInv
  <2>2. ASSUME NEW u \in Threads
        PROVE  /\ Len(stack'[u]) <= MaxDepth
               /\ \A i \in 1..(Len(stack'[u]) - 1) : stack'[u][i] \in {"dispatch", "callback"}
    <3>1. CASE u = t
      BY <3>1, <1>2, <1>3, <1>4, <1>7
    <3>2. CASE u # t
      BY <3>2, <1>3, Zenon DEF StackInv
    <3> QED
      BY <3>1, <3>2, Zenon
  <2> QED
    BY <2>1, <2>2, Zenon DEF StackInv
<1>9. Calls' = Calls \cup {<<t, Len(stack[t]) + 1>>} /\ <<t, Len(stack[t]) + 1>> \notin Calls
  <2>1. \A c \in Places : c[1] # t => stack'[c[1]] = stack[c[1]]
    BY <1>3, Zenon DEF Places
  <2> QED
    BY <1>2, <1>3, <1>4, <2>1 DEF Calls, Places
<1>10. Cardinality(Calls)' = Cardinality(Calls) + 1
  BY <1>9, Countable, FS_AddElement, Zenon
<1>11. FramedCalls' = FramedCalls
  <2>1. \A c \in Calls : stack'[c[1]][c[2]] = stack[c[1]][c[2]]
    BY <1>2, <1>3 DEF Calls, Places
  <2>2. stack'[t][Len(stack[t]) + 1] \notin Framed
    BY <1>2, <1>3, Zenon
  <2>3. \A c : c \in FramedCalls' <=> c \in Calls' /\ stack'[c[1]][c[2]] \in Framed
    BY Zenon DEF FramedCalls
  <2>4. \A c : c \in FramedCalls <=> c \in Calls /\ stack[c[1]][c[2]] \in Framed
    BY Zenon DEF FramedCalls
  <2>5. ASSUME NEW c PROVE c \in FramedCalls' <=> c \in FramedCalls
    <3>1. CASE c \in Calls
      BY <3>1, <1>9, <2>1, <2>3, <2>4, Zenon
    <3>2. CASE c = <<t, Len(stack[t]) + 1>>
      BY <3>2, <1>9, <2>2, <2>3, <2>4
    <3> QED
      BY <3>1, <3>2, <1>9, <2>3, <2>4, Zenon
  <2> QED
    BY <2>5, Zenon
<1>12. FreshPosts' = FreshPosts
  BY <1>3, <1>5, Zenon DEF FreshPosts, MayCall, HostCode, Framed
<1> QED
  BY <1>3, <1>5, <1>8, <1>10, <1>11, <1>12, Zenon

\* A call that returns takes itself, its frame and nothing else off the stacks,
\* and leaves host code running.
LEMMA Pops ==
  ASSUME StackInv, NEW t \in Threads, Top(t) # "idle", Pop(t)
  PROVE  /\ StackInv'
         /\ Cardinality(Calls)' = Cardinality(Calls) - 1
         /\ FramedCalls' = FramedCalls \ {<<t, Len(stack[t])>>}
         /\ FreshPosts' = FreshPosts \ {t}
         /\ Top(t)' \in {"idle", "dispatch", "callback"}
         /\ \A u \in Threads \ {t} : Top(u)' = Top(u)
<1> DEFINE n == Rest(t)
           k == Len(stack[t])
<1>1. /\ stack[t] \in Seq(Labels) /\ stack[t] # <<>> /\ k \in 1..MaxDepth
      /\ <<t, k>> \in Calls
  BY TopFramed, Zenon
<1>2. n \in Seq(Labels) /\ Len(n) = k - 1 /\ \A i \in 1..(k - 1) : n[i] = stack[t][i]
  BY <1>1, Below, Zenon DEF Rest
<1>3. stack' = [stack EXCEPT ![t] = n]
  BY Zenon DEF Pop
<1> HIDE DEF n
<1>4. /\ stack'[t] = n
      /\ \A u \in Threads \ {t} : stack'[u] = stack[u] /\ Top(u)' = Top(u)
  BY <1>3, OtherThreads, Zenon
<1>5. \A i \in 1..(k - 1) : n[i] \in {"dispatch", "callback"}
  BY <1>2, Zenon DEF StackInv
<1>6. Top(t)' \in {"idle", "dispatch", "callback"}
  <2>1. CASE n = <<>>
    BY <2>1, <1>4, Zenon DEF Top
  <2>2. CASE n # <<>>
    <3>1. k - 1 \in 1..(k - 1)
      BY <2>2, <1>1, <1>2
    <3>2. Top(t)' = n[k - 1]
      BY <2>2, <1>2, <1>4, Zenon DEF Top
    <3> QED
      BY <3>1, <3>2, <1>5, Zenon
  <2> QED
    BY <2>1, <2>2, Zenon
<1>7. StackInv'
  <2>1. stack' \in [Threads -> Seq(Labels)]
    BY <1>2, <1>3, Zenon DEF StackInv
  <2>2. ASSUME NEW u \in Threads
        PROVE  /\ Len(stack'[u]) <= MaxDepth
               /\ \A i \in 1..(Len(stack'[u]) - 1) : stack'[u][i] \in {"dispatch", "callback"}
    <3>1. CASE u = t
      BY <3>1, <1>1, <1>2, <1>4, <1>5, GateAssumption
    <3>2. CASE u # t
      BY <3>2, <1>4, Zenon DEF StackInv
    <3> QED
      BY <3>1, <3>2, Zenon
  <2> QED
    BY <2>1, <2>2, Zenon DEF StackInv
<1>8. Calls' = Calls \ {<<t, k>>}
  <2>1. \A c \in Places : c[1] # t => stack'[c[1]] = stack[c[1]]
    BY <1>4, Zenon DEF Places
  <2> QED
    BY <1>1, <1>2, <1>4, <2>1 DEF Calls, Places
<1>9. Cardinality(Calls)' = Cardinality(Calls) - 1
  BY <1>1, <1>8, Countable, FS_RemoveElement, Zenon
<1>10. FramedCalls' = FramedCalls \ {<<t, k>>}
  <2>1. \A c \in Calls \ {<<t, k>>} : stack'[c[1]][c[2]] = stack[c[1]][c[2]]
    BY <1>1, <1>2, <1>4, SMTT(30) DEF Calls, Places
  <2>2. \A c : c \in FramedCalls' <=> c \in Calls' /\ stack'[c[1]][c[2]] \in Framed
    BY Zenon DEF FramedCalls
  <2>3. \A c : c \in FramedCalls <=> c \in Calls /\ stack[c[1]][c[2]] \in Framed
    BY Zenon DEF FramedCalls
  <2>4. ASSUME NEW c PROVE c \in FramedCalls' <=> c \in FramedCalls \ {<<t, k>>}
    BY <1>8, <2>1, <2>2, <2>3, Zenon
  <2> QED
    BY <2>4, Zenon
<1>11. FreshPosts' = FreshPosts \ {t}
  BY <1>4, <1>6, Zenon DEF FreshPosts
<1> QED
  BY <1>4, <1>6, <1>7, <1>9, <1>10, <1>11, Zenon

\* A call that takes its next step keeps its place; its frame comes and goes with
\* the label.
LEMMA Relabels ==
  ASSUME StackInv, NEW t \in Threads, Top(t) # "idle", NEW l \in Labels, Relabel(t, l)
  PROVE  /\ StackInv'
         /\ Calls' = Calls
         /\ l \in Framed => FramedCalls' = FramedCalls \cup {<<t, Len(stack[t])>>}
         /\ l \notin Framed => FramedCalls' = FramedCalls \ {<<t, Len(stack[t])>>}
         /\ l = "fresh" => FreshPosts' = FreshPosts \cup {t}
         /\ l # "fresh" => FreshPosts' = FreshPosts \ {t}
         /\ Top(t)' = l /\ \A u \in Threads \ {t} : Top(u)' = Top(u)
<1> DEFINE n == Append(Rest(t), l)
           k == Len(stack[t])
<1>1. /\ stack[t] \in Seq(Labels) /\ stack[t] # <<>> /\ k \in 1..MaxDepth
      /\ <<t, k>> \in Calls
  BY TopFramed, Zenon
<1>2. Rest(t) \in Seq(Labels) /\ Len(Rest(t)) = k - 1
      /\ \A i \in 1..(k - 1) : Rest(t)[i] = stack[t][i]
  BY <1>1, Below, Zenon DEF Rest
<1>3. /\ n \in Seq(Labels) /\ n # <<>> /\ Len(n) = k /\ n[k] = l
      /\ \A i \in 1..(k - 1) : n[i] = stack[t][i]
  <2>1. /\ n \in Seq(Labels) /\ n # <<>>
        /\ Len(n) = Len(Rest(t)) + 1 /\ n[Len(Rest(t)) + 1] = l
        /\ \A i \in 1..Len(Rest(t)) : n[i] = Rest(t)[i]
    BY <1>2, Above, Zenon
  <2> HIDE DEF n
  <2> QED
    BY <2>1, <1>1, <1>2
<1>4. stack' = [stack EXCEPT ![t] = n]
  BY Zenon DEF Relabel
<1> HIDE DEF n
<1>5. /\ stack'[t] = n
      /\ \A u \in Threads \ {t} : stack'[u] = stack[u] /\ Top(u)' = Top(u)
  BY <1>4, OtherThreads, Zenon
<1>6. Top(t)' = l
  BY <1>3, <1>5, Zenon DEF Top
<1>7. StackInv'
  <2>1. stack' \in [Threads -> Seq(Labels)]
    BY <1>3, <1>4, Zenon DEF StackInv
  <2>2. ASSUME NEW u \in Threads
        PROVE  /\ Len(stack'[u]) <= MaxDepth
               /\ \A i \in 1..(Len(stack'[u]) - 1) : stack'[u][i] \in {"dispatch", "callback"}
    <3>1. CASE u = t
      BY <3>1, <1>1, <1>3, <1>5, Zenon DEF StackInv
    <3>2. CASE u # t
      BY <3>2, <1>5, Zenon DEF StackInv
    <3> QED
      BY <3>1, <3>2, Zenon
  <2> QED
    BY <2>1, <2>2, Zenon DEF StackInv
<1>8. Calls' = Calls
  <2>1. \A c \in Places : Len(stack'[c[1]]) = Len(stack[c[1]])
    BY <1>3, <1>5, Zenon DEF Places
  <2> QED
    BY <2>1, Zenon DEF Calls
<1>9. \A c : c # <<t, k>> => (c \in FramedCalls' <=> c \in FramedCalls)
  <2>1. \A c \in Calls \ {<<t, k>>} : stack'[c[1]][c[2]] = stack[c[1]][c[2]]
    BY <1>1, <1>3, <1>5 DEF Calls, Places
  <2>2. \A c : c \in FramedCalls' <=> c \in Calls' /\ stack'[c[1]][c[2]] \in Framed
    BY Zenon DEF FramedCalls
  <2>3. \A c : c \in FramedCalls <=> c \in Calls /\ stack[c[1]][c[2]] \in Framed
    BY Zenon DEF FramedCalls
  <2> QED
    BY <1>8, <2>1, <2>2, <2>3, Zenon
<1>10. <<t, k>> \in FramedCalls' <=> l \in Framed
  BY <1>1, <1>3, <1>5, <1>8, Zenon DEF FramedCalls
<1>11. FramedCalls' = IF l \in Framed THEN FramedCalls \cup {<<t, k>>} ELSE FramedCalls \ {<<t, k>>}
  BY <1>9, <1>10, Zenon
<1>12. /\ l = "fresh" => FreshPosts' = FreshPosts \cup {t}
       /\ l # "fresh" => FreshPosts' = FreshPosts \ {t}
  BY <1>5, <1>6, Zenon DEF FreshPosts
<1> QED
  BY <1>5, <1>6, <1>7, <1>8, <1>11, <1>12, Zenon

\* A dispatcher that runs the task at once nests it in the dispatch.
LEMMA Nests ==
  ASSUME StackInv, NEW t \in Threads, DispatchSync(t)
  PROVE  /\ StackInv'
         /\ Cardinality(Calls)' = Cardinality(Calls) + 1
         /\ FramedCalls' = FramedCalls
         /\ FreshPosts' = FreshPosts \ {t}
         /\ Top(t)' = "task_enter" /\ \A u \in Threads \ {t} : Top(u)' = Top(u)
<1> DEFINE m == Append(Rest(t), "dispatch")
           n == Append(m, "task_enter")
           k == Len(stack[t])
<1>0. Top(t) = "fresh" /\ k < MaxDepth /\ stack' = [stack EXCEPT ![t] = n]
  BY Zenon DEF DispatchSync
<1>1. /\ stack[t] \in Seq(Labels) /\ stack[t] # <<>> /\ k \in 1..MaxDepth
      /\ <<t, k>> \in Calls /\ <<t, k>> \in FramedCalls
  BY <1>0, TopFramed, Zenon DEF Framed
<1>2. Rest(t) \in Seq(Labels) /\ Len(Rest(t)) = k - 1
      /\ \A i \in 1..(k - 1) : Rest(t)[i] = stack[t][i]
  BY <1>1, Below, Zenon DEF Rest
<1>3. /\ m \in Seq(Labels) /\ Len(m) = k /\ m[k] = "dispatch"
      /\ \A i \in 1..(k - 1) : m[i] = stack[t][i]
  <2>1. "dispatch" \in Labels
    BY Zenon DEF Labels
  <2>2. /\ m \in Seq(Labels)
        /\ Len(m) = Len(Rest(t)) + 1 /\ m[Len(Rest(t)) + 1] = "dispatch"
        /\ \A i \in 1..Len(Rest(t)) : m[i] = Rest(t)[i]
    BY <1>2, <2>1, Above, Zenon
  <2> HIDE DEF m
  <2> QED
    BY <2>2, <1>1, <1>2
<1> HIDE DEF m
<1>4. /\ n \in Seq(Labels) /\ n # <<>> /\ Len(n) = k + 1
      /\ n[k + 1] = "task_enter" /\ n[k] = "dispatch"
      /\ \A i \in 1..(k - 1) : n[i] = stack[t][i]
  <2>1. "task_enter" \in Labels
    BY Zenon DEF Labels
  <2>2. /\ n \in Seq(Labels) /\ n # <<>>
        /\ Len(n) = Len(m) + 1 /\ n[Len(m) + 1] = "task_enter"
        /\ \A i \in 1..Len(m) : n[i] = m[i]
    BY <1>3, <2>1, Above, Zenon
  <2> HIDE DEF n
  <2>3. k \in 1..Len(m) /\ \A i \in 1..(k - 1) : i \in 1..Len(m)
    BY <1>1, <1>3
  <2>4. n[k] = "dispatch" /\ \A i \in 1..(k - 1) : n[i] = stack[t][i]
    BY <2>2, <2>3, <1>3, Zenon
  <2> QED
    BY <2>2, <2>4, <1>3, Zenon
<1> HIDE DEF n
<1>5. /\ stack'[t] = n
      /\ \A u \in Threads \ {t} : stack'[u] = stack[u] /\ Top(u)' = Top(u)
  BY <1>0, OtherThreads, Zenon
<1>6. Top(t)' = "task_enter"
  BY <1>1, <1>4, <1>5, Zenon DEF Top
<1>7. \A i \in 1..k : n[i] \in {"dispatch", "callback"}
  <2> TAKE i \in 1..k
  <2>1. CASE i = k
    BY <2>1, <1>4, Zenon
  <2>2. CASE i \in 1..(k - 1)
    BY <2>2, <1>4, Zenon DEF StackInv
  <2> QED
    BY <2>1, <2>2, <1>1
<1>8. StackInv'
  <2>1. stack' \in [Threads -> Seq(Labels)]
    BY <1>0, <1>4, Zenon DEF StackInv
  <2>2. ASSUME NEW u \in Threads
        PROVE  /\ Len(stack'[u]) <= MaxDepth
               /\ \A i \in 1..(Len(stack'[u]) - 1) : stack'[u][i] \in {"dispatch", "callback"}
    <3>1. CASE u = t
      BY <3>1, <1>0, <1>1, <1>4, <1>5, <1>7, GateAssumption
    <3>2. CASE u # t
      BY <3>2, <1>5, Zenon DEF StackInv
    <3> QED
      BY <3>1, <3>2, Zenon
  <2> QED
    BY <2>1, <2>2, Zenon DEF StackInv
<1>9. Calls' = Calls \cup {<<t, k + 1>>} /\ <<t, k + 1>> \notin Calls
  <2>1. \A c \in Places : c[1] # t => stack'[c[1]] = stack[c[1]]
    BY <1>5, Zenon DEF Places
  <2>2. k + 1 \in 1..MaxDepth
    BY <1>0, <1>1, GateAssumption
  <2> QED
    BY <1>1, <1>4, <1>5, <2>1, <2>2, SMTT(30) DEF Calls, Places
<1>10. Cardinality(Calls)' = Cardinality(Calls) + 1
  BY <1>9, Countable, FS_AddElement, Zenon
<1>11. FramedCalls' = FramedCalls
  <2>1. ASSUME NEW c \in Calls, c # <<t, k>>
        PROVE  stack'[c[1]][c[2]] = stack[c[1]][c[2]]
    <3>1. c = <<c[1], c[2]>> /\ c[1] \in Threads /\ c[2] \in 1..Len(stack[c[1]])
      BY DEF Calls, Places
    <3>2. CASE c[1] = t
      <4>1. c[2] \in 1..(k - 1)
        BY <2>1, <3>1, <3>2, <1>1
      <4> QED
        BY <4>1, <3>2, <1>4, <1>5, Zenon
    <3>3. CASE c[1] # t
      BY <3>1, <3>3, <1>5, Zenon
    <3> QED
      BY <3>2, <3>3, Zenon
  <2>2. stack'[t][k] \in Framed /\ stack'[t][k + 1] \notin Framed
    BY <1>4, <1>5, Zenon DEF Framed
  <2>3. \A c : c \in FramedCalls' <=> c \in Calls' /\ stack'[c[1]][c[2]] \in Framed
    BY Zenon DEF FramedCalls
  <2>4. \A c : c \in FramedCalls <=> c \in Calls /\ stack[c[1]][c[2]] \in Framed
    BY Zenon DEF FramedCalls
  <2>5. ASSUME NEW c PROVE c \in FramedCalls' <=> c \in FramedCalls
    <3>1. CASE c \in Calls /\ c # <<t, k>>
      BY <3>1, <1>9, <2>1, <2>3, <2>4, Zenon
    <3>2. CASE c = <<t, k>>
      BY <3>2, <1>1, <1>9, <2>2, <2>3, Zenon
    <3>3. CASE c = <<t, k + 1>>
      BY <3>3, <1>9, <2>2, <2>3, <2>4
    <3> QED
      BY <3>1, <3>2, <3>3, <1>9, <2>3, <2>4, Zenon
  <2> QED
    BY <2>5, Zenon
<1>12. FreshPosts' = FreshPosts \ {t}
  BY <1>5, <1>6, Zenon DEF FreshPosts
<1> QED
  BY <1>5, <1>6, <1>8, <1>10, <1>11, <1>12, Zenon

\* notify_all changes what the sleeping destroyers do next, and no count.
LEMMA Notifies ==
  ASSUME StackInv, NEW t \in Threads, Top(t) = "leave", stack' = Notified(t)
  PROVE  /\ StackInv'
         /\ Cardinality(Calls)' = Cardinality(Calls) - 1
         /\ FramedCalls' = FramedCalls /\ FreshPosts' = FreshPosts
         /\ Top(t)' \in {"idle", "dispatch", "callback"}
         /\ \A u \in Threads \ {t} :
              IF Top(u) = "drain_wait" THEN Top(u)' = "drain_lock" ELSE Top(u)' = Top(u)
<1> DEFINE k == Len(stack[t])
<1>1. /\ stack[t] \in Seq(Labels) /\ stack[t] # <<>> /\ k \in 1..MaxDepth
      /\ <<t, k>> \in Calls /\ <<t, k>> \notin FramedCalls
  BY TopFramed, Zenon DEF Framed
<1>2. Rest(t) \in Seq(Labels) /\ Len(Rest(t)) = k - 1
      /\ \A i \in 1..(k - 1) : Rest(t)[i] = stack[t][i]
  BY <1>1, Below, Zenon DEF Rest
<1>3. stack'[t] = Rest(t)
  BY Zenon DEF Notified
<1>4. ASSUME NEW u \in Threads, Top(u) = "drain_wait"
      PROVE  /\ stack'[u] \in Seq(Labels) /\ stack'[u] # <<>> /\ stack[u] # <<>>
             /\ Len(stack[u]) \in 1..MaxDepth
             /\ Len(stack'[u]) = Len(stack[u])
             /\ stack'[u][Len(stack[u])] = "drain_lock"
             /\ stack[u][Len(stack[u])] = "drain_wait"
             /\ \A i \in 1..(Len(stack[u]) - 1) : stack'[u][i] = stack[u][i]
  <2>1. stack[u] \in Seq(Labels) /\ stack[u] # <<>> /\ Len(stack[u]) \in 1..MaxDepth
    BY <1>4, TopFramed, Zenon
  <2>2. Rest(u) \in Seq(Labels) /\ Len(Rest(u)) = Len(stack[u]) - 1
        /\ \A i \in 1..(Len(stack[u]) - 1) : Rest(u)[i] = stack[u][i]
    BY <2>1, Below, Zenon DEF Rest
  <2>3. "drain_lock" \in Labels
    BY Zenon DEF Labels
  <2> DEFINE n == Append(Rest(u), "drain_lock")
  <2>4. /\ n \in Seq(Labels) /\ n # <<>>
        /\ Len(n) = Len(Rest(u)) + 1 /\ n[Len(Rest(u)) + 1] = "drain_lock"
        /\ \A i \in 1..Len(Rest(u)) : n[i] = Rest(u)[i]
    BY <2>2, <2>3, Above, Zenon
  <2>5. stack'[u] = n
    BY <1>4, Zenon DEF Notified
  <2>6. stack[u][Len(stack[u])] = "drain_wait"
    BY <1>4, <2>1, Zenon DEF Top
  <2> HIDE DEF n
  <2> QED
    BY <2>1, <2>2, <2>4, <2>5, <2>6
<1>5. \A u \in Threads \ {t} : Top(u) # "drain_wait" => stack'[u] = stack[u]
  BY Zenon DEF Notified
<1>6. Top(t)' \in {"idle", "dispatch", "callback"}
  <2>1. CASE Rest(t) = <<>>
    BY <2>1, <1>3, Zenon DEF Top
  <2>2. CASE Rest(t) # <<>>
    <3>1. k - 1 \in 1..(k - 1)
      BY <2>2, <1>1, <1>2
    <3>2. Top(t)' = Rest(t)[k - 1]
      BY <2>2, <1>2, <1>3, Zenon DEF Top
    <3> QED
      BY <3>1, <3>2, <1>2, Zenon DEF StackInv
  <2> QED
    BY <2>1, <2>2, Zenon
<1>7. ASSUME NEW u \in Threads \ {t}
      PROVE  IF Top(u) = "drain_wait" THEN Top(u)' = "drain_lock" ELSE Top(u)' = Top(u)
  BY <1>4, <1>5, Zenon DEF Top
<1>8. StackInv'
  <2>1. stack' \in [Threads -> Seq(Labels)]
    <3>1. \A u \in Threads : stack'[u] \in Seq(Labels)
      <4> TAKE u \in Threads
      <4>1. CASE u = t
        BY <4>1, <1>2, <1>3, Zenon
      <4>2. CASE u # t /\ Top(u) = "drain_wait"
        BY <4>2, <1>4, Zenon
      <4>3. CASE u # t /\ Top(u) # "drain_wait"
        BY <4>3, <1>5, Zenon DEF StackInv
      <4> QED
        BY <4>1, <4>2, <4>3, Zenon
    <3>2. stack' = [u \in Threads |-> stack'[u]]
      BY Zenon DEF Notified
    <3> QED
      BY <3>1, <3>2, Zenon
  <2>2. ASSUME NEW u \in Threads
        PROVE  /\ Len(stack'[u]) <= MaxDepth
               /\ \A i \in 1..(Len(stack'[u]) - 1) : stack'[u][i] \in {"dispatch", "callback"}
    <3>1. CASE u = t
      BY <3>1, <1>1, <1>2, <1>3, GateAssumption DEF StackInv
    <3>2. CASE u # t /\ Top(u) = "drain_wait"
      BY <3>2, <1>4 DEF StackInv
    <3>3. CASE u # t /\ Top(u) # "drain_wait"
      BY <3>3, <1>5, Zenon DEF StackInv
    <3> QED
      BY <3>1, <3>2, <3>3, Zenon
  <2> QED
    BY <2>1, <2>2, Zenon DEF StackInv
<1>9. Calls' = Calls \ {<<t, k>>}
  <2>1. \A c \in Places : c[1] # t => Len(stack'[c[1]]) = Len(stack[c[1]])
    BY <1>4, <1>5, Zenon DEF Places
  <2> QED
    BY <1>1, <1>2, <1>3, <2>1 DEF Calls, Places
<1>10. Cardinality(Calls)' = Cardinality(Calls) - 1
  BY <1>1, <1>9, Countable, FS_RemoveElement, Zenon
<1>11. FramedCalls' = FramedCalls
  <2>1. ASSUME NEW c \in Calls, c # <<t, k>>
        PROVE  stack'[c[1]][c[2]] \in Framed <=> stack[c[1]][c[2]] \in Framed
    <3>1. c = <<c[1], c[2]>> /\ c[1] \in Threads /\ c[2] \in 1..Len(stack[c[1]])
      BY DEF Calls, Places
    <3>2. CASE c[1] = t
      BY <2>1, <3>1, <3>2, <1>1, <1>2, <1>3
    <3>3. CASE c[1] # t /\ Top(c[1]) = "drain_wait"
      <4>1. CASE c[2] = Len(stack[c[1]])
        BY <3>1, <3>3, <4>1, <1>4, Zenon DEF Framed
      <4>2. CASE c[2] # Len(stack[c[1]])
        <5>1. c[2] \in 1..(Len(stack[c[1]]) - 1)
          BY <3>1, <3>3, <4>2, <1>4
        <5> QED
          BY <3>1, <3>3, <5>1, <1>4, Zenon
      <4> QED
        BY <4>1, <4>2, Zenon
    <3>4. CASE c[1] # t /\ Top(c[1]) # "drain_wait"
      BY <3>1, <3>4, <1>5, Zenon
    <3> QED
      BY <3>2, <3>3, <3>4, Zenon
  <2>2. \A c : c \in FramedCalls' <=> c \in Calls' /\ stack'[c[1]][c[2]] \in Framed
    BY Zenon DEF FramedCalls
  <2>3. \A c : c \in FramedCalls <=> c \in Calls /\ stack[c[1]][c[2]] \in Framed
    BY Zenon DEF FramedCalls
  <2>4. ASSUME NEW c PROVE c \in FramedCalls' <=> c \in FramedCalls
    BY <1>1, <1>9, <2>1, <2>2, <2>3, Zenon
  <2> QED
    BY <2>4, Zenon
<1>12. FreshPosts' = FreshPosts
  <2>1. \A u \in Threads : Top(u)' = "fresh" <=> Top(u) = "fresh"
    BY <1>6, <1>7, Zenon
  <2> QED
    BY <2>1, Zenon DEF FreshPosts
<1> QED
  BY <1>6, <1>7, <1>8, <1>10, <1>11, <1>12, Zenon

-----------------------------------------------------------------------------
(* The gate *)

\* CallbackGate::local_depth counts the frames of its thread.
LEMMA LocalDepthCounts ==
  ASSUME StackInv, NEW t \in Threads
  PROVE  /\ LocalDepth(t) \in Nat
         /\ LocalDepth(t) = Cardinality({c \in FramedCalls : c[1] = t})
         /\ (\A c \in FramedCalls : c[1] # t) => LocalDepth(t) = 0
<1> DEFINE L == {i \in DOMAIN stack[t] : stack[t][i] \in Framed}
           C == {c \in FramedCalls : c[1] = t}
           f == [c \in C |-> c[2]]
<1>1. stack[t] \in Seq(Labels) /\ Len(stack[t]) \in Nat /\ DOMAIN stack[t] = 1..Len(stack[t])
      /\ Len(stack[t]) <= MaxDepth
  BY DEF StackInv
<1>2. \A c : c \in C <=> c[1] = t /\ c = <<c[1], c[2]>> /\ c[2] \in L
  BY <1>1, GateAssumption DEF FramedCalls, Calls, Places
<1>3. \A i \in L : <<t, i>> \in C
  BY <1>1, GateAssumption DEF FramedCalls, Calls, Places
<1>4. f \in Bijection(C, L)
  <2>1. f \in [C -> L]
    BY <1>2, Zenon
  <2>2. \A c, d \in C : f[c] = f[d] => c = d
    BY <1>2
  <2>3. \A i \in L : \E c \in C : f[c] = i
    <3> TAKE i \in L
    <3>1. <<t, i>> \in C /\ f[<<t, i>>] = i
      BY <1>3, Zenon
    <3> QED
      BY <3>1, Zenon
  <2> HIDE DEF f, C, L
  <2> QED
    BY <2>1, <2>2, <2>3, Zenon DEF Bijection, Injection, IsInjective, Surjection
<1>5. C \in SUBSET FramedCalls
  OBVIOUS
<1>6. IsFiniteSet(C)
  BY <1>5, Countable, FS_Subset, Zenon
<1>7. LocalDepth(t) = Cardinality(L)
  BY Zenon DEF LocalDepth
<1> HIDE DEF C, L, f
<1>8. Cardinality(L) = Cardinality(C)
  BY <1>4, <1>6, FS_Bijection, Zenon DEF ExistsBijection
<1>9. (\A c \in FramedCalls : c[1] # t) => C = {}
  BY Zenon DEF C
<1> QED
  BY <1>6, <1>7, <1>8, <1>9, FS_CardinalityType, FS_EmptySet, Zenon DEF C

\* A destroy that finds no more active callbacks than frames on its own stack is
\* left alone with its own frames.
LEMMA DrainedIsQuiet ==
  ASSUME StackInv, CountInv, NEW t \in Threads, Drained(t)
  PROVE  /\ \A c \in FramedCalls : c[1] = t
         /\ active = LocalDepth(t)
<1> DEFINE C == {c \in FramedCalls : c[1] = t}
<1>1. C \in SUBSET FramedCalls
  OBVIOUS
<1>2. LocalDepth(t) = Cardinality(C)
  BY LocalDepthCounts, Zenon
<1>3. Cardinality(FramedCalls) <= Cardinality(C)
  BY <1>2, Zenon DEF CountInv, Drained
<1> HIDE DEF C
<1>4. Cardinality(C) <= Cardinality(FramedCalls) /\ IsFiniteSet(C)
  BY <1>1, Countable, FS_Subset, Zenon
<1>5. Cardinality(C) = Cardinality(FramedCalls)
  BY <1>3, <1>4, Countable, FS_CardinalityType
<1>6. C = FramedCalls
  BY <1>1, <1>5, Countable, FS_Subset, Zenon
<1> QED
  BY <1>2, <1>5, <1>6, Zenon DEF C, CountInv

\* A step that closes nothing, consumes nothing, lets no destroy into the drain
\* and, once the gate is closed, adds no frame keeps the drain exclusive and quiet.
LEMMA DrainKept ==
  ASSUME DrainInv, UNCHANGED <<closed, raw, done>>,
         active \in Nat, active' \in Nat,
         \A u \in Threads : Top(u)' \in Draining => Top(u) \in Draining,
         \A u \in Threads : Top(u)' = "consume" => Top(u) = "consume",
         closed = 1 => FramedCalls' \subseteq FramedCalls /\ active' <= active
  PROVE  DrainInv'
<1>1. \A t \in Threads :
       Top(t)' \in Draining =>
         /\ closed' = 1 /\ raw' = 1
         /\ \A u \in Threads : Top(u)' \in Draining => u = t
  BY Zenon DEF DrainInv
<1>2. ASSUME NEW t \in Threads, Top(t)' = "consume"
      PROVE  \A c \in FramedCalls' : c[1] = t
  <2>1. Top(t) = "consume" /\ closed = 1
    BY <1>2, Zenon DEF DrainInv, Draining
  <2> QED
    BY <2>1, Zenon DEF DrainInv
<1>3. done' # <<>> =>
       /\ closed' = 1 /\ done'[1] \in Threads /\ active' <= done'[2] /\ done'[2] \in Nat
       /\ \A c \in FramedCalls' : c[1] = done'[1]
  BY DEF DrainInv
<1> QED
  BY <1>1, <1>2, <1>3, Zenon DEF DrainInv

\* Posting, running a task and starting a destroy pin the Session once.
LEMMA CallKeeps ==
  ASSUME GateInv, NEW t \in Threads, Call(t)
  PROVE  GateInv'
<1> USE DEF GateInv
<1>1. PICK l \in {"post_enter", "task_enter", "destroy_close"} : MayCall(t) /\ Push(t, l)
  BY Zenon DEF Call, Post, RunTask, Destroy
<1>2. l \in Labels \ Framed /\ l \notin Draining
  BY Zenon DEF Labels, Framed, Draining
<1>3. /\ StackInv' /\ Cardinality(Calls)' = Cardinality(Calls) + 1
      /\ FramedCalls' = FramedCalls /\ FreshPosts' = FreshPosts
      /\ Top(t)' = l /\ \A u \in Threads \ {t} : Top(u)' = Top(u)
  BY <1>1, <1>2, Pushes, Zenon
<1>4. UNCHANGED <<closed, active, raw, done>>
  BY Zenon DEF Call, Post, RunTask, Destroy
<1>5. \/ strong' = strong + 1 /\ queued' = queued
      \/ strong' = strong /\ queued' = queued - 1 /\ queued > 0
  BY Zenon DEF Call, Post, RunTask, Destroy
<1>6. CountInv'
  BY <1>3, <1>4, <1>5, Countable DEF CountInv
<1>7. active \in Nat
  BY Countable, Zenon DEF CountInv
<1>8. DrainInv'
  <2>1. \A u \in Threads : Top(u)' \in Draining => Top(u) \in Draining
    BY <1>2, <1>3, Zenon
  <2>2. \A u \in Threads : Top(u)' = "consume" => Top(u) = "consume"
    BY <1>2, <1>3, Zenon DEF Draining
  <2> QED
    BY <1>3, <1>4, <1>7, <2>1, <2>2, DrainKept
<1> QED
  BY <1>3, <1>6, <1>8, Zenon

\* A permit is given while the gate is open, and the frame comes with the count.
LEMMA AdmitKeeps ==
  ASSUME GateInv, NEW t \in Threads, Admitted,
         \/ Top(t) = "post_enter" /\ Relabel(t, "fresh") /\ strong' = strong + 1
         \/ Top(t) = "task_enter" /\ Relabel(t, "callback") /\ strong' = strong,
         active' = active + 1, UNCHANGED <<closed, raw, queued, done>>
  PROVE  GateInv'
<1> USE DEF GateInv
<1>1. PICK l \in {"fresh", "callback"} :
        /\ Top(t) = IF l = "fresh" THEN "post_enter" ELSE "task_enter"
        /\ Relabel(t, l)
        /\ strong' = IF l = "fresh" THEN strong + 1 ELSE strong
  OBVIOUS
<1>2. l \in Labels /\ l \in Framed /\ l \notin Draining /\ Top(t) \notin Framed /\ Top(t) # "idle"
  BY <1>1, Zenon DEF Labels, Framed, Draining
<1>3. /\ StackInv' /\ Calls' = Calls
      /\ FramedCalls' = FramedCalls \cup {<<t, Len(stack[t])>>}
      /\ l = "fresh" => FreshPosts' = FreshPosts \cup {t}
      /\ l # "fresh" => FreshPosts' = FreshPosts \ {t}
      /\ Top(t)' = l /\ \A u \in Threads \ {t} : Top(u)' = Top(u)
  BY <1>1, <1>2, Relabels, Zenon
<1>4. <<t, Len(stack[t])>> \notin FramedCalls
  BY <1>2, TopFramed, Zenon
<1>5. t \notin FreshPosts
  BY <1>2, Zenon DEF FreshPosts, Framed
<1>6. Cardinality(FramedCalls)' = Cardinality(FramedCalls) + 1
  BY <1>3, <1>4, Countable, FS_AddElement, Zenon
<1>7. Cardinality(FreshPosts)' = IF l = "fresh" THEN Cardinality(FreshPosts) + 1
                                 ELSE Cardinality(FreshPosts)
  <2>1. CASE l = "fresh"
    BY <2>1, <1>3, <1>5, Countable, FS_AddElement, Zenon
  <2>2. CASE l # "fresh"
    <3>1. FreshPosts' = FreshPosts
      BY <2>2, <1>3, <1>5, Zenon
    <3> QED
      BY <2>2, <3>1, Zenon
  <2> QED
    BY <2>1, <2>2, Zenon
<1>8. Cardinality(Calls)' = Cardinality(Calls)
  BY <1>3, Zenon
<1>9. CountInv'
  BY <1>1, <1>6, <1>7, <1>8, Countable DEF CountInv
<1>10. active \in Nat /\ active' \in Nat
  BY Countable DEF CountInv
<1>11. closed = 0
  BY Zenon DEF Admitted
<1>12. DrainInv'
  <2>1. \A u \in Threads : Top(u)' \in Draining => Top(u) \in Draining
    BY <1>2, <1>3, Zenon
  <2>2. \A u \in Threads : Top(u)' = "consume" => Top(u) = "consume"
    BY <1>2, <1>3, Zenon DEF Draining
  <2> QED
    BY <1>10, <1>11, <2>1, <2>2, DrainKept
<1> QED
  BY <1>3, <1>9, <1>12, Zenon

\* A call without a frame that returns drops its pin.
LEMMA DropKeeps ==
  ASSUME GateInv, NEW t \in Threads,
         Top(t) \in {"post_enter", "task_enter", "destroy_close"},
         Pop(t), strong' = strong - 1, UNCHANGED <<closed, active, raw, queued, done>>
  PROVE  GateInv'
<1> USE DEF GateInv
<1>1. Top(t) # "idle" /\ Top(t) \notin Framed
  BY Zenon DEF Framed
<1>2. /\ StackInv' /\ Cardinality(Calls)' = Cardinality(Calls) - 1
      /\ FramedCalls' = FramedCalls \ {<<t, Len(stack[t])>>}
      /\ FreshPosts' = FreshPosts \ {t}
      /\ Top(t)' \in {"idle", "dispatch", "callback"}
      /\ \A u \in Threads \ {t} : Top(u)' = Top(u)
  BY <1>1, Pops, Zenon
<1>3. FramedCalls' = FramedCalls
  BY <1>1, <1>2, TopFramed, Zenon
<1>4. FreshPosts' = FreshPosts
  BY <1>1, <1>2, Zenon DEF FreshPosts, Framed
<1>5. CountInv'
  <2>1. Cardinality(FramedCalls)' = Cardinality(FramedCalls)
        /\ Cardinality(FreshPosts)' = Cardinality(FreshPosts)
    BY <1>3, <1>4, Zenon
  <2>2. strong' = raw' + queued' + Cardinality(Calls)' + Cardinality(FreshPosts)'
    BY <1>2, <2>1, Countable, SMTT(30) DEF CountInv
  <2> QED
    BY <2>1, <2>2, Zenon DEF CountInv
<1>6. active \in Nat
  BY Countable, Zenon DEF CountInv
<1>7. DrainInv'
  <2>1. \A u \in Threads : Top(u)' \in Draining => Top(u) \in Draining
    BY <1>2, Zenon DEF Draining
  <2>2. \A u \in Threads : Top(u)' = "consume" => Top(u) = "consume"
    BY <1>2, Zenon
  <2> QED
    BY <1>3, <1>6, <2>1, <2>2, DrainKept
<1> QED
  BY <1>2, <1>5, <1>7, Zenon

\* The dispatcher takes the task's pin over, nests the task, or drops it.
LEMMA DispatchKeeps ==
  ASSUME GateInv, NEW t \in Threads,
         DispatchQueue(t) \/ DispatchSync(t) \/ DispatchReject(t)
  PROVE  GateInv'
<1> USE DEF GateInv
<1>1. Top(t) = "fresh" /\ UNCHANGED <<closed, active, raw, done>>
  BY Zenon DEF DispatchQueue, DispatchSync, DispatchReject
<1>2. t \in FreshPosts /\ Top(t) # "idle" /\ Top(t) \in Framed
  BY <1>1, Zenon DEF FreshPosts, Framed
<1>3. PICK l \in {"dispatch", "task_enter"} :
        /\ StackInv' /\ FramedCalls' = FramedCalls /\ FreshPosts' = FreshPosts \ {t}
        /\ Cardinality(Calls)' = IF l = "dispatch" THEN Cardinality(Calls)
                                 ELSE Cardinality(Calls) + 1
        /\ l = "dispatch" => \/ queued' = queued + 1 /\ strong' = strong
                             \/ queued' = queued /\ strong' = strong - 1
        /\ l # "dispatch" => queued' = queued /\ strong' = strong
        /\ Top(t)' = l /\ \A u \in Threads \ {t} : Top(u)' = Top(u)
  <2>1. CASE DispatchSync(t)
    <3>1. /\ StackInv' /\ Cardinality(Calls)' = Cardinality(Calls) + 1
          /\ FramedCalls' = FramedCalls /\ FreshPosts' = FreshPosts \ {t}
          /\ Top(t)' = "task_enter" /\ \A u \in Threads \ {t} : Top(u)' = Top(u)
      BY <2>1, Nests, Zenon
    <3>2. queued' = queued /\ strong' = strong
      BY <2>1, Zenon DEF DispatchSync
    <3> QED
      BY <3>1, <3>2, Zenon
  <2>2. CASE DispatchQueue(t) \/ DispatchReject(t)
    <3>1. /\ Relabel(t, "dispatch")
          /\ \/ queued' = queued + 1 /\ strong' = strong
             \/ queued' = queued /\ strong' = strong - 1
      BY <2>2, Zenon DEF DispatchQueue, DispatchReject
    <3>2. "dispatch" \in Labels /\ "dispatch" \in Framed
      BY Zenon DEF Labels, Framed
    <3>3. /\ StackInv' /\ Calls' = Calls
          /\ FramedCalls' = FramedCalls \cup {<<t, Len(stack[t])>>}
          /\ FreshPosts' = FreshPosts \ {t}
          /\ Top(t)' = "dispatch" /\ \A u \in Threads \ {t} : Top(u)' = Top(u)
      BY <3>1, <3>2, <1>2, Relabels, Zenon
    <3>4. FramedCalls' = FramedCalls
      BY <3>3, <1>2, TopFramed, Zenon
    <3> QED
      BY <3>1, <3>3, <3>4, Zenon
  <2> QED
    BY <2>1, <2>2, Zenon
<1>4. Cardinality(FreshPosts)' = Cardinality(FreshPosts) - 1
  BY <1>2, <1>3, Countable, FS_RemoveElement, Zenon
<1>5. CountInv'
  <2>1. CASE l = "dispatch" /\ queued' = queued + 1 /\ strong' = strong
    BY <2>1, <1>1, <1>3, <1>4, Countable DEF CountInv
  <2>2. CASE l = "dispatch" /\ queued' = queued /\ strong' = strong - 1
    BY <2>2, <1>1, <1>3, <1>4, Countable DEF CountInv
  <2>3. CASE l # "dispatch"
    BY <2>3, <1>1, <1>3, <1>4, Countable DEF CountInv
  <2> QED
    BY <2>1, <2>2, <2>3, <1>3, Zenon
<1>6. active \in Nat
  BY Countable, Zenon DEF CountInv
<1>7. DrainInv'
  <2>1. \A u \in Threads : Top(u)' \in Draining => Top(u) \in Draining
    BY <1>3, Zenon DEF Draining
  <2>2. \A u \in Threads : Top(u)' = "consume" => Top(u) = "consume"
    BY <1>3, Zenon
  <2> QED
    BY <1>1, <1>3, <1>6, <2>1, <2>2, DrainKept
<1> QED
  BY <1>3, <1>5, <1>7, Zenon

\* Host code that returns gives the permit and the frame back together.
LEMMA ReturnKeeps ==
  ASSUME GateInv, NEW t \in Threads, Return(t)
  PROVE  GateInv'
<1> USE DEF GateInv
<1>1. /\ Top(t) \in {"dispatch", "callback"} /\ active' = active - 1
      /\ UNCHANGED <<closed, raw, queued, done>>
      /\ \/ Relabel(t, "leave") /\ strong' = strong
         \/ Pop(t) /\ strong' = strong - 1
  BY Zenon DEF Return
<1>2. Top(t) # "idle" /\ Top(t) \in Framed /\ t \notin FreshPosts
  BY <1>1, Zenon DEF Framed, FreshPosts
<1>3. <<t, Len(stack[t])>> \in FramedCalls
  BY <1>2, TopFramed, Zenon
<1>4. /\ StackInv'
      /\ FramedCalls' = FramedCalls \ {<<t, Len(stack[t])>>}
      /\ FreshPosts' = FreshPosts
      /\ Top(t)' \in {"idle", "dispatch", "callback", "leave"}
      /\ \A u \in Threads \ {t} : Top(u)' = Top(u)
      /\ \/ strong' = strong /\ Cardinality(Calls)' = Cardinality(Calls)
         \/ strong' = strong - 1 /\ Cardinality(Calls)' = Cardinality(Calls) - 1
  <2>1. CASE Relabel(t, "leave") /\ strong' = strong
    <3>1. "leave" \in Labels /\ "leave" \notin Framed
      BY Zenon DEF Labels, Framed
    <3>2. /\ StackInv' /\ Calls' = Calls
          /\ FramedCalls' = FramedCalls \ {<<t, Len(stack[t])>>}
          /\ FreshPosts' = FreshPosts \ {t}
          /\ Top(t)' = "leave" /\ \A u \in Threads \ {t} : Top(u)' = Top(u)
      BY <2>1, <3>1, <1>2, Relabels, Zenon
    <3> QED
      BY <2>1, <3>2, <1>2, Zenon
  <2>2. CASE Pop(t) /\ strong' = strong - 1
    <3>1. /\ StackInv' /\ Cardinality(Calls)' = Cardinality(Calls) - 1
          /\ FramedCalls' = FramedCalls \ {<<t, Len(stack[t])>>}
          /\ FreshPosts' = FreshPosts \ {t}
          /\ Top(t)' \in {"idle", "dispatch", "callback"}
          /\ \A u \in Threads \ {t} : Top(u)' = Top(u)
      BY <2>2, <1>2, Pops, Zenon
    <3> QED
      BY <2>2, <3>1, <1>2, Zenon
  <2> QED
    BY <1>1, <2>1, <2>2, Zenon
<1>5. Cardinality(FramedCalls)' = Cardinality(FramedCalls) - 1
  BY <1>3, <1>4, Countable, FS_RemoveElement, Zenon
<1>6. CountInv'
  BY <1>1, <1>4, <1>5, Countable DEF CountInv
<1>7. active \in Nat /\ active' \in Nat /\ active' <= active
  <2>1. Cardinality(FramedCalls)' \in Nat
    BY <1>4, <1>3, Countable, FS_RemoveElement, FS_CardinalityType, Zenon
  <2> QED
    BY <1>1, <1>5, <2>1, Countable DEF CountInv
<1>8. DrainInv'
  <2>1. \A u \in Threads : Top(u)' \in Draining => Top(u) \in Draining
    BY <1>4, Zenon DEF Draining
  <2>2. \A u \in Threads : Top(u)' = "consume" => Top(u) = "consume"
    BY <1>4, Zenon
  <2> QED
    BY <1>1, <1>4, <1>7, <2>1, <2>2, DrainKept, Zenon
<1> QED
  BY <1>4, <1>6, <1>8, Zenon

\* The notification wakes destroyers and admits nothing.
LEMMA LeaveKeeps ==
  ASSUME GateInv, NEW t \in Threads, Leave(t)
  PROVE  GateInv'
<1> USE DEF GateInv
<1>1. /\ Top(t) = "leave" /\ stack' = Notified(t) /\ strong' = strong - 1
      /\ UNCHANGED <<closed, active, raw, queued, done>>
  BY Zenon DEF Leave
<1>2. /\ StackInv' /\ Cardinality(Calls)' = Cardinality(Calls) - 1
      /\ FramedCalls' = FramedCalls /\ FreshPosts' = FreshPosts
      /\ Top(t)' \in {"idle", "dispatch", "callback"}
      /\ \A u \in Threads \ {t} :
           IF Top(u) = "drain_wait" THEN Top(u)' = "drain_lock" ELSE Top(u)' = Top(u)
  BY <1>1, Notifies, Zenon
<1>3. CountInv'
  BY <1>1, <1>2, Countable DEF CountInv
<1>4. active \in Nat
  BY Countable, Zenon DEF CountInv
<1>5. DrainInv'
  <2>1. \A u \in Threads : Top(u)' \in Draining => Top(u) \in Draining
    BY <1>2, Zenon DEF Draining
  <2>2. \A u \in Threads : Top(u)' = "consume" => Top(u) = "consume"
    BY <1>2, Zenon
  <2> QED
    BY <1>1, <1>2, <1>4, <2>1, <2>2, DrainKept
<1> QED
  BY <1>2, <1>3, <1>5, Zenon

\* Only one destroy gets past close.
LEMMA DestroyCloseKeeps ==
  ASSUME GateInv, NEW t \in Threads, DestroyClose(t)
  PROVE  GateInv'
<1> USE DEF GateInv
<1>1. CASE closed = 0
  <2>1. /\ Top(t) = "destroy_close" /\ closed' = 1 /\ Relabel(t, "drain_check")
        /\ UNCHANGED <<active, raw, strong, queued, done>>
    BY <1>1, Zenon DEF DestroyClose
  <2>2. /\ Top(t) # "idle" /\ Top(t) \notin Framed /\ t \notin FreshPosts
        /\ "drain_check" \in Labels /\ "drain_check" \notin Framed
    BY <2>1, Zenon DEF Framed, Labels, FreshPosts
  <2>3. /\ StackInv' /\ Calls' = Calls
        /\ FramedCalls' = FramedCalls \ {<<t, Len(stack[t])>>}
        /\ FreshPosts' = FreshPosts \ {t}
        /\ Top(t)' = "drain_check" /\ \A u \in Threads \ {t} : Top(u)' = Top(u)
    BY <2>1, <2>2, Relabels, Zenon
  <2>4. FramedCalls' = FramedCalls /\ FreshPosts' = FreshPosts
    BY <2>2, <2>3, TopFramed, Zenon
  <2>5. CountInv'
    BY <2>1, <2>3, <2>4, Zenon DEF CountInv
  <2>6. \A u \in Threads : Top(u) \notin Draining
    BY <1>1 DEF DrainInv
  <2>7. done = <<>>
    BY <1>1 DEF DrainInv
  <2>8. raw = 1
    BY <1>1, Zenon DEF DrainInv
  <2>9. DrainInv'
    BY <2>1, <2>3, <2>6, <2>7, <2>8 DEF DrainInv, Draining
  <2> QED
    BY <2>3, <2>5, <2>9, Zenon
<1>2. CASE closed # 0
  <2>1. /\ Top(t) = "destroy_close" /\ Pop(t) /\ strong' = strong - 1
        /\ UNCHANGED <<closed, active, raw, queued, done>>
    BY <1>2, Zenon DEF DestroyClose
  <2> QED
    BY <2>1, DropKeeps, Zenon
<1> QED
  BY <1>1, <1>2, Zenon

\* CallbackDrain::wait changes no count, and ends only when the gate is drained.
LEMMA DrainKeeps ==
  ASSUME GateInv, NEW t \in Threads,
         \/ DrainCheck(t) \/ DrainLock(t) \/ DrainTest(t)
         \/ DrainSleep(t) \/ SpuriousWake(t)
  PROVE  GateInv'
<1> USE DEF GateInv
<1>1. PICK l \in Draining : Top(t) \in Draining /\ Relabel(t, l)
                            /\ (l = "consume" => Drained(t))
  BY Zenon
     DEF DrainCheck, DrainLock, DrainTest, DrainSleep, SpuriousWake, Draining
<1>2. UNCHANGED <<closed, active, raw, strong, queued, done>>
  BY Zenon DEF DrainCheck, DrainLock, DrainTest, DrainSleep, SpuriousWake
<1>3. /\ Top(t) # "idle" /\ Top(t) \notin Framed /\ t \notin FreshPosts
      /\ l \in Labels /\ l \notin Framed /\ l # "fresh"
  BY <1>1, Zenon DEF Framed, Labels, FreshPosts, Draining
<1>4. /\ StackInv' /\ Calls' = Calls
      /\ FramedCalls' = FramedCalls \ {<<t, Len(stack[t])>>}
      /\ FreshPosts' = FreshPosts \ {t}
      /\ Top(t)' = l /\ \A u \in Threads \ {t} : Top(u)' = Top(u)
  BY <1>1, <1>3, Relabels, Zenon
<1>5. FramedCalls' = FramedCalls /\ FreshPosts' = FreshPosts
  BY <1>3, <1>4, TopFramed, Zenon
<1>6. CountInv'
  BY <1>2, <1>4, <1>5, Zenon DEF CountInv
<1>7. DrainInv'
  <2>1. \A u \in Threads : Top(u)' \in Draining <=> Top(u) \in Draining
    BY <1>1, <1>4, Zenon
  <2>2. \A u \in Threads :
          Top(u)' \in Draining =>
            /\ closed' = 1 /\ raw' = 1
            /\ \A v \in Threads : Top(v)' \in Draining => v = u
    BY <1>2, <2>1, Zenon DEF DrainInv
  <2>3. ASSUME NEW u \in Threads, Top(u)' = "consume"
        PROVE  \A c \in FramedCalls' : c[1] = u
    <3>1. CASE u = t
      <4>1. Drained(t)
        BY <2>3, <3>1, <1>1, <1>4, Zenon
      <4> QED
        BY <3>1, <4>1, <1>5, DrainedIsQuiet, Zenon
    <3>2. CASE u # t
      BY <2>3, <3>2, <1>4, <1>5, Zenon DEF DrainInv
    <3> QED
      BY <3>1, <3>2, Zenon
  <2>4. closed' = 0 => raw' = 1
    BY <1>2, Zenon DEF DrainInv
  <2>5. done' # <<>> =>
          /\ closed' = 1 /\ done'[1] \in Threads /\ active' <= done'[2] /\ done'[2] \in Nat
          /\ \A c \in FramedCalls' : c[1] = done'[1]
    BY <1>2, <1>5, Zenon DEF DrainInv
  <2> QED
    BY <2>2, <2>3, <2>4, <2>5, Zenon DEF DrainInv
<1> QED
  BY <1>4, <1>6, <1>7, Zenon

\* The destroy consumes the handle when only its own frames are left.
LEMMA ConsumeKeeps ==
  ASSUME GateInv, NEW t \in Threads, Consume(t)
  PROVE  GateInv'
<1> USE DEF GateInv
<1>1. /\ Top(t) = "consume" /\ raw' = 0 /\ strong' = strong - 2
      /\ done' = <<t, LocalDepth(t)>> /\ Pop(t)
      /\ UNCHANGED <<closed, active, queued>>
  BY Zenon DEF Consume
<1>2. /\ Top(t) # "idle" /\ Top(t) \notin Framed /\ Top(t) \in Draining
      /\ t \notin FreshPosts
  BY <1>1, Zenon DEF Framed, FreshPosts, Draining
<1>3. /\ StackInv' /\ Cardinality(Calls)' = Cardinality(Calls) - 1
      /\ FramedCalls' = FramedCalls \ {<<t, Len(stack[t])>>}
      /\ FreshPosts' = FreshPosts \ {t}
      /\ Top(t)' \in {"idle", "dispatch", "callback"}
      /\ \A u \in Threads \ {t} : Top(u)' = Top(u)
  BY <1>1, <1>2, Pops, Zenon
<1>4. FramedCalls' = FramedCalls /\ FreshPosts' = FreshPosts
  BY <1>2, <1>3, TopFramed, Zenon
<1>5. closed = 1 /\ raw = 1 /\ \A u \in Threads : Top(u) \in Draining => u = t
  BY <1>2, Zenon DEF DrainInv
<1>6. CountInv'
  <2>1. Cardinality(FramedCalls)' = Cardinality(FramedCalls)
        /\ Cardinality(FreshPosts)' = Cardinality(FreshPosts)
    BY <1>4, Zenon
  <2>2. strong' = raw' + queued' + Cardinality(Calls)' + Cardinality(FreshPosts)'
    BY <1>1, <1>3, <1>5, <2>1, Countable DEF CountInv
  <2> QED
    BY <1>1, <2>1, <2>2, Zenon DEF CountInv
<1>7. \A c \in FramedCalls : c[1] = t
  BY <1>1, Zenon DEF DrainInv
<1>8. active = LocalDepth(t) /\ LocalDepth(t) \in Nat
  <2>1. {c \in FramedCalls : c[1] = t} = FramedCalls
    BY <1>7, Zenon
  <2> QED
    BY <2>1, LocalDepthCounts, Zenon DEF CountInv
<1>9. DrainInv'
  <2>1. \A u \in Threads : Top(u)' \notin Draining
    BY <1>3, <1>5, Zenon DEF Draining
  <2>2. \A u \in Threads : Top(u)' # "consume"
    BY <2>1, Zenon DEF Draining
  <2>3. done'[1] = t /\ done'[2] = LocalDepth(t)
    BY <1>1, Zenon
  <2>4. /\ closed' = 1 /\ done'[1] \in Threads /\ active' <= done'[2] /\ done'[2] \in Nat
        /\ \A c \in FramedCalls' : c[1] = done'[1]
    BY <1>1, <1>4, <1>5, <1>7, <1>8, <2>3
  <2> QED
    BY <2>1, <2>2, <2>4 DEF DrainInv
<1> QED
  BY <1>3, <1>6, <1>9, Zenon

\* The counts of the gate and of the Session are exact, one destroy drains, and a
\* drained gate stays quiet, in every reachable state.
THEOREM GateInvariant == Spec => []GateInv
<1>1. Init => GateInv
  <2> SUFFICES ASSUME Init PROVE GateInv
    OBVIOUS
  <2>1. \A t \in Threads : stack[t] = <<>> /\ Len(stack[t]) = 0 /\ Top(t) = "idle"
    BY Zenon DEF Init, Top
  <2>2. Calls = {} /\ FramedCalls = {} /\ FreshPosts = {}
    BY <2>1 DEF Calls, FramedCalls, FreshPosts, Places
  <2>3. StackInv
    <3>1. <<>> \in Seq(Labels)
      OBVIOUS
    <3>2. stack \in [Threads -> Seq(Labels)]
      BY <3>1, Zenon DEF Init
    <3> QED
      BY <2>1, <3>2, GateAssumption DEF StackInv
  <2>4. CountInv
    BY <2>2, FS_EmptySet DEF Init, CountInv
  <2>5. DrainInv
    BY <2>1, Zenon DEF Init, DrainInv, Draining
  <2> QED
    BY <2>3, <2>4, <2>5, Zenon DEF GateInv
<1>2. GateInv /\ [Next]_vars => GateInv'
  <2> SUFFICES ASSUME GateInv, [Next]_vars PROVE GateInv'
    OBVIOUS
  <2>1. CASE UNCHANGED vars
    BY <2>1 DEF vars, GateInv, StackInv, CountInv, DrainInv, Calls, FramedCalls,
                FreshPosts, Top, Places
  <2>2. ASSUME NEW t \in Threads,
               MigoStep(t) \/ HostStep(t) \/ Call(t) \/ SpuriousWake(t)
        PROVE  GateInv'
    <3>1. CASE Call(t)
      BY <3>1, CallKeeps, Zenon
    <3>2. CASE PostEnter(t)
      <4>1. CASE Admitted
        BY <3>2, <4>1, AdmitKeeps, Zenon DEF PostEnter
      <4>2. CASE ~Admitted
        BY <3>2, <4>2, DropKeeps, Zenon DEF PostEnter
      <4> QED
        BY <4>1, <4>2, Zenon
    <3>3. CASE TaskEnter(t)
      <4>1. CASE Admitted
        BY <3>3, <4>1, AdmitKeeps, Zenon DEF TaskEnter
      <4>2. CASE ~Admitted
        BY <3>3, <4>2, DropKeeps, Zenon DEF TaskEnter
      <4> QED
        BY <4>1, <4>2, Zenon
    <3>4. CASE DispatchQueue(t) \/ DispatchSync(t) \/ DispatchReject(t)
      BY <3>4, DispatchKeeps, Zenon
    <3>5. CASE Return(t)
      BY <3>5, ReturnKeeps, Zenon
    <3>6. CASE Leave(t)
      BY <3>6, LeaveKeeps, Zenon
    <3>7. CASE DestroyClose(t)
      BY <3>7, DestroyCloseKeeps, Zenon
    <3>8. CASE \/ DrainCheck(t) \/ DrainLock(t) \/ DrainTest(t)
               \/ DrainSleep(t) \/ SpuriousWake(t)
      BY <3>8, DrainKeeps, Zenon
    <3>9. CASE Consume(t)
      BY <3>9, ConsumeKeeps, Zenon
    <3> QED
      BY <2>2, <3>1, <3>2, <3>3, <3>4, <3>5, <3>6, <3>7, <3>8, <3>9, Zenon
         DEF MigoStep, HostStep
  <2> QED
    BY <2>1, <2>2, Zenon DEF Next
<1> QED
  BY <1>1, <1>2, PTL DEF Spec

\* After a migo_session_destroy that returned MIGO_OK no host code runs for the
\* Session but the callbacks the destroy was called from, whatever the number of
\* threads, of active callbacks and of nested calls.
THEOREM QuietHolds == Spec => []QuietAfterDestroy
<1>1. GateInv => QuietAfterDestroy
  <2> SUFFICES ASSUME GateInv, done # <<>>
               PROVE  /\ LocalDepth(done[1]) <= done[2]
                      /\ \A u \in Threads \ {done[1]} : LocalDepth(u) = 0
    BY Zenon DEF QuietAfterDestroy
  <2> USE DEF GateInv
  <2>1. /\ done[1] \in Threads /\ active <= done[2] /\ done[2] \in Nat
        /\ \A c \in FramedCalls : c[1] = done[1]
    BY Zenon DEF DrainInv
  <2>2. {c \in FramedCalls : c[1] = done[1]} = FramedCalls
    BY <2>1, Zenon
  <2>3. LocalDepth(done[1]) = active
    BY <2>1, <2>2, LocalDepthCounts, Zenon DEF CountInv
  <2>4. \A u \in Threads \ {done[1]} : LocalDepth(u) = 0
    BY <2>1, LocalDepthCounts, Zenon
  <2> QED
    BY <2>1, <2>3, <2>4, Zenon
<1> QED
  BY <1>1, GateInvariant, PTL

\* The Session's memory is freed when, and not before, the handle is consumed, no
\* task waits and no thread is inside a call.
THEOREM FreedLastHolds == Spec => []FreedExactlyLast
<1>1. GateInv => FreedExactlyLast
  <2> SUFFICES ASSUME GateInv PROVE FreedExactlyLast
    OBVIOUS
  <2> USE DEF GateInv
  <2>1. /\ raw \in {0, 1} /\ queued \in Nat
        /\ strong = raw + queued + Cardinality(Calls) + Cardinality(FreshPosts)
    BY Zenon DEF CountInv
  <2>2. strong = 0 <=> /\ raw = 0 /\ queued = 0
                       /\ Cardinality(Calls) = 0 /\ Cardinality(FreshPosts) = 0
    BY <2>1, Countable
  <2>3. Cardinality(Calls) = 0 <=> Calls = {}
    BY Countable, FS_EmptySet, Zenon
  <2>4. Cardinality(FreshPosts) = 0 <=> FreshPosts = {}
    BY Countable, FS_EmptySet, Zenon
  <2>5. \A t \in Threads : stack[t] # <<>> => <<t, Len(stack[t])>> \in Calls
    <3> TAKE t \in Threads
    <3> HAVE stack[t] # <<>>
    <3>1. stack[t] \in Seq(Labels) /\ Len(stack[t]) \in 1..MaxDepth
      BY GateAssumption DEF StackInv
    <3> QED
      BY <3>1 DEF Calls, Places
  <2>6. (\A t \in Threads : stack[t] = <<>>) => Calls = {} /\ FreshPosts = {}
    BY DEF Calls, Places, FreshPosts, Top
  <2>7. Calls = {} => \A t \in Threads : stack[t] = <<>>
    BY <2>5, Zenon
  <2> QED
    BY <2>2, <2>3, <2>4, <2>6, <2>7, Zenon DEF FreedExactlyLast
<1> QED
  BY <1>1, GateInvariant, PTL

=============================================================================
