------------------------- MODULE HostChannelProofs -------------------------
(***************************************************************************)
(* Proofs about the host-command queue, for every number of threads,       *)
(* streams and commands and every capacity.                                *)
(***************************************************************************)
EXTENDS HostChannel, FiniteSetTheorems, TLAPS

\* What the lanes and the two identities of an entry say about the command it
\* carries.
EntriesWellFormed ==
  \A e \in entries :
    /\ e.pos \in 1..Len(accepted) /\ e.cmd \in 1..Len(accepted)
    /\ e.pos <= e.cmd
    /\ accepted[e.cmd].stream = e.stream
    /\ e.coalescible <=> accepted[e.cmd].kind = "sample"
    /\ e.lane = "Critical" <=> accepted[e.cmd].kind = "critical"
    /\ e.coalescible => e.lane = "Normal"

\* The queue is sorted: entries differ in position and in command, and their
\* positions agree with the order the channel promises to keep.
QueueSorted ==
  \A e, f \in entries :
    /\ e.pos = f.pos => e = f
    /\ e.cmd = f.cmd => e = f
    /\ e.pos < f.pos /\ KeepsOrder(e.cmd, f.cmd) => e.cmd < f.cmd

\* What has been received was accepted, is no longer queued, and precedes what
\* is queued.
DeliveredBefore ==
  \A i \in DOMAIN delivered :
    /\ delivered[i] \in 1..Len(accepted)
    /\ \A e \in entries :
         /\ delivered[i] # e.cmd
         /\ KeepsOrder(delivered[i], e.cmd) => delivered[i] < e.cmd

\* The inductive invariant behind the order and the no-loss theorem.
QueueInv ==
  /\ EntriesWellFormed /\ QueueSorted /\ DeliveredBefore
  /\ OrderPreserved /\ NothingVanishes

-----------------------------------------------------------------------------
(* Typing *)

\* push adds one well-typed entry to what it keeps of the queue.
LEMMA PushTyped ==
  ASSUME TypeOK, NEW kept \in SUBSET entries, NEW n \in Int, NEW lane \in Lanes,
         NEW s \in Streams \cup {NoStream}, NEW c \in BOOLEAN,
         Push(kept, n, lane, s, c)
  PROVE  /\ entries' \in SUBSET Entry /\ IsFiniteSet(entries')
         /\ normalLen' \in Int /\ reservedLen' \in Int
<1>1. NewEntry(lane, s, c) \in Entry
  BY DEF NewEntry, Ticket, Entry, TypeOK
<1>2. IsFiniteSet(kept)
  BY FS_Subset, Zenon DEF TypeOK
<1>3. IsFiniteSet(kept \cup {NewEntry(lane, s, c)})
  BY <1>2, FS_AddElement, Zenon
<1>4. normalLen' \in Int /\ reservedLen' \in Int
  BY DEF Push, TypeOK
<1> QED
  BY <1>1, <1>3, <1>4, Zenon DEF Push, TypeOK

\* Every sending operation records a well-typed command.
LEMMA AcceptTyped ==
  ASSUME TypeOK, NEW kind \in Kinds, NEW s \in Streams \cup {NoStream},
         Accept(kind, s)
  PROVE  accepted' \in Seq(Command)
<1>1. [kind |-> kind, stream |-> s] \in Command
  BY Zenon DEF Command
<1> QED
  BY <1>1 DEF Accept, TypeOK

\* Type correctness of the queue model: every operation of host_channel.rs
\* leaves the queue, the handles and the receiver in a well-typed state.
THEOREM Typing == Spec => []TypeOK
<1>1. Init => TypeOK
  <2>1. IsFiniteSet({})
    BY FS_EmptySet, Zenon
  <2> QED
    BY <2>1 DEF Init, TypeOK
<1>2. TypeOK /\ [Next]_vars => TypeOK'
  <2> SUFFICES ASSUME TypeOK, [Next]_vars
               PROVE  TypeOK'
    OBVIOUS
  <2> USE CapacityAssumption, StreamAssumption
  <2>1. ASSUME NEW t \in Threads, TrySend(t)
        PROVE  TypeOK'
    <3>1. /\ entries' \in SUBSET Entry /\ IsFiniteSet(entries')
          /\ normalLen' \in Int /\ reservedLen' \in Int
      BY <2>1, PushTyped, Zenon DEF TrySend, Lanes, TypeOK
    <3>2. accepted' \in Seq(Command)
      BY <2>1, AcceptTyped, Zenon DEF TrySend, Kinds
    <3> QED
      BY <2>1, <3>1, <3>2, Zenon
      DEF TrySend, MaySend, OwesNotifyOne, TypeOK, handles, waiting
  <2>2. ASSUME NEW t \in Threads, SendCritical(t)
        PROVE  TypeOK'
    <3>1. /\ entries' \in SUBSET Entry /\ IsFiniteSet(entries')
          /\ normalLen' \in Int /\ reservedLen' \in Int
      BY <2>2, PushTyped, Zenon DEF SendCritical, Lanes, TypeOK
    <3>2. accepted' \in Seq(Command)
      BY <2>2, AcceptTyped, Zenon DEF SendCritical, Kinds
    <3> QED
      BY <2>2, <3>1, <3>2, Zenon
      DEF SendCritical, MaySend, OwesNotifyOne, TypeOK, handles, waiting
  <2>3. ASSUME NEW t \in Threads, NEW s \in Streams, Coalesce(t, s)
        PROVE  TypeOK'
    <3>1. PICK e \in Newest(s) :
            entries' = (entries \ {e}) \cup {[e EXCEPT !.cmd = Ticket]}
      BY <2>3, Zenon DEF Coalesce
    <3>2. e \in entries
      BY Zenon DEF Newest, InputEpoch
    <3>3. entries' \in SUBSET Entry
      <4>1. Ticket \in Nat
        BY DEF Ticket, TypeOK
      <4>2. [e EXCEPT !.cmd = Ticket] \in Entry
        BY <3>2, <4>1, SMTT(30) DEF TypeOK, Entry
      <4> QED
        BY <3>1, <4>2, Zenon DEF TypeOK
    <3>4. IsFiniteSet(entries')
      <4>1. IsFiniteSet(entries \ {e})
        BY FS_RemoveElement, Zenon DEF TypeOK
      <4> QED
        BY <3>1, <4>1, FS_AddElement, Zenon
    <3>5. accepted' \in Seq(Command)
      BY <2>3, AcceptTyped, Zenon DEF Coalesce, Kinds
    <3> QED
      BY <2>3, <3>3, <3>4, <3>5, Zenon
      DEF Coalesce, TypeOK, handles, waiting
  <2>4. ASSUME NEW t \in Threads, NEW s \in Streams, EnqueueSample(t, s)
        PROVE  TypeOK'
    <3>1. /\ entries' \in SUBSET Entry /\ IsFiniteSet(entries')
          /\ normalLen' \in Int /\ reservedLen' \in Int
      BY <2>4, PushTyped, Zenon DEF EnqueueSample, Lanes, TypeOK
    <3>2. accepted' \in Seq(Command)
      BY <2>4, AcceptTyped, Zenon DEF EnqueueSample, Kinds
    <3> QED
      BY <2>4, <3>1, <3>2, Zenon
      DEF EnqueueSample, MaySend, OwesNotifyOne, TypeOK, handles, waiting
  <2>5. ASSUME NEW t \in Threads, NEW s \in Streams \cup {NoStream},
               NEW b \in BOOLEAN, TrySendTransition(t, s, b)
        PROVE  TypeOK'
    <3> DEFINE doomed == IF b /\ s # NoStream THEN Superseded(s) ELSE {}
               after == normalLen - Cardinality(OfLane(doomed, "Normal"))
               lane == TransitionLane(after)
    <3>1. /\ lane # "Full"
          /\ Push(entries \ doomed, after, lane, s, FALSE)
          /\ Accept(IF b THEN "terminal" ELSE "reliable", s)
          /\ OwesNotifyOne(t)
          /\ UNCHANGED <<receiver, handles, waiting, delivered>>
      BY <2>5, Zenon DEF TrySendTransition
    <3>2. doomed \in SUBSET entries
      BY Zenon DEF Superseded, InputEpoch
    <3>3. lane \in {"Normal", "Reserved"}
      BY <3>1, Zenon DEF TransitionLane
    <3>4. IsFiniteSet(OfLane(doomed, "Normal")) /\ IsFiniteSet(entries \ doomed)
      <4>1. /\ OfLane(doomed, "Normal") \in SUBSET entries
            /\ entries \ doomed \in SUBSET entries
        BY <3>2, Zenon DEF OfLane
      <4>2. IsFiniteSet(entries)
        BY Zenon DEF TypeOK
      <4> HIDE DEF doomed
      <4> QED
        BY <4>1, <4>2, FS_Subset, Zenon
    <3>5. after \in Int
      BY <3>4, FS_CardinalityType DEF TypeOK
    <3> HIDE DEF doomed, lane, after
    <3>6. /\ entries' \in SUBSET Entry /\ IsFiniteSet(entries')
          /\ normalLen' \in Int /\ reservedLen' \in Int
      BY <3>1, <3>2, <3>3, <3>5, PushTyped, ZenonT(60) DEF Lanes
    <3>7. accepted' \in Seq(Command)
      BY <3>1, AcceptTyped, Zenon DEF Kinds
    <3> QED
      BY <3>1, <3>6, <3>7, Zenon DEF OwesNotifyOne, TypeOK, handles, waiting
  <2>6. ASSUME NEW t \in Threads, Handle(t)
        PROVE  TypeOK'
    BY <2>6
    DEF Handle, DropNormal, DropCritical, CloneNormal, CloneCritical, AfterDrop,
        TypeOK, queue, waiting
  <2>7. ASSUME NEW t \in Threads, Notify(t)
        PROVE  TypeOK'
    BY <2>7, Zenon
    DEF Notify, NotifyOne, NotifyWaiters, TypeOK, queue, handles
  <2>8. CASE RecvPop \/ TryRecv
    <3>1. PICK e \in entries : Pop(e)
      BY <2>8, Zenon DEF RecvPop, TryRecv
    <3>2. IsFiniteSet(entries') /\ entries' \in SUBSET Entry
      BY <3>1, FS_RemoveElement, Zenon DEF Pop, TypeOK
    <3>3. normalLen' \in Int /\ reservedLen' \in Int /\ delivered' \in Seq(Nat)
      BY <3>1 DEF Pop, TypeOK, Entry
    <3> QED
      BY <2>8, <3>2, <3>3, Zenon
      DEF RecvPop, TryRecv, DropNotified, TypeOK, handles, waiting
  <2>9. CASE RecvEnable \/ RecvEmpty \/ RecvWake \/ RecvCancel
    BY <2>9, Zenon
    DEF RecvEnable, RecvEmpty, RecvWake, RecvCancel, DropNotified, TypeOK,
        queue, handles
  <2>10. CASE DropReceiver
    <3>1. IsFiniteSet({})
      BY FS_EmptySet, Zenon
    <3> QED
      BY <2>10, <3>1 DEF DropReceiver, TypeOK, handles, waiting
  <2>11. CASE UNCHANGED vars
    BY <2>11, Zenon DEF vars, queue, handles, waiting, TypeOK
  <2> QED
    BY <2>1, <2>2, <2>3, <2>4, <2>5, <2>6, <2>7, <2>8, <2>9, <2>10, <2>11
    DEF Next, Send, Recv
<1> QED
  BY <1>1, <1>2, PTL DEF Spec

-----------------------------------------------------------------------------
(* Wakeups *)

\* recv never sleeps through a command or through the last handle's drop.
\* The invariant is inductive given the types: recv registers its future
\* before it looks at the queue, and every push and every last drop leaves a
\* thread that owes the notification.
THEOREM WakeupsKept == Spec => []NoLostWakeup
<1>1. Init => NoLostWakeup
  BY Zenon DEF Init, NoLostWakeup
<1>2. TypeOK /\ NoLostWakeup /\ [Next]_vars => NoLostWakeup'
  <2> SUFFICES ASSUME TypeOK, NoLostWakeup, [Next]_vars
               PROVE  NoLostWakeup'
    OBVIOUS
  <2>1. ASSUME NEW t \in Threads, Send(t)
        PROVE  NoLostWakeup'
    <3>1. ASSUME NEW s \in Streams, Coalesce(t, s)
          PROVE  NoLostWakeup'
      <4>1. entries # {}
        BY <3>1, Zenon DEF Coalesce, Newest, InputEpoch
      <4> QED
        BY <3>1, <4>1, Zenon DEF Coalesce, MaySend, SendersClosed, NoLostWakeup,
           handles, waiting
    <3>2. CASE t \in normal \cup critical /\ UNCHANGED handles /\ OwesNotifyOne(t)
      BY <3>2, Zenon
         DEF OwesNotifyOne, SendersClosed, NoLostWakeup, TypeOK, handles
    <3>3. CASE TrySend(t) \/ SendCritical(t)
      BY <3>2, <3>3, Zenon DEF TrySend, SendCritical, MaySend
    <3>4. ASSUME NEW s \in Streams, EnqueueSample(t, s)
          PROVE  NoLostWakeup'
      BY <3>2, <3>4, Zenon DEF EnqueueSample, MaySend
    <3>5. ASSUME NEW s, NEW b, TrySendTransition(t, s, b)
          PROVE  NoLostWakeup'
      BY <3>2, <3>5, Zenon DEF TrySendTransition, MaySend
    <3> QED
      BY <2>1, <3>1, <3>3, <3>4, <3>5, Zenon DEF Send
  <2>2. ASSUME NEW t \in Threads, Handle(t)
        PROVE  NoLostWakeup'
    <3>1. CASE DropNormal(t) \/ DropCritical(t)
      BY <3>1, Zenon DEF DropNormal, DropCritical, AfterDrop, SendersClosed,
         NoLostWakeup, TypeOK, queue, waiting
    <3>2. ASSUME NEW u \in Threads, CloneNormal(t, u) \/ CloneCritical(t, u)
          PROVE  NoLostWakeup'
      BY <3>2, Zenon DEF CloneNormal, CloneCritical, SendersClosed,
         NoLostWakeup, queue, waiting
    <3> QED
      BY <2>2, <3>1, <3>2, Zenon DEF Handle
  <2>3. ASSUME NEW t \in Threads, Notify(t)
        PROVE  NoLostWakeup'
    BY <2>3, Zenon
       DEF Notify, NotifyOne, NotifyWaiters, Registered, SendersClosed,
       NoLostWakeup, TypeOK, queue, handles
  <2>4. CASE Recv \/ RecvCancel
    BY <2>4, Zenon DEF Recv, RecvEnable, RecvPop, RecvEmpty, RecvWake, RecvCancel,
       SendersClosed, NoLostWakeup, queue, handles
  <2>5. CASE TryRecv \/ DropReceiver
    BY <2>5, Zenon DEF TryRecv, DropReceiver, NoLostWakeup, waiting
  <2>6. CASE UNCHANGED vars
    BY <2>6, Zenon DEF vars, queue, handles, waiting, SendersClosed, NoLostWakeup
  <2> QED
    BY <2>1, <2>2, <2>3, <2>4, <2>5, <2>6, Zenon DEF Next
<1> QED
  BY <1>1, <1>2, Typing, PTL DEF Spec

-----------------------------------------------------------------------------
(* Order and no loss *)

\* Accepting a command leaves the earlier ones, and what is said about their
\* order and their replacement, as they are.
LEMMA Appended ==
  ASSUME TypeOK, NEW kind \in Kinds, NEW s \in Streams \cup {NoStream},
         Accept(kind, s)
  PROVE  /\ Len(accepted) \in Nat /\ Ticket = Len(accepted) + 1
         /\ Len(accepted') = Ticket
         /\ accepted'[Ticket].kind = kind /\ accepted'[Ticket].stream = s
         /\ DOMAIN accepted = 1..Len(accepted) /\ DOMAIN accepted' = 1..Ticket
         /\ \A k \in 1..Len(accepted) : accepted'[k] = accepted[k]
         /\ \A a, b \in 1..Len(accepted) :
              /\ KeepsOrder(a, b)' <=> KeepsOrder(a, b)
              /\ Replaces(a, b)' <=> Replaces(a, b)
<1>1. [kind |-> kind, stream |-> s] \in Command
  BY Zenon DEF Command
<1>2. /\ Len(accepted) \in Nat /\ Ticket = Len(accepted) + 1
      /\ Len(accepted') = Ticket
      /\ accepted'[Ticket] = [kind |-> kind, stream |-> s]
      /\ DOMAIN accepted = 1..Len(accepted) /\ DOMAIN accepted' = 1..Ticket
      /\ \A k \in 1..Len(accepted) : accepted'[k] = accepted[k]
  BY <1>1 DEF Accept, Ticket, TypeOK
<1>3. ASSUME NEW a \in 1..Len(accepted), NEW b \in 1..Len(accepted)
      PROVE  /\ KeepsOrder(a, b)' <=> KeepsOrder(a, b)
             /\ Replaces(a, b)' <=> Replaces(a, b)
  <2>1. /\ accepted'[a] = accepted[a] /\ accepted'[b] = accepted[b]
        /\ \A k \in (b + 1)..(a - 1) : accepted'[k] = accepted[k]
    BY <1>2
  <2>2. Between(b, a)' = Between(b, a)
    BY <2>1, Zenon DEF Between
  <2> QED
    BY <2>1, <2>2, Zenon DEF KeepsOrder, Replaces
<1> QED
  BY <1>2, <1>3

\* A command that must follow e's and cannot be replaced is queued behind e.
LEMMA FollowersQueued ==
  ASSUME TypeOK, QueueInv, ReceiverOpen, NEW e \in entries,
         NEW m \in 1..Len(accepted), e.cmd < m,
         accepted[m].kind # "sample", KeepsOrder(m, e.cmd)
  PROVE  \E f \in entries : f.cmd = m /\ e.pos < f.pos
<1>1. DOMAIN accepted = 1..Len(accepted) /\ Len(accepted) \in Nat
  BY DEF TypeOK
<1>2. ~ \E n \in (m + 1)..Len(accepted) : Replaces(n, m)
  BY Zenon DEF Replaces
<1>3. e.cmd \in Nat /\ e.pos \in Nat
  BY Zenon DEF TypeOK, Entry
<1>4. ~ \E i \in DOMAIN delivered : delivered[i] = m
  BY <1>1, <1>3 DEF QueueInv, DeliveredBefore
<1>5. PICK f \in entries : f.cmd = m
  BY <1>1, <1>2, <1>4, Zenon DEF QueueInv, NothingVanishes
<1>6. f.pos \in Nat /\ f.cmd \in Nat
  BY Zenon DEF TypeOK, Entry
<1>7. e.pos # f.pos
  BY <1>3, <1>5 DEF QueueInv, QueueSorted
<1>8. ~(f.pos < e.pos)
  BY <1>3, <1>5, <1>6 DEF QueueInv, QueueSorted
<1> QED
  BY <1>3, <1>5, <1>6, <1>7, <1>8

\* The samples that try_send_transition erases, and the one that
\* try_send_coalescible overwrites, are replaced by the command being
\* accepted: no lifecycle command, and for a sample no transition of the
\* stream, was accepted since.
LEMMA ErasedReplaced ==
  ASSUME TypeOK, QueueInv, ReceiverOpen, NEW s \in Streams, NEW kind,
         NEW e \in entries,
         \/ kind = "terminal" /\ e \in Superseded(s)
         \/ kind = "sample" /\ e \in Newest(s) /\ e.coalescible,
         Accept(kind, s), NEW n, n = Ticket
  PROVE  Replaces(n, e.cmd)'
<1>0. kind \in Kinds /\ s \in Streams \cup {NoStream}
  BY Zenon DEF Kinds
<1>1. /\ Len(accepted) \in Nat /\ Len(accepted') = n /\ n = Len(accepted) + 1
      /\ accepted'[n].kind = kind /\ accepted'[n].stream = s
      /\ \A k \in 1..Len(accepted) : accepted'[k] = accepted[k]
  BY <1>0, Appended, Zenon
<1>2. e \in InputEpoch /\ e.stream = s /\ e.coalescible
  BY Zenon DEF Superseded, Newest
<1>3. /\ e.cmd \in 1..Len(accepted)
      /\ accepted[e.cmd].kind = "sample" /\ accepted[e.cmd].stream = s
  BY <1>2, Zenon DEF QueueInv, EntriesWellFormed
<1>4. e.pos \in Nat /\ e.cmd \in Nat
  BY Zenon DEF TypeOK, Entry
<1>5. ASSUME NEW k \in (e.cmd + 1)..(n - 1)
      PROVE  /\ accepted[k].kind # "critical"
             /\ kind = "sample" =>
                  ~(accepted[k].kind \in {"reliable", "terminal"}
                    /\ accepted[k].stream = s)
  <2>1. k \in 1..Len(accepted) /\ e.cmd < k
    BY <1>1, <1>4
  <2>2. CASE accepted[k].kind = "critical"
    <3>1. KeepsOrder(k, e.cmd)
      BY <2>2, Zenon DEF KeepsOrder
    <3>2. PICK f \in entries : f.cmd = k /\ e.pos < f.pos
      BY <2>1, <2>2, <3>1, FollowersQueued, Zenon
    <3>3. f.lane = "Critical" /\ f.pos \in Nat
      BY <2>2, <3>2, Zenon DEF QueueInv, EntriesWellFormed, TypeOK, Entry
    <3> QED
      BY <1>2, <1>4, <3>2, <3>3 DEF InputEpoch
  <2>3. CASE /\ kind = "sample" /\ accepted[k].stream = s
             /\ accepted[k].kind \in {"reliable", "terminal"}
    <3>1. KeepsOrder(k, e.cmd)
      BY <1>3, <2>3, Zenon DEF KeepsOrder
    <3>2. PICK f \in entries : f.cmd = k /\ e.pos < f.pos
      BY <2>1, <2>3, <3>1, FollowersQueued, Zenon
    <3>3. f.stream = s /\ f.pos \in Nat
      BY <2>3, <3>2, Zenon DEF QueueInv, EntriesWellFormed, TypeOK, Entry
    <3>4. f \in InputEpoch
      <4>1. \A c \in entries : c.lane = "Critical" => c.pos < e.pos
        BY <1>2, Zenon DEF InputEpoch
      <4>2. \A c \in entries : c.pos \in Nat
        BY Zenon DEF TypeOK, Entry
      <4> QED
        BY <1>4, <3>2, <3>3, <4>1, <4>2 DEF InputEpoch
    <3>5. e \in Newest(s)
      BY <2>3, Zenon
    <3> QED
      BY <1>4, <3>2, <3>3, <3>4, <3>5 DEF Newest
  <2> QED
    BY <2>2, <2>3, Zenon
<1>6. \A k \in (e.cmd + 1)..(n - 1) : accepted'[k] = accepted[k]
  BY <1>1, <1>4
<1>7. accepted'[e.cmd] = accepted[e.cmd]
  BY <1>1, <1>3, Zenon
<1>8. kind \in {"sample", "terminal"}
  OBVIOUS
<1> QED
  BY <1>1, <1>3, <1>5, <1>6, <1>7, <1>8 DEF Replaces, Between

\* Pushing a command behind what is kept of the queue preserves QueueInv, when
\* the command replaces everything that is not kept.
LEMMA PushKeepsInv ==
  ASSUME TypeOK, QueueInv, ReceiverOpen,
         NEW doomed \in SUBSET entries, NEW m,
         NEW lane \in Lanes, NEW kind \in Kinds,
         NEW s \in Streams \cup {NoStream}, NEW c \in BOOLEAN,
         Push(entries \ doomed, m, lane, s, c), Accept(kind, s),
         c <=> kind = "sample", lane = "Critical" <=> kind = "critical",
         c => lane = "Normal",
         UNCHANGED <<receiver, delivered>>,
         NEW n, n = Ticket, \A e \in doomed : Replaces(n, e.cmd)'
  PROVE  QueueInv'
<1>1. /\ Len(accepted) \in Nat /\ n = Len(accepted) + 1 /\ Len(accepted') = n
      /\ accepted'[n].kind = kind /\ accepted'[n].stream = s
      /\ DOMAIN accepted = 1..Len(accepted) /\ DOMAIN accepted' = 1..n
      /\ \A k \in 1..Len(accepted) : accepted'[k] = accepted[k]
      /\ \A a, b \in 1..Len(accepted) :
           /\ KeepsOrder(a, b)' <=> KeepsOrder(a, b)
           /\ Replaces(a, b)' <=> Replaces(a, b)
  BY Appended, Zenon
<1>2. PICK x : /\ x.pos = n /\ x.cmd = n /\ x.lane = lane /\ x.stream = s
               /\ x.coalescible = c
               /\ entries' = (entries \ doomed) \cup {x}
  BY Zenon DEF Push, NewEntry
<1>3. \A e \in entries : /\ e.pos \in 1..Len(accepted) /\ e.cmd \in 1..Len(accepted)
                         /\ e.pos < n /\ e.cmd < n
  BY <1>1 DEF QueueInv, EntriesWellFormed
<1>4. EntriesWellFormed'
  <2> SUFFICES ASSUME NEW e \in entries'
      PROVE /\ e.pos \in 1..n /\ e.cmd \in 1..n
            /\ e.pos <= e.cmd
            /\ accepted'[e.cmd].stream = e.stream
            /\ e.coalescible <=> accepted'[e.cmd].kind = "sample"
            /\ e.lane = "Critical" <=> accepted'[e.cmd].kind = "critical"
            /\ e.coalescible => e.lane = "Normal"
    BY <1>1, Zenon DEF EntriesWellFormed
  <2>1. CASE e = x
    BY <1>1, <1>2, <2>1
  <2>2. CASE e \in entries
    <3>1. accepted'[e.cmd] = accepted[e.cmd]
      BY <1>1, <1>3, <2>2, Zenon
    <3> QED
      BY <1>1, <1>3, <2>2, <3>1 DEF QueueInv, EntriesWellFormed
  <2> QED
    BY <1>2, <2>1, <2>2, Zenon
<1>5. QueueSorted'
  <2> SUFFICES ASSUME NEW e \in entries', NEW f \in entries'
      PROVE /\ e.pos = f.pos => e = f
            /\ e.cmd = f.cmd => e = f
            /\ e.pos < f.pos /\ KeepsOrder(e.cmd, f.cmd)' => e.cmd < f.cmd
    BY Zenon DEF QueueSorted
  <2>1. CASE e \in entries /\ f \in entries
    BY <1>1, <1>3, <2>1, Zenon DEF QueueInv, QueueSorted
  <2>2. CASE e = x \/ f = x
    BY <1>1, <1>2, <1>3, <2>2
  <2> QED
    BY <1>2, <2>1, <2>2, Zenon
<1>6. DeliveredBefore'
  <2> SUFFICES ASSUME NEW i \in DOMAIN delivered
      PROVE /\ delivered[i] \in 1..n
            /\ \A e \in entries' :
                 /\ delivered[i] # e.cmd
                 /\ KeepsOrder(delivered[i], e.cmd)' => delivered[i] < e.cmd
    BY <1>1, Zenon DEF DeliveredBefore
  <2>1. delivered[i] \in 1..Len(accepted)
    BY Zenon DEF QueueInv, DeliveredBefore
  <2>2. ASSUME NEW e \in entries
        PROVE /\ delivered[i] # e.cmd
              /\ KeepsOrder(delivered[i], e.cmd)' => delivered[i] < e.cmd
    BY <1>1, <1>3, <2>1, Zenon DEF QueueInv, DeliveredBefore
  <2> QED
    BY <1>1, <1>2, <2>1, <2>2
<1>7. OrderPreserved'
  <2>1. \A i \in DOMAIN delivered : delivered[i] \in 1..Len(accepted)
    BY Zenon DEF QueueInv, DeliveredBefore
  <2>2. delivered' = delivered
    OBVIOUS
  <2> QED
    BY <1>1, <2>1, <2>2 DEF QueueInv, OrderPreserved
<1>8. NothingVanishes'
  <2> SUFFICES ASSUME NEW k \in 1..n
      PROVE \/ \E i \in DOMAIN delivered : delivered[i] = k
            \/ \E e \in entries' : e.cmd = k
            \/ \E j \in (k + 1)..n : Replaces(j, k)'
    BY <1>1, Zenon DEF NothingVanishes
  <2>1. CASE k = n
    BY <1>2, <2>1, Zenon
  <2>2. CASE k \in 1..Len(accepted)
    <3>1. \/ \E i \in DOMAIN delivered : delivered[i] = k
          \/ \E e \in entries : e.cmd = k
          \/ \E j \in (k + 1)..Len(accepted) : Replaces(j, k)
      BY <1>1, <2>2, Zenon DEF QueueInv, NothingVanishes
    <3>2. ASSUME NEW e \in entries, e.cmd = k
          PROVE (\E f \in entries' : f.cmd = k)
                  \/ \E j \in (k + 1)..n : Replaces(j, k)'
      <4>1. CASE e \in doomed
        <5>1. n \in (k + 1)..n
          BY <1>1, <2>2
        <5> QED
          BY <3>2, <4>1, <5>1, Zenon
      <4>2. CASE e \notin doomed
        BY <1>2, <3>2, <4>2, Zenon
      <4> QED
        BY <4>1, <4>2, Zenon
    <3>3. ASSUME NEW j \in (k + 1)..Len(accepted), Replaces(j, k)
          PROVE \E l \in (k + 1)..n : Replaces(l, k)'
      <4>1. j \in 1..Len(accepted) /\ j \in (k + 1)..n
        BY <1>1, <2>2
      <4> QED
        BY <1>1, <2>2, <3>3, <4>1, Zenon
    <3> QED
      BY <3>1, <3>2, <3>3, Zenon
  <2> QED
    BY <1>1, <2>1, <2>2
<1> QED
  BY <1>4, <1>5, <1>6, <1>7, <1>8, Zenon DEF QueueInv

\* Overwriting the newest sample of a stream in place preserves QueueInv:
\* everything queued behind it is input of other streams, which a sample may
\* overtake.
LEMMA CoalesceKeepsInv ==
  ASSUME TypeOK, QueueInv, NEW t, NEW s \in Streams, Coalesce(t, s)
  PROVE  QueueInv'
<1>0. /\ "sample" \in Kinds /\ s \in Streams \cup {NoStream}
      /\ ReceiverOpen /\ Accept("sample", s)
      /\ UNCHANGED <<receiver, delivered>>
  BY Zenon DEF Coalesce, MaySend, Kinds
<1>1. PICK n : n = Ticket
  OBVIOUS
<1>2. /\ Len(accepted) \in Nat /\ n = Len(accepted) + 1 /\ Len(accepted') = n
      /\ accepted'[n].kind = "sample" /\ accepted'[n].stream = s
      /\ DOMAIN accepted = 1..Len(accepted) /\ DOMAIN accepted' = 1..n
      /\ \A k \in 1..Len(accepted) : accepted'[k] = accepted[k]
      /\ \A a, b \in 1..Len(accepted) :
           /\ KeepsOrder(a, b)' <=> KeepsOrder(a, b)
           /\ Replaces(a, b)' <=> Replaces(a, b)
  BY <1>0, <1>1, Appended, Zenon
<1>3. PICK o \in Newest(s) :
        o.coalescible /\ entries' = (entries \ {o}) \cup {[o EXCEPT !.cmd = n]}
  BY <1>1, Zenon DEF Coalesce
<1>4. o \in entries /\ o \in Entry /\ o.stream = s /\ o \in InputEpoch
  BY Zenon DEF Newest, InputEpoch, TypeOK
<1>5. PICK x : /\ x.pos = o.pos /\ x.cmd = n /\ x.lane = o.lane /\ x.stream = s
               /\ x.coalescible
               /\ entries' = (entries \ {o}) \cup {x}
  BY <1>3, <1>4, Zenon DEF Entry
<1>6. \A e \in entries : /\ e.pos \in 1..Len(accepted) /\ e.cmd \in 1..Len(accepted)
                         /\ e.pos < n /\ e.cmd < n
  BY <1>2 DEF QueueInv, EntriesWellFormed
<1>7. \A f \in entries : o.pos < f.pos => ~KeepsOrder(n, f.cmd)'
  <2> SUFFICES ASSUME NEW f \in entries, o.pos < f.pos
               PROVE  ~KeepsOrder(n, f.cmd)'
    OBVIOUS
  <2>1. f \in InputEpoch
    BY <1>4, <1>6 DEF InputEpoch
  <2>2. f.stream # s /\ f.lane # "Critical"
    BY <1>6, <2>1, <1>4 DEF Newest, InputEpoch
  <2>3. accepted'[f.cmd].stream # s /\ accepted'[f.cmd].kind # "critical"
    BY <1>2, <1>6, <2>2 DEF QueueInv, EntriesWellFormed
  <2> QED
    BY <1>2, <2>3, Zenon DEF KeepsOrder
<1>8. EntriesWellFormed'
  <2> SUFFICES ASSUME NEW e \in entries'
      PROVE /\ e.pos \in 1..n /\ e.cmd \in 1..n
            /\ e.pos <= e.cmd
            /\ accepted'[e.cmd].stream = e.stream
            /\ e.coalescible <=> accepted'[e.cmd].kind = "sample"
            /\ e.lane = "Critical" <=> accepted'[e.cmd].kind = "critical"
            /\ e.coalescible => e.lane = "Normal"
    BY <1>2, Zenon DEF EntriesWellFormed
  <2>1. CASE e = x
    <3>1. o.lane = "Normal"
      BY <1>3, <1>4, Zenon DEF QueueInv, EntriesWellFormed
    <3> QED
      BY <1>2, <1>3, <1>4, <1>5, <1>6, <2>1, <3>1
  <2>2. CASE e \in entries
    <3>1. accepted'[e.cmd] = accepted[e.cmd]
      BY <1>2, <1>6, <2>2, Zenon
    <3> QED
      BY <1>2, <1>6, <2>2, <3>1 DEF QueueInv, EntriesWellFormed
  <2> QED
    BY <1>5, <2>1, <2>2, Zenon
<1>9. QueueSorted'
  <2> SUFFICES ASSUME NEW e \in entries', NEW f \in entries'
      PROVE /\ e.pos = f.pos => e = f
            /\ e.cmd = f.cmd => e = f
            /\ e.pos < f.pos /\ KeepsOrder(e.cmd, f.cmd)' => e.cmd < f.cmd
    BY Zenon DEF QueueSorted
  <2>1. CASE e \in entries /\ f \in entries
    BY <1>2, <1>6, <2>1, Zenon DEF QueueInv, QueueSorted
  <2>2. CASE e = x /\ f = x
    BY <1>4, <1>5, <1>6, <2>2
  <2>3. CASE e = x /\ f \in entries \ {o}
    <3>1. f.pos # o.pos
      BY <1>4, <2>3, Zenon DEF QueueInv, QueueSorted
    <3> QED
      BY <1>2, <1>5, <1>6, <1>7, <2>3, <3>1
  <2>4. CASE f = x /\ e \in entries \ {o}
    <3>1. e.pos # o.pos
      BY <1>4, <2>4, Zenon DEF QueueInv, QueueSorted
    <3> QED
      BY <1>2, <1>5, <1>6, <2>4, <3>1
  <2> QED
    BY <1>5, <2>1, <2>2, <2>3, <2>4, Zenon
<1>10. DeliveredBefore'
  <2> SUFFICES ASSUME NEW i \in DOMAIN delivered
      PROVE /\ delivered[i] \in 1..n
            /\ \A e \in entries' :
                 /\ delivered[i] # e.cmd
                 /\ KeepsOrder(delivered[i], e.cmd)' => delivered[i] < e.cmd
    BY <1>0, <1>2, Zenon DEF DeliveredBefore
  <2>1. delivered[i] \in 1..Len(accepted)
    BY Zenon DEF QueueInv, DeliveredBefore
  <2>2. ASSUME NEW e \in entries
        PROVE /\ delivered[i] # e.cmd
              /\ KeepsOrder(delivered[i], e.cmd)' => delivered[i] < e.cmd
    BY <1>0, <1>2, <1>6, <2>1, Zenon DEF QueueInv, DeliveredBefore
  <2> QED
    BY <1>0, <1>2, <1>5, <2>1, <2>2
<1>11. OrderPreserved'
  <2>1. \A i \in DOMAIN delivered : delivered[i] \in 1..Len(accepted)
    BY Zenon DEF QueueInv, DeliveredBefore
  <2>2. delivered' = delivered
    BY <1>0, Zenon
  <2> QED
    BY <1>2, <2>1, <2>2 DEF QueueInv, OrderPreserved
<1>12. NothingVanishes'
  <2> SUFFICES ASSUME NEW k \in 1..n
      PROVE \/ \E i \in DOMAIN delivered : delivered[i] = k
            \/ \E e \in entries' : e.cmd = k
            \/ \E j \in (k + 1)..n : Replaces(j, k)'
    BY <1>0, <1>2, Zenon DEF NothingVanishes
  <2>1. CASE k = n
    BY <1>5, <2>1, Zenon
  <2>2. CASE k \in 1..Len(accepted)
    <3>1. \/ \E i \in DOMAIN delivered : delivered[i] = k
          \/ \E e \in entries : e.cmd = k
          \/ \E j \in (k + 1)..Len(accepted) : Replaces(j, k)
      BY <1>0, <1>2, <2>2, Zenon DEF QueueInv, NothingVanishes
    <3>2. CASE k = o.cmd
      <4>1. Replaces(n, o.cmd)'
        BY <1>0, <1>1, <1>3, <1>4, ErasedReplaced, Zenon
      <4>2. n \in (k + 1)..n
        BY <1>2, <2>2
      <4> QED
        BY <3>2, <4>1, <4>2, Zenon
    <3>3. ASSUME NEW j \in (k + 1)..Len(accepted), Replaces(j, k)
          PROVE \E l \in (k + 1)..n : Replaces(l, k)'
      <4>1. j \in 1..Len(accepted) /\ j \in (k + 1)..n
        BY <1>2, <2>2
      <4> QED
        BY <1>2, <2>2, <3>3, <4>1, Zenon
    <3> QED
      BY <1>5, <3>1, <3>2, <3>3, Zenon
  <2> QED
    BY <1>2, <2>1, <2>2
<1> QED
  BY <1>8, <1>9, <1>10, <1>11, <1>12, Zenon DEF QueueInv

\* Receiving the front entry preserves QueueInv.
LEMMA PopKeepsInv ==
  ASSUME TypeOK, QueueInv, NEW x \in entries, Pop(x),
         UNCHANGED <<receiver, accepted>>
  PROVE  QueueInv'
<1> DEFINE n == Len(delivered)
<1>1. /\ x \in Entry /\ x.cmd \in 1..Len(accepted)
      /\ entries' = entries \ {x} /\ \A f \in entries : x.pos <= f.pos
      /\ delivered' = Append(delivered, x.cmd)
  BY Zenon DEF Pop, TypeOK, QueueInv, EntriesWellFormed
<1>2. /\ n \in Nat /\ DOMAIN delivered = 1..n /\ DOMAIN delivered' = 1..(n + 1)
      /\ \A i \in 1..n : delivered'[i] = delivered[i]
      /\ delivered'[n + 1] = x.cmd
  BY <1>1 DEF TypeOK, Entry
<1>3. \A e \in entries : e.pos \in Nat /\ e.cmd \in Nat
  BY Zenon DEF TypeOK, Entry
<1>4. /\ \A a, b : KeepsOrder(a, b)' <=> KeepsOrder(a, b)
      /\ \A a, b : Replaces(a, b)' <=> Replaces(a, b)
  BY DEF KeepsOrder, Replaces, Between
<1>5. \A e \in entries' :
        x.cmd # e.cmd /\ (KeepsOrder(x.cmd, e.cmd) => x.cmd < e.cmd)
  <2> SUFFICES ASSUME NEW e \in entries'
      PROVE x.cmd # e.cmd /\ (KeepsOrder(x.cmd, e.cmd) => x.cmd < e.cmd)
    OBVIOUS
  <2>1. e \in entries /\ e # x
    BY <1>1, Zenon
  <2>2. x.pos < e.pos
    BY <1>1, <1>3, <2>1 DEF QueueInv, QueueSorted
  <2> QED
    BY <2>1, <2>2, Zenon DEF QueueInv, QueueSorted
<1>6. EntriesWellFormed'
  BY <1>1, Zenon DEF QueueInv, EntriesWellFormed
<1>7. QueueSorted'
  BY <1>1, <1>4, Zenon DEF QueueInv, QueueSorted
<1>8. \A i \in 1..n :
        /\ delivered[i] \in 1..Len(accepted)
        /\ \A e \in entries :
             /\ delivered[i] # e.cmd
             /\ KeepsOrder(delivered[i], e.cmd) => delivered[i] < e.cmd
  BY <1>2, Zenon DEF QueueInv, DeliveredBefore
<1>9. DeliveredBefore'
  <2> SUFFICES ASSUME NEW i \in 1..(n + 1), NEW d, d = delivered'[i]
      PROVE /\ d \in 1..Len(accepted)
            /\ \A e \in entries' :
                 d # e.cmd /\ (KeepsOrder(d, e.cmd) => d < e.cmd)
    BY <1>2, <1>4, Zenon DEF DeliveredBefore, KeepsOrder
  <2>1. CASE i = n + 1
    BY <1>1, <1>2, <1>5, <2>1, Zenon
  <2>2. CASE i \in 1..n
    BY <1>1, <1>2, <1>8, <2>2, Zenon
  <2> QED
    BY <1>2, <2>1, <2>2
<1>10. OrderPreserved'
  <2> SUFFICES ASSUME NEW i \in 1..(n + 1), NEW j \in 1..(n + 1), i < j,
                      NEW c, NEW d, c = delivered'[i], d = delivered'[j]
      PROVE c # d /\ (KeepsOrder(c, d) => c < d)
    BY <1>2, <1>4, Zenon DEF OrderPreserved, KeepsOrder
  <2>1. i \in 1..n /\ c = delivered[i]
    BY <1>2
  <2>2. CASE j = n + 1
    BY <1>2, <1>8, <2>1, <2>2, Zenon
  <2>3. CASE j \in 1..n
    BY <1>2, <2>1, <2>3 DEF QueueInv, OrderPreserved
  <2> QED
    BY <1>2, <2>2, <2>3
<1>11. NothingVanishes'
  <2> SUFFICES ASSUME ReceiverOpen, NEW k \in DOMAIN accepted
      PROVE \/ \E i \in 1..(n + 1) : delivered'[i] = k
            \/ \E e \in entries' : e.cmd = k
            \/ \E j \in (k + 1)..Len(accepted) : Replaces(j, k)
    BY <1>2, <1>4, Zenon DEF NothingVanishes, ReceiverOpen
  <2>1. CASE \E i \in 1..n : delivered[i] = k
    BY <1>2, <2>1
  <2>2. CASE \E e \in entries : e.cmd = k
    BY <1>1, <1>2, <2>2
  <2> QED
    BY <1>2, <2>1, <2>2, Zenon DEF QueueInv, NothingVanishes
<1> QED
  BY <1>6, <1>7, <1>9, <1>10, <1>11, Zenon DEF QueueInv

\* QueueInv is inductive.
THEOREM QueueInvariant == Spec => []QueueInv
<1>1. Init => QueueInv
  BY DEF Init, QueueInv, EntriesWellFormed, QueueSorted, DeliveredBefore,
     OrderPreserved, NothingVanishes
<1>2. TypeOK /\ QueueInv /\ [Next]_vars => QueueInv'
  <2> SUFFICES ASSUME TypeOK, QueueInv, [Next]_vars
               PROVE  QueueInv'
    OBVIOUS
  <2>1. PICK n : n = Ticket
    OBVIOUS
  <2>2. ASSUME NEW t \in Threads, TrySend(t)
        PROVE  QueueInv'
    <3>1. Push(entries \ {}, normalLen, "Normal", NoStream, FALSE)
      BY <2>2, Zenon DEF TrySend
    <3>2. /\ ReceiverOpen /\ Accept("plain", NoStream)
          /\ UNCHANGED <<receiver, delivered>>
      BY <2>2, Zenon DEF TrySend, MaySend
    <3>3. "Normal" \in Lanes /\ "plain" \in Kinds /\ {} \in SUBSET entries
      BY Zenon DEF Lanes, Kinds
    <3> QED
      BY <2>1, <3>1, <3>2, <3>3, PushKeepsInv, Zenon
  <2>3. ASSUME NEW t \in Threads, SendCritical(t)
        PROVE  QueueInv'
    <3>1. Push(entries \ {}, normalLen, "Critical", NoStream, FALSE)
      BY <2>3, Zenon DEF SendCritical
    <3>2. /\ ReceiverOpen /\ Accept("critical", NoStream)
          /\ UNCHANGED <<receiver, delivered>>
      BY <2>3, Zenon DEF SendCritical, MaySend
    <3>3. "Critical" \in Lanes /\ "critical" \in Kinds /\ {} \in SUBSET entries
      BY Zenon DEF Lanes, Kinds
    <3> QED
      BY <2>1, <3>1, <3>2, <3>3, PushKeepsInv, Zenon
  <2>4. ASSUME NEW t \in Threads, NEW s \in Streams, EnqueueSample(t, s)
        PROVE  QueueInv'
    <3>1. Push(entries \ {}, normalLen, "Normal", s, TRUE)
      BY <2>4, Zenon DEF EnqueueSample
    <3>2. /\ ReceiverOpen /\ Accept("sample", s)
          /\ UNCHANGED <<receiver, delivered>>
      BY <2>4, Zenon DEF EnqueueSample, MaySend
    <3>3. "Normal" \in Lanes /\ "sample" \in Kinds /\ {} \in SUBSET entries
      BY Zenon DEF Lanes, Kinds
    <3> QED
      BY <2>1, <3>1, <3>2, <3>3, PushKeepsInv, Zenon
  <2>5. ASSUME NEW t \in Threads, NEW s \in Streams, Coalesce(t, s)
        PROVE  QueueInv'
    BY <2>5, CoalesceKeepsInv, Zenon
  <2>6. ASSUME NEW t \in Threads, NEW s \in Streams \cup {NoStream},
               NEW b \in BOOLEAN, TrySendTransition(t, s, b)
        PROVE  QueueInv'
    <3> DEFINE kind == IF b THEN "terminal" ELSE "reliable"
    <3>1. PICK doomed, m, lane :
            /\ doomed = IF b /\ s # NoStream THEN Superseded(s) ELSE {}
            /\ lane = TransitionLane(m) /\ lane # "Full"
            /\ Push(entries \ doomed, m, lane, s, FALSE)
      BY <2>6, Zenon DEF TrySendTransition
    <3>2. /\ ReceiverOpen /\ Accept(kind, s) /\ UNCHANGED <<receiver, delivered>>
      BY <2>6, Zenon DEF TrySendTransition, MaySend
    <3>3. doomed \in SUBSET entries
      BY <3>1, Zenon DEF Superseded, InputEpoch
    <3>4. lane \in Lanes /\ lane # "Critical"
      BY <3>1, Zenon DEF TransitionLane, Lanes
    <3>5. kind \in Kinds /\ kind \notin {"sample", "critical"}
      BY Zenon DEF Kinds
    <3>6. \A e \in doomed : Replaces(n, e.cmd)'
      BY <2>1, <3>1, <3>2, <3>3, ErasedReplaced, Zenon
    <3> HIDE DEF kind
    <3> QED
      BY <2>1, <3>1, <3>2, <3>3, <3>4, <3>5, <3>6, PushKeepsInv, Zenon
  <2>7. CASE RecvPop \/ TryRecv
    BY <2>7, PopKeepsInv, Zenon DEF RecvPop, TryRecv
  <2>8. CASE UNCHANGED <<queue, receiver, accepted, delivered>>
    BY <2>8 DEF queue, QueueInv, EntriesWellFormed, QueueSorted, DeliveredBefore,
       OrderPreserved, NothingVanishes, ReceiverOpen, KeepsOrder, Replaces, Between
  <2>9. CASE \E t \in Threads : Handle(t) \/ Notify(t)
    BY <2>8, <2>9, Zenon DEF Handle, DropNormal, DropCritical, CloneNormal,
       CloneCritical, Notify, NotifyOne, NotifyWaiters
  <2>10. CASE RecvEnable \/ RecvEmpty \/ RecvWake \/ RecvCancel
    BY <2>8, <2>10, Zenon DEF RecvEnable, RecvEmpty, RecvWake, RecvCancel
  <2>11. CASE DropReceiver
    BY <2>11 DEF DropReceiver, QueueInv, EntriesWellFormed, QueueSorted,
       DeliveredBefore, OrderPreserved, NothingVanishes, ReceiverOpen, KeepsOrder
  <2>12. CASE UNCHANGED vars
    BY <2>8, <2>12, Zenon DEF vars
  <2> QED
    BY <2>2, <2>3, <2>4, <2>5, <2>6, <2>7, <2>9, <2>10, <2>11, <2>12, Zenon
    DEF Next, Send, Recv
<1> QED
  BY <1>1, <1>2, Typing, PTL DEF Spec

\* Commands are received in the order they were accepted, samples overtaking
\* only input of other streams, and none is received twice.
THEOREM ReceivedInOrder == Spec => []OrderPreserved
BY QueueInvariant, PTL DEF QueueInv

\* No accepted command is lost while the receiver lives, except samples that
\* newer input of their stream replaced.
THEOREM NothingLost == Spec => []NothingVanishes
BY QueueInvariant, PTL DEF QueueInv

-----------------------------------------------------------------------------
(* The lane counters *)

InLane(x, lane) == IF x.lane = lane THEN 1 ELSE 0

\* Adding and removing one entry changes the count of its own lane by one.
LEMMA LaneAdd ==
  ASSUME NEW S, IsFiniteSet(S), NEW x, x \notin S, NEW lane
  PROVE  Cardinality(OfLane(S \cup {x}, lane))
           = Cardinality(OfLane(S, lane)) + InLane(x, lane)
<1>1. IsFiniteSet(OfLane(S, lane)) /\ x \notin OfLane(S, lane)
  BY FS_Subset, Zenon DEF OfLane
<1>2. Cardinality(OfLane(S, lane)) \in Nat
  BY <1>1, FS_CardinalityType, Zenon
<1>3. CASE x.lane = lane
  <2>1. OfLane(S \cup {x}, lane) = OfLane(S, lane) \cup {x}
    BY <1>3, Zenon DEF OfLane
  <2> QED
    BY <1>1, <1>3, <2>1, FS_AddElement, Zenon DEF InLane
<1>4. CASE x.lane # lane
  <2>1. OfLane(S \cup {x}, lane) = OfLane(S, lane)
    BY <1>4, Zenon DEF OfLane
  <2> QED
    BY <1>2, <1>4, <2>1 DEF InLane
<1> QED
  BY <1>3, <1>4, Zenon

LEMMA LaneRemove ==
  ASSUME NEW S, IsFiniteSet(S), NEW x \in S, NEW lane
  PROVE  Cardinality(OfLane(S \ {x}, lane))
           = Cardinality(OfLane(S, lane)) - InLane(x, lane)
<1>1. IsFiniteSet(S \ {x}) /\ x \notin S \ {x}
  BY FS_RemoveElement, Zenon
<1>2. Cardinality(OfLane((S \ {x}) \cup {x}, lane))
        = Cardinality(OfLane(S \ {x}, lane)) + InLane(x, lane)
  BY <1>1, LaneAdd, Zenon
<1>3. (S \ {x}) \cup {x} = S
  OBVIOUS
<1>4. IsFiniteSet(OfLane(S \ {x}, lane))
  BY <1>1, FS_Subset, Zenon DEF OfLane
<1>5. Cardinality(OfLane(S \ {x}, lane)) \in Nat
  BY <1>4, FS_CardinalityType, Zenon
<1>6. InLane(x, lane) \in Int
  BY DEF InLane
<1>7. Cardinality(OfLane(S, lane))
        = Cardinality(OfLane(S \ {x}, lane)) + InLane(x, lane)
  BY <1>2, <1>3, Zenon
<1> QED
  BY <1>5, <1>6, <1>7

\* Erasing a subset takes its share off the count of every lane.
LEMMA LaneErase ==
  ASSUME NEW S, IsFiniteSet(S), NEW D \in SUBSET S, NEW lane
  PROVE  Cardinality(OfLane(S \ D, lane))
           = Cardinality(OfLane(S, lane)) - Cardinality(OfLane(D, lane))
<1>1. /\ OfLane(S \ D, lane) = OfLane(S, lane) \ OfLane(D, lane)
      /\ OfLane(D, lane) = OfLane(S, lane) \cap OfLane(D, lane)
  BY Zenon DEF OfLane
<1>2. IsFiniteSet(OfLane(S, lane))
  BY FS_Subset, Zenon DEF OfLane
<1>3. Cardinality(OfLane(S, lane) \ OfLane(D, lane))
        = Cardinality(OfLane(S, lane))
            - Cardinality(OfLane(S, lane) \cap OfLane(D, lane))
  BY <1>2, FS_Difference, Zenon
<1> QED
  BY <1>1, <1>3, Zenon

\* push keeps the counters exact, when the caller has taken what it erased off
\* the normal count and the erased entries were all counted there.
LEMMA PushCounts ==
  ASSUME TypeOK, EntriesWellFormed, CountersExact,
         NEW doomed \in SUBSET entries,
         \A e \in doomed : e.lane = "Normal",
         NEW lane \in Lanes, NEW s, NEW c, NEW m,
         m = normalLen - Cardinality(OfLane(doomed, "Normal")),
         Push(entries \ doomed, m, lane, s, c)
  PROVE  /\ normalLen' = Cardinality(OfLane(entries', "Normal"))
         /\ reservedLen' = Cardinality(OfLane(entries', "Reserved"))
<1> DEFINE kept == entries \ doomed
           x == NewEntry(lane, s, c)
<1>1. x.pos = Len(accepted) + 1 /\ x.lane = lane
  BY Zenon DEF NewEntry, Ticket
<1>2. x \notin kept
  BY <1>1 DEF EntriesWellFormed, TypeOK
<1>3. IsFiniteSet(kept) /\ IsFiniteSet(entries)
  BY FS_Subset, Zenon DEF TypeOK
<1>4. entries' = kept \cup {x}
  BY Zenon DEF Push
<1>5. /\ normalLen' = m + InLane(x, "Normal")
      /\ reservedLen' = reservedLen + InLane(x, "Reserved")
  BY <1>1, Zenon DEF Push, InLane
<1>6. OfLane(doomed, "Reserved") = {}
  BY Zenon DEF OfLane
<1>7. \A l : Cardinality(OfLane(kept, l))
               = Cardinality(OfLane(entries, l)) - Cardinality(OfLane(doomed, l))
  BY <1>3, LaneErase, Zenon
<1>8. Cardinality(OfLane(doomed, "Reserved")) = 0
  BY <1>6, FS_EmptySet, Zenon
<1> HIDE DEF kept, x
<1>9. \A l : Cardinality(OfLane(kept \cup {x}, l))
               = Cardinality(OfLane(kept, l)) + InLane(x, l)
  BY <1>2, <1>3, LaneAdd, Zenon
<1>10. normalLen \in Int /\ reservedLen \in Int
  BY Zenon DEF TypeOK
<1>11. reservedLen' = Cardinality(OfLane(entries', "Reserved"))
  <2>1. Cardinality(OfLane(kept, "Reserved")) = reservedLen - 0
    BY <1>7, <1>8, Zenon DEF CountersExact
  <2> QED
    BY <1>4, <1>5, <1>9, <1>10, <2>1, SMTT(30)
<1>12. normalLen' = Cardinality(OfLane(entries', "Normal"))
  BY <1>4, <1>5, <1>7, <1>9, <1>10, Zenon DEF CountersExact
<1> QED
  BY <1>11, <1>12, Zenon

\* push onto the whole queue.
LEMMA PlainPushCounts ==
  ASSUME TypeOK, EntriesWellFormed, CountersExact,
         NEW lane \in Lanes, NEW s, NEW c,
         Push(entries, normalLen, lane, s, c)
  PROVE  /\ normalLen' = Cardinality(OfLane(entries', "Normal"))
         /\ reservedLen' = Cardinality(OfLane(entries', "Reserved"))
<1>1. Cardinality(OfLane({}, "Normal")) = 0
  <2>1. OfLane({}, "Normal") = {}
    BY Zenon DEF OfLane
  <2> QED
    BY <2>1, FS_EmptySet, Zenon
<1>2. normalLen = normalLen - Cardinality(OfLane({}, "Normal"))
  BY <1>1 DEF TypeOK
<1>3. Push(entries \ {}, normalLen, lane, s, c)
  BY Zenon DEF Push
<1> QED
  BY <1>2, <1>3, PushCounts, Zenon

\* The hand-maintained lane counters are always exact and within budget.
THEOREM CountersHold == Spec => []CountersExact
<1>1. Init => CountersExact
  <2>1. OfLane({}, "Normal") = {} /\ OfLane({}, "Reserved") = {}
    BY Zenon DEF OfLane
  <2>2. Cardinality({}) = 0
    BY FS_EmptySet, Zenon
  <2>3. Init => /\ Cardinality(OfLane(entries, "Normal")) = 0
                /\ Cardinality(OfLane(entries, "Reserved")) = 0
    BY <2>1, <2>2, Zenon DEF Init
  <2> QED
    BY <2>3, CapacityAssumption DEF Init, CountersExact
<1>2. TypeOK /\ EntriesWellFormed /\ CountersExact /\ [Next]_vars => CountersExact'
  <2> SUFFICES ASSUME TypeOK, EntriesWellFormed, CountersExact, [Next]_vars
               PROVE  CountersExact'
    OBVIOUS
  <2>1. NormalCapacity \in Nat /\ ReliableCapacity \in Nat
    BY CapacityAssumption, Zenon
  <2>2. ASSUME NEW t \in Threads, TrySend(t)
        PROVE  CountersExact'
    <3>1. Push(entries, normalLen, "Normal", NoStream, FALSE) /\ "Normal" \in Lanes
      BY <2>2, Zenon DEF TrySend, Lanes
    <3>2. normalLen # NormalCapacity
      BY <2>2, Zenon DEF TrySend
    <3>3. /\ normalLen' = Cardinality(OfLane(entries', "Normal"))
          /\ reservedLen' = Cardinality(OfLane(entries', "Reserved"))
      BY <3>1, PlainPushCounts, Zenon
    <3>4. normalLen' <= NormalCapacity /\ reservedLen' <= ReliableCapacity
      BY <2>1, <3>1, <3>2 DEF Push, CountersExact, TypeOK
    <3> QED
      BY <3>3, <3>4, Zenon DEF CountersExact
  <2>3. ASSUME NEW t \in Threads, SendCritical(t)
        PROVE  CountersExact'
    <3>1. Push(entries, normalLen, "Critical", NoStream, FALSE) /\ "Critical" \in Lanes
      BY <2>3, Zenon DEF SendCritical, Lanes
    <3>3. /\ normalLen' = Cardinality(OfLane(entries', "Normal"))
          /\ reservedLen' = Cardinality(OfLane(entries', "Reserved"))
      BY <3>1, PlainPushCounts, Zenon
    <3>4. normalLen' <= NormalCapacity /\ reservedLen' <= ReliableCapacity
      BY <2>1, <3>1 DEF Push, CountersExact, TypeOK
    <3> QED
      BY <3>3, <3>4, Zenon DEF CountersExact
  <2>4. ASSUME NEW t \in Threads, NEW s \in Streams, EnqueueSample(t, s)
        PROVE  CountersExact'
    <3>1. Push(entries, normalLen, "Normal", s, TRUE) /\ "Normal" \in Lanes
      BY <2>4, Zenon DEF EnqueueSample, Lanes
    <3>2. normalLen # NormalCapacity
      BY <2>4, Zenon DEF EnqueueSample
    <3>3. /\ normalLen' = Cardinality(OfLane(entries', "Normal"))
          /\ reservedLen' = Cardinality(OfLane(entries', "Reserved"))
      BY <3>1, PlainPushCounts, Zenon
    <3>4. normalLen' <= NormalCapacity /\ reservedLen' <= ReliableCapacity
      BY <2>1, <3>1, <3>2 DEF Push, CountersExact, TypeOK
    <3> QED
      BY <3>3, <3>4, Zenon DEF CountersExact
  <2>5. ASSUME NEW t \in Threads, NEW s \in Streams \cup {NoStream},
               NEW b \in BOOLEAN, TrySendTransition(t, s, b)
        PROVE  CountersExact'
    <3>1. PICK doomed, m, lane :
            /\ doomed = IF b /\ s # NoStream THEN Superseded(s) ELSE {}
            /\ m = normalLen - Cardinality(OfLane(doomed, "Normal"))
            /\ lane = TransitionLane(m) /\ lane # "Full"
            /\ Push(entries \ doomed, m, lane, s, FALSE)
      BY <2>5, Zenon DEF TrySendTransition
    <3>2. doomed \in SUBSET entries /\ \A e \in doomed : e.lane = "Normal"
      BY <3>1, Zenon DEF Superseded, InputEpoch, EntriesWellFormed
    <3>3. /\ lane \in Lanes
          /\ lane = "Normal" => m < NormalCapacity
          /\ lane # "Normal" => lane = "Reserved" /\ reservedLen < ReliableCapacity
      BY <3>1, Zenon DEF TransitionLane, Lanes
    <3>4. /\ normalLen' = Cardinality(OfLane(entries', "Normal"))
          /\ reservedLen' = Cardinality(OfLane(entries', "Reserved"))
      BY <3>1, <3>2, <3>3, PushCounts, Zenon
    <3>5. Cardinality(OfLane(doomed, "Normal")) \in Nat
      <4>1. OfLane(doomed, "Normal") \in SUBSET entries
        BY <3>2, Zenon DEF OfLane
      <4>2. IsFiniteSet(OfLane(doomed, "Normal"))
        BY <4>1, FS_Subset, Zenon DEF TypeOK
      <4> QED
        BY <4>2, FS_CardinalityType, Zenon
    <3>6. m \in Int /\ m <= NormalCapacity
      BY <2>1, <3>1, <3>5 DEF TypeOK, CountersExact
    <3>7. normalLen' <= NormalCapacity /\ reservedLen' <= ReliableCapacity
      BY <2>1, <3>1, <3>3, <3>6 DEF Push, CountersExact, TypeOK
    <3> QED
      BY <3>4, <3>7, Zenon DEF CountersExact
  <2>6. ASSUME NEW t \in Threads, NEW s \in Streams, Coalesce(t, s)
        PROVE  CountersExact'
    <3>1. PICK e \in Newest(s) :
            entries' = (entries \ {e}) \cup {[e EXCEPT !.cmd = Ticket]}
      BY <2>6, Zenon DEF Coalesce
    <3>2. e \in entries /\ e \in Entry
      BY Zenon DEF Newest, InputEpoch, TypeOK
    <3> DEFINE x == [e EXCEPT !.cmd = Ticket]
    <3>3. x.lane = e.lane /\ x.cmd = Len(accepted) + 1
      BY <3>2, Zenon DEF Entry, Ticket
    <3>4. entries' = (entries \ {e}) \cup {x}
      BY <3>1, Zenon
    <3> HIDE DEF x
    <3>5. x \notin entries \ {e}
      BY <3>3 DEF EntriesWellFormed, TypeOK
    <3>6. IsFiniteSet(entries) /\ IsFiniteSet(entries \ {e})
      BY FS_RemoveElement, Zenon DEF TypeOK
    <3>7. \A l : Cardinality(OfLane(entries \ {e}, l))
                   = Cardinality(OfLane(entries, l)) - InLane(e, l)
      BY <3>2, <3>6, LaneRemove, Zenon
    <3>8. \A l : Cardinality(OfLane((entries \ {e}) \cup {x}, l))
                   = Cardinality(OfLane(entries \ {e}, l)) + InLane(x, l)
      BY <3>5, <3>6, LaneAdd, Zenon
    <3>9. \A l : InLane(x, l) = InLane(e, l) /\ InLane(e, l) \in Int
      BY <3>3 DEF InLane
    <3>10. /\ normalLen' = normalLen /\ reservedLen' = reservedLen
           /\ normalLen \in Int /\ reservedLen \in Int
      BY <2>6, Zenon DEF Coalesce, TypeOK
    <3>11. /\ Cardinality(OfLane(entries \ {e}, "Normal"))
                = normalLen - InLane(e, "Normal")
           /\ Cardinality(OfLane(entries \ {e}, "Reserved"))
                = reservedLen - InLane(e, "Reserved")
      BY <3>7, Zenon DEF CountersExact
    <3>12. /\ Cardinality(OfLane(entries', "Normal"))
                = Cardinality(OfLane(entries \ {e}, "Normal")) + InLane(e, "Normal")
           /\ Cardinality(OfLane(entries', "Reserved"))
                = Cardinality(OfLane(entries \ {e}, "Reserved")) + InLane(e, "Reserved")
      BY <3>8, <3>9, <3>4, Zenon
    <3>13. /\ Cardinality(OfLane(entries', "Normal")) = normalLen
           /\ Cardinality(OfLane(entries', "Reserved")) = reservedLen
      BY <3>9, <3>10, <3>11, <3>12
    <3> QED
      BY <3>10, <3>13, Zenon DEF CountersExact
  <2>7. CASE RecvPop \/ TryRecv
    <3>1. PICK e \in entries : Pop(e)
      BY <2>7, Zenon DEF RecvPop, TryRecv
    <3>2. \A l : Cardinality(OfLane(entries', l))
                   = Cardinality(OfLane(entries, l)) - InLane(e, l)
      BY <3>1, LaneRemove, Zenon DEF Pop, TypeOK
    <3>3. /\ normalLen' = normalLen - InLane(e, "Normal")
          /\ reservedLen' = reservedLen - InLane(e, "Reserved")
      BY <3>1, Zenon DEF Pop, InLane
    <3>4. \A l : InLane(e, l) \in Nat
      BY Zenon DEF InLane
    <3>5. /\ normalLen' = Cardinality(OfLane(entries', "Normal"))
          /\ reservedLen' = Cardinality(OfLane(entries', "Reserved"))
      BY <3>2, <3>3, Zenon DEF CountersExact
    <3>6. normalLen' <= NormalCapacity /\ reservedLen' <= ReliableCapacity
      BY <2>1, <3>3, <3>4, SMTT(30) DEF CountersExact, TypeOK
    <3> QED
      BY <3>5, <3>6, Zenon DEF CountersExact
  <2>8. CASE UNCHANGED queue
    BY <2>8, Zenon DEF queue, CountersExact, OfLane
  <2>9. CASE \E t \in Threads : Handle(t) \/ Notify(t)
    BY <2>8, <2>9, Zenon DEF Handle, DropNormal, DropCritical, CloneNormal,
       CloneCritical, Notify, NotifyOne, NotifyWaiters
  <2>10. CASE RecvEnable \/ RecvEmpty \/ RecvWake \/ RecvCancel
    BY <2>8, <2>10, Zenon DEF RecvEnable, RecvEmpty, RecvWake, RecvCancel
  <2>11. CASE DropReceiver
    <3>1. OfLane({}, "Normal") = {} /\ OfLane({}, "Reserved") = {}
      BY Zenon DEF OfLane
    <3>2. Cardinality({}) = 0
      BY FS_EmptySet, Zenon
    <3> QED
      BY <2>1, <2>11, <3>1, <3>2 DEF DropReceiver, CountersExact
  <2>12. CASE UNCHANGED vars
    BY <2>8, <2>12, Zenon DEF vars
  <2> QED
    BY <2>2, <2>3, <2>4, <2>5, <2>6, <2>7, <2>9, <2>10, <2>11, <2>12, Zenon
    DEF Next, Send, Recv
<1> QED
  BY <1>1, <1>2, Typing, QueueInvariant, PTL DEF Spec, QueueInv

=============================================================================
