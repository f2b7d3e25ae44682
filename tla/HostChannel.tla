---------------------------- MODULE HostChannel ----------------------------
(***************************************************************************)
(* The ordered host-command queue of shared/src/host_channel.rs: one FIFO  *)
(* shared by game input (a bounded Normal lane and a bounded Reserved      *)
(* lane) and trusted lifecycle traffic (the uncounted Critical lane), with *)
(* one receiver that parks on a tokio Notify.                              *)
(*                                                                         *)
(* Every queue operation is one step under the queue's mutex.  The         *)
(* notification that follows it happens after the unlock and is therefore  *)
(* a step of its own, as are the three steps of recv (register, check      *)
(* under the lock, park).                                                  *)
(*                                                                         *)
(* The VecDeque is the set "entries", ordered by the ticket "pos" that the *)
(* k-th accepted command is given when it is pushed; "cmd" names the       *)
(* accepted command an entry carries now, which differs from "pos" once a  *)
(* newer sample has been coalesced into the entry.                         *)
(***************************************************************************)
EXTENDS Integers, FiniteSets, Sequences

CONSTANTS
  Threads,           \* threads that may hold sender handles
  Streams,           \* the InputStream values
  NoStream,          \* stands for input = None
  NormalCapacity,    \* normal_capacity
  ReliableCapacity,  \* reliable_capacity
  MaxCommands        \* bound: commands accepted over the channel's life

ASSUME CapacityAssumption ==
  /\ NormalCapacity \in Nat \ {0}
  /\ ReliableCapacity \in Nat \ {0}
  /\ MaxCommands \in Nat

ASSUME StreamAssumption == NoStream \notin Streams

VARIABLES
  entries,       \* the queue
  normalLen,     \* normal_len
  reservedLen,   \* reserved_len
  receiver,      \* receiver_open: "open" or "closed"
  normal,        \* threads holding a HostCommandSender
  critical,      \* threads holding a CriticalHostCommandSender
  pc,            \* per thread: the notification it still owes after its unlock
  permits,       \* permits stored by not_empty: 0 or 1
  rx,            \* where the receiver is inside recv
  wake,          \* what its Notified future has received
  accepted,      \* history: the accepted commands, in order of acceptance
  delivered      \* history: the commands received, in order

queue   == <<entries, normalLen, reservedLen>>
handles == <<normal, critical>>
waiting == <<permits, rx, wake>>
vars == <<queue, receiver, handles, pc, waiting, accepted, delivered>>

Lanes == {"Normal", "Reserved", "Critical"}
Entry == [pos: Nat, cmd: Nat, lane: Lanes,
          stream: Streams \cup {NoStream}, coalescible: BOOLEAN]
Kinds == {"plain", "sample", "reliable", "terminal", "critical"}
Command == [kind: Kinds, stream: Streams \cup {NoStream}]

-----------------------------------------------------------------------------
(* The queue *)

Init ==
  /\ entries = {} /\ normalLen = 0 /\ reservedLen = 0
  /\ receiver = "open"
  /\ \E t \in Threads : normal = {t} /\ critical = {t}
  /\ pc = [t \in Threads |-> "run"]
  /\ permits = 0 /\ rx = "out" /\ wake = "none"
  /\ accepted = <<>> /\ delivered = <<>>

ReceiverOpen == receiver = "open"

SendersClosed == normal = {} /\ critical = {}

\* Fault: the epoch ignores the Critical lane.
InputEpochUnfenced == entries

\* input_epoch_start: the entries behind the last Critical one.
InputEpoch ==
  {e \in entries : \A c \in entries : c.lane = "Critical" => c.pos < e.pos}

\* The newest entry of a stream in the epoch: a set of at most one entry.
Newest(s) ==
  {e \in InputEpoch : /\ e.stream = s
                      /\ \A f \in InputEpoch : f.stream = s => f.pos <= e.pos}

OfLane(S, lane) == {e \in S : e.lane = lane}

\* Fault: transitions of the stream are erased, too.
SupersededTransitions(s) == {e \in InputEpoch : e.stream = s}

\* What a terminal transition of stream s supersedes.
Superseded(s) == {e \in InputEpoch : e.stream = s /\ e.coalescible}

Ticket == Len(accepted) + 1

NewEntry(lane, s, c) ==
  [pos |-> Ticket, cmd |-> Ticket, lane |-> lane, stream |-> s,
   coalescible |-> c]

\* Fault: normal_len is not set to normal_after_supersession.
PushStaleCount(kept, normalKept, lane, s, c) ==
  /\ entries' = kept \cup {NewEntry(lane, s, c)}
  /\ normalLen' = normalLen + (IF lane = "Normal" THEN 1 ELSE 0)
  /\ reservedLen' = reservedLen + (IF lane = "Reserved" THEN 1 ELSE 0)

\* push, given the entries and the normal count it starts from.
Push(kept, normalKept, lane, s, c) ==
  /\ entries' = kept \cup {NewEntry(lane, s, c)}
  /\ normalLen' = normalKept + (IF lane = "Normal" THEN 1 ELSE 0)
  /\ reservedLen' = reservedLen + (IF lane = "Reserved" THEN 1 ELSE 0)

Accept(kind, s) == accepted' = Append(accepted, [kind |-> kind, stream |-> s])

\* What try_send* and send check first, and the step they end with.
MaySend(t, holders) ==
  /\ t \in holders /\ pc[t] = "run"
  /\ ReceiverOpen
  /\ Len(accepted) < MaxCommands

OwesNotifyOne(t) == pc' = [pc EXCEPT ![t] = "notify_one"]

-----------------------------------------------------------------------------
(* Senders *)

TrySend(t) ==
  /\ MaySend(t, normal)
  /\ normalLen # NormalCapacity
  /\ Push(entries, normalLen, "Normal", NoStream, FALSE)
  /\ Accept("plain", NoStream)
  /\ OwesNotifyOne(t)
  /\ UNCHANGED <<receiver, handles, waiting, delivered>>

\* try_send_coalescible, replacing the newest pending sample: no push, no
\* notification.
Coalesce(t, s) ==
  /\ MaySend(t, normal)
  /\ \E e \in Newest(s) :
       /\ e.coalescible
       /\ entries' = (entries \ {e}) \cup {[e EXCEPT !.cmd = Ticket]}
  /\ Accept("sample", s)
  /\ UNCHANGED <<normalLen, reservedLen, receiver, handles, pc, waiting,
                 delivered>>

\* try_send_coalescible, when no sample of the stream can be replaced.
EnqueueSample(t, s) ==
  /\ MaySend(t, normal)
  /\ ~ \E e \in Newest(s) : e.coalescible
  /\ normalLen # NormalCapacity
  /\ Push(entries, normalLen, "Normal", s, TRUE)
  /\ Accept("sample", s)
  /\ OwesNotifyOne(t)
  /\ UNCHANGED <<receiver, handles, waiting, delivered>>

\* The lane try_send_transition picks, from the count after supersession;
\* "Full" is its rejection.
TransitionLane(normalAfter) ==
  IF normalAfter < NormalCapacity THEN "Normal"
  ELSE IF reservedLen < ReliableCapacity THEN "Reserved" ELSE "Full"

\* try_send_transition: reliable (supersede = FALSE) and terminal (TRUE).  A
\* transition without a stream supersedes nothing.
TrySendTransition(t, s, supersede) ==
  LET doomed == IF supersede /\ s # NoStream THEN Superseded(s) ELSE {}
      normalAfter ==
        normalLen - Cardinality(OfLane(doomed, "Normal"))
      lane == TransitionLane(normalAfter)
  IN  /\ MaySend(t, normal)
      /\ lane # "Full"
      /\ Push(entries \ doomed, normalAfter, lane, s, FALSE)
      /\ Accept(IF supersede THEN "terminal" ELSE "reliable", s)
      /\ OwesNotifyOne(t)
      /\ UNCHANGED <<receiver, handles, waiting, delivered>>

SendCritical(t) ==
  /\ MaySend(t, critical)
  /\ Push(entries, normalLen, "Critical", NoStream, FALSE)
  /\ Accept("critical", NoStream)
  /\ OwesNotifyOne(t)
  /\ UNCHANGED <<receiver, handles, waiting, delivered>>

CloneNormal(t, u) ==
  /\ t \in normal /\ pc[t] = "run" /\ u \notin normal
  /\ normal' = normal \cup {u}
  /\ UNCHANGED <<queue, receiver, critical, pc, waiting, accepted,
                 delivered>>

CloneCritical(t, u) ==
  /\ t \in critical /\ pc[t] = "run" /\ u \notin critical
  /\ critical' = critical \cup {u}
  /\ UNCHANGED <<queue, receiver, normal, pc, waiting, accepted,
                 delivered>>

\* Both Drop implementations: the thread that drops the last handle owes
\* notify_waiters.
AfterDrop(t) ==
  pc' = [pc EXCEPT ![t] = IF SendersClosed' THEN "notify_waiters" ELSE "run"]

DropNormal(t) ==
  /\ t \in normal /\ pc[t] = "run"
  /\ normal' = normal \ {t} /\ UNCHANGED critical
  /\ AfterDrop(t)
  /\ UNCHANGED <<queue, receiver, waiting, accepted, delivered>>

\* Fault: only HostCommandSender's Drop notifies the receiver.
DropCriticalSilently(t) ==
  /\ t \in critical /\ pc[t] = "run"
  /\ critical' = critical \ {t} /\ UNCHANGED normal
  /\ UNCHANGED <<queue, receiver, pc, waiting, accepted, delivered>>

DropCritical(t) ==
  /\ t \in critical /\ pc[t] = "run"
  /\ critical' = critical \ {t} /\ UNCHANGED normal
  /\ AfterDrop(t)
  /\ UNCHANGED <<queue, receiver, waiting, accepted, delivered>>

-----------------------------------------------------------------------------
(* tokio::sync::Notify, as the queue uses it *)

Registered == rx \in {"enabled", "parked"} /\ wake = "none"

\* notify_one wakes the registered future, or stores a permit.
NotifyOne(t) ==
  /\ pc[t] = "notify_one"
  /\ pc' = [pc EXCEPT ![t] = "run"]
  /\ IF Registered
     THEN wake' = "one" /\ UNCHANGED permits
     ELSE permits' = 1 /\ UNCHANGED wake
  /\ UNCHANGED <<queue, receiver, handles, rx, accepted, delivered>>

\* notify_waiters wakes the registered future and stores nothing.
NotifyWaiters(t) ==
  /\ pc[t] = "notify_waiters"
  /\ pc' = [pc EXCEPT ![t] = "run"]
  /\ wake' = IF Registered THEN "all" ELSE wake
  /\ UNCHANGED <<queue, receiver, handles, permits, rx, accepted,
                 delivered>>

\* Dropping a Notified future that notify_one had chosen passes the
\* notification on.
DropNotified ==
  /\ permits' = IF wake = "one" THEN 1 ELSE permits
  /\ wake' = "none"

-----------------------------------------------------------------------------
(* The receiver *)

Pop(e) ==
  /\ e \in entries /\ \A f \in entries : e.pos <= f.pos
  /\ entries' = entries \ {e}
  /\ normalLen' = normalLen - (IF e.lane = "Normal" THEN 1 ELSE 0)
  /\ reservedLen' = reservedLen - (IF e.lane = "Reserved" THEN 1 ELSE 0)
  /\ delivered' = Append(delivered, e.cmd)

\* recv: notified() and enable(), which consumes a stored permit.
RecvEnable ==
  /\ ReceiverOpen /\ rx = "out"
  /\ rx' = "enabled"
  /\ wake' = IF permits = 1 THEN "permit" ELSE "none"
  /\ permits' = 0
  /\ UNCHANGED <<queue, receiver, handles, pc, accepted, delivered>>

\* recv, under the lock: return the front command.
RecvPop ==
  /\ rx = "enabled"
  /\ \E e \in entries : Pop(e)
  /\ rx' = "out" /\ DropNotified
  /\ UNCHANGED <<receiver, handles, pc, accepted>>

\* Fault: recv parks without asking senders_closed.
RecvEmptyParks ==
  /\ rx = "enabled" /\ entries = {}
  /\ rx' = "parked"
  /\ UNCHANGED <<queue, receiver, handles, pc, permits, wake, accepted,
                 delivered>>

\* recv, under the lock: nothing queued.  Return None when every sender is
\* gone, else await the notification.
RecvEmpty ==
  /\ rx = "enabled" /\ entries = {}
  /\ IF SendersClosed
     THEN rx' = "ended" /\ DropNotified
     ELSE rx' = "parked" /\ UNCHANGED <<permits, wake>>
  /\ UNCHANGED <<queue, receiver, handles, pc, accepted, delivered>>

\* The await completes and the loop starts over.
RecvWake ==
  /\ rx = "parked" /\ wake # "none"
  /\ rx' = "out" /\ wake' = "none"
  /\ UNCHANGED <<queue, receiver, handles, pc, permits, accepted, delivered>>

\* The host loop's select! takes another branch and drops the recv future.
RecvCancel ==
  /\ rx = "parked"
  /\ rx' = "out" /\ DropNotified
  /\ UNCHANGED <<queue, receiver, handles, pc, accepted, delivered>>

TryRecv ==
  /\ ReceiverOpen /\ rx = "out"
  /\ \E e \in entries : Pop(e)
  /\ UNCHANGED <<receiver, handles, pc, waiting, accepted>>

\* Drop for HostCommandReceiver.
DropReceiver ==
  /\ ReceiverOpen /\ rx \in {"out", "ended"}
  /\ receiver' = "closed"
  /\ entries' = {} /\ normalLen' = 0 /\ reservedLen' = 0
  /\ UNCHANGED <<handles, pc, waiting, accepted, delivered>>

-----------------------------------------------------------------------------

Send(t) ==
  \/ TrySend(t)
  \/ SendCritical(t)
  \/ \E s \in Streams : Coalesce(t, s) \/ EnqueueSample(t, s)
  \/ \E s \in Streams \cup {NoStream}, b \in BOOLEAN :
       TrySendTransition(t, s, b)

Handle(t) ==
  \/ DropNormal(t) \/ DropCritical(t)
  \/ \E u \in Threads : CloneNormal(t, u) \/ CloneCritical(t, u)

Notify(t) == NotifyOne(t) \/ NotifyWaiters(t)

Recv == RecvEnable \/ RecvPop \/ RecvEmpty \/ RecvWake

Next ==
  \/ \E t \in Threads : Send(t) \/ Handle(t) \/ Notify(t)
  \/ Recv \/ RecvCancel \/ TryRecv \/ DropReceiver

Spec == Init /\ [][Next]_vars

\* A thread that owes a notification is running and will issue it; the host
\* thread polls recv until it returns None or the receiver is dropped.
Fairness == WF_vars(Recv) /\ \A t \in Threads : WF_vars(Notify(t))

FairSpec == Spec /\ Fairness

-----------------------------------------------------------------------------
(* Properties *)

\* Entries, counters, handles and the receiver's place in recv keep their types;
\* in particular every queued entry is in one of the three lanes.
TypeOK ==
  /\ entries \in SUBSET Entry /\ IsFiniteSet(entries)
  /\ normalLen \in Int /\ reservedLen \in Int
  /\ receiver \in {"open", "closed"}
  /\ normal \in SUBSET Threads /\ critical \in SUBSET Threads
  /\ pc \in [Threads -> {"run", "notify_one", "notify_waiters"}]
  /\ permits \in {0, 1}
  /\ rx \in {"out", "enabled", "parked", "ended"}
  /\ wake \in {"none", "one", "all", "permit"}
  /\ accepted \in Seq(Command)
  /\ delivered \in Seq(Nat)

\* The two length counters are maintained by hand in push, pop and the
\* supersession of try_send_transition.  They always equal the number of
\* entries of their lane (so normal_len never underflows and a lane never
\* leaks capacity), and neither lane exceeds its budget.
CountersExact ==
  /\ normalLen = Cardinality(OfLane(entries, "Normal"))
  /\ reservedLen = Cardinality(OfLane(entries, "Reserved"))
  /\ normalLen <= NormalCapacity
  /\ reservedLen <= ReliableCapacity

\* recv registers before it checks the queue, so a command pushed, or a last
\* handle dropped, while it decides to park is never slept through: a parked
\* receiver that has not been notified either has nothing to do or some
\* thread is about to notify it.
NoLostWakeup ==
  rx = "parked" /\ wake = "none" =>
    /\ entries # {} => \E t \in Threads : pc[t] = "notify_one"
    /\ SendersClosed => \E t \in Threads : pc[t] = "notify_waiters"

\* Pairs of commands whose order the channel promises to keep: those of one
\* stream, those of which one is lifecycle traffic, and any two that cannot be
\* coalesced.
KeepsOrder(a, b) ==
  \/ "critical" \in {accepted[a].kind, accepted[b].kind}
  \/ "sample" \notin {accepted[a].kind, accepted[b].kind}
  \/ accepted[a].stream = accepted[b].stream

\* "Input cannot displace [control commands] or reorder across classes": no
\* command is received twice, and commands are received in the order they
\* were accepted, except that a sample may overtake input of other streams.
\* In particular input never crosses a lifecycle command in either direction.
OrderPreserved ==
  \A i, j \in DOMAIN delivered :
    i < j => /\ delivered[i] # delivered[j]
             /\ KeepsOrder(delivered[i], delivered[j])
                  => delivered[i] < delivered[j]

Between(a, b) == {accepted[k] : k \in (a + 1)..(b - 1)}

\* Command n, accepted after sample k, may have taken k's place.
Replaces(n, k) ==
  /\ accepted[k].kind = "sample"
  /\ accepted[n].kind \in {"sample", "terminal"}
  /\ accepted[n].stream = accepted[k].stream
  /\ \A c \in Between(k, n) :
       /\ c.kind # "critical"
       /\ accepted[n].kind = "sample" =>
            ~(c.kind \in {"reliable", "terminal"} /\ c.stream = accepted[k].stream)

\* Accepted commands do not vanish: as long as the receiver lives, each one
\* has been received, is queued, or is a sample that a newer sample or a
\* terminal transition of its own stream, accepted in the same epoch, has
\* replaced.  A transition rejected for lack of room erases nothing.
NothingVanishes ==
  ReceiverOpen =>
    \A k \in DOMAIN accepted :
      \/ \E i \in DOMAIN delivered : delivered[i] = k
      \/ \E e \in entries : e.cmd = k
      \/ \E n \in (k + 1)..Len(accepted) : Replaces(n, k)

\* The host loop notices everything, however sends, drops, wakeups and cancelled
\* recv futures interleave: it catches up with the senders again and again, each
\* command that is not a replaceable sample received, and when the last handle is
\* dropped recv returns None.
RecvNotices ==
  []<>(ReceiverOpen =>
         /\ \A k \in DOMAIN accepted :
              accepted[k].kind # "sample" => \E i \in DOMAIN delivered : delivered[i] = k
         /\ SendersClosed => rx = "ended")

=============================================================================
