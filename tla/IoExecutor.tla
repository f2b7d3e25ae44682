----------------------------- MODULE IoExecutor -----------------------------
(***************************************************************************)
(* The process-wide I/O executor (io/src/pools.rs): one set of workers     *)
(* serves the jobs of every host.  Jobs wait in one lane for each priority *)
(* and pool; inside a lane the hosts take turns.  A pool has a cap, a host *)
(* has one while several hosts wait, and every AgingInterval dispatches    *)
(* the background goes first.                                              *)
(*                                                                         *)
(* Everything under the state lock is one step; a worker that sleeps on    *)
(* the condition variable is woken by a notification and by nothing else.  *)
(* Jobs of one host in one lane differ in nothing, so a lane counts them.  *)
(***************************************************************************)
EXTENDS Naturals, Sequences, FiniteSets

CONSTANTS Workers,        \* worker_count threads: 2 to 6
          Hosts,          \* host tokens
          PoolCount,      \* POOL_COUNT: 5, the first is Fs, the last Ingest
          AgingInterval,  \* 16
          Kinds,          \* the lanes the hosts submit to
          MaxPending      \* bound on the jobs that wait

ASSUME ExecutorAssumption ==
  /\ IsFiniteSet(Workers) /\ Workers # {} /\ IsFiniteSet(Hosts)
  /\ PoolCount \in Nat \ {0, 1} /\ AgingInterval \in Nat \ {0}
  /\ MaxPending \in Nat

VARIABLES
  q,        \* QueueState
  at,       \* where each worker is, and with which job
  host,     \* whether each host's registration is still held
  started   \* ensure_started has spawned the workers

vars == <<q, at, host, started>>

Pools == 0..(PoolCount - 1)
Blocking == 2
Async == 1
Background == 0
Priorities == {Background, Async, Blocking}
Lanes == Priorities \X Pools

ASSUME KindsAssumption == Kinds \subseteq Lanes

WorkerCount == Cardinality(Workers)

\* ExecutorConfig::for_workers
CpuHeavyCap == IF WorkerCount > 2 THEN 2 ELSE 1

ClassCap(c) ==
  IF c = 0 THEN WorkerCount ELSE IF c = PoolCount - 1 THEN 1 ELSE CpuHeavyCap

HostCap == (WorkerCount + 1) \div 2

Init ==
  /\ q = [jobs |-> [l \in Lanes |-> [h \in Hosts |-> 0]],
          rotation |-> [l \in Lanes |-> <<>>],
          known |-> {},
          cursor |-> [p \in Priorities |-> 0],
          activeClass |-> [c \in Pools |-> 0], activeHost |-> [h \in Hosts |-> 0],
          pendingHost |-> [h \in Hosts |-> 0], retired |-> {},
          active |-> 0, pending |-> 0, dispatched |-> 0, closed |-> FALSE]
  /\ at = [w \in Workers |-> [pc |-> "none"]]
  /\ host = [h \in Hosts |-> "held"] /\ started = FALSE

-----------------------------------------------------------------------------
(* QueueState and its lanes. *)

\* Fault: a host joins the rotation with every job.
PushRotates(s, h, l) ==
  [s EXCEPT !.jobs[l][h] = @ + 1, !.known = @ \cup {h},
            !.rotation[l] = Append(@, h),
            !.pending = @ + 1, !.pendingHost[h] = @ + 1]

\* FairLane::push, QueueState::push: an empty queue joins the rotation.  known:
\* the hosts with an entry in some lane.
Push(s, h, l) ==
  [s EXCEPT !.jobs[l][h] = @ + 1, !.known = @ \cup {h},
            !.rotation[l] = IF s.jobs[l][h] = 0 THEN Append(@, h) ELSE @,
            !.pending = @ + 1, !.pendingHost[h] = @ + 1]

\* The hosts in the rotation of a lane.
InTurn(s, l) == {s.rotation[l][i] : i \in DOMAIN s.rotation[l]}

\* The first of some places.
First(I) == CHOOSE i \in I : \A j \in I : i <= j

\* Hosts with jobs waiting: the keys of pending_by_host.
Waiting(s) == {h \in Hosts : s.pendingHost[h] > 0}

\* The test pop_priority gives to pop_where.
Eligible(s, fairness, h) ==
  fairness = "enforced" /\ Cardinality(Waiting(s)) > 1 => s.activeHost[h] < HostCap

\* The pools from which pop_priority could take a job of this priority.
Offers(s, fairness, p) ==
  {c \in Pools : /\ s.activeClass[c] < ClassCap(c)
                 /\ \E h \in InTurn(s, <<p, c>>) : Eligible(s, fairness, h)}

\* The first pool with an offer, from the cursor on.
NextClass(s, fairness, p) ==
  LET offset(c) == (c + PoolCount - s.cursor[p]) % PoolCount
  IN CHOOSE c \in Offers(s, fairness, p) :
       \A d \in Offers(s, fairness, p) : offset(c) <= offset(d)

CursorAfter(c) == (c + 1) % PoolCount

\* The dispatch counter as the aging sees it: 0 only before the first job.
Counted(n) == IF n = AgingInterval THEN 1 ELSE n + 1

\* Whose turn it is: the first host of the rotation that is eligible.
Turn(s, fairness, turns) ==
  First({i \in DOMAIN turns : Eligible(s, fairness, turns[i])})

\* pop_priority with pop_where: the hosts that are passed over go to the back.
PopPriority(s, fairness, p) ==
  LET c == NextClass(s, fairness, p)
      l == <<p, c>>
      turns == s.rotation[l]
      i == Turn(s, fairness, turns)
      h == turns[i]
      rest == SubSeq(turns, i + 1, Len(turns)) \o SubSeq(turns, 1, i - 1)
  IN [host |-> h, pool |-> c, priority |-> p,
      state |-> [s EXCEPT
        !.jobs[l][h] = @ - 1,
        !.rotation[l] = IF s.jobs[l][h] = 1 THEN rest ELSE Append(rest, h),
        !.cursor[p] = CursorAfter(c),
        !.pending = @ - 1, !.pendingHost[h] = @ - 1,
        !.active = @ + 1, !.activeClass[c] = @ + 1, !.activeHost[h] = @ + 1,
        !.dispatched = Counted(@)]]

HasWork(s, p) == \E c \in Pools : s.rotation[<<p, c>>] # <<>>

\* Fault: only asynchronous foreground work makes the background age.
AgingDueAsync(s) ==
  /\ s.dispatched = AgingInterval
  /\ HasWork(s, Background) /\ HasWork(s, Async)

AgingDue(s) ==
  /\ s.dispatched = AgingInterval
  /\ HasWork(s, Background) /\ (HasWork(s, Blocking) \/ HasWork(s, Async))

\* pop_with_fairness tries the priorities in this order ...
Order(s) ==
  (IF AgingDue(s) THEN <<Background>> ELSE <<>>) \o <<Blocking, Async, Background>>

\* Fault: the relaxed pass comes first.
AttemptsRelaxed(s) ==
  LET order == Order(s)
      pass(fairness) == [i \in DOMAIN order |-> <<fairness, order[i]>>]
  IN pass("relaxed") \o pass("enforced")

\* ... and pop_next makes a fair pass before a relaxed one.
Attempts(s) ==
  LET order == Order(s)
      pass(fairness) == [i \in DOMAIN order |-> <<fairness, order[i]>>]
  IN pass("enforced") \o pass("relaxed")

\* The attempts that find a job.
Successful(s) ==
  LET tries == Attempts(s)
  IN {i \in DOMAIN tries : Offers(s, tries[i][1], tries[i][2]) # {}}

\* Fault: a closed executor hands out no more jobs.
FoundWhileOpen(s) ==
  LET good == Successful(s)
  IN IF s.active >= WorkerCount \/ s.closed \/ good = {} THEN 0 ELSE First(good)

\* The first attempt of pop_next that finds a job; 0: there is none.
Found(s) ==
  LET good == Successful(s)
  IN IF s.active >= WorkerCount \/ good = {} THEN 0 ELSE First(good)

PopNext(s) == LET a == Attempts(s)[Found(s)] IN PopPriority(s, a[1], a[2])

\* cleanup_retired_host
CleanupRetiredHost(s, h) ==
  IF h \notin s.retired \/ s.pendingHost[h] > 0 \/ s.activeHost[h] > 0 THEN s
  ELSE [s EXCEPT !.retired = @ \ {h}, !.known = @ \ {h}]

\* Fault: a completed job leaves the cleanup to retire_host.
CompleteLeaves(s, h, c) ==
  [s EXCEPT !.active = @ - 1, !.activeClass[c] = @ - 1, !.activeHost[h] = @ - 1]

\* Fault: a completed job stays on its host's account.
CompleteOwes(s, h, c) ==
  CleanupRetiredHost([s EXCEPT !.active = @ - 1, !.activeClass[c] = @ - 1], h)

\* QueueState::complete
Complete(s, h, c) ==
  CleanupRetiredHost([s EXCEPT !.active = @ - 1, !.activeClass[c] = @ - 1,
                               !.activeHost[h] = @ - 1], h)

-----------------------------------------------------------------------------
(* The hosts. *)

Asleep == {w \in Workers : at[w].pc = "asleep"}

\* The workers after notify_one: one that sleeps, if any does, is woken.
NotifyOne ==
  IF Asleep = {} THEN {at} ELSE {[at EXCEPT ![w].pc = "woken"] : w \in Asleep}

\* ensure_started, by the first submit.
EnsureStarted ==
  /\ ~started /\ started' = TRUE /\ \E h \in Hosts : host[h] = "held"
  /\ at' = [w \in Workers |-> [pc |-> "start"]]
  /\ UNCHANGED <<q, host>>

\* Fault: a worker is woken only for the first job that waits.
EnqueueWakesFirst(h, l) ==
  /\ started /\ host[h] = "held" /\ q.pending < MaxPending
  /\ q' = Push(q, h, l) /\ at' \in (IF q.pending = 0 THEN NotifyOne ELSE {at})
  /\ UNCHANGED <<host, started>>

\* submit and submit_async; a host that submits holds its registration.
Enqueue(h, l) ==
  /\ started /\ host[h] = "held" /\ q.pending < MaxPending
  /\ q' = Push(q, h, l) /\ at' \in NotifyOne
  /\ UNCHANGED <<host, started>>

\* Drop for HostRegistration: retire_host.
RetireHost(h) ==
  /\ host[h] = "held" /\ host' = [host EXCEPT ![h] = "dropped"]
  /\ q' = CleanupRetiredHost([q EXCEPT !.retired = @ \cup {h}], h)
  /\ UNCHANGED <<at, started>>

\* Drop for ProcessIoExecutor, once no registration holds it: close.
Close ==
  /\ \A h \in Hosts : host[h] = "dropped"
  /\ ~q.closed /\ q' = [q EXCEPT !.closed = TRUE]
  /\ at' = [w \in Workers |-> IF w \in Asleep THEN [pc |-> "woken"] ELSE at[w]]
  /\ UNCHANGED <<host, started>>

-----------------------------------------------------------------------------
(* The workers: worker_main and next_job. *)

\* The queue and the workers once next_job has completed the worker's job.
Completed(w) ==
  IF at[w].pc = "done" THEN Complete(q, at[w].host, at[w].pool) ELSE q

Notified(w) ==
  IF at[w].pc = "done" /\ Completed(w).pending # 0 THEN NotifyOne ELSE {at}

Looks(w) == at[w].pc \in {"start", "done", "woken"}

\* next_job finds a job.
Dispatch(w) ==
  /\ Looks(w)
  /\ \E s \in {Completed(w)} :
       /\ Found(s) # 0
       /\ \E job \in {PopNext(s)}, others \in Notified(w) :
            /\ q' = job.state
            /\ at' = [others EXCEPT ![w] =
                 [pc |-> "running", host |-> job.host, pool |-> job.pool]]
  /\ UNCHANGED <<host, started>>

\* next_job finds none, and exits or sleeps.
FindNothing(w) ==
  /\ Looks(w)
  /\ \E s \in {Completed(w)} :
       /\ Found(s) = 0
       /\ q' = s
       /\ \E others \in Notified(w) :
            at' = [others EXCEPT ![w] =
              [pc |-> IF s.closed /\ s.pending = 0 THEN "exited" ELSE "asleep"]]
  /\ UNCHANGED <<host, started>>

\* The job ends, or panics, which its wrapper catches.
Finish(w) ==
  /\ at[w].pc = "running" /\ at' = [at EXCEPT ![w].pc = "done"]
  /\ UNCHANGED <<q, host, started>>

Next ==
  \/ EnsureStarted \/ Close
  \/ \E h \in Hosts : RetireHost(h) \/ \E l \in Kinds : Enqueue(h, l)
  \/ \E w \in Workers : Dispatch(w) \/ FindNothing(w) \/ Finish(w)

Spec == Init /\ [][Next]_vars

\* Every job ends, and a worker that looks for one gets the lock: weak fairness
\* of Dispatch(w) \/ FindNothing(w), enabled as long as the worker looks.
FairSpec ==
  /\ Spec
  /\ \A w \in Workers : WF_vars(Finish(w)) /\ []<>~Looks(w)

-----------------------------------------------------------------------------
(* Properties. *)

Jobs == [pc : {"running", "done"}, host : Hosts, pool : Pools]

\* The workers whose job has not been completed, of one pool or one host.
Busy == {w \in Workers : at[w].pc \in {"running", "done"}}

\* The counts of running jobs, which pop_next decides by and complete subtracts
\* from with checked_sub, agree with the jobs the workers have, and no pool runs
\* more than its cap, a relaxed or an aged dispatch included: ingest jobs, whose
\* memory is large, run one at a time.
RunningExact ==
  /\ q.active = Cardinality(Busy)
  /\ \A c \in Pools : /\ q.activeClass[c] = Cardinality({w \in Busy : at[w].pool = c})
                      /\ q.activeClass[c] <= ClassCap(c)
  /\ \A h \in Hosts : q.activeHost[h] = Cardinality({w \in Busy : at[w].host = h})

\* The jobs that wait, by lane, host and place.
QueuedAt(s, l, h) == {<<l, h, i>> : i \in 1..s.jobs[l][h]}

Queued(s) == UNION {QueuedAt(s, l, h) : l \in Lanes, h \in Hosts}

QueuedOf(s, h) == {j \in Queued(s) : j[2] = h}

\* The three records of what waits agree.  A lane's rotation names exactly the
\* hosts with jobs in it, each once, which the two expects of pop_where rely on
\* and which keeps a host's turns from doubling; the counts that decide who is
\* contended, when a worker may leave and when a host is forgotten are those of
\* the jobs in the lanes.
WaitingExact ==
  /\ \A l \in Lanes :
       /\ InTurn(q, l) = {h \in Hosts : q.jobs[l][h] > 0}
       /\ \A i, j \in DOMAIN q.rotation[l] :
            q.rotation[l][i] = q.rotation[l][j] => i = j
  /\ \A h \in Hosts : q.pendingHost[h] = Cardinality(QueuedOf(q, h))
  /\ q.pending = Cardinality(Queued(q))

\* No wakeup is lost: while a job could be dispatched, a worker is about to look
\* for one, unless none sleeps.
NoIdleWorker ==
  Asleep # {} /\ Found(q) # 0 => \E w \in Workers : Looks(w)

\* A host that is gone leaves nothing behind once its last job is completed.
RetiredForgotten ==
  \A h \in Hosts :
    host[h] = "dropped" /\ q.pendingHost[h] = 0 /\ q.activeHost[h] = 0
      => h \notin q.retired /\ h \notin q.known

\* Host h could be given a job within its share and within the pools' caps.
InShare(s, h) ==
  /\ s.activeHost[h] < HostCap
  /\ \E l \in Lanes : s.jobs[l][h] > 0 /\ s.activeClass[l[2]] < ClassCap(l[2])

\* One host's backlog never decides when another host's job runs: a host beyond
\* its share gets a worker only when no other host could use it.
ShareKept ==
  [][\A w \in Workers :
       at[w].pc # "running" /\ at'[w].pc = "running"
         => \/ Completed(w).activeHost[at'[w].host] < HostCap
            \/ \A h \in Hosts \ {at'[w].host} : ~InShare(Completed(w), h)]_vars

\* Work accepted before the close is done before the workers go.
AcceptedDrains == []<>(q.closed => q.pending = 0)

\* Jobs of host h other than background jobs of the first pool.
OtherWork(h) == \E l \in Lanes \ {<<Background, 0>>} : q.jobs[l][h] > 0

\* The aging works: the background file jobs of a host are dispatched, however
\* much the other hosts submit if the host asks for nothing else, and however much
\* it submits itself if it is alone.  A host at its share, or a job of a pool with
\* a cap, has no such promise: either may be held back whenever the aging is due.
BackgroundServed ==
  \A h \in Hosts :
    <>[]~OtherWork(h) \/ <>[](Waiting(q) \subseteq {h}) =>
      \/ []<>(q.jobs[<<Background, 0>>][h] = 0)
      \/ []<><<q.jobs'[<<Background, 0>>][h] < q.jobs[<<Background, 0>>][h]>>_vars

=============================================================================
