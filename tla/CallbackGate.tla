---------------------------- MODULE CallbackGate ---------------------------
(***************************************************************************)
(* The gate between host callbacks and the destruction of a Session:       *)
(* capi/src/callback_gate.rs, with the callers that use it (Notifier::post *)
(* and run_task of callbacks.rs, migo_session_destroy of lib.rs) and the   *)
(* reference count that keeps the gate's memory alive.                     *)
(*                                                                         *)
(* A thread is the stack of its calls, the last one running; the label of  *)
(* a call is the step it takes next.  Host code runs when the stack is     *)
(* empty or its top is "dispatch" or "callback", and may then call Migo    *)
(* again.                                                                  *)
(***************************************************************************)
EXTENDS Integers, FiniteSets, Sequences

CONSTANTS
  Threads,    \* host and engine threads
  MaxActive,  \* ACTIVE_MASK
  MaxPosts,   \* bound: events the engine posts
  MaxDepth    \* bound: nested calls of one thread

ASSUME GateAssumption ==
  /\ IsFiniteSet(Threads)
  /\ MaxActive \in Nat /\ MaxPosts \in Nat /\ MaxDepth \in Nat

VARIABLES
  closed,  \* CLOSED_BIT
  active,  \* the count under ACTIVE_MASK
  lock,    \* drain_lock: its holder, or "free"
  stack,   \* per thread: the calls it is in
  raw,     \* 1 while the host owns the C handle
  strong,  \* Arc strong count of the Session
  queued,  \* tasks the host's dispatcher has accepted and not run
  posts,   \* events posted so far
  done     \* the thread and callback depth of the destroy that succeeded

vars == <<closed, active, lock, stack, raw, strong, queued, posts, done>>

Labels == {"post_enter", "fresh", "dispatch", "task_enter", "callback", "leave",
           "destroy_close", "drain_check", "drain_lock", "drain_test",
           "drain_sleep", "drain_wait", "consume"}

\* Calls with a CallbackFrame on the thread's CALLBACK_STACK.
Framed == {"fresh", "dispatch", "callback"}

Top(t) == IF stack[t] = <<>> THEN "idle" ELSE stack[t][Len(stack[t])]
Rest(t) == SubSeq(stack[t], 1, Len(stack[t]) - 1)
Push(t, l) == stack' = [stack EXCEPT ![t] = Append(@, l)]
Pop(t) == stack' = [stack EXCEPT ![t] = Rest(t)]
Relabel(t, l) == stack' = [stack EXCEPT ![t] = Append(Rest(t), l)]

\* CallbackGate::local_depth.
LocalDepth(t) == Cardinality({i \in DOMAIN stack[t] : stack[t][i] \in Framed})

HostCode(t) == Top(t) \in {"idle", "dispatch", "callback"}
MayCall(t) == HostCode(t) /\ Len(stack[t]) < MaxDepth

Init ==
  /\ closed = 0 /\ active = 0 /\ lock = "free"
  /\ stack = [t \in Threads |-> <<>>]
  /\ raw = 1 /\ strong = 1 /\ queued = 0 /\ posts = 0
  /\ done = <<>>

-----------------------------------------------------------------------------
(* Entering and leaving host code *)

\* try_enter succeeds.
Admitted == closed = 0 /\ active < MaxActive

\* Notifier::post, up to the upgrade of its Weak reference.
Post(t) ==
  /\ MayCall(t) /\ strong > 0 /\ posts < MaxPosts
  /\ Push(t, "post_enter")
  /\ strong' = strong + 1 /\ posts' = posts + 1
  /\ UNCHANGED <<closed, active, lock, raw, queued, done>>

\* The dispatch permit, and the task with its own pin; or post returns.
PostEnter(t) ==
  /\ Top(t) = "post_enter"
  /\ IF Admitted
     THEN active' = active + 1 /\ strong' = strong + 1 /\ Relabel(t, "fresh")
     ELSE strong' = strong - 1 /\ Pop(t) /\ UNCHANGED active
  /\ UNCHANGED <<closed, lock, raw, queued, posts, done>>

\* The host's dispatcher queues the task, ...
DispatchQueue(t) ==
  /\ Top(t) = "fresh"
  /\ queued' = queued + 1 /\ Relabel(t, "dispatch")
  /\ UNCHANGED <<closed, active, lock, raw, strong, posts, done>>

\* ... runs it at once, ...
DispatchSync(t) ==
  /\ Top(t) = "fresh" /\ Len(stack[t]) < MaxDepth
  /\ stack' = [stack EXCEPT ![t] = Append(Append(Rest(t), "dispatch"), "task_enter")]
  /\ UNCHANGED <<closed, active, lock, raw, strong, queued, posts, done>>

\* ... or refuses it, and post drops it.
DispatchReject(t) ==
  /\ Top(t) = "fresh"
  /\ strong' = strong - 1 /\ Relabel(t, "dispatch")
  /\ UNCHANGED <<closed, active, lock, raw, queued, posts, done>>

\* Fault: the task does not pin the Session until it has run.
RunTaskUnpinned(t) ==
  /\ MayCall(t) /\ queued > 0
  /\ queued' = queued - 1 /\ strong' = strong - 1
  /\ Push(t, "task_enter")
  /\ UNCHANGED <<closed, active, lock, raw, posts, done>>

\* The dispatcher runs a queued task on some thread.
RunTask(t) ==
  /\ MayCall(t) /\ queued > 0
  /\ queued' = queued - 1
  /\ Push(t, "task_enter")
  /\ UNCHANGED <<closed, active, lock, raw, strong, posts, done>>

\* run_task: the callback's permit; or the task is dropped.
TaskEnter(t) ==
  /\ Top(t) = "task_enter"
  /\ IF Admitted
     THEN active' = active + 1 /\ Relabel(t, "callback") /\ UNCHANGED strong
     ELSE strong' = strong - 1 /\ Pop(t) /\ UNCHANGED active
  /\ UNCHANGED <<closed, lock, raw, queued, posts, done>>

\* Host code returns: the permit is dropped, then the pin of its caller.
Return(t) ==
  /\ Top(t) \in {"dispatch", "callback"}
  /\ active' = active - 1
  /\ IF closed = 1
     THEN Relabel(t, "leave") /\ UNCHANGED strong
     ELSE Pop(t) /\ strong' = strong - 1
  /\ UNCHANGED <<closed, lock, raw, queued, posts, done>>

\* notify_all on the stacks of the sleeping destroyers, and t's return.
Notified(t) ==
  [u \in Threads |->
     IF u = t THEN Rest(t)
     ELSE IF Top(u) = "drain_wait" THEN Append(Rest(u), "drain_lock")
     ELSE stack[u]]

\* Fault: the notification is sent without the lock.
LeaveUnlocked(t) ==
  /\ Top(t) = "leave"
  /\ stack' = Notified(t) /\ strong' = strong - 1
  /\ UNCHANGED <<closed, active, lock, raw, queued, posts, done>>

\* After close a dropped permit notifies under drain_lock.
Leave(t) ==
  /\ Top(t) = "leave" /\ lock = "free"
  /\ stack' = Notified(t) /\ strong' = strong - 1
  /\ UNCHANGED <<closed, active, lock, raw, queued, posts, done>>

-----------------------------------------------------------------------------
(* migo_session_destroy, from where its guards have passed *)

\* pin_session finds the Session open.
Destroy(t) ==
  /\ MayCall(t) /\ raw = 1 /\ closed = 0
  /\ Push(t, "destroy_close") /\ strong' = strong + 1
  /\ UNCHANGED <<closed, active, lock, raw, queued, posts, done>>

\* close: only the first succeeds.
DestroyClose(t) ==
  /\ Top(t) = "destroy_close"
  /\ IF closed = 0
     THEN closed' = 1 /\ Relabel(t, "drain_check") /\ UNCHANGED strong
     ELSE Pop(t) /\ strong' = strong - 1 /\ UNCHANGED closed
  /\ UNCHANGED <<active, lock, raw, queued, posts, done>>

\* Fault: one callback too many is taken for the destroying thread's own.
DrainedEarly(t) == active <= LocalDepth(t) + 1

\* Only callbacks of the destroying thread are left.
Drained(t) == active <= LocalDepth(t)

\* CallbackDrain::wait: a first look without the lock, then the loop.
DrainCheck(t) ==
  /\ Top(t) = "drain_check"
  /\ Relabel(t, IF Drained(t) THEN "consume" ELSE "drain_lock")
  /\ UNCHANGED <<closed, active, lock, raw, strong, queued, posts, done>>

DrainLock(t) ==
  /\ Top(t) = "drain_lock" /\ lock = "free"
  /\ lock' = t /\ Relabel(t, "drain_test")
  /\ UNCHANGED <<closed, active, raw, strong, queued, posts, done>>

DrainTest(t) ==
  /\ Top(t) = "drain_test"
  /\ IF Drained(t)
     THEN lock' = "free" /\ Relabel(t, "consume")
     ELSE Relabel(t, "drain_sleep") /\ UNCHANGED lock
  /\ UNCHANGED <<closed, active, raw, strong, queued, posts, done>>

DrainSleep(t) ==
  /\ Top(t) = "drain_sleep"
  /\ lock' = "free" /\ Relabel(t, "drain_wait")
  /\ UNCHANGED <<closed, active, raw, strong, queued, posts, done>>

\* A condition variable may wake without a notification.
SpuriousWake(t) ==
  /\ Top(t) = "drain_wait"
  /\ Relabel(t, "drain_lock")
  /\ UNCHANGED <<closed, active, lock, raw, strong, queued, posts, done>>

\* The C handle's reference and the call's pin are dropped.
Consume(t) ==
  /\ Top(t) = "consume"
  /\ raw' = 0 /\ strong' = strong - 2
  /\ done' = <<t, LocalDepth(t)>>
  /\ Pop(t)
  /\ UNCHANGED <<closed, active, lock, queued, posts>>

-----------------------------------------------------------------------------

\* What Migo's own code does next on thread t.
MigoStep(t) ==
  \/ PostEnter(t) \/ TaskEnter(t) \/ Leave(t)
  \/ DestroyClose(t) \/ DrainCheck(t) \/ DrainLock(t) \/ DrainTest(t)
  \/ DrainSleep(t) \/ Consume(t)

\* What the host's code may do next on thread t.
HostStep(t) ==
  \/ DispatchQueue(t) \/ DispatchSync(t) \/ DispatchReject(t) \/ Return(t)

Call(t) == Post(t) \/ RunTask(t) \/ Destroy(t)

Next == \E t \in Threads :
          MigoStep(t) \/ HostStep(t) \/ Call(t) \/ SpuriousWake(t)

Spec == Init /\ [][Next]_vars

\* Threads run, and the host's callbacks and dispatcher return.  A destroyer that
\* wakes spuriously holds drain_lock for one look at the count and then sleeps,
\* so a thread that wants the lock gets it.
FairSpec ==
  /\ Spec
  /\ \A t \in Threads :
       WF_vars(MigoStep(t)) /\ WF_vars(HostStep(t)) /\ SF_vars(Leave(t))

-----------------------------------------------------------------------------
(* Properties *)

\* When migo_session_destroy has returned MIGO_OK no host code runs on behalf of
\* the Session but the callbacks the destroy itself was called from, and that
\* stays so: neither a queued task nor a late notification enters any more.
QuietAfterDestroy ==
  done # <<>> =>
    /\ LocalDepth(done[1]) <= done[2]
    /\ \A u \in Threads \ {done[1]} : LocalDepth(u) = 0

\* The Session is freed when, and not before, the handle is consumed, no call is
\* inside it and no task waits: a permit dropped after the destroy still finds
\* its gate, and nothing leaks.
FreedExactlyLast ==
  strong = 0 <=> /\ raw = 0 /\ queued = 0
                 /\ \A t \in Threads : stack[t] = <<>>

\* A destroy that has closed the gate returns, although callbacks end between
\* its look at the count and its sleep.
DestroyReturns == closed = 1 ~> raw = 0

=============================================================================
