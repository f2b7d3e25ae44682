------------------------- MODULE SurfaceGeneration -------------------------
(***************************************************************************)
(* What the Surface control plane promises its users: Surface generations  *)
(* are issued one after the other, at most one is live, a retired one      *)
(* never becomes live again, and the render thread is only ever asked to   *)
(* release generations that are retired.                                   *)
(***************************************************************************)
EXTENDS Integers

VARIABLES
  generation,  \* the latest generation issued, 0 before the first
  live,        \* 1 while it is live
  requested    \* every generation up to here may be torn down

absVars == <<generation, live, requested>>

Init == generation = 0 /\ live = 0 /\ requested = 0

Issue ==
  /\ live = 0
  /\ generation' = generation + 1 /\ live' = 1
  /\ UNCHANGED requested

Retire ==
  /\ live = 1
  /\ live' = 0
  /\ UNCHANGED <<generation, requested>>

Request ==
  /\ requested' \in (requested + 1)..generation
  /\ requested' = generation => live = 0
  /\ UNCHANGED <<generation, live>>

Next == Issue \/ Retire \/ Request

Spec == Init /\ [][Next]_absVars

=============================================================================
