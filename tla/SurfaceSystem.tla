--------------------------- MODULE SurfaceSystem ---------------------------
(***************************************************************************)
(* The render thread's view of its onscreen Surface                        *)
(* (graphics/src/surface_system.rs): a state and whether a size is known.  *)
(***************************************************************************)

OnSurfaceAvailable(s) ==
  [state |-> IF s.state = "paused" THEN "paused" ELSE "ready", sized |-> TRUE]

OnSurfaceDestroyed(s) ==
  [state |-> IF s.state \in {"none", "pending"} THEN "none" ELSE "lost",
   sized |-> FALSE]

OnPause(s) == [s EXCEPT !.state = "paused"]

OnResume(s) ==
  [s EXCEPT !.state = IF s.sized THEN "ready"
                      ELSE IF s.state \in {"lost", "paused"} THEN "recovering"
                      ELSE "pending"]

CanPresent(s) == s.state = "ready"

SurfaceSystems ==
  [state : {"none", "pending", "ready", "paused", "lost", "recovering"},
   sized : BOOLEAN]

=============================================================================
