---------------------------- MODULE MCIoExecutor ----------------------------
(***************************************************************************)
(* The instance of IoExecutor for TLC: background jobs of both pools,      *)
(* asynchronous file jobs and blocking jobs of the pool with a cap.        *)
(***************************************************************************)
EXTENDS IoExecutor

MCKinds == {<<Background, 0>>, <<Background, 1>>, <<Async, 0>>, <<Blocking, 1>>}

=============================================================================
