------------------------ MODULE MCThreadPoolExecutor ------------------------
(***************************************************************************)
(* ThreadPoolExecutor with model values for its threads and tasks.         *)
(***************************************************************************)
EXTENDS ThreadPoolExecutor, TLC

CONSTANTS d1, d2

\* The task that is due sooner may be added after the one that is due later.
TwoDelays == (d1 :> 2) @@ (d2 :> 1)
=============================================================================
