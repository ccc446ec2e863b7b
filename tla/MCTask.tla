-------------------------------- MODULE MCTask --------------------------------
(***************************************************************************)
(* Tasks for TLC: a chain of three, of which the first is a root, and one  *)
(* more root.                                                              *)
(***************************************************************************)
EXTENDS Task, TLC

CONSTANTS t1, t2, t3, t4

Chain == (t1 :> t2) @@ (t2 :> t3) @@ (t3 :> None) @@ (t4 :> None)
=============================================================================
