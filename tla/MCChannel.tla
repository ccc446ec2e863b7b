------------------------------ MODULE MCChannel ------------------------------
(***************************************************************************)
(* Channel with model values for its writers and readers.  The first       *)
(* writer writes twice, so that a second value can try to overtake that    *)
(* of a writer who waits.                                                  *)
(***************************************************************************)
EXTENDS Channel, TLC

CONSTANTS w1, w2

TwoAndOne == (w1 :> 2) @@ (w2 :> 1)
=============================================================================
