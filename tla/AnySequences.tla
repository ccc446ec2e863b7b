---------------------------- MODULE AnySequences ----------------------------
(***************************************************************************)
(* Sequences whose elements are of no particular set: what a message is    *)
(* made of.                                                                *)
(***************************************************************************)
EXTENDS SequencesExt

\* A sequence, of whatever elements.
IsSequence(s) == s \in Seq(ToSet(s))
=============================================================================
