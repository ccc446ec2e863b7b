----------------------------- MODULE MCIOEngines -----------------------------
(* Instances of IOEngines for TLC. *)
EXTENDS IOEngines
MCMaxOps == [linux |-> 3, macos |-> 3, windows |-> 2]
=============================================================================
