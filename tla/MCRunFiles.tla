------------------------------ MODULE MCRunFiles -----------------------------
(* RunFiles for TLC. *)
EXTENDS RunFiles
=============================================================================
