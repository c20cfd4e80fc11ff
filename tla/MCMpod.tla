------------------------------- MODULE MCMpod -------------------------------
(* Mpod for TLC: a module of one channel behind an empty slot. *)
EXTENDS Mpod

MCModules == [s \in {1} |-> 1]

\* On and denied to the network; not on and denied, which are printable characters.
MCStatuses == {<<160, 64>>, <<32, 64>>}
=============================================================================
