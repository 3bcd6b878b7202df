-------------------------- MODULE MCChannelRegistry --------------------------
(* Calls and starts are interchangeable. *)
EXTENDS ChannelRegistry, TLC

Symmetry == Permutations(Calls) \cup Permutations(Streams)
=============================================================================
