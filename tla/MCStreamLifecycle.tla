------------------------- MODULE MCStreamLifecycle -------------------------
(***************************************************************************)
(* StreamLifecycle for TLC: the API threads are interchangeable.           *)
(***************************************************************************)
EXTENDS StreamLifecycle, TLC

ApiSymmetry == Permutations(Api)
=============================================================================
