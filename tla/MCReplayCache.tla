---------------------------- MODULE MCReplayCache ----------------------------
(* A small instance of ReplayCache for TLC. *)
EXTENDS ReplayCache, TLC

CONSTANTS small, large, huge

MCSize == small :> 1 @@ large :> 3 @@ huge :> 6

IdSymmetry == Permutations(RequestIds)

=============================================================================
