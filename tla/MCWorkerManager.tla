--------------------------- MODULE MCWorkerManager ---------------------------
(* Small instances of WorkerManager for TLC. *)
EXTENDS WorkerManager, TLC

CONSTANTS r1, r2, rs, s1

MCStopId == s1 :> rs

(* Two request ids, each of which may be sent with either of two bodies. *)
MCAsks == [id : {r1, r2}, fingerprint : Fingerprints]

MCAsksOne == [id : {r1}, fingerprint : Fingerprints]

CallerSymmetry ==
  Permutations(Callers) \cup Permutations({r1, r2}) \cup Permutations(Fingerprints)

=============================================================================
