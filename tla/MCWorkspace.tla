----------------------------- MODULE MCWorkspace -----------------------------
(* Small instances of Workspace for TLC. *)
EXTENDS Workspace, TLC

(* One-byte contents: a byte other than the declared one does not match it. *)
MCContents == {<<b>> : b \in Bytes}

Symmetry == Permutations(Threads) \cup Permutations(Keys) \cup Permutations(Bytes)

=============================================================================
