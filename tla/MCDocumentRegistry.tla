-------------------------- MODULE MCDocumentRegistry --------------------------
(* Instances of DocumentRegistry for TLC. *)
EXTENDS DocumentRegistry, TLC

CONSTANTS d1, d2, p1, t1, t2, h1, h2, h3, l1, l2, s1, s2

MCDocs     == {d1, d2}
MCPathKeys == {p1}
MCTitleKeys == {t1, t2}
MCHandles  == {h1, h2, h3}
MCLeaseIds == {l1, l2}
MCSessions == {s1, s2}

RegistrySymmetry ==
  Permutations(MCDocs) \cup Permutations(MCHandles) \cup Permutations(MCLeaseIds)
    \cup Permutations(MCSessions) \cup Permutations(MCTitleKeys)

=============================================================================
