------------------------- MODULE MCDocumentHandles --------------------------
EXTENDS DocumentHandles, TLC

CONSTANTS g1, g2, k1, k2, a1, e1, e2

(***************************************************************************)
(* Two features under one native id, and so two sketches.                  *)
(***************************************************************************)
MCNativeId == (g1 :> 1) @@ (g2 :> 1) @@ (k1 :> 2) @@ (k2 :> 2)

(***************************************************************************)
(* A face stays, the edges come and go.                                    *)
(***************************************************************************)
MCGeometries == {{a1, e1}, {a1, e1, e2}, {a1, e2}}

Symmetry == Permutations(Tokens)
=============================================================================
