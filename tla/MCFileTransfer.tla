--------------------------- MODULE MCFileTransfer ---------------------------
(* A small instance of FileTransfer for TLC. *)
EXTENDS FileTransfer, TLC

(* Others transfer one byte: one other than the declared one does not      *)
(* match it.  The client's files have two, of which neither repeats.       *)
MCOffered  == {<<b>> : b \in Bytes}
MCSources  == {<<b, c>> : b, c \in Bytes} \ {<<b, b>> : b \in Bytes}
MCContents == MCOffered \cup MCSources

Symmetry == Permutations(Threads) \cup Permutations(Keys) \cup Permutations(Bytes)

=============================================================================
