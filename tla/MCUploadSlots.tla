--------------------------- MODULE MCUploadSlots ----------------------------
(* UploadSlots for model checking: connections and users are model values   *)
(* that the specification only compares, so they are symmetric.             *)
EXTENDS UploadSlots, TLC

CONSTANTS c1, c2, c3, p1, p2, p3

Symmetry == Permutations(Conn) \cup Permutations(Peer)
=============================================================================
