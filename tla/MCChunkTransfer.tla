--------------------------- MODULE MCChunkTransfer ---------------------------
(* Small instances of ChunkTransfer for TLC.                               *)
EXTENDS ChunkTransfer, TLC

CONSTANTS d1, d2, d3, s1, s2

(* One device may try again, another gets in its way, the third sends what *)
(* it likes.                                                               *)
TwoAndOne == d1 :> 2 @@ d2 :> 1 @@ d3 :> 0

Transmissions == Transfer \cup {Stranger}
=============================================================================
