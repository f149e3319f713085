--------------------------- MODULE MCCkptStaging ---------------------------
(* Model of CkptStaging for TLC: every list of up to MaxBlocks blocks whose
   sizes are between 1 and MaxSize units. *)
EXTENDS CkptStaging

CONSTANTS MaxBlocks, MaxSize

MCBlockLists == UNION {[1..n -> 1..MaxSize] : n \in 0..MaxBlocks}
=============================================================================
