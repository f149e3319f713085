-------------------------- MODULE MCRestoreStaging --------------------------
(* Model of RestoreStaging for TLC: every table of up to MaxFiles entries whose
   sizes are between 1 and MaxSize units. *)
EXTENDS RestoreStaging, FiniteSetsExt

CONSTANTS MaxFiles, MaxSize

Sizes == UNION {[1..n -> 1..MaxSize] : n \in 0..MaxFiles}
Before(s, f) == FS_HEADER + MapThenSumSet(LAMBDA j : s[j], 1..(f - 1))
MCTables == {[f \in DOMAIN s |-> [start_offset |-> Before(s, f), size |-> s[f]]] : s \in Sizes}
=============================================================================
