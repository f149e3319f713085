------------------------------ MODULE Staging ------------------------------
(***************************************************************************)
(* What the dump (CkptStaging) and the restore (RestoreStaging) share: the *)
(* size arithmetic of common.h, the copy-length rule of the inner loops,   *)
(* and memcpy_multi.  Sizes and offsets count abstract units; a unit is    *)
(* any divisor of the 2 MB granule.                                        *)
(***************************************************************************)
EXTENDS Integers

CONSTANTS STAGING_BUF_SIZE,    \* units in one of the two staging buffers
          VMM_GRANULE_SIZE,    \* units in a VMM granule (2 MB)
          FS_HEADER            \* ROUND_UP_2MB(sizeof(shared_mem_fs))

ASSUME SizesAssumption == /\ STAGING_BUF_SIZE \in Nat \ {0}
                          /\ VMM_GRANULE_SIZE \in Nat \ {0}
                          /\ FS_HEADER \in Nat

NUM_COPY_THREADS == 4

MinOf(a, b) == IF a < b THEN a ELSE b

(* ROUND_UP_2MB: add the mask, then clear the low bits. *)
RoundUp(n) == LET m == n + (VMM_GRANULE_SIZE - 1) IN m - (m % VMM_GRANULE_SIZE)

(* Mutant: the distance from the boundary behind, not to the one ahead. *)
GranuleClamp_Behind(at, len) == MinOf(len, at % VMM_GRANULE_SIZE)

(* granule_clamp: a copy that starts at unit `at' of a block (whose base is
   granule-aligned) ends at the next granule boundary at the latest. *)
GranuleClamp(at, len) == MinOf(len, VMM_GRANULE_SIZE - (at % VMM_GRANULE_SIZE))

(* The bytes a block contributes to the dump: the rounded VMM extent in a
   full checkpoint, the caller's size in a selective one. *)
DumpSize(mode, n) == IF mode = "full" THEN RoundUp(n) ELSE n

(* Mutant: forgets how far the staging buffer is filled. *)
CopySize_WholeBuffer(mode, size, buf_offset, at) ==
  LET room == MinOf(size, STAGING_BUF_SIZE)
  IN  IF mode = "full" THEN room ELSE GranuleClamp(at, room)

(* Length of the next device copy: what is left of the block, what is left
   of the staging buffer, and in the selective loops the granule. *)
CopySize(mode, size, buf_offset, at) ==
  LET room == MinOf(size, STAGING_BUF_SIZE - buf_offset)
  IN  IF mode = "full" THEN room ELSE GranuleClamp(at, room)

(* memcpy_multi splits [0, size) among NUM_COPY_THREADS threads, and joins
   them before it returns.  Copied is the set of units some thread copies. *)
ChunkSize(size) == (size + NUM_COPY_THREADS - 1) \div NUM_COPY_THREADS

ThreadUnits(t, size) ==
  LET offset == t * ChunkSize(size)
  IN  offset .. (offset + MinOf(ChunkSize(size), size - offset) - 1)

Copied(size) == UNION {ThreadUnits(t, size) : t \in 0..(NUM_COPY_THREADS - 1)}
=============================================================================
