--------------------------- MODULE StagingProofs ---------------------------
(* Facts about the size arithmetic of Staging, for every granule and buffer
   size. *)
EXTENDS Staging, TLAPS

(* ROUND_UP_2MB never shrinks a size. *)
LEMMA RoundUpGrows ==
  ASSUME NEW n \in Nat
  PROVE  RoundUp(n) \in Nat /\ RoundUp(n) >= n
<1> DEFINE m == n + (VMM_GRANULE_SIZE - 1)
<1>1. m \in Nat /\ VMM_GRANULE_SIZE \in Nat /\ VMM_GRANULE_SIZE > 0
  BY SizesAssumption
<1>2. m % VMM_GRANULE_SIZE \in 0..(VMM_GRANULE_SIZE - 1)
  BY <1>1
<1> QED
  BY <1>1, <1>2 DEF RoundUp

(* A table entry describes at least the caller's bytes. *)
LEMMA DumpSizeCovers ==
  ASSUME NEW n \in Nat, NEW mode
  PROVE  DumpSize(mode, n) \in Nat /\ DumpSize(mode, n) >= n
BY RoundUpGrows DEF DumpSize

(* A copy is never longer than what is left of the block or of the buffer. *)
LEMMA CopySizeFits ==
  ASSUME NEW mode, NEW size \in Nat, NEW at \in Nat,
         NEW room \in 0..STAGING_BUF_SIZE
  PROVE  /\ CopySize(mode, size, room, at) \in Nat
         /\ CopySize(mode, size, room, at) <= size
         /\ CopySize(mode, size, room, at) <= STAGING_BUF_SIZE - room
<1>1. VMM_GRANULE_SIZE \in Nat /\ VMM_GRANULE_SIZE > 0 /\ STAGING_BUF_SIZE \in Nat
  BY SizesAssumption
<1>2. at % VMM_GRANULE_SIZE \in 0..(VMM_GRANULE_SIZE - 1)
  BY <1>1
<1> QED
  BY <1>1, <1>2 DEF CopySize, GranuleClamp, MinOf

(* The threads of memcpy_multi together copy the whole range, and nothing
   outside it. *)
LEMMA CopiedAll ==
  ASSUME NEW n \in Nat
  PROVE  Copied(n) = 0..(n - 1)
<1> DEFINE c == ChunkSize(n)
<1>1. c \in Nat /\ 4 * c >= n /\ (n > 0 => c > 0)
  BY DEF ChunkSize, NUM_COPY_THREADS
<1>2. Copied(n) = ThreadUnits(0, n) \cup ThreadUnits(1, n) \cup ThreadUnits(2, n) \cup ThreadUnits(3, n)
  BY DEF Copied, NUM_COPY_THREADS
<1>3. 0 * c = 0 /\ 1 * c = c
  BY <1>1
<1>4. /\ ThreadUnits(0, n) = 0..(0 + MinOf(c, n - 0) - 1)
      /\ ThreadUnits(1, n) = c..(c + MinOf(c, n - c) - 1)
      /\ ThreadUnits(2, n) = (2 * c)..(2 * c + MinOf(c, n - 2 * c) - 1)
      /\ ThreadUnits(3, n) = (3 * c)..(3 * c + MinOf(c, n - 3 * c) - 1)
  BY <1>3, Zenon DEF ThreadUnits
<1> HIDE DEF c
<1>5. ASSUME NEW x \in Int
      PROVE  /\ x \in ThreadUnits(0, n) <=> 0 <= x /\ x < c /\ x < n
             /\ x \in ThreadUnits(1, n) <=> c <= x /\ x < 2 * c /\ x < n
             /\ x \in ThreadUnits(2, n) <=> 2 * c <= x /\ x < 3 * c /\ x < n
             /\ x \in ThreadUnits(3, n) <=> 3 * c <= x /\ x < 4 * c /\ x < n
  <2>1. x \in ThreadUnits(0, n) <=> 0 <= x /\ x < c /\ x < n
    BY <1>1, <1>4 DEF MinOf
  <2>2. x \in ThreadUnits(1, n) <=> c <= x /\ x < 2 * c /\ x < n
    BY <1>1, <1>4 DEF MinOf
  <2>3. x \in ThreadUnits(2, n) <=> 2 * c <= x /\ x < 3 * c /\ x < n
    BY <1>1, <1>4 DEF MinOf
  <2>4. x \in ThreadUnits(3, n) <=> 3 * c <= x /\ x < 4 * c /\ x < n
    BY <1>1, <1>4 DEF MinOf
  <2> QED
    BY <2>1, <2>2, <2>3, <2>4
<1>6. \A x \in Int : x \in Copied(n) <=> 0 <= x /\ x < n
  BY <1>1, <1>2, <1>5
<1>7. Copied(n) \subseteq Int
  BY <1>1, <1>2, <1>4 DEF MinOf
<1>8. 0..(n - 1) \subseteq Int /\ \A x \in Int : x \in 0..(n - 1) <=> 0 <= x /\ x < n
  OBVIOUS
<1> QED
  BY <1>6, <1>7, <1>8, Zenon
=============================================================================
