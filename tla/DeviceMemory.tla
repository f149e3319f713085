---------------------------- MODULE DeviceMemory ----------------------------
(***************************************************************************)
(* The device memory blocks of one process through full and selective      *)
(* checkpoints: the cudaMalloc and cudaFree hooks and release/remap of     *)
(* src/GPUs/NVIDIA/nv.cpp, their counterparts in src/GPUs/AMD/amd.cpp, and *)
(* what ckpt(), ckpt_selective() and the two restore functions of          *)
(* src/vGPU.cpp do with whole blocks.  On NVIDIA each of these holds       *)
(* gpu_mem_mutex from start to end, so each is one step; the AMD hooks     *)
(* take no mutex, and are one step here because no other thread calls them *)
(* while a handler runs.  The copying inside is the subject of CkptStaging *)
(* and RestoreStaging.                                                     *)
(*                                                                         *)
(* A slot is an address at which the driver may reserve a range.  Sizes    *)
(* are in 2 MB granules.  A block has one content, which stands for all    *)
(* its bytes.                                                              *)
(***************************************************************************)
EXTENDS Integers, FiniteSets, FiniteSetsExt

CONSTANTS MaxSlot, MaxSize, MaxValue, MAX_SELECTIVE_REGIONS,
          SHM_SIZE,      \* granules of a dump behind its header
          MAX_FILE_NUM   \* entries of its table

ASSUME DeviceMemoryAssumption ==
  {MaxSlot, MaxSize, MaxValue, MAX_SELECTIVE_REGIONS, SHM_SIZE, MAX_FILE_NUM} \subseteq Nat \ {0}

Slots  == 1..MaxSlot
Sizes  == 1..MaxSize
Values == 1..MaxValue
Junk   == 0              \* content of fresh physical memory

VARIABLES
  vendor,                \* the library is built for "NVIDIA" or for "AMD"
  orderly,               \* the client restores a checkpoint before it takes the next, and
                         \*   the application frees no block that is parked
  reserved, mapped,      \* the driver: size of the reservation, and of the mapping
  content,               \* what is in the mapped memory (Junk where there is none)
  allocated_memory,      \* size of the tracked block at a slot, 0 if there is none
  global_handle_map,     \* slots that have a physical memory handle
  files,                 \* the dump: size and content for each slot in its table
  parked,                \* the client's last operation was a checkpoint
  alive,                 \* FALSE after exit(-1)
  reason                 \* (history) why: "space", "call", or "state", see Dump

vars == <<vendor, orderly, reserved, mapped, content, allocated_memory, global_handle_map, files,
          parked, alive, reason>>

Init == /\ vendor \in {"NVIDIA", "AMD"} /\ orderly \in BOOLEAN
        /\ reserved = [a \in Slots |-> 0] /\ mapped = [a \in Slots |-> 0]
        /\ content = [a \in Slots |-> Junk]
        /\ allocated_memory = [a \in Slots |-> 0] /\ global_handle_map = {}
        /\ files = [a \in {} |-> Junk] /\ parked = FALSE /\ alive = TRUE /\ reason = "none"

Tracked == {a \in Slots : allocated_memory[a] # 0}

-----------------------------------------------------------------------------
(* Reserve, create, map and record: the driver picks a free range.  A failing driver call
   is undone and reported, which changes nothing. *)
Allocate(a, n) ==
  /\ alive /\ reserved[a] = 0
  /\ reserved' = [reserved EXCEPT ![a] = n] /\ mapped' = [mapped EXCEPT ![a] = n]
  /\ content' = [content EXCEPT ![a] = Junk]
  /\ allocated_memory' = [allocated_memory EXCEPT ![a] = n]
  /\ global_handle_map' = global_handle_map \cup {a}
  /\ UNCHANGED <<vendor, orderly, files, parked, alive, reason>>

(* The hooks. *)
cudaMalloc(a, n) == vendor = "NVIDIA" /\ Allocate(a, n)
hipMalloc(a, n)  == vendor = "AMD" /\ Allocate(a, n)

(* cuMemUnmap takes exactly the range that was mapped. *)
Unmaps(a) == mapped[a] = allocated_memory[a]

(* Mutant: the table entry stays. *)
FreeBlock_KeepsEntry(a) ==
  /\ alive /\ a \in global_handle_map /\ Unmaps(a)
  /\ mapped' = [mapped EXCEPT ![a] = 0] /\ reserved' = [reserved EXCEPT ![a] = 0]
  /\ global_handle_map' = global_handle_map \ {a}
  /\ UNCHANGED <<vendor, orderly, allocated_memory, content, files, parked, alive, reason>>

(* Unmap, release and free a tracked block that has a handle, whatever the driver calls
   return (a range that is still mapped is not freed), and forget the block.  A parked
   block has no handle on NVIDIA, so that its reservation stays; on AMD it has one. *)
FreeBlock(a) ==
  /\ alive /\ a \in Tracked
  /\ orderly => mapped[a] # 0
  /\ IF a \in global_handle_map /\ (mapped[a] = 0 \/ Unmaps(a))
     THEN /\ mapped' = [mapped EXCEPT ![a] = 0] /\ reserved' = [reserved EXCEPT ![a] = 0]
          /\ content' = [content EXCEPT ![a] = Junk]
     ELSE UNCHANGED <<mapped, reserved, content>>
  /\ global_handle_map' = global_handle_map \ {a}
  /\ allocated_memory' = [allocated_memory EXCEPT ![a] = 0]
  /\ UNCHANGED <<vendor, orderly, files, parked, alive, reason>>

(* The hooks, for a pointer that is tracked; any other goes to the real function. *)
cudaFree(a) == vendor = "NVIDIA" /\ FreeBlock(a)
hipFree(a)  == vendor = "AMD" /\ FreeBlock(a)

(* A kernel writes to a block; its whole range must be mapped. *)
Write(a, v) ==
  /\ alive /\ a \in Tracked /\ mapped[a] >= allocated_memory[a]
  /\ content' = [content EXCEPT ![a] = v]
  /\ UNCHANGED <<vendor, orderly, reserved, mapped, allocated_memory, global_handle_map, files, parked,
                 alive, reason>>

-----------------------------------------------------------------------------
(* exit(-1) in the handler: the process and its device memory are gone. *)
Exit(why) ==
  /\ alive' = FALSE /\ reason' = why
  /\ UNCHANGED <<vendor, orderly, reserved, mapped, content, allocated_memory, global_handle_map, parked>>

(* parse_selective_regions: a request has at least one region, and no more than
   fit.  A region is a pointer, an offset from a slot; its size is not used. *)
Regions == Slots \X (0..MaxSize)
Requests == {R \in SUBSET Regions : Cardinality(R) \in 1..MAX_SELECTIVE_REGIONS}

(* find_containing_allocation: a pointer selects the whole block it points into;
   one that points into no block is skipped. *)
BlocksOf(regions) == {a \in Slots : \E r \in regions : r[1] = a /\ r[2] < allocated_memory[a]}

(* The table of a dump.  Mutants: the last block is left out; the data is not copied. *)
Table_LastMissing(blocks) ==
  [a \in {b \in blocks : \E c \in blocks : b < c} |->
     [size |-> allocated_memory[a], data |-> content[a]]]
Table_NoData(blocks) == [a \in blocks |-> [size |-> allocated_memory[a], data |-> Junk]]
Table(blocks) == [a \in blocks |-> [size |-> allocated_memory[a], data |-> content[a]]]

(* releasePhysicalMemory: the AMD one leaves the handle in the map. *)
Released(blocks) == IF vendor = "NVIDIA" THEN global_handle_map \ blocks ELSE global_handle_map

(* "Not enough space in shared memory", "Too many files": the table may not even be full. *)
Fits(blocks) == /\ MapThenSumSet(LAMBDA a : allocated_memory[a], blocks) <= SHM_SIZE
                /\ Cardinality(blocks) < MAX_FILE_NUM

(* Make a new table of the blocks, dump them, and release their physical memory.  The
   process exits, with a part of the table written, when the blocks do not fit ("space"),
   when a CUDA call fails ("call"), and when one cannot but fail in this state of the memory
   ("state"): a copy from an address without physical memory, an unmap of less than was
   mapped. *)
Dump(blocks) ==
  /\ alive
  /\ orderly => ~parked
  /\ \/ /\ Fits(blocks) /\ \A a \in blocks : Unmaps(a)
        /\ files' = Table(blocks)
        /\ mapped' = [a \in Slots |-> IF a \in blocks THEN 0 ELSE mapped[a]]
        /\ content' = [a \in Slots |-> IF a \in blocks THEN Junk ELSE content[a]]
        /\ global_handle_map' = Released(blocks)
        /\ parked' = TRUE
        /\ UNCHANGED <<vendor, orderly, reserved, allocated_memory, alive, reason>>
     \/ /\ \E done \in SUBSET blocks : files' = Table(done)
        /\ \/ ~Fits(blocks) /\ Exit("space")
           \/ Exit("call")
           \/ (\E a \in blocks : ~Unmaps(a)) /\ Exit("state")

ckpt == Dump(Tracked)
ckpt_selective(regions) == Dump(BlocksOf(regions))

(* Mutant: a range that fills the reservation is refused. *)
Remaps_Strict(a) ==
  /\ IF vendor = "NVIDIA" THEN a \in Tracked /\ (a \in global_handle_map => Unmaps(a))
                          ELSE mapped[a] = 0
  /\ files[a].size < reserved[a]

(* remapPhysicalMemory.  An unknown pointer and a mapped block that cannot be unmapped are
   errors on NVIDIA; the AMD one asks for neither, and cannot map what is mapped.  A range
   larger than the reservation is an error of the driver. *)
Remaps(a) ==
  /\ IF vendor = "NVIDIA" THEN a \in Tracked /\ (a \in global_handle_map => Unmaps(a))
                          ELSE mapped[a] = 0
  /\ files[a].size <= reserved[a]

(* What the tables say of the blocks afterwards: AMD takes the size from the dump. *)
Resized == [a \in Slots |-> IF vendor = "AMD" /\ a \in DOMAIN files THEN files[a].size
                            ELSE allocated_memory[a]]

(* Both restore functions remap and refill every entry of the table, whatever
   regions the client asked for; an entry that cannot be remapped is exit(-1), and so is
   a CUDA call that fails. *)
restore ==
  /\ alive
  /\ orderly => parked
  /\ \/ /\ \A a \in DOMAIN files : Remaps(a)
        /\ mapped' = [a \in Slots |-> IF a \in DOMAIN files THEN files[a].size ELSE mapped[a]]
        /\ content' = [a \in Slots |-> IF a \in DOMAIN files THEN files[a].data ELSE content[a]]
        /\ global_handle_map' = global_handle_map \cup DOMAIN files
        /\ allocated_memory' = Resized
        /\ parked' = FALSE
        /\ UNCHANGED <<vendor, orderly, reserved, alive, reason>>
     \/ Exit("call")
     \/ (\E a \in DOMAIN files : ~Remaps(a)) /\ Exit("state")
  /\ UNCHANGED files

Next == \/ \E a \in Slots : \/ \E n \in Sizes : cudaMalloc(a, n) \/ hipMalloc(a, n)
                            \/ \E v \in Values : Write(a, v)
                            \/ cudaFree(a) \/ hipFree(a)
        \/ ckpt \/ restore
        \/ \E regions \in Requests : ckpt_selective(regions)

Spec == Init /\ [][Next]_vars

-----------------------------------------------------------------------------
(* Type invariant. *)
TypeOK ==
  /\ reserved \in [Slots -> 0..MaxSize] /\ mapped \in [Slots -> 0..MaxSize]
  /\ content \in [Slots -> Values \cup {Junk}]
  /\ allocated_memory \in [Slots -> 0..MaxSize]
  /\ global_handle_map \subseteq Slots
  /\ DOMAIN files \subseteq Slots
  /\ \A a \in DOMAIN files : files[a] \in [size : Sizes, data : Values \cup {Junk}]
  /\ vendor \in {"NVIDIA", "AMD"} /\ orderly \in BOOLEAN /\ parked \in BOOLEAN /\ alive \in BOOLEAN
  /\ reason \in {"none", "space", "call", "state"}

(* The library's maps agree with the driver, whatever the client and the
   application do: a tracked block keeps a reservation of its size ("the VA
   reservation and the allocated_memory entry survive"), it has a handle exactly
   while something is mapped there (always, on AMD), and an untracked slot has no handle.  If they
   are orderly, an untracked slot has no reservation either (cudaFree, "VMM
   allocation - full cleanup"). *)
MapsAgree ==
  \A a \in Slots :
    /\ a \in Tracked => /\ reserved[a] = allocated_memory[a]
                        /\ a \in global_handle_map <=> (vendor = "AMD" \/ mapped[a] > 0)
    /\ a \notin Tracked => a \notin global_handle_map /\ (orderly => reserved[a] = 0)
    /\ mapped[a] <= reserved[a]

(* A block without physical memory can be brought back: the dump has an entry for
   it, of its size.  No later allocation or free takes that away while the client
   is orderly. *)
ParkedRecoverable ==
  orderly => \A a \in Tracked : mapped[a] = 0 =>
               a \in DOMAIN files /\ files[a].size = allocated_memory[a]

(* docs/design-memory-address-checkpoint.md, Failure behavior: errors are "`exit(-1)` on
   stream/copy/space failures", and "Unresolvable regions are skipped with a warning rather
   than failing the operation".  A checkpoint or restore of an orderly client ends the
   process only for these: never because of the state in which the checkpoints, restores,
   allocations and frees before it have left the memory. *)
ExitsOnFailure == orderly => reason # "state"

(* What the application of an orderly client sees: its blocks, each with the content
   it has on the device or would have after a restore. *)
View == [a \in Slots |->
           IF ~orderly \/ a \notin Tracked THEN [size |-> 0, content |-> Junk]
           ELSE [size |-> allocated_memory[a],
                 content |-> IF mapped[a] # 0 THEN content[a] ELSE files[a].data]]
App == INSTANCE AppMemory WITH mem <- View

(* Checkpoint and restore are invisible: "the process continues without ever
   having observed the round-trip". *)
Invisible == App!Spec
=============================================================================
