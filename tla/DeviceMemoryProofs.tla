------------------------- MODULE DeviceMemoryProofs -------------------------
(* The properties of DeviceMemory for any number of slots, sizes and values: both vendors,
   any client and any application. *)
EXTENDS DeviceMemory, TLAPS

(* While client and application are orderly, a block without physical memory is one of the
   dump that the client is going to restore, and that dump has no other block. *)
OrderInv ==
  orderly =>
    /\ reason # "state"
    /\ \A a \in Tracked : mapped[a] \in {0, allocated_memory[a]}
    /\ \A a \in Tracked : mapped[a] = 0 => parked /\ a \in DOMAIN files
    /\ parked => \A a \in DOMAIN files : a \in Tracked /\ mapped[a] = 0
                                         /\ files[a].size = allocated_memory[a]

(* On AMD the restored size is the block's size even when they are not. *)
AmdInv ==
  vendor = "AMD" =>
    /\ \A a \in Tracked : mapped[a] \in {0, allocated_memory[a]}
    /\ \A a \in Slots \ Tracked : reserved[a] = 0
    /\ \A a \in Tracked \cap DOMAIN files : mapped[a] = 0 => files[a].size = allocated_memory[a]

IInv == TypeOK /\ MapsAgree /\ OrderInv /\ AmdInv

-----------------------------------------------------------------------------
(* The library starts in the invariant. *)
LEMMA InitInv == Init => IInv
<1> SUFFICES ASSUME Init PROVE IInv
  OBVIOUS
<1>1. Tracked = {} /\ DOMAIN files = {}
  BY DEF Init, Tracked
<1>2. TypeOK
  <2>1. 0 \in 0..MaxSize
    BY DeviceMemoryAssumption
  <2>2. /\ reserved \in [Slots -> 0..MaxSize] /\ mapped \in [Slots -> 0..MaxSize]
        /\ content \in [Slots -> Values \cup {Junk}]
        /\ allocated_memory \in [Slots -> 0..MaxSize]
        /\ global_handle_map \subseteq Slots
    BY <2>1 DEF Init
  <2>3. vendor \in {"NVIDIA", "AMD"} /\ orderly \in BOOLEAN /\ parked \in BOOLEAN /\ alive \in BOOLEAN
        /\ reason \in {"none", "space", "call", "state"}
    BY Zenon DEF Init
  <2> QED  BY <1>1, <2>2, <2>3 DEF TypeOK
<1>3. MapsAgree
  BY <1>1 DEF Init, MapsAgree
<1>4. OrderInv /\ AmdInv
  BY <1>1 DEF Init, OrderInv, AmdInv
<1> QED  BY <1>2, <1>3, <1>4 DEF IInv

(* A tracked slot has a positive size and its reservation. *)
LEMMA TrackedFacts ==
  ASSUME IInv, NEW a \in Slots
  PROVE  /\ a \in Tracked <=> allocated_memory[a] # 0
         /\ a \in Tracked => allocated_memory[a] \in Sizes
         /\ a \in Tracked <=> allocated_memory[a] > 0
  BY DEF IInv, TypeOK, Tracked, Sizes

(* cudaMalloc and hipMalloc. *)
LEMMA MallocInv ==
  ASSUME IInv, NEW a \in Slots, NEW n \in Sizes, Allocate(a, n)
  PROVE  IInv'
<1>1. a \notin Tracked /\ n > 0 /\ n \in 0..MaxSize
  BY DEF Allocate, IInv, MapsAgree, Tracked, Sizes, TypeOK
<1>2. Tracked' = Tracked \cup {a}
  BY <1>1 DEF Allocate, IInv, TypeOK, Tracked
<1>3. TypeOK'
  BY <1>1 DEF Allocate, IInv, TypeOK, Values, Junk
<1>4. MapsAgree'
  BY <1>1, <1>2 DEF Allocate, IInv, TypeOK, MapsAgree
<1>5. OrderInv'
  BY <1>1, <1>2 DEF Allocate, IInv, TypeOK, OrderInv, Tracked
<1>6. AmdInv'
  BY <1>1, <1>2 DEF Allocate, IInv, TypeOK, AmdInv
<1> QED  BY <1>3, <1>4, <1>5, <1>6 DEF IInv

(* cudaFree and hipFree. *)
LEMMA FreeInv ==
  ASSUME IInv, NEW a \in Slots, FreeBlock(a)
  PROVE  IInv'
<1>1. Tracked' = Tracked \ {a} /\ a \in Tracked
  BY DEF FreeBlock, IInv, TypeOK, Tracked
<1>2. orderly => a \in global_handle_map /\ Unmaps(a)
  BY DEF FreeBlock, IInv, TypeOK, MapsAgree, OrderInv, Unmaps
<1>3. vendor = "AMD" => a \in global_handle_map /\ (mapped[a] = 0 \/ Unmaps(a))
  BY <1>1 DEF IInv, MapsAgree, AmdInv, Unmaps
<1>4. /\ reserved' \in [Slots -> 0..MaxSize] /\ mapped' \in [Slots -> 0..MaxSize]
      /\ content' \in [Slots -> Values \cup {Junk}]
      /\ \A b \in Slots : b # a => reserved'[b] = reserved[b] /\ mapped'[b] = mapped[b]
      /\ \/ reserved'[a] = 0 /\ mapped'[a] = 0
         \/ /\ reserved'[a] = reserved[a] /\ mapped'[a] = mapped[a]
            /\ ~orderly /\ vendor # "AMD"
  <2>1. CASE a \in global_handle_map /\ (mapped[a] = 0 \/ Unmaps(a))
    BY <2>1, DeviceMemoryAssumption DEF FreeBlock, IInv, TypeOK
  <2>2. CASE ~(a \in global_handle_map /\ (mapped[a] = 0 \/ Unmaps(a)))
    BY <1>2, <1>3, <2>2 DEF FreeBlock, IInv, TypeOK
  <2> QED  BY <2>1, <2>2
<1>5. /\ allocated_memory' \in [Slots -> 0..MaxSize]
      /\ \A b \in Slots : b # a => allocated_memory'[b] = allocated_memory[b]
      /\ global_handle_map' = global_handle_map \ {a}
      /\ UNCHANGED <<vendor, orderly, files, parked, alive, reason>>
  BY DeviceMemoryAssumption DEF FreeBlock, IInv, TypeOK
<1>6. TypeOK'
  BY <1>4, <1>5 DEF IInv, TypeOK
<1>7. MapsAgree'
  BY <1>1, <1>4, <1>5 DEF IInv, MapsAgree
<1>8. OrderInv'
  <2>1. orderly => mapped[a] # 0
    BY DEF FreeBlock
  <2>2. \A b \in Tracked' : b # a /\ b \in Slots /\ b \in Tracked
    BY <1>1 DEF Tracked
  <2> QED  BY <1>1, <1>4, <1>5, <2>1, <2>2 DEF IInv, OrderInv, Tracked
<1>9. AmdInv'
  BY <1>1, <1>4, <1>5 DEF IInv, AmdInv, Tracked
<1> QED  BY <1>6, <1>7, <1>8, <1>9 DEF IInv

(* A kernel's write. *)
LEMMA WriteInv ==
  ASSUME IInv, NEW a \in Slots, NEW v \in Values, Write(a, v)
  PROVE  IInv'
<1>1. TypeOK'
  BY DEF Write, IInv, TypeOK
<1>2. MapsAgree' /\ OrderInv' /\ AmdInv'
  BY DEF Write, IInv, MapsAgree, OrderInv, AmdInv, Tracked
<1> QED  BY <1>1, <1>2 DEF IInv

(* A step that only ends the process, in a state that an orderly client does not get into
   or because of something else. *)
LEMMA ExitInv ==
  ASSUME IInv, NEW why, Exit(why), orderly => why # "state", TypeOK',
         \/ UNCHANGED files
         \/ /\ \A a \in DOMAIN files' : files'[a].size = allocated_memory[a]
            /\ orderly => ~parked /\ \A a \in Tracked : mapped[a] # 0
  PROVE  IInv'
<1>1. MapsAgree'
  BY DEF Exit, IInv, MapsAgree, Tracked
<1>2. OrderInv'
  BY DEF Exit, IInv, OrderInv, Tracked
<1>3. AmdInv'
  BY DEF Exit, IInv, AmdInv, Tracked
<1> QED  BY <1>1, <1>2, <1>3 DEF IInv

(* The blocks of a dump are tracked blocks, for a full and for a selective checkpoint. *)
LEMMA BlocksTracked ==
  ASSUME IInv, NEW regions \in Requests
  PROVE  BlocksOf(regions) \in SUBSET Tracked /\ Tracked \in SUBSET Tracked
<1>1. ASSUME NEW a \in BlocksOf(regions) PROVE a \in Tracked
  <2>1. PICK r \in regions : r[1] = a /\ r[2] < allocated_memory[a]
    BY DEF BlocksOf
  <2>2. r[2] \in 0..MaxSize /\ a \in Slots
    BY <2>1 DEF Requests, Regions, BlocksOf
  <2> QED  BY <2>1, <2>2 DEF IInv, TypeOK, Tracked
<1> QED  BY <1>1

(* The two ways in which a dump ends. *)
DumpSucceeds(blocks) ==
  /\ \A a \in blocks : Unmaps(a)
  /\ files' = Table(blocks)
  /\ mapped' = [a \in Slots |-> IF a \in blocks THEN 0 ELSE mapped[a]]
  /\ content' = [a \in Slots |-> IF a \in blocks THEN Junk ELSE content[a]]
  /\ global_handle_map' = Released(blocks)
  /\ parked' = TRUE
  /\ UNCHANGED <<vendor, orderly, reserved, allocated_memory, alive, reason>>
DumpExits(blocks) ==
  /\ \E done \in SUBSET blocks : files' = Table(done)
  /\ \E why \in {"space", "call", "state"} :
       Exit(why) /\ (why = "state" => \E a \in blocks : ~Unmaps(a))

LEMMA DumpEnds ==
  ASSUME NEW blocks, Dump(blocks)
  PROVE  DumpSucceeds(blocks) \/ DumpExits(blocks)
  BY Zenon DEF Dump, DumpSucceeds, DumpExits

(* A table of tracked blocks holds their sizes. *)
LEMMA DumpTable ==
  ASSUME IInv, NEW blocks \in SUBSET Tracked, files' = Table(blocks)
  PROVE  /\ DOMAIN files' = blocks
         /\ \A a \in blocks : /\ files'[a] \in [size : Sizes, data : Values \cup {Junk}]
                              /\ files'[a].size = allocated_memory[a]
                              /\ files'[a].data = content[a]
  BY TrackedFacts DEF Table, IInv, TypeOK, Tracked

(* An orderly client dumps only blocks that are mapped. *)
LEMMA DumpOrderly ==
  ASSUME IInv, NEW blocks \in SUBSET Tracked, Dump(blocks), orderly
  PROVE  ~parked /\ (\A a \in Tracked : mapped[a] # 0) /\ (\A a \in blocks : Unmaps(a))
<1>1. ~parked
  BY Zenon DEF Dump
<1> QED BY <1>1 DEF IInv, OrderInv, Unmaps

(* A full or a selective checkpoint. *)
LEMMA DumpInv ==
  ASSUME IInv, NEW blocks \in SUBSET Tracked, Dump(blocks)
  PROVE  IInv'
<1>1. blocks \subseteq Slots
  BY DEF Tracked
<1>2. CASE DumpSucceeds(blocks)
  <2>0. files' = Table(blocks)
    BY <1>2 DEF DumpSucceeds
  <2>1. /\ \A a \in Slots : mapped'[a] = IF a \in blocks THEN 0 ELSE mapped[a]
        /\ mapped' \in [Slots -> 0..MaxSize]
        /\ content' \in [Slots -> Values \cup {Junk}]
        /\ global_handle_map' = Released(blocks)
        /\ parked' = TRUE
        /\ UNCHANGED <<vendor, orderly, reserved, allocated_memory, alive, reason>>
    <3>1. /\ mapped' = [a \in Slots |-> IF a \in blocks THEN 0 ELSE mapped[a]]
          /\ content' = [a \in Slots |-> IF a \in blocks THEN Junk ELSE content[a]]
          /\ global_handle_map' = Released(blocks)
          /\ parked' = TRUE
          /\ UNCHANGED <<vendor, orderly, reserved, allocated_memory, alive, reason>>
      BY <1>2 DEF DumpSucceeds
    <3>2. 0 \in 0..MaxSize
      BY DeviceMemoryAssumption
    <3>3. mapped' \in [Slots -> 0..MaxSize]
      BY <3>1, <3>2 DEF IInv, TypeOK
    <3>4. content' \in [Slots -> Values \cup {Junk}]
      BY <3>1 DEF IInv, TypeOK
    <3> QED  BY <3>1, <3>3, <3>4
  <2>2. Tracked' = Tracked
    BY <2>1 DEF Tracked
  <2>3. TypeOK'
    BY <1>1, <2>0, <2>1, DumpTable DEF IInv, TypeOK, Released
  <2>4. MapsAgree'
    <3>1. ASSUME NEW a \in Slots
          PROVE  a \in global_handle_map' <=> a \in global_handle_map
                                            /\ (vendor = "AMD" \/ a \notin blocks)
      BY <2>1 DEF IInv, TypeOK, Released
    <3>2. ASSUME NEW a \in blocks PROVE mapped'[a] = 0 /\ a \in Slots /\ a \in Tracked
      BY <1>1, <2>1
    <3>3. ASSUME NEW a \in Slots, a \notin blocks PROVE mapped'[a] = mapped[a]
      BY <2>1, <3>3
    <3>4. \A a \in Slots : 0 <= reserved[a]
      BY DEF IInv, TypeOK
    <3> QED  BY <2>1, <2>2, <3>1, <3>2, <3>3, <3>4 DEF IInv, MapsAgree
  <2>5. OrderInv'
    <3>1. SUFFICES ASSUME orderly' PROVE OrderInv'
      BY DEF OrderInv
    <3>2. orderly
      BY <2>1, <3>1
    <3> QED  BY <1>1, <2>0, <2>1, <2>2, <3>2, DumpTable, DumpOrderly DEF IInv, OrderInv, Tracked
  <2>6. AmdInv'
    BY <1>1, <2>0, <2>1, <2>2, DumpTable DEF IInv, AmdInv, Tracked
  <2> QED  BY <2>3, <2>4, <2>5, <2>6 DEF IInv
<1>3. CASE DumpExits(blocks)
  <2>1. PICK why \in {"space", "call", "state"} :
          Exit(why) /\ (why = "state" => \E a \in blocks : ~Unmaps(a))
    BY <1>3, Zenon DEF DumpExits
  <2>2. PICK done \in SUBSET blocks : files' = Table(done)
    BY <1>3, Zenon DEF DumpExits
  <2>3. done \in SUBSET Tracked
    BY <2>2
  <2>4. TypeOK'
    BY <1>1, <2>1, <2>2, <2>3, DumpTable DEF Exit, IInv, TypeOK
  <2>5. \A a \in DOMAIN files' : files'[a].size = allocated_memory[a]
    BY <2>2, <2>3, DumpTable
  <2>6. orderly => why # "state" /\ ~parked /\ \A a \in Tracked : mapped[a] # 0
    BY <2>1, DumpOrderly
  <2> QED  BY <2>1, <2>4, <2>5, <2>6, ExitInv
<1> QED  BY <1>2, <1>3, DumpEnds

(* A restore of an orderly client finds every entry of the table parked, at its size. *)
LEMMA RestoreOrderly ==
  ASSUME IInv, restore, orderly
  PROVE  /\ parked
         /\ \A a \in DOMAIN files : Remaps(a)
<1>1. parked
  BY DEF restore
<1>2. ASSUME NEW a \in DOMAIN files PROVE Remaps(a)
  <2>1. a \in Slots /\ a \in Tracked /\ mapped[a] = 0 /\ files[a].size = allocated_memory[a]
    BY <1>1 DEF IInv, TypeOK, OrderInv
  <2>2. reserved[a] = allocated_memory[a] /\ allocated_memory[a] \in Nat
    BY <2>1 DEF IInv, TypeOK, MapsAgree
  <2>3. vendor = "NVIDIA" => a \notin global_handle_map
    BY <2>1 DEF IInv, MapsAgree
  <2> QED  BY <2>1, <2>2, <2>3 DEF Remaps
<1> QED  BY <1>1, <1>2

(* What a restore that succeeds restores is tracked, and on AMD it keeps its size. *)
LEMMA RestoreTracked ==
  ASSUME IInv, NEW a \in DOMAIN files, Remaps(a)
  PROVE  /\ a \in Slots /\ a \in Tracked /\ files[a].size \in Sizes
         /\ files[a].size <= reserved[a]
         /\ vendor = "AMD" => files[a].size = allocated_memory[a]
<1>1. a \in Slots /\ files[a].size \in Sizes /\ files[a].size <= reserved[a]
  BY DEF IInv, TypeOK, Remaps
<1>2. a \in Tracked
  <2>1. CASE vendor = "NVIDIA"
    BY <2>1 DEF Remaps
  <2>2. CASE vendor = "AMD"
    <3>1. reserved[a] # 0
      BY <1>1 DEF Sizes
    <3> QED  BY <1>1, <2>2, <3>1 DEF IInv, AmdInv
  <2> QED  BY <2>1, <2>2 DEF IInv, TypeOK
<1>3. vendor = "AMD" => mapped[a] = 0
  BY DEF Remaps
<1> QED  BY <1>1, <1>2, <1>3 DEF IInv, AmdInv

(* The two ways in which a restore ends. *)
RestoreSucceeds ==
  /\ \A a \in DOMAIN files : Remaps(a)
  /\ mapped' = [a \in Slots |-> IF a \in DOMAIN files THEN files[a].size ELSE mapped[a]]
  /\ content' = [a \in Slots |-> IF a \in DOMAIN files THEN files[a].data ELSE content[a]]
  /\ global_handle_map' = global_handle_map \cup DOMAIN files
  /\ allocated_memory' = Resized
  /\ parked' = FALSE
  /\ UNCHANGED <<vendor, orderly, reserved, alive, reason>>
RestoreExits ==
  \E why \in {"call", "state"} :
    Exit(why) /\ (why = "state" => \E a \in DOMAIN files : ~Remaps(a))

LEMMA RestoreEnds ==
  ASSUME restore
  PROVE  RestoreSucceeds \/ RestoreExits
  BY Zenon DEF restore, RestoreSucceeds, RestoreExits

(* Both restore functions. *)
LEMMA RestoreInv ==
  ASSUME IInv, restore
  PROVE  IInv'
<1>0. DOMAIN files \subseteq Slots /\ UNCHANGED files
  BY DEF restore, IInv, TypeOK
<1>1. CASE RestoreSucceeds
  <2>0. \A a \in DOMAIN files : Remaps(a)
    BY <1>1 DEF RestoreSucceeds
  <2>1. /\ \A a \in Slots : mapped'[a] = IF a \in DOMAIN files THEN files[a].size ELSE mapped[a]
        /\ \A a \in Slots : content'[a] = IF a \in DOMAIN files THEN files[a].data ELSE content[a]
        /\ mapped' = [a \in Slots |-> IF a \in DOMAIN files THEN files[a].size ELSE mapped[a]]
        /\ content' = [a \in Slots |-> IF a \in DOMAIN files THEN files[a].data ELSE content[a]]
        /\ global_handle_map' = global_handle_map \cup DOMAIN files
        /\ allocated_memory' = Resized /\ parked' = FALSE
        /\ UNCHANGED <<vendor, orderly, reserved, alive, reason>>
    BY <1>1 DEF RestoreSucceeds
  <2>2. allocated_memory' = allocated_memory
    BY <1>0, <2>0, <2>1, RestoreTracked DEF Resized, IInv, TypeOK
  <2>3. Tracked' = Tracked
    BY <2>2 DEF Tracked
  <2>4. TypeOK'
    <3>1. mapped' \in [Slots -> 0..MaxSize]
      BY <2>1 DEF IInv, TypeOK, Sizes
    <3>2. content' \in [Slots -> Values \cup {Junk}]
      BY <2>1 DEF IInv, TypeOK
    <3> QED  BY <1>0, <2>1, <2>2, <3>1, <3>2 DEF IInv, TypeOK
  <2>5. MapsAgree'
    <3>1. \A a \in DOMAIN files : a \in Tracked /\ files[a].size > 0 /\ files[a].size <= reserved[a]
      BY <2>0, RestoreTracked DEF Sizes
    <3> QED  BY <1>0, <2>1, <2>2, <2>3, <3>1 DEF IInv, MapsAgree
  <2>6. OrderInv'
    <3>1. SUFFICES ASSUME orderly' PROVE OrderInv'
      BY DEF OrderInv
    <3>2. orderly /\ parked
      BY <2>1, <3>1, RestoreOrderly
    <3>3. \A a \in Tracked : a \in Slots /\ allocated_memory[a] # 0
      BY DEF Tracked
    <3> QED  BY <1>0, <2>1, <2>2, <2>3, <3>2, <3>3 DEF IInv, OrderInv
  <2>7. AmdInv'
    BY <1>0, <2>0, <2>1, <2>2, <2>3, RestoreTracked DEF IInv, AmdInv, Tracked
  <2> QED  BY <2>4, <2>5, <2>6, <2>7 DEF IInv
<1>2. CASE RestoreExits
  <2>1. PICK why \in {"call", "state"} :
          Exit(why) /\ (why = "state" => \E a \in DOMAIN files : ~Remaps(a))
    BY <1>2, Zenon DEF RestoreExits
  <2>2. orderly => why # "state"
    BY <2>1, RestoreOrderly
  <2>3. TypeOK'
    BY <1>0, <2>1 DEF Exit, IInv, TypeOK
  <2> QED  BY <1>0, <2>1, <2>2, <2>3, ExitInv
<1> QED  BY <1>1, <1>2, RestoreEnds

(* Every step of the library, the driver, the client and the application. *)
LEMMA NextInv ==
  ASSUME IInv, [Next]_vars
  PROVE  IInv'
<1>1. ASSUME NEW a \in Slots, NEW n \in Sizes, Allocate(a, n) PROVE IInv'
  BY <1>1, MallocInv
<1>2. ASSUME NEW a \in Slots, NEW v \in Values, Write(a, v) PROVE IInv'
  BY <1>2, WriteInv
<1>3. ASSUME NEW a \in Slots, FreeBlock(a) PROVE IInv'
  BY <1>3, FreeInv
<1>4. CASE ckpt
  BY <1>4, DumpInv DEF ckpt
<1>5. ASSUME NEW regions \in Requests, ckpt_selective(regions) PROVE IInv'
  BY <1>5, DumpInv, BlocksTracked DEF ckpt_selective
<1>6. CASE restore
  BY <1>6, RestoreInv
<1>7. CASE UNCHANGED vars
  BY <1>7 DEF vars, IInv, TypeOK, MapsAgree, OrderInv, AmdInv, Tracked
<1> QED  BY <1>1, <1>2, <1>3, <1>4, <1>5, <1>6, <1>7 DEF Next, cudaMalloc, hipMalloc, cudaFree, hipFree

(* The inductive invariant of nv.cpp's and amd.cpp's tables holds of every behaviour. *)
THEOREM MemoryInvariant == Spec => []IInv
  BY InitInv, NextInv, PTL DEF Spec

(* allocated_memory and global_handle_map agree with the driver at all times, on NVIDIA and
   on AMD, whatever the client and the application do (releasePhysicalMemory and
   remapPhysicalMemory keep reservation and entry). *)
THEOREM AlwaysMapsAgree == Spec => []MapsAgree
<1>1. IInv => MapsAgree
  BY DEF IInv
<1> QED  BY <1>1, MemoryInvariant, PTL

(* A block whose physical memory was released is in the dump, with its size, until restore()
   has brought it back. *)
THEOREM AlwaysParkedRecoverable == Spec => []ParkedRecoverable
<1>1. IInv => ParkedRecoverable
  BY DEF IInv, OrderInv, ParkedRecoverable
<1> QED  BY <1>1, MemoryInvariant, PTL

(* While client and application are orderly, ckpt, ckpt_selective and the restore functions
   exit only for want of space or because a CUDA call fails, never because of what they find
   mapped, reserved or tracked. *)
THEOREM AlwaysExitsOnFailure == Spec => []ExitsOnFailure
<1>1. IInv => ExitsOnFailure
  BY DEF IInv, OrderInv, ExitsOnFailure
<1> QED  BY <1>1, MemoryInvariant, PTL

-----------------------------------------------------------------------------
(* The refinement: what the application of an orderly client sees. *)

(* Nothing is seen of an unchanged slot. *)
LEMMA SameView ==
  ASSUME orderly' = orderly, Tracked' = Tracked, allocated_memory' = allocated_memory,
         \A a \in Tracked : orderly =>
            (IF mapped'[a] # 0 THEN content'[a] ELSE files'[a].data)
              = (IF mapped[a] # 0 THEN content[a] ELSE files[a].data)
  PROVE  View' = View
  BY DEF View

(* The application of a client that is not orderly is not looked at. *)
LEMMA NoView ==
  ASSUME ~orderly, orderly' = orderly
  PROVE  View' = View
  BY DEF View

(* cudaMalloc is Alloc. *)
LEMMA MallocStep ==
  ASSUME IInv, NEW a \in Slots, NEW n \in Sizes, Allocate(a, n)
  PROVE  App!Next \/ View' = View
<1>1. CASE ~orderly
  BY <1>1, NoView DEF Allocate
<1>2. CASE orderly
  <2>1. a \notin Tracked /\ n # 0
    BY DEF Allocate, IInv, MapsAgree, Tracked, Sizes, TypeOK
  <2>2. Tracked' = Tracked \cup {a}
    BY <2>1 DEF Allocate, IInv, TypeOK, Tracked
  <2>3. View[a] = App!Absent
    BY <2>1 DEF View, App!Absent
  <2>4. View' = [View EXCEPT ![a] = [size |-> n, content |-> Junk]]
    <3>1. View'[a] = [size |-> n, content |-> Junk]
      BY <1>2, <2>1, <2>2 DEF View, Allocate, IInv, TypeOK
    <3>2. ASSUME NEW b \in Slots, b # a PROVE View'[b] = View[b]
      BY <1>2, <2>2, <3>2 DEF View, Allocate, IInv, TypeOK
    <3> QED  BY <3>1, <3>2 DEF View
  <2>5. App!Alloc(a, n)
    BY <2>3, <2>4 DEF App!Alloc
  <2> QED  BY <2>5 DEF App!Next
<1> QED  BY <1>1, <1>2 DEF IInv, TypeOK

(* A kernel's write is Store. *)
LEMMA WriteStep ==
  ASSUME IInv, NEW a \in Slots, NEW v \in Values, Write(a, v)
  PROVE  App!Next \/ View' = View
<1>1. CASE ~orderly
  BY <1>1, NoView DEF Write
<1>2. CASE orderly
  <2>1. a \in Tracked /\ mapped[a] # 0 /\ allocated_memory[a] # 0
    BY DEF Write, IInv, TypeOK, Tracked
  <2>2. Tracked' = Tracked
    BY DEF Write, Tracked
  <2>3. View[a] = [size |-> allocated_memory[a], content |-> content[a]]
    BY <1>2, <2>1 DEF View
  <2>4. View[a] # App!Absent
    BY <2>1, <2>3 DEF App!Absent
  <2>5. View' = [View EXCEPT ![a].content = v]
    <3>1. View'[a] = [View[a] EXCEPT !.content = v]
      BY <1>2, <2>1, <2>2, <2>3 DEF View, Write, IInv, TypeOK
    <3>2. ASSUME NEW b \in Slots, b # a PROVE View'[b] = View[b]
      BY <1>2, <2>2, <3>2 DEF View, Write, IInv, TypeOK
    <3> QED  BY <3>1, <3>2 DEF View
  <2>6. App!Store(a, v)
    BY <2>4, <2>5 DEF App!Store
  <2> QED  BY <2>6 DEF App!Next
<1> QED  BY <1>1, <1>2 DEF IInv, TypeOK

(* cudaFree is Free. *)
LEMMA FreeStep ==
  ASSUME IInv, NEW a \in Slots, FreeBlock(a)
  PROVE  App!Next \/ View' = View
<1>1. CASE ~orderly
  BY <1>1, NoView DEF FreeBlock
<1>2. CASE orderly
  <2>1. a \in Tracked /\ mapped[a] # 0 /\ allocated_memory[a] # 0
    BY <1>2 DEF FreeBlock, Tracked
  <2>2. Tracked' = Tracked \ {a}
    BY DEF FreeBlock, IInv, TypeOK, Tracked
  <2>3. View[a].size # 0
    BY <1>2, <2>1 DEF View
  <2>4. View[a] # App!Absent
    BY <2>3 DEF App!Absent
  <2>5. /\ \A b \in Slots : b # a => mapped'[b] = mapped[b] /\ content'[b] = content[b]
                                   /\ allocated_memory'[b] = allocated_memory[b]
        /\ UNCHANGED <<orderly, files>>
    BY DEF FreeBlock, IInv, TypeOK
  <2>6. View' = [View EXCEPT ![a] = App!Absent]
    <3>1. View'[a] = App!Absent
      BY <2>2 DEF View, App!Absent
    <3>2. ASSUME NEW b \in Slots, b # a PROVE View'[b] = View[b]
      BY <1>2, <2>2, <2>5, <3>2 DEF View
    <3>3. View' = [b \in Slots |-> View'[b]] /\ View = [b \in Slots |-> View[b]]
      BY DEF View
    <3> QED  BY <3>1, <3>2, <3>3
  <2>7. App!Free(a)
    BY <2>4, <2>6 DEF App!Free
  <2> QED  BY <2>7 DEF App!Next
<1> QED  BY <1>1, <1>2 DEF IInv, TypeOK

(* A checkpoint is not seen: what was on the device is now in the dump. *)
LEMMA DumpStep ==
  ASSUME IInv, NEW blocks \in SUBSET Tracked, Dump(blocks)
  PROVE  View' = View
<1>1. CASE ~orderly
  <2>1. orderly' = orderly
    BY DumpEnds, Zenon DEF DumpSucceeds, DumpExits, Exit
  <2> QED  BY <1>1, <2>1, NoView
<1>2. CASE orderly /\ DumpSucceeds(blocks)
  <2>1. /\ mapped' = [a \in Slots |-> IF a \in blocks THEN 0 ELSE mapped[a]]
        /\ content' = [a \in Slots |-> IF a \in blocks THEN Junk ELSE content[a]]
        /\ UNCHANGED <<orderly, allocated_memory>> /\ files' = Table(blocks)
    BY <1>2 DEF DumpSucceeds
  <2>2. Tracked' = Tracked
    BY <2>1 DEF Tracked
  <2>3. ASSUME NEW a \in Tracked
        PROVE  (IF mapped'[a] # 0 THEN content'[a] ELSE files'[a].data)
                 = (IF mapped[a] # 0 THEN content[a] ELSE files[a].data)
    <3>1. a \in Slots /\ mapped[a] # 0
      BY <1>2, DumpOrderly DEF Tracked
    <3>2. CASE a \in blocks
      BY <2>1, <3>1, <3>2, DumpTable
    <3>3. CASE a \notin blocks
      BY <2>1, <3>1, <3>3
    <3> QED  BY <3>2, <3>3
  <2> QED  BY <2>1, <2>2, <2>3, SameView
<1>3. CASE orderly /\ DumpExits(blocks)
  <2>1. UNCHANGED <<orderly, mapped, content, allocated_memory>>
    BY <1>3, Zenon DEF DumpExits, Exit
  <2>2. Tracked' = Tracked
    BY <2>1 DEF Tracked
  <2>3. \A a \in Tracked : mapped[a] # 0
    BY <1>3, DumpOrderly
  <2> QED  BY <2>1, <2>2, <2>3, SameView
<1> QED  BY <1>1, <1>2, <1>3, DumpEnds DEF IInv, TypeOK

(* A restore is not seen: what was in the dump is on the device again. *)
LEMMA RestoreStep ==
  ASSUME IInv, restore
  PROVE  View' = View
<1>1. CASE ~orderly
  <2>1. orderly' = orderly
    BY RestoreEnds, Zenon DEF RestoreSucceeds, RestoreExits, Exit
  <2> QED  BY <1>1, <2>1, NoView
<1>2. CASE orderly /\ RestoreSucceeds
  <2>1. /\ mapped' = [a \in Slots |-> IF a \in DOMAIN files THEN files[a].size ELSE mapped[a]]
        /\ content' = [a \in Slots |-> IF a \in DOMAIN files THEN files[a].data ELSE content[a]]
        /\ allocated_memory' = Resized
        /\ UNCHANGED <<orderly, files>>
    BY <1>2 DEF restore, RestoreSucceeds
  <2>2. allocated_memory' = allocated_memory
    BY <1>2, <2>1, RestoreOrderly, RestoreTracked DEF Resized, IInv, TypeOK
  <2>3. Tracked' = Tracked
    BY <2>2 DEF Tracked
  <2>4. ASSUME NEW a \in Tracked
        PROVE  (IF mapped'[a] # 0 THEN content'[a] ELSE files'[a].data)
                 = (IF mapped[a] # 0 THEN content[a] ELSE files[a].data)
    <3>1. a \in Slots
      BY DEF Tracked
    <3>2. CASE a \in DOMAIN files
      <4>1. mapped[a] = 0 /\ files[a].size # 0
        BY <1>2, <3>2, RestoreOrderly, RestoreTracked DEF IInv, OrderInv, Sizes
      <4> QED  BY <2>1, <3>1, <3>2, <4>1
    <3>3. CASE a \notin DOMAIN files
      <4>1. mapped[a] # 0
        BY <1>2, <3>3 DEF IInv, OrderInv
      <4> QED  BY <2>1, <3>1, <3>3, <4>1
    <3> QED  BY <3>2, <3>3
  <2> QED  BY <2>1, <2>2, <2>3, <2>4, SameView
<1>3. CASE RestoreExits
  <2>1. UNCHANGED <<orderly, mapped, content, allocated_memory, files>>
    BY <1>3, Zenon DEF RestoreExits, Exit, restore
  <2> QED  BY <2>1, Zenon DEF View, Tracked
<1> QED  BY <1>1, <1>2, <1>3, RestoreEnds DEF IInv, TypeOK

(* Every step is one the application took, or is not seen. *)
LEMMA NextStep ==
  ASSUME IInv, [Next]_vars
  PROVE  App!Next \/ View' = View
<1>1. ASSUME NEW a \in Slots, NEW n \in Sizes, Allocate(a, n) PROVE App!Next \/ View' = View
  BY <1>1, MallocStep
<1>2. ASSUME NEW a \in Slots, NEW v \in Values, Write(a, v) PROVE App!Next \/ View' = View
  BY <1>2, WriteStep
<1>3. ASSUME NEW a \in Slots, FreeBlock(a) PROVE App!Next \/ View' = View
  BY <1>3, FreeStep
<1>4. CASE ckpt
  BY <1>4, DumpStep DEF ckpt
<1>5. ASSUME NEW regions \in Requests, ckpt_selective(regions) PROVE View' = View
  BY <1>5, DumpStep, BlocksTracked DEF ckpt_selective
<1>6. CASE restore
  BY <1>6, RestoreStep
<1>7. CASE UNCHANGED vars
  BY <1>7 DEF vars, View, Tracked
<1> QED  BY <1>1, <1>2, <1>3, <1>4, <1>5, <1>6, <1>7 DEF Next, cudaMalloc, hipMalloc, cudaFree, hipFree

(* Checkpoints and restores are invisible to the application of an orderly client: the
   library's memory implements AppMemory. *)
THEOREM AlwaysInvisible == Spec => Invisible
<1>1. Init => App!Init
  BY DEF Init, App!Init, View, App!Absent, Tracked
<1>2. IInv /\ [Next]_vars => [App!Next]_View
  BY NextStep
<1> QED  BY <1>1, <1>2, MemoryInvariant, PTL DEF Spec, Invisible, App!Spec

=============================================================================
