---------------------------- MODULE CkptStaging ----------------------------
(***************************************************************************)
(* The dump pipeline of ckpt() and ckpt_selective() in src/vGPU.cpp: each  *)
(* block of device memory is copied through two host staging buffers into  *)
(* the shared-memory dump, device copies running asynchronously on a CUDA  *)
(* stream while the host drains the other buffer; when everything is in    *)
(* the dump the blocks' physical memory is released.                       *)
(*                                                                         *)
(* Two actors: the signal handler (the host actions) and the copy engine   *)
(* (Dma), which performs the units enqueued on the stream in order, at its *)
(* own pace.  `stream' is the list of all unit copies enqueued so far and  *)
(* `done' the number performed: stream[done+1], ... are in flight.  An     *)
(* event is the length of the stream when it was recorded; to synchronize  *)
(* on it is to wait until `done' reaches it.  A unit of device memory is   *)
(* named <<block, offset>>, and the name stands for its content.           *)
(***************************************************************************)
EXTENDS Staging, Sequences

CONSTANTS SHM_SIZE,      \* units in the dump file, header included
          MAX_FILE_NUM,  \* entries in the dump's file table
          BlockLists     \* the lists of block sizes a dump may start from

ASSUME CapacityAssumption == /\ SHM_SIZE \in Nat
                             /\ FS_HEADER <= SHM_SIZE
                             /\ MAX_FILE_NUM \in Nat \ {0}

ASSUME BlockListsAssumption == BlockLists \subseteq Seq(Nat)

VARIABLES
  mode,            \* "full": ckpt(); "selective": ckpt_selective()
  blocks,          \* sizes of the blocks to dump, in address order
  pc,              \* where the handler is
  why,             \* why it called exit(-1), or "none"
  i, d, left,      \* block being dumped, units of it enqueued, units left
  current_buf, buf_offset, des_offset,   \* the locals of ckpt()
  files, current_offset,                 \* shared_mem_fs: table, end of payload
  staging,         \* the two staging buffers
  stream, done, event,
  dump,            \* the dump file, a function from offset to content
  released         \* number of blocks whose physical memory was released

host == <<mode, blocks, pc, why, i, d, left, current_buf, buf_offset,
          des_offset, files, current_offset, event, dump, released>>
vars == <<mode, blocks, pc, why, i, d, left, current_buf, buf_offset, des_offset,
          files, current_offset, staging, stream, done, event, dump, released>>

Stale == <<0, 0>>        \* content of a buffer or dump unit before it is written
Lost  == <<0, 1>>        \* what a copy from released memory would read
Unit(b, o) == <<b, o>>

Cur(n)  == n % 2         \* current_buf & 1
Init == /\ mode \in {"full", "selective"}
        /\ blocks \in BlockLists
        /\ pc = "start" /\ why = "none"
        /\ i = 0 /\ d = 0 /\ left = 0
        /\ current_buf = 0 /\ buf_offset = 0 /\ des_offset = FS_HEADER
        /\ files = << >> /\ current_offset = FS_HEADER
        /\ staging = [b \in 0..1 |-> [x \in 0..(STAGING_BUF_SIZE - 1) |-> Stale]]
        /\ stream = << >> /\ done = 0 /\ event = 0
        /\ dump = [p \in 0..(SHM_SIZE - 1) |-> Stale]
        /\ released = 0

-----------------------------------------------------------------------------
(* Mutant: the error is reported, and the dump goes on. *)
Exit_Reported(reason) == why' = reason /\ UNCHANGED pc

(* exit(-1): the process ends where it stands. *)
Exit(reason) == pc' = "exit" /\ why' = reason

(* Reset the table, create the stream and the event, record the event. *)
Start ==
  /\ pc = "start"
  /\ files' = << >> /\ current_offset' = FS_HEADER
  /\ pc' = "copy" /\ event' = Len(stream)
  /\ UNCHANGED <<mode, blocks, why, i, d, left, current_buf, buf_offset, des_offset,
                 staging, stream, done, dump, released>>

(* Head of the for loop: enter the next block in the file table. *)
NextFile ==
  /\ pc = "copy" /\ left = 0 /\ i < Len(blocks)
  /\ LET n == DumpSize(mode, blocks[i + 1])
         entry == [start_offset |-> current_offset, size |-> n]
     IN /\ current_offset' = current_offset + n
        /\ i' = i + 1 /\ d' = 0 /\ left' = n
        /\ IF current_offset' > SHM_SIZE
           THEN Exit("shm") /\ UNCHANGED files
           ELSE /\ files' = Append(files, entry)
                /\ IF Len(files') >= MAX_FILE_NUM THEN Exit("table")
                                                  ELSE UNCHANGED <<pc, why>>
  /\ UNCHANGED <<mode, blocks, current_buf, buf_offset, des_offset, staging,
                 stream, done, event, dump, released>>

(* One turn of the while loop: enqueue a device-to-host copy. *)
CopyChunk ==
  /\ pc = "copy" /\ left > 0
  /\ LET n == CopySize(mode, left, buf_offset, d)
         op(k) == [src |-> Unit(i, d + k - 1), buf |-> Cur(current_buf),
                   off |-> buf_offset + k - 1]
     IN /\ stream' = stream \o [k \in 1..n |-> op(k)]
        /\ buf_offset' = buf_offset + n
        /\ d' = d + n /\ left' = left - n
  /\ pc' = IF buf_offset' >= STAGING_BUF_SIZE THEN "flip" ELSE "copy"
  /\ UNCHANGED <<mode, blocks, why, i, current_buf, des_offset, files, current_offset,
                 staging, done, event, dump, released>>

(* memcpy_multi from staging buffer `buf' to the dump at des_offset. *)
Drain(buf, n) ==
  dump' = [p \in DOMAIN dump |->
             IF p - des_offset \in Copied(n) THEN staging[buf][p - des_offset] ELSE dump[p]]

(* Mutants: no wait for the event; one buffer too late; des_offset advanced by
   what is in the current buffer. *)
DrainPrevious_NoWait ==
  IF current_buf > 0
  THEN /\ Drain(Cur(current_buf - 1), STAGING_BUF_SIZE)
       /\ des_offset' = des_offset + STAGING_BUF_SIZE
  ELSE UNCHANGED <<dump, des_offset>>
DrainPrevious_Late ==
  IF current_buf > 1
  THEN /\ done >= event
       /\ Drain(Cur(current_buf - 1), STAGING_BUF_SIZE)
       /\ des_offset' = des_offset + STAGING_BUF_SIZE
  ELSE UNCHANGED <<dump, des_offset>>
DrainPrevious_Partial ==
  IF current_buf > 0
  THEN /\ done >= event
       /\ Drain(Cur(current_buf - 1), STAGING_BUF_SIZE)
       /\ des_offset' = des_offset + buf_offset
  ELSE UNCHANGED <<dump, des_offset>>

(* If there is a full buffer behind the current one, wait for the event and
   drain it. *)
DrainPrevious ==
  IF current_buf > 0
  THEN /\ done >= event
       /\ Drain(Cur(current_buf - 1), STAGING_BUF_SIZE)
       /\ des_offset' = des_offset + STAGING_BUF_SIZE
  ELSE UNCHANGED <<dump, des_offset>>

(* The buffer just filled up: drain the previous one, switch buffers and record the event again. *)
Flip ==
  /\ pc = "flip"
  /\ DrainPrevious
  /\ buf_offset' = 0 /\ current_buf' = current_buf + 1
  /\ event' = Len(stream) /\ pc' = "copy"
  /\ UNCHANGED <<mode, blocks, why, i, d, left, files, current_offset, staging,
                 stream, done, released>>

(* After the loop: drain the last full buffer, if there is one. *)
DrainLast ==
  /\ pc = "copy" /\ left = 0 /\ i = Len(blocks)
  /\ DrainPrevious
  /\ pc' = "tail"
  /\ UNCHANGED <<mode, blocks, why, i, d, left, current_buf, buf_offset, files,
                 current_offset, staging, stream, done, event, released>>

(* synchronizeStream, then drain the partly filled buffer. *)
DrainTail ==
  /\ pc = "tail" /\ done = Len(stream)
  /\ Drain(Cur(current_buf), buf_offset)
  /\ pc' = "release"
  /\ UNCHANGED <<mode, blocks, why, i, d, left, current_buf, buf_offset, des_offset,
                 files, current_offset, staging, stream, done, event, released>>

(* Release the physical memory of the dumped blocks one by one. *)
Release ==
  /\ pc = "release"
  /\ IF released = Len(blocks)
     THEN pc' = "done" /\ UNCHANGED released
     ELSE released' = released + 1 /\ UNCHANGED pc
  /\ UNCHANGED <<mode, blocks, why, i, d, left, current_buf, buf_offset, des_offset, files,
                 current_offset, staging, stream, done, event, dump>>

(* A stream, event, copy or release call fails: the wrapper in nv.cpp calls exit itself
   (CUDA_CHECK_RET), also where ckpt() ignores what it returns, or else the handler does.
   The wrappers of amd.cpp return -1, which ckpt() ignores for events and for waiting: on AMD
   a dump can go on after such a failure, which is not modelled. *)
CudaFails ==
  /\ pc \in {"start", "copy", "flip", "tail", "release"}
  /\ pc = "copy" => left > 0 \/ i = Len(blocks)
  /\ pc = "release" => released < Len(blocks)
  /\ Exit("cuda")
  /\ UNCHANGED <<mode, blocks, i, d, left, current_buf, buf_offset, des_offset, files,
                 current_offset, staging, stream, done, event, dump, released>>

(* The copy engine performs the next unit of the stream. *)
Dma ==
  /\ done < Len(stream) /\ pc # "exit"
  /\ LET op == stream[done + 1]
     IN staging' = [staging EXCEPT ![op.buf][op.off] =
                      IF op.src[1] <= released THEN Lost ELSE op.src]
  /\ done' = done + 1
  /\ UNCHANGED <<host, stream>>

Host == \/ Start \/ NextFile \/ CopyChunk \/ Flip \/ DrainLast \/ DrainTail
        \/ Release
Ended == pc \in {"done", "exit"} /\ UNCHANGED vars
Next == Host \/ CudaFails \/ Dma \/ Ended

Spec == Init /\ [][Next]_vars
(* The handler runs until it ends or blocks, and a stream makes progress. *)
FairSpec == Spec /\ WF_vars(Host) /\ WF_vars(Dma)

-----------------------------------------------------------------------------
(* Type invariant. *)
Content == {Stale, Lost} \cup (Nat \X Nat)
Op      == [src : Nat \X Nat, buf : 0..1, off : 0..(STAGING_BUF_SIZE - 1)]

TypeOK ==
  /\ mode \in {"full", "selective"} /\ blocks \in Seq(Nat)
  /\ pc \in {"start", "copy", "flip", "tail", "release", "done", "exit"}
  /\ why \in {"none", "cuda", "shm", "table"}
  /\ i \in Nat /\ d \in Nat /\ left \in Nat
  /\ current_buf \in Nat /\ buf_offset \in 0..STAGING_BUF_SIZE /\ des_offset \in Nat
  /\ files \in Seq([start_offset : Nat, size : Nat]) /\ current_offset \in Nat
  /\ staging \in [0..1 -> [0..(STAGING_BUF_SIZE - 1) -> Content]]
  /\ stream \in Seq(Op) /\ done \in 0..Len(stream) /\ event \in 0..Len(stream)
  /\ dump \in [0..(SHM_SIZE - 1) -> Content]
  /\ released \in 0..Len(blocks)

(* ckpt() releases a block's physical memory only after every unit of the
   block, the caller's bytes at least, is in the dump at the place its table
   entry names. *)
DumpedBeforeRelease ==
  \A b \in 1..released :
    /\ files[b].size >= blocks[b]
    /\ \A o \in 0..(files[b].size - 1) : dump[files[b].start_offset + o] = Unit(b, o)

(* A device copy never targets a staging unit that holds, or is about to
   receive, data the host has not drained into the dump yet: two undrained
   copies are never aimed at the same unit of the same buffer. *)
NoOverwrite ==
  pc \in {"copy", "flip"} =>
    \A k, l \in (des_offset - FS_HEADER + 1)..Len(stream) :
      k # l => <<stream[k].buf, stream[k].off>> # <<stream[l].buf, stream[l].off>>

(* The asserts of both functions: a buffer is exactly full when it is flipped,
   never over-filled, and at the end the payload written is exactly the payload
   the table describes. *)
AssertsHold ==
  /\ pc = "flip" => buf_offset = STAGING_BUF_SIZE
  /\ pc = "release" => des_offset + buf_offset = current_offset

(* While the handler runs, everything it has enqueued or drained lies inside
   the dump file, and the table has a free entry for the next block. *)
StaysInFile ==
  pc # "exit" => /\ FS_HEADER + Len(stream) <= current_offset
                 /\ current_offset <= SHM_SIZE
                 /\ Len(files) < MAX_FILE_NUM

(* A dump ends: no wait on the event or the stream is for ever. *)
Terminates == <>(pc \in {"done", "exit"})

-----------------------------------------------------------------------------
(* The inductive invariant.  Position k of the stream is unit k of the payload.
   The payload has three parts: what is drained, the full buffer behind the
   current one, and the current buffer. *)
Drained == des_offset - FS_HEADER
Behind  == IF current_buf > 0 /\ pc \in {"copy", "flip"} THEN STAGING_BUF_SIZE ELSE 0
Ahead   == Drained + Behind
Position(b, o) == files[b].start_offset - FS_HEADER + o + 1

(* Where each part of the payload is. *)
PipeInv ==
  /\ des_offset >= FS_HEADER
  /\ Len(stream) = Ahead + buf_offset
  /\ pc \in {"copy", "tail"} => buf_offset < STAGING_BUF_SIZE
  /\ pc = "flip" => buf_offset = STAGING_BUF_SIZE
  /\ event >= Ahead /\ done >= Drained
  /\ \A k \in 1..Len(stream) :
       /\ stream[k].src[1] > 0
       /\ k <= Drained => dump[FS_HEADER + k - 1] = stream[k].src
       /\ k > Drained /\ k <= Ahead =>
            stream[k].buf = Cur(current_buf - 1) /\ stream[k].off = k - 1 - Drained
       /\ k > Ahead =>
            stream[k].buf = Cur(current_buf) /\ stream[k].off = k - 1 - Ahead
       /\ k > Drained /\ k <= done => staging[stream[k].buf][stream[k].off] = stream[k].src

(* The table is contiguous, in step with the stream, and names each unit's
   place in it. *)
TableInv ==
  /\ Len(files) = i /\ i <= Len(blocks) /\ i < MAX_FILE_NUM
  /\ FS_HEADER + Len(stream) + left = current_offset
  /\ current_offset <= SHM_SIZE
  /\ i = 0 => left = 0
  /\ i > 0 => /\ files[i].start_offset + d = FS_HEADER + Len(stream)
              /\ files[i].size = d + left
  /\ \A b \in 1..i :
       /\ files[b].size = DumpSize(mode, blocks[b])
       /\ files[b].start_offset >= FS_HEADER
       /\ files[b].start_offset + files[b].size <= current_offset
       /\ b < i => files[b].start_offset + files[b].size <= files[i].start_offset
       /\ \A o \in 0..(files[b].size - 1) :
            Position(b, o) <= Len(stream) => stream[Position(b, o)].src = Unit(b, o)

IndInv ==
  /\ TypeOK
  /\ pc = "start" => /\ stream = << >> /\ i = 0 /\ left = 0 /\ current_buf = 0
                     /\ buf_offset = 0 /\ des_offset = FS_HEADER
                     /\ current_offset = FS_HEADER /\ files = << >>
  /\ pc \in {"start", "copy", "flip", "tail"} => released = 0
  /\ pc \in {"copy", "flip", "tail"} => PipeInv /\ TableInv
  /\ pc = "tail" => i = Len(blocks) /\ left = 0
  /\ pc \in {"release", "done"} =>
       /\ TableInv /\ i = Len(blocks) /\ left = 0
       /\ des_offset + buf_offset = current_offset
       /\ \A b \in 1..i : \A o \in 0..(files[b].size - 1) :
             dump[files[b].start_offset + o] = Unit(b, o)
  /\ DumpedBeforeRelease
=============================================================================
