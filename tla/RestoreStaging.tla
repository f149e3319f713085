--------------------------- MODULE RestoreStaging ---------------------------
(***************************************************************************)
(* restore_ptr_and_content() and restore_ptr_and_content_selective() in    *)
(* src/vGPU.cpp: the dump's blocks get physical memory again, then the     *)
(* payload flows from the dump through the two staging buffers to the      *)
(* device, host-to-device copies running asynchronously on a stream while  *)
(* the host refills the other buffer.                                      *)
(*                                                                         *)
(* The stream and the event are as in CkptStaging.  A unit of the payload  *)
(* is named by its offset in the dump, and the name stands for its         *)
(* content.                                                                *)
(***************************************************************************)
EXTENDS Staging, Sequences

CONSTANT Tables          \* the file tables a dump may hold

(* The end of the payload a table describes: fs->current_offset. *)
End(t) == IF t = << >> THEN FS_HEADER ELSE t[Len(t)].start_offset + t[Len(t)].size

(* ckpt() leaves the entries contiguous, from the end of the header on. *)
ASSUME TablesAssumption ==
  \A t \in Tables :
    /\ t \in Seq([start_offset : Nat, size : Nat])
    /\ \A f \in 1..Len(t) : t[f].start_offset = End(SubSeq(t, 1, f - 1))

VARIABLES
  mode,                  \* "full" or "selective": which of the two functions
  files,                 \* the dump's table
  pc, i, left,           \* where the handler is; file being read, units left of it
  offset, src_offset, buf_offset, current_buf,   \* the locals
  staging, stream, done, event,
  dev                    \* content of the device blocks, one per file

vars == <<mode, files, pc, i, left, offset, src_offset, buf_offset, current_buf,
          staging, stream, done, event, dev>>
pipe == <<left, offset, src_offset, buf_offset, current_buf, staging, stream, event>>

Junk     == -1           \* content of fresh physical memory and of an unused buffer
Unmapped == -2           \* an address without physical memory

current_offset == End(files)
Cur(n) == n % 2          \* current_buf & 1
Fill(content, b) == [o \in 0..(files[b].size - 1) |-> content]

Init == /\ mode \in {"full", "selective"}
        /\ files \in Tables
        /\ pc = "remap" /\ i = 0 /\ left = 0
        /\ offset = 0 /\ src_offset = 0 /\ buf_offset = 0 /\ current_buf = 0
        /\ staging = [b \in 0..1 |-> [x \in 0..(STAGING_BUF_SIZE - 1) |-> Junk]]
        /\ stream = << >> /\ done = 0 /\ event = 0
        /\ dev = [b \in 1..Len(files) |-> Fill(Unmapped, b)]

-----------------------------------------------------------------------------
(* The remap loop gives each block fresh physical memory; then the stream and
   the event are created, the event recorded, and the copy loop starts. *)
Remap ==
  /\ pc = "remap"
  /\ IF i < Len(files)
     THEN i' = i + 1 /\ dev' = [dev EXCEPT ![i + 1] = Fill(Junk, i + 1)] /\ UNCHANGED <<pc, event>>
     ELSE i' = 0 /\ pc' = "copy" /\ event' = Len(stream) /\ UNCHANGED dev
  /\ UNCHANGED <<mode, files, left, offset, src_offset, buf_offset, current_buf, staging,
                 stream, done>>

(* synchronizeEvent: the copies enqueued before the event was recorded are done. *)
synchronizeEvent_Skipped == TRUE
synchronizeEvent == done >= event

(* memcpy_multi from the dump at `from' into staging buffer buf. *)
Refill(buf, from) ==
  LET n == MinOf(current_offset - from, STAGING_BUF_SIZE)
  IN  staging' = [staging EXCEPT ![buf] = [x \in DOMAIN @ |-> IF x \in Copied(n) THEN from + x
                                                                               ELSE @[x]]]

(* Head of the copy loop; the first file also fills the first buffer. *)
NextFile ==
  /\ pc = "copy" /\ left = 0 /\ i < Len(files)
  /\ i' = i + 1
  /\ offset' = files[i + 1].start_offset /\ left' = files[i + 1].size
  /\ IF i = 0
     THEN /\ src_offset' = files[1].start_offset /\ buf_offset' = 0
          /\ Refill(Cur(current_buf), files[1].start_offset)
     ELSE UNCHANGED <<src_offset, buf_offset, staging>>
  /\ UNCHANGED <<mode, files, pc, current_buf, stream, done, event, dev>>

(* One turn of the while loop: enqueue a host-to-device copy. *)
CopyChunk ==
  /\ pc = "copy" /\ left > 0
  /\ LET at == offset - files[i].start_offset
         n  == CopySize(mode, left, buf_offset, at)
         op(k) == [buf |-> Cur(current_buf), off |-> offset - src_offset + k - 1,
                   file |-> i, at |-> at + k - 1]
     IN /\ stream' = stream \o [k \in 1..n |-> op(k)]
        /\ buf_offset' = buf_offset + n
        /\ offset' = offset + n /\ left' = left - n
  /\ pc' = IF buf_offset' >= STAGING_BUF_SIZE THEN "flip" ELSE "copy"
  /\ UNCHANGED <<mode, files, i, src_offset, current_buf, staging, done, event, dev>>

(* The buffer is used up: wait until the other one is no longer being read,
   refill it, switch buffers and record the event again. *)
Flip ==
  /\ pc = "flip" /\ synchronizeEvent
  /\ src_offset' = src_offset + STAGING_BUF_SIZE
  /\ Refill(Cur(current_buf + 1), src_offset')
  /\ buf_offset' = 0 /\ current_buf' = current_buf + 1
  /\ event' = Len(stream) /\ pc' = "copy"
  /\ UNCHANGED <<mode, files, i, left, offset, stream, done, dev>>

(* Mutant: the stream is destroyed without waiting for it. *)
Sync_NoWait ==
  /\ pc = "copy" /\ left = 0 /\ i = Len(files)
  /\ pc' = "done"
  /\ UNCHANGED <<mode, files, i, pipe, done, dev>>

(* synchronizeStream after the loop. *)
Sync ==
  /\ pc = "copy" /\ left = 0 /\ i = Len(files) /\ done = Len(stream)
  /\ pc' = "done"
  /\ UNCHANGED <<mode, files, i, pipe, done, dev>>

(* A remap, stream, event or copy call fails: exit, in the wrapper of nv.cpp or in the
   handler.  On AMD a failing event call is ignored, which is not modelled. *)
CudaFails ==
  /\ pc \in {"remap", "copy", "flip"}
  /\ pc = "copy" => left > 0 \/ i = Len(files)
  /\ pc' = "exit"
  /\ UNCHANGED <<mode, files, i, pipe, done, dev>>

(* The copy engine performs the next unit of the stream. *)
Dma ==
  /\ done < Len(stream) /\ pc # "exit"
  /\ LET op == stream[done + 1]
     IN dev' = [dev EXCEPT ![op.file][op.at] =
                  IF @ = Unmapped THEN @ ELSE staging[op.buf][op.off]]
  /\ done' = done + 1
  /\ UNCHANGED <<mode, files, pc, i, pipe>>

Host == Remap \/ NextFile \/ CopyChunk \/ Flip \/ Sync
Ended == pc \in {"done", "exit"} /\ UNCHANGED vars
Next == Host \/ CudaFails \/ Dma \/ Ended

Spec == Init /\ [][Next]_vars
(* The handler runs until it ends or blocks, and a stream makes progress. *)
FairSpec == Spec /\ WF_vars(Host) /\ WF_vars(Dma)

-----------------------------------------------------------------------------
(* Type invariant. *)
Op == [buf : 0..1, off : Nat, file : Nat, at : Nat]

TypeOK ==
  /\ mode \in {"full", "selective"} /\ files \in Seq([start_offset : Nat, size : Nat])
  /\ pc \in {"remap", "copy", "flip", "done", "exit"}
  /\ i \in 0..Len(files) /\ left \in Nat /\ offset \in Nat /\ src_offset \in Nat
  /\ buf_offset \in Nat /\ current_buf \in Nat
  /\ staging \in [0..1 -> [0..(STAGING_BUF_SIZE - 1) -> Nat \cup {Junk}]]
  /\ stream \in Seq(Op) /\ done \in 0..Len(stream) /\ event \in 0..Len(stream)
  /\ DOMAIN dev = 1..Len(files)
  /\ \A b \in DOMAIN dev : dev[b] \in [0..(files[b].size - 1) -> Nat \cup {Junk, Unmapped}]

(* When the restore function returns, every unit of every block the table
   names holds what the dump holds for it. *)
RestoredAll ==
  pc = "done" => \A b \in 1..Len(files) : \A o \in 0..(files[b].size - 1) :
                   dev[b][o] = files[b].start_offset + o

(* A copy that is enqueued and not performed yet still finds, in its staging
   unit, the dump's content for its destination: no refill overtakes it. *)
InFlightIntact ==
  \A k \in (done + 1)..Len(stream) :
    staging[stream[k].buf][stream[k].off] = files[stream[k].file].start_offset + stream[k].at

(* The asserts of both functions, and what they leave out: the buffer position and
   the dump position stay in step, a buffer is exactly used up when it is flipped,
   and the size_t subtraction that sizes the refill does not wrap. *)
AssertsHold ==
  /\ pc = "copy" /\ left > 0 => buf_offset = offset - src_offset
  /\ pc = "flip" => /\ buf_offset = STAGING_BUF_SIZE
                    /\ src_offset + STAGING_BUF_SIZE <= current_offset

(* A restore ends: no wait on the event or the stream is for ever. *)
Terminates == <>(pc \in {"done", "exit"})

-----------------------------------------------------------------------------
(***************************************************************************)
(* The inductive invariant behind the theorems of RestoreStagingProofs.    *)
(* The units of the stream are numbered in the order of the dump: unit k   *)
(* carries the dump's unit FS_HEADER + k - 1.  Those up to Base came from  *)
(* the buffers before the current one, and of them all but the last        *)
(* STAGING_BUF_SIZE are done.                                              *)
(***************************************************************************)
Base == src_offset - FS_HEADER

Idle == /\ left = 0 /\ offset = 0 /\ src_offset = 0 /\ buf_offset = 0 /\ current_buf = 0
        /\ stream = << >> /\ done = 0 /\ event = 0

Mapped(n) == \A b \in 1..n : \A o \in 0..(files[b].size - 1) : dev[b][o] # Unmapped

(* What the two buffers hold, and which of their units the stream reads. *)
PipeInv ==
  /\ src_offset >= FS_HEADER
  /\ Base = 0 \/ Base >= STAGING_BUF_SIZE
  /\ Len(stream) = Base + buf_offset
  /\ event = Base /\ done >= Base - STAGING_BUF_SIZE
  /\ \A k \in 1..Len(stream) :
       /\ k > Base => stream[k].buf = Cur(current_buf) /\ stream[k].off = k - 1 - Base
       /\ k <= Base /\ k > Base - STAGING_BUF_SIZE =>
            /\ stream[k].buf = Cur(current_buf + 1)
            /\ stream[k].off = k - 1 - Base + STAGING_BUF_SIZE
  /\ \A x \in 0..(STAGING_BUF_SIZE - 1) :
       /\ src_offset + x < current_offset => staging[Cur(current_buf)][x] = src_offset + x
       /\ Base > 0 => staging[Cur(current_buf + 1)][x] = src_offset - STAGING_BUF_SIZE + x

(* Where each unit of the stream goes, and what has arrived. *)
TableInv ==
  /\ offset = FS_HEADER + Len(stream)
  /\ offset >= files[i].start_offset
  /\ offset + left = files[i].start_offset + files[i].size
  /\ \A k \in 1..Len(stream) :
       /\ stream[k].file \in 1..Len(files)
       /\ stream[k].at < files[stream[k].file].size
       /\ files[stream[k].file].start_offset + stream[k].at = FS_HEADER + k - 1
       /\ k <= done => dev[stream[k].file][stream[k].at] = FS_HEADER + k - 1

IndInv ==
  /\ TypeOK /\ files \in Tables /\ InFlightIntact
  /\ pc = "remap" => Idle /\ Mapped(i)
  /\ pc \in {"copy", "flip", "done"} => /\ Mapped(Len(files))
                                        /\ i = 0 => Idle
                                        /\ i > 0 => PipeInv /\ TableInv
  /\ pc = "copy" => buf_offset < STAGING_BUF_SIZE
  /\ pc = "flip" => buf_offset = STAGING_BUF_SIZE
  /\ pc = "done" => i = Len(files) /\ left = 0 /\ done = Len(stream)
=============================================================================
