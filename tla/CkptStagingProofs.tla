------------------------- MODULE CkptStagingProofs -------------------------
(***************************************************************************)
(* For every staging-buffer, granule and dump left and every list of       *)
(* blocks: ckpt() and ckpt_selective() release a block only after its      *)
(* content is in the dump, never overwrite undrained staging data, and     *)
(* satisfy their asserts.                                                  *)
(***************************************************************************)
EXTENDS CkptStaging, StagingProofs, SequenceTheorems

(* The initial states satisfy the inductive invariant. *)
LEMMA InitInd == Init => IndInv
<1> SUFFICES ASSUME Init PROVE IndInv
  OBVIOUS
<1>1. blocks \in Seq(Nat)
  BY BlockListsAssumption DEF Init
<1>2. TypeOK
  BY <1>1, SizesAssumption, CapacityAssumption DEF Init, TypeOK, Content, Stale, Lost
<1> QED
  BY <1>2 DEF Init, IndInv, DumpedBeforeRelease

(* What the type invariant says of the numbers, and of an enqueued copy. *)
Nums ==
  /\ i \in Nat /\ d \in Nat /\ left \in Nat /\ current_buf \in Nat
  /\ buf_offset \in Nat /\ buf_offset <= STAGING_BUF_SIZE
  /\ des_offset \in Nat /\ current_offset \in Nat
  /\ done \in Nat /\ event \in Nat /\ released \in Nat
  /\ Len(stream) \in Nat /\ Len(files) \in Nat /\ Len(blocks) \in Nat
  /\ done <= Len(stream) /\ event <= Len(stream) /\ released <= Len(blocks)
  /\ STAGING_BUF_SIZE \in Nat /\ STAGING_BUF_SIZE > 0
  /\ FS_HEADER \in Nat /\ SHM_SIZE \in Nat /\ MAX_FILE_NUM \in Nat

OpOK(op) ==
  /\ op \in Op /\ op.src \in Nat \X Nat /\ op.src[1] \in Nat /\ op.src \in Content
  /\ op.buf \in 0..1 /\ op.off \in 0..(STAGING_BUF_SIZE - 1)

LEMMA Numbers == TypeOK => Nums
BY SizesAssumption, CapacityAssumption DEF TypeOK, Nums

LEMMA OpType == TypeOK => \A k \in 1..Len(stream) : OpOK(stream[k])
<1> SUFFICES ASSUME TypeOK, NEW k \in 1..Len(stream) PROVE OpOK(stream[k])
  OBVIOUS
<1>1. stream \in Seq(Op)
  BY DEF TypeOK
<1>2. stream[k] \in Op
  BY <1>1
<1>3. stream[k].src \in Nat \X Nat
  BY <1>2 DEF Op
<1> QED
  BY <1>2, <1>3 DEF Op, OpOK, Content

LEMMA EntryType ==
  TypeOK => \A b \in 1..Len(files) : files[b].start_offset \in Nat /\ files[b].size \in Nat
<1> SUFFICES ASSUME TypeOK, NEW b \in 1..Len(files)
             PROVE  files[b].start_offset \in Nat /\ files[b].size \in Nat
  OBVIOUS
<1>1. files \in Seq([start_offset : Nat, size : Nat])
  BY DEF TypeOK
<1>2. files[b] \in [start_offset : Nat, size : Nat]
  BY <1>1, ElementOfSeq, Zenon
<1> QED
  BY <1>2

(* The copy engine fills a unit nobody else uses, and touches neither the
   dump nor the handler's state. *)
LEMMA DmaInd == IndInv /\ Dma => IndInv'
<1> SUFFICES ASSUME IndInv, Dma PROVE IndInv'
  OBVIOUS
<1>1. /\ UNCHANGED host /\ UNCHANGED stream
      /\ done' = done + 1 /\ done < Len(stream)
  BY DEF Dma
<1>2. TypeOK /\ Nums
  BY Numbers DEF IndInv
<1>3. done + 1 \in 1..Len(stream)
  BY <1>1, <1>2 DEF Nums
<1>4. OpOK(stream[done + 1])
  BY <1>2, <1>3, OpType
<1>5. staging' = [staging EXCEPT ![stream[done + 1].buf][stream[done + 1].off] =
                    IF stream[done + 1].src[1] <= released THEN Lost ELSE stream[done + 1].src]
  BY DEF Dma
<1>6. staging \in [0..1 -> [0..(STAGING_BUF_SIZE - 1) -> Content]]
  BY <1>2 DEF TypeOK
<1>7. TypeOK'
  <2>1. (IF stream[done + 1].src[1] <= released THEN Lost ELSE stream[done + 1].src) \in Content
    BY <1>4 DEF Content, OpOK
  <2>2. staging' \in [0..1 -> [0..(STAGING_BUF_SIZE - 1) -> Content]]
    BY <2>1, <1>4, <1>5, <1>6 DEF OpOK
  <2>3. done' \in 0..Len(stream)'
    BY <1>1, <1>2 DEF Nums
  <2> QED
    BY <1>1, <1>2, <2>2, <2>3 DEF TypeOK, host
<1>8. DumpedBeforeRelease'
  BY Zenon, <1>1 DEF IndInv, DumpedBeforeRelease, host, Unit
<1>9. ASSUME pc \in {"copy", "flip", "tail"} PROVE (PipeInv /\ TableInv)'
  <2>1. PipeInv /\ TableInv /\ released = 0
    BY <1>9 DEF IndInv
  <2>2. TableInv'
    BY SMTT(30), <2>1, <1>1 DEF TableInv, host, Position
  <2>3. stream[done + 1].src[1] > 0
    BY <2>1, <1>3 DEF PipeInv
  <2>4. staging' = [staging EXCEPT ![stream[done + 1].buf][stream[done + 1].off] = stream[done + 1].src]
    <3>1. ~(stream[done + 1].src[1] <= released)
      BY <2>1, <2>3, <1>4 DEF OpOK
    <3> QED
      BY <3>1, <1>5
  <2>5. ASSUME NEW k \in 1..Len(stream), k > Drained, k <= done + 1
        PROVE  staging'[stream[k].buf][stream[k].off] = stream[k].src
    <3>1. CASE k = done + 1
      BY Zenon, <3>1, <2>4, <1>4, <1>6 DEF OpOK
    <3>2. CASE k <= done
      <4>1. staging[stream[k].buf][stream[k].off] = stream[k].src
        BY <2>1, <2>5, <3>2 DEF PipeInv
      <4>2. stream[k].buf # stream[done + 1].buf \/ stream[k].off # stream[done + 1].off
        <5>1. \A x \in {k, done + 1} :
                /\ x > Drained /\ x <= Ahead =>
                     stream[x].buf = Cur(current_buf - 1) /\ stream[x].off = x - 1 - Drained
                /\ x > Ahead =>
                     stream[x].buf = Cur(current_buf) /\ stream[x].off = x - 1 - Ahead
          BY <2>1, <1>3 DEF PipeInv
        <5>2. Cur(current_buf - 1) # Cur(current_buf)
          BY <1>2 DEF Cur, Nums
        <5>3. Drained \in Int /\ Ahead \in Int /\ k < done + 1
          BY <1>2, <3>2 DEF Ahead, Behind, Drained, Nums
        <5> QED
          BY SMTT(30), <5>1, <5>2, <5>3, <2>5, <1>2 DEF Nums
      <4>3. OpOK(stream[k])
        BY <1>2, OpType
      <4> QED
        BY <4>1, <4>2, <4>3, <2>4, <1>4, <1>6 DEF OpOK
    <3> QED
      BY <3>1, <3>2, <2>5, <1>2 DEF Nums
  <2>6. PipeInv'
    <3>1. UNCHANGED <<Drained, Behind, Ahead>>
      BY <1>1 DEF host, Drained, Behind, Ahead
    <3>2. done' >= Drained
      BY <2>1, <1>1, <1>2 DEF PipeInv, Nums, Drained
    <3> QED
      BY <2>1, <2>5, <3>1, <3>2, <1>1 DEF PipeInv, host
  <2> QED
    BY <2>2, <2>6
<1>10. pc \in {"release", "done"} /\ TableInv => TableInv'
  BY <1>1 DEF TableInv, host, Position
<1> QED
  BY <1>1, <1>7, <1>8, <1>9, <1>10 DEF IndInv, host

(* As long as nothing is released there is nothing to show about it. *)
LEMMA NothingReleased == released' = 0 => DumpedBeforeRelease'
BY DEF DumpedBeforeRelease

LEMMA StartInd == IndInv /\ Start => IndInv'
<1> SUFFICES ASSUME IndInv, Start PROVE IndInv'
  OBVIOUS
<1>1. TypeOK /\ Nums
  BY Numbers DEF IndInv
<1>2. /\ stream = << >> /\ i = 0 /\ left = 0 /\ current_buf = 0 /\ buf_offset = 0
      /\ des_offset = FS_HEADER /\ released = 0
  BY DEF IndInv, Start
<1>3. /\ files' = << >> /\ current_offset' = FS_HEADER /\ pc' = "copy" /\ event' = 0
      /\ UNCHANGED <<mode, blocks, why, i, d, left, current_buf, buf_offset, des_offset,
                     staging, stream, done, dump, released>>
  BY <1>2 DEF Start
<1>4. TypeOK'
  BY <1>1, <1>2, <1>3 DEF TypeOK, Nums
<1>5. PipeInv'
  BY <1>1, <1>2, <1>3 DEF PipeInv, Ahead, Behind, Drained, Nums
<1>6. TableInv'
  BY <1>1, <1>2, <1>3, CapacityAssumption DEF TableInv, Nums
<1>7. DumpedBeforeRelease'
  BY <1>2, <1>3, NothingReleased
<1> QED
  BY <1>2, <1>3, <1>4, <1>5, <1>6, <1>7 DEF IndInv

(* The new entry starts where the payload ends, so the table stays contiguous
   and no unit of the new block is in the stream yet. *)
LEMMA NextFileInd == IndInv /\ NextFile => IndInv'
<1> SUFFICES ASSUME IndInv, NextFile PROVE IndInv'
  OBVIOUS
<1> DEFINE n == DumpSize(mode, blocks[i + 1])
           entry == [start_offset |-> current_offset, size |-> n]
<1>1. TypeOK /\ Nums
  BY Numbers DEF IndInv
<1>2. /\ pc = "copy" /\ left = 0 /\ i < Len(blocks) /\ released = 0
      /\ PipeInv /\ TableInv
  BY DEF IndInv, NextFile
<1>3. n \in Nat
  <2>1. blocks \in Seq(Nat) /\ i + 1 \in 1..Len(blocks)
    BY <1>1, <1>2 DEF TypeOK, Nums
  <2>2. blocks[i + 1] \in Nat
    BY <2>1
  <2> QED
    BY <2>2, DumpSizeCovers
<1>4. /\ current_offset' = current_offset + n
      /\ i' = i + 1 /\ d' = 0 /\ left' = n
      /\ UNCHANGED <<mode, blocks, current_buf, buf_offset, des_offset, staging,
                     stream, done, event, dump, released>>
      /\ \/ pc' = "exit" /\ why' = "shm" /\ files' = files
         \/ pc' = "exit" /\ why' = "table" /\ files' = Append(files, entry)
         \/ /\ pc' = pc /\ why' = why /\ files' = Append(files, entry)
            /\ ~(current_offset' > SHM_SIZE) /\ ~(Len(files') >= MAX_FILE_NUM)
  BY DEF NextFile, Exit
<1> HIDE DEF n
<1>5. /\ files \in Seq([start_offset : Nat, size : Nat])
      /\ entry \in [start_offset : Nat, size : Nat]
  BY <1>1, <1>3 DEF TypeOK, Nums
<1> HIDE DEF entry
<1>6. /\ Append(files, entry) \in Seq([start_offset : Nat, size : Nat])
      /\ Len(Append(files, entry)) = Len(files) + 1
      /\ \A b \in 1..Len(files) : Append(files, entry)[b] = files[b]
      /\ Append(files, entry)[Len(files) + 1] = entry
  BY <1>5, AppendProperties
<1>7. TypeOK'
  <2>1. files' \in Seq([start_offset : Nat, size : Nat])
    BY <1>4, <1>5, <1>6, Zenon
  <2>2. i' \in Nat /\ d' \in Nat /\ left' \in Nat /\ current_offset' \in Nat
    BY <1>1, <1>3, <1>4 DEF Nums
  <2>3. /\ pc' \in {"start", "copy", "flip", "tail", "release", "done", "exit"}
        /\ why' \in {"none", "cuda", "shm", "table"}
    BY SMTT(30), <1>1, <1>4 DEF TypeOK
  <2> QED
    BY Zenon, <2>1, <2>2, <2>3, <1>1, <1>4 DEF TypeOK
<1>8. DumpedBeforeRelease'
  BY <1>2, <1>4, NothingReleased
<1>9. ASSUME pc' = "copy" PROVE (PipeInv /\ TableInv)'
  <2>1. PipeInv'
    BY <1>2, <1>4, <1>9 DEF PipeInv, Ahead, Behind, Drained
  <2>2. /\ files' = Append(files, entry) /\ current_offset' <= SHM_SIZE
        /\ Len(files') < MAX_FILE_NUM
    <3>1. files' = Append(files, entry) /\ ~(current_offset' > SHM_SIZE) /\ ~(Len(files') >= MAX_FILE_NUM)
      BY <1>4, <1>9
    <3> QED
      BY <3>1, <1>1, <1>3, <1>4, <1>6 DEF Nums
  <2>3. Len(files) = i /\ FS_HEADER + Len(stream) = current_offset
    BY <1>1, <1>2 DEF TableInv, Nums
  <2>4. entry.start_offset = current_offset /\ entry.size = n
    BY DEF entry
  <2>t. files' = Append(files, entry) /\ files'[i + 1] = entry /\ Len(files') = i + 1
    BY <2>2, <2>3, <1>6
  <2>5. /\ Len(files') = i' /\ i' <= Len(blocks) /\ i' < MAX_FILE_NUM
        /\ FS_HEADER + Len(stream) + left' = current_offset'
        /\ files'[i'].start_offset + d' = FS_HEADER + Len(stream)
        /\ files'[i'].size = d' + left'
    BY SMTT(30), <2>t, <2>2, <2>3, <2>4, <1>1, <1>2, <1>3, <1>4 DEF Nums
  <2>6. ASSUME NEW b \in 1..i'
        PROVE  /\ files'[b].size = DumpSize(mode, blocks[b])
               /\ files'[b].start_offset >= FS_HEADER
               /\ files'[b].start_offset + files'[b].size <= current_offset'
               /\ b < i' => files'[b].start_offset + files'[b].size <= files'[i'].start_offset
               /\ \A o \in 0..(files'[b].size - 1) :
                    Position(b, o)' <= Len(stream) => stream[Position(b, o)'].src = Unit(b, o)
    <3>1. CASE b = i'
      <4>1. files'[b] = entry
        BY <3>1, <2>2, <2>3, <1>4, <1>6
      <4>2. \A o \in 0..(files'[b].size - 1) : ~(Position(b, o)' <= Len(stream))
        BY <4>1, <2>3, <2>4, <1>1, <1>3 DEF Position, Nums
      <4>3. files'[b].size = DumpSize(mode, blocks[b])
        BY <4>1, <3>1, <2>4, <1>4, Zenon DEF n
      <4>4. files'[b].start_offset = current_offset /\ current_offset >= FS_HEADER
        BY <4>1, <2>3, <2>4, <1>1 DEF Nums
      <4>n. i' = i + 1 /\ current_offset' = current_offset + n
        BY <1>4
      <4>5. files'[b].start_offset + files'[b].size <= current_offset' /\ ~(b < i')
        <5>1. files'[b].size = n
          BY <4>1, <2>4
        <5>2. current_offset + n <= current_offset' /\ ~(i' < i')
          BY <4>n, <1>1, <1>3 DEF Nums
        <5> QED
          BY <5>1, <5>2, <4>4, <3>1
      <4> QED
        BY <4>2, <4>3, <4>4, <4>5
    <3>2. CASE b # i'
      <4>1. b \in 1..i /\ b \in 1..Len(files)
        BY <3>2, <2>3, <1>1, <1>4 DEF Nums
      <4>2. files'[b] = files[b] /\ files[b].start_offset \in Nat /\ files[b].size \in Nat
        <5>1. files'[b] = files[b]
          BY <4>1, <2>2, <1>6, Zenon
        <5> QED
          BY <5>1, <4>1, <1>1, EntryType, Zenon
      <4>3. /\ files[b].size = DumpSize(mode, blocks[b])
            /\ files[b].start_offset >= FS_HEADER
            /\ files[b].start_offset + files[b].size <= current_offset
            /\ \A o \in 0..(files[b].size - 1) :
                 Position(b, o) <= Len(stream) => stream[Position(b, o)].src = Unit(b, o)
        BY <4>1, <1>2 DEF TableInv
      <4>4. files'[i'].start_offset = current_offset
        BY <2>2, <2>3, <2>4, <1>4, <1>6
      <4>5. \A o : Position(b, o)' = Position(b, o)
        BY <4>2 DEF Position
      <4>6. /\ files[b].start_offset + files[b].size <= current_offset'
            /\ files[b].start_offset + files[b].size <= files'[i'].start_offset
        <5>1. current_offset' = current_offset + n /\ current_offset \in Nat
          BY <1>1, <1>4 DEF Nums
        <5> QED
          BY <5>1, <4>2, <4>3, <4>4, <1>3
      <4> QED
        BY <4>2, <4>3, <4>5, <4>6, Zenon
    <3> QED
      BY <3>1, <3>2
  <2>7. TableInv'
    <3>1. ~(i' = 0)
      BY <1>1, <1>4 DEF Nums
    <3>2. UNCHANGED <<mode, blocks, stream>>
      BY <1>4
    <3> QED
      BY <2>2, <2>5, <2>6, <3>1, <3>2, Zenon DEF TableInv
  <2> QED
    BY <2>1, <2>7
<1> QED
  BY <1>2, <1>4, <1>7, <1>8, <1>9 DEF IndInv

(* The units of the new copy continue the payload in the current buffer. *)
LEMMA CopyChunkInd == IndInv /\ CopyChunk => IndInv'
<1> SUFFICES ASSUME IndInv, CopyChunk PROVE IndInv'
  OBVIOUS
<1> DEFINE n == CopySize(mode, left, buf_offset, d)
           op(k) == [src |-> Unit(i, d + k - 1), buf |-> Cur(current_buf),
                     off |-> buf_offset + k - 1]
           new == [k \in 1..n |-> op(k)]
<1>1. TypeOK /\ Nums
  BY Numbers DEF IndInv
<1>2. pc = "copy" /\ left > 0 /\ released = 0 /\ PipeInv /\ TableInv
  BY DEF IndInv, CopyChunk
<1>3. n \in Nat /\ n <= left /\ n <= STAGING_BUF_SIZE - buf_offset
  BY <1>1, CopySizeFits DEF Nums
<1>4. /\ stream' = stream \o new /\ buf_offset' = buf_offset + n
      /\ d' = d + n /\ left' = left - n
      /\ pc' = IF buf_offset' >= STAGING_BUF_SIZE THEN "flip" ELSE "copy"
      /\ UNCHANGED <<mode, blocks, why, i, current_buf, des_offset, files, current_offset,
                     staging, done, event, dump, released>>
  BY DEF CopyChunk
<1> HIDE DEF n
<1>5. \A k \in 1..n : op(k) \in Op
  BY <1>1, <1>3 DEF Nums, Op, Unit, Cur
<1>6. new \in Seq(Op) /\ Len(new) = n /\ \A k \in 1..n : new[k] = op(k)
  BY <1>3, <1>5
<1> HIDE DEF new
<1>7. /\ stream' \in Seq(Op) /\ Len(stream') = Len(stream) + n
      /\ \A k \in 1..Len(stream) : stream'[k] = stream[k]
      /\ \A k \in (Len(stream) + 1)..(Len(stream) + n) : stream'[k] = op(k - Len(stream))
  <2>1. stream \in Seq(Op)
    BY <1>1 DEF TypeOK
  <2>2. /\ stream' \in Seq(Op) /\ Len(stream') = Len(stream) + n
        /\ \A k \in 1..(Len(stream) + n) :
             stream'[k] = IF k <= Len(stream) THEN stream[k] ELSE new[k - Len(stream)]
    BY <2>1, <1>4, <1>6, ConcatProperties
  <2> HIDE DEF op
  <2>3. \A k \in 1..Len(stream) : stream'[k] = stream[k]
    BY <2>2, <1>1, <1>3 DEF Nums
  <2>4. ASSUME NEW k \in (Len(stream) + 1)..(Len(stream) + n)
        PROVE  stream'[k] = op(k - Len(stream))
    <3>1. /\ k \in 1..(Len(stream) + n) /\ ~(k <= Len(stream))
          /\ k - Len(stream) \in 1..n
      BY <1>1, <1>3 DEF Nums
    <3> QED
      BY <3>1, <2>2, <1>6, Zenon
  <2> QED
    BY <2>2, <2>3, <2>4
<1>8. ASSUME NEW k \in (Len(stream) + 1)..(Len(stream) + n)
      PROVE  /\ stream'[k].src = <<i, d + k - Len(stream) - 1>>
             /\ stream'[k].buf = Cur(current_buf)
             /\ stream'[k].off = buf_offset + k - Len(stream) - 1
  <2>1. stream'[k] = op(k - Len(stream))
    BY <1>7
  <2> QED
    BY <2>1, <1>1 DEF Unit, Nums
<1> HIDE DEF op
<1>s. /\ i \in Nat /\ d \in Nat /\ left \in Nat /\ buf_offset \in Nat
      /\ des_offset \in Nat /\ current_offset \in Nat /\ Len(stream) \in Nat
      /\ done \in Nat /\ done <= Len(stream) /\ STAGING_BUF_SIZE \in Nat /\ FS_HEADER \in Nat
      /\ n \in Nat /\ n <= left /\ n <= STAGING_BUF_SIZE - buf_offset
  BY <1>1, <1>3 DEF Nums
<1>t. event \in Nat /\ event <= Len(stream)
  BY <1>1 DEF Nums
<1>p. /\ Len(stream') = Len(stream) + n /\ buf_offset' = buf_offset + n
      /\ d' = d + n /\ left' = left - n
  BY <1>4, <1>7
<1>9. TypeOK'
  <2>1. /\ d' \in Nat /\ left' \in Nat /\ buf_offset' \in 0..STAGING_BUF_SIZE
        /\ done \in 0..Len(stream') /\ event \in 0..Len(stream')
    BY <1>s, <1>p, <1>t
  <2>2. pc' \in {"start", "copy", "flip", "tail", "release", "done", "exit"}
    BY <1>4
  <2> QED
    BY SMTT(30), <2>1, <2>2, <1>1, <1>4, <1>7 DEF TypeOK
<1>10. DumpedBeforeRelease'
  BY <1>2, <1>4, NothingReleased
<1>11. pc' \in {"copy", "flip"} /\ released' = 0
  BY <1>2, <1>4
<1>12. PipeInv'
  <2>1. Ahead' = Ahead /\ Drained' = Drained /\ Ahead \in Int /\ Drained \in Int
    BY <1>1, <1>2, <1>4, <1>11 DEF Ahead, Behind, Drained, Nums
  <2>2. /\ des_offset >= FS_HEADER /\ Len(stream) = Ahead + buf_offset
        /\ event >= Ahead /\ done >= Drained
    BY <1>2 DEF PipeInv
  <2>3. /\ Len(stream') = Ahead + buf_offset'
        /\ pc' = "copy" => buf_offset' < STAGING_BUF_SIZE
        /\ pc' = "flip" => buf_offset' = STAGING_BUF_SIZE
    BY <2>1, <2>2, <1>s, <1>p, <1>4
  <2>4. ASSUME NEW k \in 1..Len(stream')
        PROVE  /\ stream'[k].src[1] > 0
               /\ k <= Drained => dump[FS_HEADER + k - 1] = stream'[k].src
               /\ k > Drained /\ k <= Ahead =>
                    stream'[k].buf = Cur(current_buf - 1) /\ stream'[k].off = k - 1 - Drained
               /\ k > Ahead =>
                    stream'[k].buf = Cur(current_buf) /\ stream'[k].off = k - 1 - Ahead
               /\ k > Drained /\ k <= done =>
                    staging[stream'[k].buf][stream'[k].off] = stream'[k].src
    <3>1. CASE k <= Len(stream)
      <4>1. k \in 1..Len(stream) /\ stream'[k] = stream[k]
        BY <3>1, <1>1, <1>7 DEF Nums
      <4> QED
        BY <4>1, <1>2, Zenon DEF PipeInv
    <3>2. CASE ~(k <= Len(stream))
      <4>1. k \in (Len(stream) + 1)..(Len(stream) + n)
        BY <3>2, <1>s, <1>p
      <4>2. ~(k <= Ahead) /\ ~(k <= done)  /\ ~(k <= Drained)
        BY <4>1, <2>1, <2>2, <1>1, <1>3 DEF Nums
      <4>3. stream'[k].off = k - 1 - Ahead
        <5>1. stream'[k].off = buf_offset + k - Len(stream) - 1
          BY <4>1, <1>8
        <5>2. Len(stream) = Ahead + buf_offset
          BY <2>2
        <5>3. buf_offset + k - Len(stream) - 1 = k - 1 - Ahead
          BY <5>2, <4>1, <2>1, <1>s
        <5> QED
          BY <5>1, <5>3, Zenon
      <4>4. i > 0
        BY <1>1, <1>2 DEF TableInv, Nums
      <4> QED
        BY <4>1, <4>2, <4>3, <4>4, <1>8
    <3> QED
      BY <3>1, <3>2
  <2> QED
    BY Zenon, <2>1, <2>2, <2>3, <2>4, <1>4, <1>11 DEF PipeInv
<1>13. TableInv'
  <2>1. /\ Len(files) = i /\ i <= Len(blocks) /\ i < MAX_FILE_NUM
        /\ current_offset <= SHM_SIZE /\ i > 0 /\ i \in 1..i
    BY <1>1, <1>2 DEF TableInv, Nums
  <2>c. FS_HEADER + Len(stream) + left = current_offset /\ files[i].size = d + left
    BY <1>2, <2>1 DEF TableInv
  <2>e. files[i].start_offset + d = FS_HEADER + Len(stream)
    BY <1>2, <2>1 DEF TableInv
  <2>2. files[i].start_offset \in Nat
    BY <2>1, <1>1, EntryType
  <2>3. /\ FS_HEADER + Len(stream') + left' = current_offset
        /\ files[i].start_offset + d' = FS_HEADER + Len(stream')
        /\ files[i].size = d' + left'
    <3>1. d + left = d' + left' /\ Len(stream) + left = Len(stream') + left'
      BY <1>s, <1>p
    <3>2. FS_HEADER + Len(stream') + left' = current_offset
      BY <3>1, <2>c, <1>s, <1>p
    <3>3. files[i].start_offset + d' = FS_HEADER + Len(stream')
      <4>1. PICK x \in Nat : x = files[i].start_offset
        BY <2>2
      <4>2. x + d = FS_HEADER + Len(stream)
        BY <4>1, <2>e
      <4>3. x + d' = FS_HEADER + Len(stream')
        BY <4>2, <1>s, <1>p
      <4> QED
        BY <4>1, <4>3
    <3> QED
      BY <3>1, <3>2, <3>3, <2>c, Zenon
  <2>4. ASSUME NEW b \in 1..i, NEW o \in Nat, o < files[b].size, Position(b, o) <= Len(stream')
        PROVE  stream'[Position(b, o)].src = Unit(b, o)
    <3>1. /\ files[b].start_offset \in Nat /\ files[b].size \in Nat
      BY <2>1, <1>1, EntryType
    <3>2. /\ files[b].start_offset >= FS_HEADER
          /\ b < i => files[b].start_offset + files[b].size <= files[i].start_offset
      BY <1>2 DEF TableInv
    <3>u. Position(b, o) <= Len(stream) => stream[Position(b, o)].src = Unit(b, o)
      <4>1. o \in 0..(files[b].size - 1)
        BY <3>1, <2>4
      <4> QED
        BY <4>1, <1>2 DEF TableInv
    <3>s. o \in Nat /\ o < files[b].size /\ b \in Nat
      BY <2>4, <1>s
    <3>3. Position(b, o) = files[b].start_offset - FS_HEADER + o + 1
      BY DEF Position
    <3>4. Position(b, o) \in Int /\ Position(b, o) > 0
      <4>1. PICK x \in Nat : x = files[b].start_offset
        BY <3>1
      <4>2. x >= FS_HEADER /\ Position(b, o) = x - FS_HEADER + o + 1
        BY <4>1, <3>2, <3>3
      <4> QED
        BY <4>2, <3>s, <1>s
    <3>5. CASE Position(b, o) <= Len(stream)
      <4>1. Position(b, o) \in 1..Len(stream)
        BY <3>4, <3>5, <1>1 DEF Nums
      <4> QED
        BY <4>1, <3>u, <3>5, <1>7
    <3>6. CASE ~(Position(b, o) <= Len(stream))
      <4>1. b = i
        <5>1. files[i].start_offset <= FS_HEADER + Len(stream)
          BY <2>e, <2>2, <1>s
        <5>2. b < i => Position(b, o) <= Len(stream)
          <6>1. PICK x \in Nat, y \in Nat, z \in Nat :
                  x = files[b].start_offset /\ y = files[b].size /\ z = files[i].start_offset
            BY <3>1, <2>2
          <6>2. /\ b < i => x + y <= z
                /\ Position(b, o) = x - FS_HEADER + o + 1 /\ o < y
            BY <6>1, <3>2, <3>3, <3>s
          <6>3. z <= FS_HEADER + Len(stream)
            BY <6>1, <5>1
          <6> QED
            BY <6>2, <6>3, <3>4, <1>s
        <5> QED
          BY <5>2, <3>6, <3>s, <1>s
      <4>2. Position(b, o) \in (Len(stream) + 1)..(Len(stream) + n)
        BY <3>4, <3>6, <2>4, <1>s, <1>p
      <4>3. d + Position(b, o) - Len(stream) - 1 = o
        <5>1. Position(b, o) = files[i].start_offset - FS_HEADER + o + 1 /\ o \in Nat
          BY <4>1, <3>3, <3>s, Zenon
        <5> QED
          <6>1. PICK x \in Nat : x = files[i].start_offset
            BY <2>2
          <6>2. Position(b, o) = x - FS_HEADER + o + 1 /\ x + d = FS_HEADER + Len(stream)
            BY <6>1, <5>1, <2>e
          <6> QED
            BY <6>2, <3>4, <1>s
      <4> QED
        BY <4>1, <4>2, <4>3, <1>8 DEF Unit
    <3> QED
      BY <3>5, <3>6
  <2>5. ASSUME NEW b \in 1..i
        PROVE  /\ files[b].size = DumpSize(mode, blocks[b])
               /\ files[b].start_offset >= FS_HEADER
               /\ files[b].start_offset + files[b].size <= current_offset
               /\ b < i => files[b].start_offset + files[b].size <= files[i].start_offset
    BY <1>2 DEF TableInv
  <2>6. \A b, o : Position(b, o)' = Position(b, o)
    BY <1>4 DEF Position
  <2>7. ~(i = 0)
    BY <2>1, <1>1 DEF Nums
  <2>8. ASSUME NEW b \in 1..i, NEW o \in 0..(files[b].size - 1), Position(b, o) <= Len(stream')
        PROVE  stream'[Position(b, o)].src = Unit(b, o)
    <3>1. files[b].size \in Nat
      BY <2>1, <1>1, EntryType
    <3>2. o \in Nat /\ o < files[b].size
      BY <3>1
    <3> QED
      BY <3>2, <2>4, <2>8
  <2> QED
    BY <2>1, <2>3, <2>5, <2>6, <2>7, <2>8, <1>4, Zenon DEF TableInv
<1> QED
  BY <1>9, <1>10, <1>11, <1>12, <1>13 DEF IndInv

(* If buffer buf holds the n units that follow the drained ones, and they fit
   in the dump, then draining it puts them in place and disturbs nothing. *)
DrainReady(buf, n) ==
  /\ buf \in 0..1 /\ n \in Nat /\ n <= STAGING_BUF_SIZE
  /\ des_offset >= FS_HEADER /\ des_offset + n <= SHM_SIZE
  /\ \A k \in 1..Len(stream) :
       /\ k <= Drained => dump[FS_HEADER + k - 1] = stream[k].src
       /\ k > Drained /\ k <= Drained + n => staging[buf][k - 1 - Drained] = stream[k].src

DrainedTo(n) == \A k \in 1..Len(stream) :
                  k <= Drained + n => dump'[FS_HEADER + k - 1] = stream[k].src

LEMMA DrainMoves ==
  TypeOK => \A buf, n : DrainReady(buf, n) /\ Drain(buf, n) =>
              dump' \in [0..(SHM_SIZE - 1) -> Content] /\ DrainedTo(n)
<1> SUFFICES ASSUME TypeOK, NEW buf, NEW n, DrainReady(buf, n), Drain(buf, n)
             PROVE  dump' \in [0..(SHM_SIZE - 1) -> Content] /\ DrainedTo(n)
  OBVIOUS
<1>1. /\ buf \in 0..1 /\ n \in Nat /\ n <= STAGING_BUF_SIZE
      /\ des_offset >= FS_HEADER /\ des_offset + n <= SHM_SIZE
  BY DEF DrainReady
<1>r. \A k \in 1..Len(stream) :
        /\ k <= Drained => dump[FS_HEADER + k - 1] = stream[k].src
        /\ k > Drained /\ k <= Drained + n => staging[buf][k - 1 - Drained] = stream[k].src
  BY Zenon DEF DrainReady
<1>2. /\ des_offset \in Nat /\ FS_HEADER \in Nat /\ SHM_SIZE \in Nat
      /\ STAGING_BUF_SIZE \in Nat /\ Len(stream) \in Nat
  BY Numbers DEF Nums
<1>3. /\ dump \in [0..(SHM_SIZE - 1) -> Content]
      /\ staging[buf] \in [0..(STAGING_BUF_SIZE - 1) -> Content]
  BY SMTT(30), <1>1 DEF TypeOK
<1>4. dump' = [p \in 0..(SHM_SIZE - 1) |->
                 IF p - des_offset \in 0..(n - 1) THEN staging[buf][p - des_offset] ELSE dump[p]]
  <2>1. Copied(n) = 0..(n - 1) /\ DOMAIN dump = 0..(SHM_SIZE - 1)
    BY <1>1, <1>3, CopiedAll
  <2> QED
    BY <2>1, Zenon DEF Drain
<1>5. \A p \in 0..(SHM_SIZE - 1) :
        (IF p - des_offset \in 0..(n - 1) THEN staging[buf][p - des_offset] ELSE dump[p]) \in Content
  BY SMTT(30), <1>1, <1>2, <1>3
<1>6. dump' \in [0..(SHM_SIZE - 1) -> Content]
  BY <1>4, <1>5, Zenon
<1>p. \A p \in 0..(SHM_SIZE - 1) :
        /\ p - des_offset \in 0..(n - 1) => dump'[p] = staging[buf][p - des_offset]
        /\ ~(p - des_offset \in 0..(n - 1)) => dump'[p] = dump[p]
  BY <1>4
<1>7. ASSUME NEW k \in 1..Len(stream), k <= Drained + n
      PROVE  dump'[FS_HEADER + k - 1] = stream[k].src
  <2>1. Drained = des_offset - FS_HEADER
    BY DEF Drained
  <2>2. Drained \in Nat /\ k \in Nat
    BY <2>1, <1>1, <1>2
  <2>3. /\ FS_HEADER + k - 1 \in 0..(SHM_SIZE - 1)
        /\ FS_HEADER + k - 1 - des_offset = k - 1 - Drained
        /\ FS_HEADER + k - 1 - des_offset \in 0..(n - 1) <=> k > Drained
    BY <2>1, <2>2, <1>1, <1>2, <1>7
  <2>4. CASE k > Drained
    <3>1. dump'[FS_HEADER + k - 1] = staging[buf][FS_HEADER + k - 1 - des_offset]
      <4>1. PICK q \in 0..(SHM_SIZE - 1) : q = FS_HEADER + k - 1
        BY <2>3
      <4>2. q - des_offset \in 0..(n - 1)
        BY <4>1, <2>1, <2>2, <2>4, <1>1, <1>2, <1>7
      <4>3. dump'[q] = staging[buf][q - des_offset]
        BY <4>2, <1>p, Zenon
      <4> QED
        BY <4>1, <4>3, <2>2, <1>2
    <3>2. staging[buf][k - 1 - Drained] = stream[k].src
      BY <2>4, <1>7, <1>r, Zenon
    <3> QED
      BY <3>1, <3>2, <2>3
  <2>5. CASE ~(k > Drained)
    <3>1. dump'[FS_HEADER + k - 1] = dump[FS_HEADER + k - 1]
      <4>1. PICK q \in 0..(SHM_SIZE - 1) : q = FS_HEADER + k - 1
        BY <2>3
      <4>2. ~(q - des_offset \in 0..(n - 1))
        BY <4>1, <2>1, <2>2, <2>5, <1>1, <1>2, <1>7
      <4>3. dump'[q] = dump[q]
        BY <4>2, <1>p, Zenon
      <4> QED
        BY <4>1, <4>3
    <3>2. k <= Drained
      BY <2>2, <2>5
    <3> QED
      BY <3>1, <3>2, <1>r, Zenon
  <2> QED
    BY <2>4, <2>5
<1> QED
  BY <1>6, <1>7 DEF DrainedTo

(* Once the event has passed, the buffer behind the current one is ready. *)
LEMMA BehindReady ==
  TypeOK /\ PipeInv /\ TableInv /\ pc \in {"copy", "flip"} /\ current_buf > 0 /\ done >= event
    => DrainReady(Cur(current_buf - 1), STAGING_BUF_SIZE)
<1> SUFFICES ASSUME TypeOK, PipeInv, TableInv, pc \in {"copy", "flip"}, current_buf > 0, done >= event
             PROVE  DrainReady(Cur(current_buf - 1), STAGING_BUF_SIZE)
  OBVIOUS
<1>1. TypeOK /\ Nums
  BY Numbers
<1>2. Drained = des_offset - FS_HEADER /\ Ahead = Drained + STAGING_BUF_SIZE
  BY DEF Drained, Ahead, Behind
<1>3. /\ des_offset >= FS_HEADER /\ Len(stream) = Ahead + buf_offset /\ event >= Ahead
      /\ FS_HEADER + Len(stream) + left = current_offset /\ current_offset <= SHM_SIZE
  BY DEF PipeInv, TableInv
<1>4. Drained \in Nat /\ Ahead \in Nat /\ done >= Ahead
  BY <1>1, <1>2, <1>3 DEF Nums
<1>5. Cur(current_buf - 1) \in 0..1
  BY <1>1 DEF Nums, Cur
<1>6. des_offset + STAGING_BUF_SIZE <= SHM_SIZE
  BY <1>1, <1>2, <1>3, <1>4 DEF Nums
<1>7. ASSUME NEW k \in 1..Len(stream), k > Drained, k <= Drained + STAGING_BUF_SIZE
      PROVE  staging[Cur(current_buf - 1)][k - 1 - Drained] = stream[k].src
  <2>1. k <= Ahead /\ k <= done
    BY <1>1, <1>2, <1>4, <1>7 DEF Nums
  <2> QED
    BY <2>1, <1>7, Zenon DEF PipeInv
<1>8. \A k \in 1..Len(stream) : k <= Drained => dump[FS_HEADER + k - 1] = stream[k].src
  BY DEF PipeInv
<1>9. STAGING_BUF_SIZE \in Nat /\ STAGING_BUF_SIZE <= STAGING_BUF_SIZE
  BY <1>1 DEF Nums
<1> QED
  BY <1>3, <1>5, <1>6, <1>7, <1>8, <1>9, Zenon DEF DrainReady

(* DrainPrevious leaves everything behind the current buffer in the dump. *)
LEMMA PreviousDrained ==
  TypeOK /\ PipeInv /\ TableInv /\ pc \in {"copy", "flip"} /\ DrainPrevious =>
    /\ dump' \in [0..(SHM_SIZE - 1) -> Content]
    /\ des_offset' = FS_HEADER + Ahead /\ done >= Ahead
    /\ \A k \in 1..Len(stream) : k <= Ahead => dump'[FS_HEADER + k - 1] = stream[k].src
<1> SUFFICES ASSUME TypeOK, PipeInv, TableInv, pc \in {"copy", "flip"}, DrainPrevious
             PROVE  /\ dump' \in [0..(SHM_SIZE - 1) -> Content]
                    /\ des_offset' = FS_HEADER + Ahead /\ done >= Ahead
                    /\ \A k \in 1..Len(stream) :
                         k <= Ahead => dump'[FS_HEADER + k - 1] = stream[k].src
  OBVIOUS
<1>1. TypeOK /\ Nums
  BY Numbers
<1>2. Drained = des_offset - FS_HEADER /\ Drained \in Int /\ Ahead \in Int
  BY <1>1 DEF Drained, Ahead, Behind, Nums
<1>3. CASE current_buf > 0
  <2>1. Ahead = Drained + STAGING_BUF_SIZE
    BY <1>3 DEF Ahead, Behind
  <2>2. /\ done >= event /\ Drain(Cur(current_buf - 1), STAGING_BUF_SIZE)
        /\ des_offset' = des_offset + STAGING_BUF_SIZE
    BY <1>3 DEF DrainPrevious
  <2>3. DrainReady(Cur(current_buf - 1), STAGING_BUF_SIZE)
    BY <2>2, <1>3, BehindReady
  <2>4. dump' \in [0..(SHM_SIZE - 1) -> Content] /\ DrainedTo(STAGING_BUF_SIZE)
    BY <2>2, <2>3, DrainMoves
  <2>5. event >= Ahead
    BY DEF PipeInv
  <2>6. des_offset' = FS_HEADER + Ahead /\ done >= Ahead
    BY <2>1, <2>2, <2>5, <1>1, <1>2 DEF Nums
  <2> QED
    BY <2>1, <2>4, <2>6 DEF DrainedTo
<1>4. CASE ~(current_buf > 0)
  <2>1. /\ dump' = dump /\ des_offset' = des_offset /\ Ahead = Drained + 0
        /\ done >= Drained
    BY <1>4 DEF DrainPrevious, Ahead, Behind, PipeInv
  <2>2. Ahead = Drained /\ des_offset' = FS_HEADER + Ahead /\ done >= Ahead
    BY <2>1, <1>1, <1>2 DEF Nums
  <2>3. \A k \in 1..Len(stream) : k <= Ahead => dump[FS_HEADER + k - 1] = stream[k].src
    BY <2>2 DEF PipeInv
  <2> QED
    BY <2>1, <2>2, <2>3, <1>1 DEF TypeOK
<1> QED
  BY <1>3, <1>4

(* TableInv does not mention the buffers. *)
LEMMA TableStays ==
  TableInv /\ UNCHANGED <<mode, blocks, i, d, left, files, current_offset, stream>> => TableInv'
BY DEF TableInv, Position

(* The full buffer joins the payload behind the current one; the one before it,
   if any, is in the dump now. *)
LEMMA FlipInd == IndInv /\ Flip => IndInv'
<1> SUFFICES ASSUME IndInv, Flip PROVE IndInv'
  OBVIOUS
<1>1. TypeOK /\ Nums
  BY Numbers DEF IndInv
<1>2. pc = "flip" /\ PipeInv /\ TableInv /\ released = 0 /\ buf_offset = STAGING_BUF_SIZE
  BY DEF IndInv, Flip, PipeInv
<1>3. /\ buf_offset' = 0 /\ current_buf' = current_buf + 1
      /\ event' = Len(stream) /\ pc' = "copy"
      /\ UNCHANGED <<mode, blocks, why, i, d, left, files, current_offset, staging,
                     stream, done, released>>
  BY DEF Flip
<1>4. DrainPrevious
  BY DEF Flip
<1>6. /\ dump' \in [0..(SHM_SIZE - 1) -> Content]
      /\ des_offset' = FS_HEADER + Ahead /\ done >= Ahead
      /\ \A k \in 1..Len(stream) : k <= Ahead => dump'[FS_HEADER + k - 1] = stream[k].src
  BY <1>1, <1>2, <1>4, PreviousDrained
<1>5. Drained = des_offset - FS_HEADER /\ Drained \in Int /\ Ahead \in Int
  BY <1>1 DEF Drained, Ahead, Behind, Nums
<1>7. des_offset >= FS_HEADER /\ Len(stream) = Ahead + STAGING_BUF_SIZE
  BY <1>2 DEF PipeInv
<1>8. Ahead >= 0
  BY <1>1, <1>5, <1>7 DEF Ahead, Behind, Nums
<1>9. TypeOK'
  <2>1. des_offset' \in Nat /\ current_buf' \in Nat /\ buf_offset' \in 0..STAGING_BUF_SIZE
    BY <1>1, <1>3, <1>5, <1>6, <1>8 DEF Nums
  <2>2. event' \in 0..Len(stream)
    BY <1>1, <1>3 DEF Nums
  <2> QED
    BY <2>1, <2>2, <1>1, <1>3, <1>6 DEF TypeOK
<1>10. DumpedBeforeRelease'
  BY <1>2, <1>3, NothingReleased
<1>11. Drained' = Ahead /\ Ahead' = Ahead + STAGING_BUF_SIZE /\ Cur(current_buf' - 1) = Cur(current_buf)
  <2>1. Drained' = Ahead
    BY <1>1, <1>5, <1>6 DEF Drained, Nums
  <2>2. current_buf' > 0 /\ current_buf' - 1 = current_buf
    BY <1>1, <1>3 DEF Nums
  <2>3. Behind' = STAGING_BUF_SIZE
    BY SMTT(30), <2>2, <1>3 DEF Behind
  <2> QED
    BY <2>1, <2>2, <2>3 DEF Ahead
<1>12. PipeInv'
  <2>1. /\ des_offset' >= FS_HEADER /\ Len(stream) = Ahead' + buf_offset'
        /\ buf_offset' < STAGING_BUF_SIZE /\ event' >= Ahead'
    BY <1>1, <1>3, <1>5, <1>6, <1>7, <1>8, <1>11 DEF Nums
  <2>2. done >= Drained'
    BY <1>6, <1>11
  <2>3. ASSUME NEW k \in 1..Len(stream)
        PROVE  /\ stream[k].src[1] > 0
               /\ k <= Drained' => dump'[FS_HEADER + k - 1] = stream[k].src
               /\ k > Drained' /\ k <= Ahead' =>
                    stream[k].buf = Cur(current_buf' - 1) /\ stream[k].off = k - 1 - Drained'
               /\ ~(k > Ahead')
               /\ k > Drained' /\ k <= done => staging[stream[k].buf][stream[k].off] = stream[k].src
    <3>1. /\ stream[k].src[1] > 0
          /\ k > Ahead => stream[k].buf = Cur(current_buf) /\ stream[k].off = k - 1 - Ahead
          /\ k > Drained /\ k <= done => staging[stream[k].buf][stream[k].off] = stream[k].src
      BY <1>2 DEF PipeInv
    <3>2. k > Ahead => k > Drained
      BY <1>1, <1>5 DEF Ahead, Behind, Nums
    <3>3. ~(k > Ahead')
      BY <1>1, <1>5, <1>7, <1>11 DEF Nums
    <3> QED
      BY <3>1, <3>2, <3>3, <1>6, <1>11, Zenon
  <2> QED
    BY <2>1, <2>2, <2>3, <1>3 DEF PipeInv
<1>13. TableInv'
  BY <1>2, <1>3, TableStays
<1> QED
  BY SMTT(30), <1>2, <1>3, <1>9, <1>10, <1>12, <1>13 DEF IndInv

(* After the loop only the current buffer is left to drain. *)
LEMMA DrainLastInd == IndInv /\ DrainLast => IndInv'
<1> SUFFICES ASSUME IndInv, DrainLast PROVE IndInv'
  OBVIOUS
<1>1. TypeOK /\ Nums
  BY Numbers DEF IndInv
<1>2. /\ pc = "copy" /\ PipeInv /\ TableInv /\ released = 0 /\ DrainPrevious
      /\ left = 0 /\ i = Len(blocks)
  BY DEF IndInv, DrainLast
<1>3. /\ pc' = "tail"
      /\ UNCHANGED <<mode, blocks, why, i, d, left, current_buf, buf_offset, files,
                     current_offset, staging, stream, done, event, released>>
  BY DEF DrainLast
<1>4. Drained = des_offset - FS_HEADER /\ Drained \in Int /\ Ahead \in Int
  BY <1>1 DEF Drained, Ahead, Behind, Nums
<1>5. /\ dump' \in [0..(SHM_SIZE - 1) -> Content]
      /\ des_offset' = FS_HEADER + Ahead /\ done >= Ahead
      /\ \A k \in 1..Len(stream) : k <= Ahead => dump'[FS_HEADER + k - 1] = stream[k].src
  BY <1>1, <1>2, PreviousDrained
<1>6. /\ des_offset >= FS_HEADER /\ Len(stream) = Ahead + buf_offset
      /\ buf_offset < STAGING_BUF_SIZE /\ event >= Ahead
  BY <1>2 DEF PipeInv
<1>7. Ahead >= 0
  BY <1>1, <1>4, <1>6 DEF Ahead, Behind, Nums
<1>8. Drained' = Ahead /\ Ahead' = Ahead
  <2>1. Drained' = Ahead
    BY <1>1, <1>4, <1>5 DEF Drained, Nums
  <2>2. Behind' = 0
    BY <1>3 DEF Behind
  <2> QED
    BY <2>1, <2>2, <1>4 DEF Ahead
<1>9. TypeOK'
  <2>1. des_offset' \in Nat
    BY <1>1, <1>4, <1>5, <1>7 DEF Nums
  <2> QED
    BY <2>1, <1>1, <1>3, <1>5 DEF TypeOK
<1>10. DumpedBeforeRelease'
  BY SMTT(30), <1>2, <1>3, NothingReleased
<1>11. PipeInv'
  <2>1. des_offset' >= FS_HEADER
    BY <1>1, <1>4, <1>5, <1>7 DEF Nums
  <2>2. ASSUME NEW k \in 1..Len(stream)
        PROVE  /\ stream[k].src[1] > 0
               /\ k <= Ahead => dump'[FS_HEADER + k - 1] = stream[k].src
               /\ ~(k > Ahead /\ k <= Ahead)
               /\ k > Ahead => stream[k].buf = Cur(current_buf) /\ stream[k].off = k - 1 - Ahead
               /\ k > Ahead /\ k <= done => staging[stream[k].buf][stream[k].off] = stream[k].src
    <3>1. /\ stream[k].src[1] > 0
          /\ k > Ahead => stream[k].buf = Cur(current_buf) /\ stream[k].off = k - 1 - Ahead
          /\ k > Drained /\ k <= done => staging[stream[k].buf][stream[k].off] = stream[k].src
      BY <1>2 DEF PipeInv
    <3>2. (k > Ahead => k > Drained) /\ ~(k > Ahead /\ k <= Ahead)
      BY <1>1, <1>4 DEF Ahead, Behind, Nums
    <3> QED
      BY <3>1, <3>2, <1>5, Zenon
  <2> QED
    BY <2>1, <2>2, <1>3, <1>5, <1>6, <1>8 DEF PipeInv
<1>12. TableInv'
  BY SMTT(30), <1>2, <1>3, TableStays
<1> QED
  BY SMTT(30), <1>2, <1>3, <1>9, <1>10, <1>11, <1>12 DEF IndInv

(* The last drain completes the payload, and every table entry names its units. *)
LEMMA DrainTailInd == IndInv /\ DrainTail => IndInv'
<1> SUFFICES ASSUME IndInv, DrainTail PROVE IndInv'
  OBVIOUS
<1>1. TypeOK /\ Nums
  BY Numbers DEF IndInv
<1>2. /\ pc = "tail" /\ PipeInv /\ TableInv /\ released = 0 /\ left = 0 /\ i = Len(blocks)
      /\ done = Len(stream) /\ Drain(Cur(current_buf), buf_offset)
  BY DEF IndInv, DrainTail
<1>3. /\ pc' = "release"
      /\ UNCHANGED <<mode, blocks, why, i, d, left, current_buf, buf_offset, des_offset,
                     files, current_offset, staging, stream, done, event, released>>
  BY DEF DrainTail
<1>4. Drained = des_offset - FS_HEADER /\ Drained \in Int /\ Ahead = Drained
  BY SMTT(30), <1>1, <1>2 DEF Drained, Ahead, Behind, Nums
<1>5. /\ des_offset >= FS_HEADER /\ Len(stream) = Drained + buf_offset
      /\ FS_HEADER + Len(stream) = current_offset /\ current_offset <= SHM_SIZE
  BY <1>1, <1>2, <1>4 DEF PipeInv, TableInv, Nums
<1>6. DrainReady(Cur(current_buf), buf_offset)
  <2>1. Cur(current_buf) \in 0..1
    BY <1>1 DEF Cur, Nums
  <2>2. des_offset + buf_offset <= SHM_SIZE /\ buf_offset \in Nat /\ buf_offset <= STAGING_BUF_SIZE
    BY <1>1, <1>4, <1>5 DEF Nums
  <2>3. ASSUME NEW k \in 1..Len(stream)
        PROVE  /\ k <= Drained => dump[FS_HEADER + k - 1] = stream[k].src
               /\ k > Drained => staging[Cur(current_buf)][k - 1 - Drained] = stream[k].src
    <3>1. k <= done
      BY <1>1, <1>2 DEF Nums
    <3> QED
      BY <3>1, <1>2, <1>4, Zenon DEF PipeInv
  <2> QED
    BY <2>1, <2>2, <2>3, <1>5, Zenon DEF DrainReady
<1>7. dump' \in [0..(SHM_SIZE - 1) -> Content] /\ DrainedTo(buf_offset)
  BY <1>1, <1>2, <1>6, DrainMoves
<1>8. TypeOK'
  BY <1>1, <1>3, <1>7 DEF TypeOK
<1>9. DumpedBeforeRelease'
  BY <1>2, <1>3, NothingReleased
<1>10. TableInv'
  BY <1>2, <1>3, TableStays
<1>11. ASSUME NEW b \in 1..i, NEW o \in 0..(files[b].size - 1)
       PROVE  dump'[files[b].start_offset + o] = Unit(b, o)
  <2>1. /\ Len(files) = i /\ files[b].start_offset >= FS_HEADER
        /\ files[b].start_offset + files[b].size <= current_offset
        /\ Position(b, o) <= Len(stream) => stream[Position(b, o)].src = Unit(b, o)
    BY <1>2 DEF TableInv
  <2>2. PICK x \in Nat, y \in Nat : x = files[b].start_offset /\ y = files[b].size
    BY <2>1, <1>1, EntryType
  <2>3. o \in Nat /\ o < y /\ x >= FS_HEADER /\ x + y <= current_offset
    <3>1. o \in 0..(y - 1)
      BY <2>2
    <3> QED
      BY <3>1, <2>1, <2>2
  <2>4. PICK k \in Int : k = x - FS_HEADER + o + 1
    BY <2>3, <1>1 DEF Nums
  <2>5. k \in 1..Len(stream) /\ k <= Drained + buf_offset /\ FS_HEADER + k - 1 = x + o
    <3>1. /\ current_offset \in Nat /\ FS_HEADER \in Nat /\ Len(stream) \in Nat
          /\ buf_offset \in Nat /\ o \in Nat
      BY <2>3, <1>1 DEF Nums
    <3>2. k >= 1 /\ FS_HEADER + k - 1 = x + o
      BY SMTT(30), <3>1, <2>3, <2>4
    <3>3. k <= Len(stream)
      BY <3>1, <3>2, <2>3, <1>5
    <3> QED
      BY <3>1, <3>2, <3>3, <1>4, <1>5
  <2>6. Position(b, o) = k
    BY <2>2, <2>4 DEF Position
  <2>7. stream[k].src = Unit(b, o)
    <3>1. k <= Len(stream)
      BY <2>5, <1>1 DEF Nums
    <3> QED
      BY <3>1, <2>1, <2>6, Zenon
  <2>8. dump'[FS_HEADER + k - 1] = stream[k].src
    BY <2>5, <1>7 DEF DrainedTo
  <2> QED
    BY SMTT(30), <2>2, <2>5, <2>7, <2>8
<1>12. des_offset + buf_offset = current_offset
  BY SMTT(30), <1>1, <1>4, <1>5 DEF Nums
<1> QED
  BY SMTT(30), <1>2, <1>3, <1>8, <1>9, <1>10, <1>11, <1>12 DEF IndInv, Unit

(* A block is released when the whole payload is in the dump. *)
LEMMA ReleaseInd == IndInv /\ Release => IndInv'
<1> SUFFICES ASSUME IndInv, Release PROVE IndInv'
  OBVIOUS
<1>1. TypeOK /\ Nums
  BY Numbers DEF IndInv
<1>2. /\ pc = "release" /\ TableInv /\ i = Len(blocks) /\ left = 0
      /\ des_offset + buf_offset = current_offset
      /\ \A b \in 1..i : \A o \in 0..(files[b].size - 1) :
            dump[files[b].start_offset + o] = Unit(b, o)
  BY DEF IndInv, Release
<1>3. /\ \/ released = Len(blocks) /\ pc' = "done" /\ released' = released
         \/ released # Len(blocks) /\ released' = released + 1 /\ pc' = pc
      /\ UNCHANGED <<mode, blocks, why, i, d, left, current_buf, buf_offset, des_offset, files,
                     current_offset, staging, stream, done, event, dump>>
  BY DEF Release
<1>4. released' \in 0..Len(blocks) /\ pc' \in {"release", "done"}
  BY <1>1, <1>2, <1>3 DEF Nums
<1>5. TypeOK'
  BY SMTT(30), <1>1, <1>3, <1>4 DEF TypeOK
<1>6. TableInv'
  BY <1>2, <1>3, TableStays
<1>7. DumpedBeforeRelease'
  <2>1. ASSUME NEW b \in 1..released' PROVE files[b].size >= blocks[b]
    <3>1. b \in 1..i /\ b \in 1..Len(blocks)
      BY SMTT(30), <1>1, <1>2, <1>4 DEF Nums
    <3>2. files[b].size = DumpSize(mode, blocks[b])
      BY <3>1, <1>2 DEF TableInv
    <3>3. blocks[b] \in Nat
      BY SMTT(30), <3>1, <1>1, ElementOfSeq DEF TypeOK
    <3> QED
      BY <3>2, <3>3, DumpSizeCovers
  <2>2. \A b \in 1..released' : b \in 1..i
    BY <1>1, <1>2, <1>4 DEF Nums
  <2>3. \A b \in 1..released' : \A o \in 0..(files[b].size - 1) :
          dump[files[b].start_offset + o] = Unit(b, o)
    BY <2>2, <1>2, Zenon
  <2>4. \A b, o : Unit(b, o)' = Unit(b, o)
    BY DEF Unit
  <2> QED
    BY <2>1, <2>3, <2>4, <1>3, Zenon DEF DumpedBeforeRelease
<1> QED
  BY SMTT(30), <1>2, <1>3, <1>4, <1>5, <1>6, <1>7 DEF IndInv, Unit

LEMMA CudaFailsInd == IndInv /\ CudaFails => IndInv'
<1> SUFFICES ASSUME IndInv, CudaFails PROVE IndInv'
  OBVIOUS
<1>1. /\ pc' = "exit" /\ why' = "cuda"
      /\ UNCHANGED <<mode, blocks, i, d, left, current_buf, buf_offset, des_offset, files,
                     current_offset, staging, stream, done, event, dump, released>>
  BY SMTT(30) DEF CudaFails, Exit
<1>2. TypeOK'
  BY SMTT(30), <1>1 DEF IndInv, TypeOK
<1>3. DumpedBeforeRelease'
  BY SMTT(30), <1>1 DEF IndInv, DumpedBeforeRelease, Unit
<1> QED
  BY <1>1, <1>2, <1>3 DEF IndInv

LEMMA StutterInd == IndInv /\ UNCHANGED vars => IndInv'
<1> SUFFICES ASSUME IndInv, UNCHANGED vars PROVE IndInv'
  BY SMTT(30)
<1>1. TypeOK' /\ DumpedBeforeRelease'
  BY Zenon DEF IndInv, TypeOK, DumpedBeforeRelease, Unit, vars
<1>2. (TableInv => TableInv') /\ (PipeInv => PipeInv')
  BY TableStays DEF vars, PipeInv, Ahead, Behind, Drained
<1> QED
  BY <1>1, <1>2 DEF IndInv, Unit, vars

(* The inductive invariant of the dump pipeline holds in every reachable state:
   where each part of the payload is, at every interleaving of ckpt() with the
   copy engine. *)
THEOREM Invariant == Spec => []IndInv
<1>1. IndInv /\ [Next]_vars => IndInv'
  BY StartInd, NextFileInd, CopyChunkInd, FlipInd, DrainLastInd, DrainTailInd,
     ReleaseInd, CudaFailsInd, DmaInd, StutterInd DEF Next, Host, Ended
<1> QED
  BY <1>1, InitInd, PTL DEF Spec

(* ckpt() and ckpt_selective() never release a block that is not, whole and
   intact, in the dump. *)
THEOREM ReleaseSafe == Spec => []DumpedBeforeRelease
<1>1. IndInv => DumpedBeforeRelease
  BY SMTT(30) DEF IndInv
<1> QED
  BY <1>1, Invariant, PTL

(* No device copy is aimed at a staging unit whose content is not drained. *)
THEOREM NeverOverwrites == Spec => []NoOverwrite
<1>1. IndInv => NoOverwrite
  <2> SUFFICES ASSUME IndInv, pc \in {"copy", "flip"},
                      NEW k \in (des_offset - FS_HEADER + 1)..Len(stream),
                      NEW l \in (des_offset - FS_HEADER + 1)..Len(stream), k # l
               PROVE  stream[k].buf # stream[l].buf \/ stream[k].off # stream[l].off
    BY DEF NoOverwrite
  <2>1. Nums /\ PipeInv
    BY Numbers DEF IndInv
  <2>2. /\ Drained = des_offset - FS_HEADER /\ Drained \in Nat /\ Ahead \in Nat
        /\ Ahead >= Drained
    BY <2>1 DEF PipeInv, Nums, Drained, Ahead, Behind
  <2>3. /\ k \in 1..Len(stream) /\ l \in 1..Len(stream) /\ k > Drained /\ l > Drained
    BY SMTT(30), <2>1, <2>2 DEF Nums
  <2>4. \A x \in {k, l} :
          /\ x <= Ahead => stream[x].buf = Cur(current_buf - 1) /\ stream[x].off = x - 1 - Drained
          /\ x > Ahead => stream[x].buf = Cur(current_buf) /\ stream[x].off = x - 1 - Ahead
    BY <2>1, <2>3 DEF PipeInv
  <2>5. Cur(current_buf - 1) # Cur(current_buf)
    BY SMTT(30), <2>1 DEF Cur, Nums
  <2> QED
    BY SMTT(30), <2>2, <2>3, <2>4, <2>5
<1> QED
  BY <1>1, Invariant, PTL

(* The asserts at vGPU.cpp:159, 203, 344 and 389 never fire. *)
THEOREM AssertsNeverFire == Spec => []AssertsHold
<1>1. IndInv => AssertsHold
  BY DEF IndInv, AssertsHold, PipeInv
<1> QED
  BY <1>1, Invariant, PTL

(* Every variable of ckpt() keeps its type; no copy leaves its staging buffer. *)
THEOREM TypeCorrect == Spec => []TypeOK
<1>1. IndInv => TypeOK
  BY DEF IndInv
<1> QED
  BY <1>1, Invariant, PTL

(* The checks at the head of the loop are enough: a dump that goes on never
   leaves its file nor its table. *)
THEOREM StaysInside == Spec => []StaysInFile
<1>1. IndInv => StaysInFile
  <2> SUFFICES ASSUME IndInv, pc # "exit"
               PROVE  /\ FS_HEADER + Len(stream) <= current_offset
                      /\ current_offset <= SHM_SIZE
                      /\ Len(files) < MAX_FILE_NUM
    BY DEF StaysInFile
  <2>1. CASE pc = "start"
    <3>1. Len(stream) = 0 /\ Len(files) = 0 /\ current_offset = FS_HEADER
      BY <2>1 DEF IndInv
    <3> QED
      BY <3>1, SizesAssumption, CapacityAssumption
  <2>2. CASE pc # "start"
    <3>1. TableInv /\ Nums
      BY <2>2, Numbers DEF IndInv, TypeOK
    <3> QED
      BY <3>1 DEF TableInv, Nums
  <2> QED
    BY <2>1, <2>2
<1> QED
  BY <1>1, Invariant, PTL
=============================================================================
