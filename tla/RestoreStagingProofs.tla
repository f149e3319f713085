------------------------ MODULE RestoreStagingProofs ------------------------
(***************************************************************************)
(* For every staging-buffer and granule size and every contiguous table:   *)
(* restore_ptr_and_content() and its selective form bring every unit back, *)
(* never refill a buffer that is still read, and satisfy their asserts.    *)
(***************************************************************************)
EXTENDS RestoreStaging, StagingProofs, SequenceTheorems, WellFoundedInduction

(* A set of natural numbers that is not empty has a smallest element. *)
LEMMA SmallestNat ==
  ASSUME NEW T, T \subseteq Nat, T # {}
  PROVE  \E x \in T : \A y \in T : ~(y < x)
<1>1. PICK x \in T : \A y \in T : ~(<<y, x>> \in OpToRel(<, Nat))
  BY NatLessThanWellFounded, WFMin, Zenon
<1>2. ASSUME NEW y \in T, y < x PROVE FALSE
  <2>1. <<y, x>> \in Nat \X Nat /\ <<y, x>>[1] < <<y, x>>[2]
    BY <1>2
  <2>2. <<y, x>> \in OpToRel(<, Nat)
    BY <2>1, Zenon DEF OpToRel
  <2> QED
    BY <2>2, <1>1, Zenon
<1> QED
  BY <1>2

(* Entries of a table of the dump. *)
Entry == [start_offset : Nat, size : Nat]

(* The entries of a table are contiguous. *)
LEMMA Contiguous ==
  ASSUME NEW t \in Tables
  PROVE  /\ t \in Seq(Entry) /\ Len(t) \in Nat
         /\ \A f \in 1..Len(t) : t[f].start_offset \in Nat /\ t[f].size \in Nat
         /\ Len(t) > 0 => t[1].start_offset = FS_HEADER
         /\ \A f \in 1..Len(t) : f > 1 => t[f].start_offset = t[f - 1].start_offset + t[f - 1].size
<1>1. /\ t \in Seq(Entry)
      /\ \A f \in 1..Len(t) : t[f].start_offset = End(SubSeq(t, 1, f - 1))
  BY TablesAssumption DEF Entry
<1>2. Len(t) \in Nat
  BY <1>1
<1>3. ASSUME NEW f \in 1..Len(t) PROVE t[f] \in Entry
  BY <1>1, ElementOfSeq, Zenon
<1>4. ASSUME NEW f \in 1..Len(t) PROVE t[f].start_offset \in Nat /\ t[f].size \in Nat
  BY <1>3 DEF Entry
<1>5. ASSUME NEW f \in 1..Len(t)
      PROVE  /\ SubSeq(t, 1, f - 1) \in Seq(Entry) /\ Len(SubSeq(t, 1, f - 1)) = f - 1
             /\ \A k \in 1..(f - 1) : SubSeq(t, 1, f - 1)[k] = t[k]
  <2>1. f - 1 \in Int /\ 1 \in Int /\ \A k \in 1..(f - 1) : t[k] \in Entry
    BY <1>2, <1>3
  <2>2. /\ SubSeq(t, 1, f - 1) \in Seq(Entry)
        /\ Len(SubSeq(t, 1, f - 1)) = IF 1 <= f - 1 THEN f - 1 - 1 + 1 ELSE 0
        /\ \A k \in 1..(f - 1 - 1 + 1) : SubSeq(t, 1, f - 1)[k] = t[1 + k - 1]
    BY <2>1, SubSeqProperties
  <2>3. ASSUME NEW k \in 1..(f - 1) PROVE SubSeq(t, 1, f - 1)[k] = t[k]
    <3>1. k \in 1..(f - 1 - 1 + 1) /\ 1 + k - 1 = k
      BY <2>1
    <3> QED
      BY <3>1, <2>2
  <2>4. Len(SubSeq(t, 1, f - 1)) = f - 1
    BY <2>2, <1>2
  <2> QED
    BY <2>2, <2>3, <2>4
<1>6. ASSUME Len(t) > 0 PROVE t[1].start_offset = FS_HEADER
  <2>1. 1 \in 1..Len(t) /\ 1 - 1 = 0
    BY <1>2, <1>6
  <2>2. SubSeq(t, 1, 0) = << >>
    BY <2>1, <1>5, EmptySeq
  <2> QED
    BY <2>1, <2>2, <1>1 DEF End
<1>7. ASSUME NEW f \in 1..Len(t), f > 1
      PROVE  t[f].start_offset = t[f - 1].start_offset + t[f - 1].size
  <2> DEFINE u == SubSeq(t, 1, f - 1)
  <2>1. f - 1 \in 1..(f - 1) /\ f - 1 > 0
    BY <1>7, <1>2
  <2>2. Len(u) = f - 1 /\ u[f - 1] = t[f - 1]
    BY <2>1, <1>5
  <2>3. u # << >>
    BY <2>1, <2>2
  <2> QED
    BY <2>2, <2>3, <1>1, Zenon DEF End
<1> QED
  BY <1>1, <1>2, <1>4, <1>6, <1>7

(* An entry starts where the one before it ends. *)
LEMMA NextStart ==
  ASSUME NEW t \in Tables, NEW f \in Nat \ {0}, f + 1 \in 1..Len(t)
  PROVE  t[f + 1].start_offset = t[f].start_offset + t[f].size
<1>1. PICK g \in 1..Len(t) : g = f + 1
  OBVIOUS
<1>2. g > 1 /\ g - 1 = f
  BY <1>1
<1>3. t[g].start_offset = t[g - 1].start_offset + t[g - 1].size
  BY <1>2, Contiguous
<1> QED
  BY <1>1, <1>2, <1>3

(* An entry ends where a later one starts, or before. *)
LEMMA Ordered ==
  ASSUME NEW t \in Tables, NEW a \in 1..Len(t), NEW b \in 1..Len(t), a < b
  PROVE  t[a].start_offset + t[a].size <= t[b].start_offset
<1> DEFINE e == t[a].start_offset + t[a].size
           T == {c \in 1..Len(t) : a < c /\ ~(e <= t[c].start_offset)}
<1>1. /\ Len(t) \in Nat
      /\ \A f \in 1..Len(t) : t[f].start_offset \in Nat /\ t[f].size \in Nat
      /\ \A f \in 1..Len(t) : f > 1 => t[f].start_offset = t[f - 1].start_offset + t[f - 1].size
  BY Contiguous
<1>2. SUFFICES ASSUME T # {} PROVE FALSE
  OBVIOUS
<1>3. T \subseteq Nat
  BY <1>1
<1>4. PICK c \in T : \A y \in T : ~(y < c)
  BY <1>2, <1>3, SmallestNat, Zenon
<1>5. c \in 1..Len(t) /\ a < c /\ ~(e <= t[c].start_offset)
  BY <1>4
<1>6. c - 1 \in 1..Len(t) /\ c > 1 /\ c - 1 < c
  BY <1>1, <1>5
<1>7. t[c].start_offset = t[c - 1].start_offset + t[c - 1].size
  BY <1>1, <1>5, <1>6
<1>8. c - 1 \notin T
  BY <1>4, <1>6
<1>9. ~(a < c - 1) \/ e <= t[c - 1].start_offset
  BY <1>6, <1>8
<1>10. a # c - 1
  BY <1>5, <1>7, <1>1, <1>6
<1>11. a < c - 1
  BY <1>10, <1>5, <1>1
<1>12. e \in Nat
  <2>1. t[a].start_offset \in Nat /\ t[a].size \in Nat
    BY <1>1, Zenon
  <2>2. PICK x \in Nat, y \in Nat : x = t[a].start_offset /\ y = t[a].size
    BY <2>1, Zenon
  <2>3. x + y \in Nat
    OBVIOUS
  <2> QED
    BY <2>2, <2>3, Zenon
<1> HIDE DEF e, T
<1>13. PICK x \in Nat, y \in Nat : x = t[c - 1].start_offset /\ y = t[c - 1].size
  BY <1>1, <1>6
<1>14. e <= x /\ ~(e <= x + y)
  BY <1>13, <1>9, <1>11, <1>7, <1>5, Zenon
<1> QED
  BY <1>14, <1>12

(* Every entry lies between the header and the end of the payload. *)
LEMMA Inside ==
  ASSUME NEW t \in Tables, NEW b \in 1..Len(t)
  PROVE  /\ End(t) \in Nat
         /\ t[b].start_offset \in Nat /\ t[b].size \in Nat
         /\ FS_HEADER <= t[b].start_offset
         /\ t[b].start_offset + t[b].size <= End(t)
<1>1. /\ t \in Seq(Entry) /\ Len(t) \in Nat
      /\ \A f \in 1..Len(t) : t[f].start_offset \in Nat /\ t[f].size \in Nat
      /\ Len(t) > 0 => t[1].start_offset = FS_HEADER
  BY Contiguous
<1>2. 1 \in 1..Len(t) /\ Len(t) \in 1..Len(t) /\ t # << >>
  BY <1>1
<1>3. End(t) = t[Len(t)].start_offset + t[Len(t)].size
  BY <1>2, Zenon DEF End
<1>4. FS_HEADER <= t[b].start_offset
  <2>1. CASE b = 1
    BY <2>1, <1>1, <1>2
  <2>2. CASE 1 < b
    <3>1. t[1].start_offset + t[1].size <= t[b].start_offset
      BY <2>2, <1>2, Ordered
    <3> QED
      BY <3>1, <1>1, <1>2
  <2> QED
    BY <2>1, <2>2, <1>1
<1>5. t[b].start_offset + t[b].size <= End(t)
  <2>1. CASE b = Len(t)
    BY <2>1, <1>1, <1>3
  <2>2. CASE b < Len(t)
    <3>1. t[b].start_offset + t[b].size <= t[Len(t)].start_offset
      BY <2>2, <1>2, Ordered
    <3>2. PICK x \in Nat, y \in Nat, w \in Nat, z \in Nat :
            /\ x = t[b].start_offset /\ y = t[b].size
            /\ w = t[Len(t)].start_offset /\ z = t[Len(t)].size
      BY <1>1, <1>2
    <3>3. x + y <= w /\ End(t) = w + z
      BY <3>1, <3>2, <1>3
    <3>4. x + y <= End(t)
      BY <3>3
    <3> QED
      BY <3>2, <3>4
  <2> QED
    BY <2>1, <2>2, <1>1
<1>6. End(t) \in Nat
  BY <1>1, <1>2, <1>3
<1> QED
  BY <1>1, <1>4, <1>5, <1>6

(* Two units at the same place of the dump are the same unit. *)
LEMMA SameUnit ==
  ASSUME NEW t \in Tables, NEW a \in 1..Len(t), NEW b \in 1..Len(t),
         NEW p \in Nat, NEW q \in Nat, p < t[a].size, q < t[b].size,
         t[a].start_offset + p = t[b].start_offset + q
  PROVE  a = b /\ p = q
<1>1. /\ t[a].start_offset \in Nat /\ t[a].size \in Nat /\ t[b].start_offset \in Nat
      /\ t[b].size \in Nat /\ Len(t) \in Nat
  BY Contiguous
<1>2. PICK x \in Nat, y \in Nat, w \in Nat, z \in Nat :
        /\ x = t[a].start_offset /\ y = t[a].size /\ w = t[b].start_offset /\ z = t[b].size
  BY <1>1, Zenon
<1>3. p < y /\ q < z /\ x + p = w + q
  BY <1>2
<1>4. a < b => x + y <= w
  BY <1>2, Ordered
<1>5. b < a => w + z <= x
  BY <1>2, Ordered
<1>6. ~(a < b) /\ ~(b < a)
  BY <1>3, <1>4, <1>5
<1>7. a = b
  BY <1>1, <1>6
<1>8. x = w
  BY <1>2, <1>7
<1> QED
  BY <1>3, <1>7, <1>8

-----------------------------------------------------------------------------
(* What the type invariant says of the numbers, and of an enqueued copy. *)
Nums ==
  /\ i \in Nat /\ left \in Nat /\ offset \in Nat /\ src_offset \in Nat
  /\ buf_offset \in Nat /\ current_buf \in Nat /\ done \in Nat /\ event \in Nat
  /\ Len(stream) \in Nat /\ Len(files) \in Nat
  /\ i <= Len(files) /\ done <= Len(stream) /\ event <= Len(stream)
  /\ STAGING_BUF_SIZE \in Nat /\ STAGING_BUF_SIZE > 0 /\ FS_HEADER \in Nat

(* The numbers are numbers. *)
LEMMA Numbers == TypeOK => Nums
BY SizesAssumption DEF TypeOK, Nums

(* A queued copy is a record of four numbers. *)
LEMMA OpType ==
  TypeOK => \A k \in 1..Len(stream) :
              /\ stream[k] \in Op /\ stream[k].buf \in 0..1 /\ stream[k].off \in Nat
              /\ stream[k].file \in Nat /\ stream[k].at \in Nat
<1> SUFFICES ASSUME TypeOK, NEW k \in 1..Len(stream)
             PROVE  /\ stream[k] \in Op /\ stream[k].buf \in 0..1 /\ stream[k].off \in Nat
                    /\ stream[k].file \in Nat /\ stream[k].at \in Nat
  OBVIOUS
<1>1. stream \in Seq(Op)
  BY DEF TypeOK
<1>2. stream[k] \in Op
  BY <1>1
<1> QED
  BY <1>2 DEF Op

(* The other buffer is the other one. *)
LEMMA CurFlips ==
  ASSUME NEW n \in Nat
  PROVE  /\ Cur(n) \in 0..1 /\ Cur(n + 1) \in 0..1
         /\ Cur(n) # Cur(n + 1) /\ Cur(n + 1 + 1) = Cur(n)
BY DEF Cur

(* The type of the device memory, separate from that of the rest. *)
DevType ==
  /\ DOMAIN dev = 1..Len(files)
  /\ \A b \in 1..Len(files) : dev[b] \in [0..(files[b].size - 1) -> Nat \cup {Junk, Unmapped}]

(* The initial states satisfy the inductive invariant. *)
LEMMA InitInd == Init => IndInv
<1> SUFFICES ASSUME Init PROVE IndInv
  OBVIOUS
<1>1. files \in Tables /\ files \in Seq([start_offset : Nat, size : Nat]) /\ Len(files) \in Nat
  BY Contiguous DEF Init, Entry
<1>2. staging \in [0..1 -> [0..(STAGING_BUF_SIZE - 1) -> Nat \cup {Junk}]]
  BY DEF Init
<1>3. /\ DOMAIN dev = 1..Len(files)
      /\ \A b \in DOMAIN dev : dev[b] \in [0..(files[b].size - 1) -> Nat \cup {Junk, Unmapped}]
  BY DEF Init, Fill
<1>4. stream \in Seq(Op) /\ Len(stream) = 0
  BY DEF Init
<1>5. TypeOK
  BY <1>1, <1>2, <1>3, <1>4 DEF Init, TypeOK
<1>6. InFlightIntact
  BY <1>4 DEF Init, InFlightIntact
<1>7. Mapped(0) /\ Idle /\ i = 0 /\ pc = "remap"
  BY DEF Init, Mapped, Idle
<1> QED
  BY <1>1, <1>5, <1>6, <1>7 DEF IndInv

(* The remap loop gives each block physical memory, while nothing is copied. *)
LEMMA RemapInd == IndInv /\ Remap => IndInv'
<1> SUFFICES ASSUME IndInv, Remap PROVE IndInv'
  OBVIOUS
<1>1. TypeOK /\ Nums /\ files \in Tables /\ pc = "remap" /\ Idle /\ Mapped(i)
  BY Numbers DEF IndInv, Remap
<1>2. /\ UNCHANGED <<mode, files, left, offset, src_offset, buf_offset, current_buf, staging,
                     stream, done>>
      /\ stream = << >> /\ Len(stream) = 0 /\ done = 0 /\ event = 0 /\ buf_offset = 0
  BY <1>1 DEF Remap, Idle
<1>3. InFlightIntact'
  BY <1>2 DEF InFlightIntact
<1>4. CASE i < Len(files)
  <2>1. /\ i' = i + 1 /\ dev' = [dev EXCEPT ![i + 1] = Fill(Junk, i + 1)]
        /\ pc' = pc /\ event' = event
    BY <1>4 DEF Remap
  <2>2. i + 1 \in 1..Len(files)
    BY <1>4, <1>1 DEF Nums
  <2>3. Fill(Junk, i + 1) \in [0..(files[i + 1].size - 1) -> Nat \cup {Junk, Unmapped}]
    BY DEF Fill
  <2>4. DevType
    BY <1>1 DEF TypeOK, DevType
  <2>5. DevType'
    BY <2>1, <2>2, <2>3, <2>4, <1>2 DEF DevType
  <2>6. TypeOK'
    <3>1. i' \in 0..Len(files)'
      BY <2>1, <2>2, <1>2
    <3> QED
      BY <3>1, <2>1, <2>5, <1>1, <1>2 DEF TypeOK, DevType
  <2>7. Mapped(i)'
    <3> SUFFICES ASSUME NEW b \in 1..(i + 1), NEW o \in 0..(files[b].size - 1)
                 PROVE  dev'[b][o] # Unmapped
      BY <2>1, <1>2 DEF Mapped
    <3>1. CASE b = i + 1
      <4>1. dev'[b][o] = Junk
        BY <3>1, <2>1, <2>2, <2>4 DEF DevType, Fill
      <4> QED
        BY <4>1 DEF Junk, Unmapped
    <3>2. CASE b # i + 1
      <4>1. b \in 1..i /\ b \in 1..Len(files)
        BY <3>2, <2>2, <1>1 DEF Nums
      <4>2. dev'[b] = dev[b]
        BY <4>1, <3>2, <2>1, <2>4 DEF DevType
      <4> QED
        BY <4>1, <4>2, <1>1 DEF Mapped
    <3> QED
      BY <3>1, <3>2
  <2>8. Idle'
    BY <2>1, <1>1, <1>2 DEF Idle
  <2> QED
    BY <2>1, <2>6, <2>7, <2>8, <1>1, <1>2, <1>3 DEF IndInv
<1>5. CASE ~(i < Len(files))
  <2>1. /\ i' = 0 /\ pc' = "copy" /\ event' = 0 /\ dev' = dev
    BY <1>5, <1>2 DEF Remap
  <2>2. i = Len(files)
    BY <1>5, <1>1 DEF Nums
  <2>3. Mapped(Len(files))'
    BY <2>1, <2>2, <1>1, <1>2 DEF Mapped
  <2>4. Idle'
    BY <2>1, <1>1, <1>2 DEF Idle
  <2>5. TypeOK'
    BY <2>1, <1>1, <1>2 DEF TypeOK, Nums
  <2>6. buf_offset' < STAGING_BUF_SIZE
    BY <1>1, <1>2 DEF Nums
  <2> QED
    BY <2>1, <2>3, <2>4, <2>5, <2>6, <1>1, <1>2, <1>3 DEF IndInv
<1> QED
  BY <1>4, <1>5

(* The end of the loop and the error exits change nothing but pc. *)
LEMMA SyncInd == IndInv /\ Sync => IndInv'
<1> SUFFICES ASSUME IndInv, Sync PROVE IndInv'
  OBVIOUS
<1>1. /\ pc = "copy" /\ left = 0 /\ i = Len(files) /\ done = Len(stream) /\ pc' = "done"
      /\ UNCHANGED <<mode, files, i, left, offset, src_offset, buf_offset, current_buf, staging,
                     stream, event, done, dev>>
  BY DEF Sync, pipe
<1>2. TypeOK'
  BY <1>1 DEF IndInv, TypeOK
<1>3. InFlightIntact' /\ Mapped(Len(files))'
  BY <1>1 DEF IndInv, InFlightIntact, Mapped
<1>4. (i = 0 => Idle)'
  BY <1>1 DEF IndInv, Idle
<1>5. (i > 0 => PipeInv /\ TableInv)'
  <2> SUFFICES ASSUME i > 0 PROVE PipeInv' /\ TableInv'
    BY <1>1
  <2>1. PipeInv /\ TableInv
    BY <1>1 DEF IndInv
  <2> QED
    BY Zenon, <2>1, <1>1 DEF PipeInv, TableInv, Base, current_offset
<1> QED
  BY <1>1, <1>2, <1>3, <1>4, <1>5 DEF IndInv

(* A failing call ends the process and leaves the data as it is. *)
LEMMA CudaFailsInd == IndInv /\ CudaFails => IndInv'
<1> SUFFICES ASSUME IndInv, CudaFails PROVE IndInv'
  OBVIOUS
<1>1. /\ pc' = "exit"
      /\ UNCHANGED <<mode, files, i, left, offset, src_offset, buf_offset, current_buf, staging,
                     stream, event, done, dev>>
  BY DEF CudaFails, pipe
<1>2. TypeOK' /\ InFlightIntact'
  BY <1>1 DEF IndInv, TypeOK, InFlightIntact
<1> QED
  BY <1>1, <1>2 DEF IndInv

(* Steps that leave the state as it is. *)
LEMMA StutterInd == IndInv /\ UNCHANGED vars => IndInv'
<1> SUFFICES ASSUME IndInv, UNCHANGED vars PROVE IndInv'
  OBVIOUS
<1>1. UNCHANGED <<mode, files, pc, i, left, offset, src_offset, buf_offset, current_buf, staging,
                  stream, done, event, dev>>
  BY DEF vars
<1>2. TypeOK'
  BY <1>1 DEF IndInv, TypeOK
<1>3. InFlightIntact'
  BY <1>1 DEF IndInv, InFlightIntact
<1>4. PipeInv => PipeInv'
  BY Zenon, <1>1 DEF PipeInv, Base, current_offset
<1>5. TableInv => TableInv'
  BY Zenon, <1>1 DEF TableInv
<1>6. /\ Mapped(i) => Mapped(i)'
      /\ Mapped(Len(files)) => Mapped(Len(files))'
  BY Zenon, <1>1 DEF Mapped
<1>7. Idle => Idle'
  BY Zenon, <1>1 DEF Idle
<1> QED
  BY <1>1, <1>2, <1>3, <1>4, <1>5, <1>6, <1>7 DEF IndInv

(* Every copy that is not done yet reads inside its buffer. *)
LEMMA OffInside ==
  ASSUME Nums, PipeInv, buf_offset <= STAGING_BUF_SIZE,
         NEW k \in 1..Len(stream), k > done
  PROVE  stream[k].off \in 0..(STAGING_BUF_SIZE - 1)
<1>1. /\ Base \in Int /\ k \in Nat /\ k > Base - STAGING_BUF_SIZE
      /\ k <= Base + buf_offset /\ buf_offset \in Nat
      /\ STAGING_BUF_SIZE \in Nat
  BY DEF Nums, PipeInv, Base
<1>2. CASE k > Base
  <2>1. stream[k].off = k - 1 - Base
    BY <1>2 DEF PipeInv
  <2> QED
    BY <2>1, <1>1, <1>2
<1>3. CASE ~(k > Base)
  <2>1. stream[k].off = k - 1 - Base + STAGING_BUF_SIZE
    BY <1>1, <1>3 DEF PipeInv
  <2> QED
    BY <2>1, <1>1, <1>3
<1> QED
  BY <1>2, <1>3

(* The copy engine brings one unit to its place and disturbs no other. *)
LEMMA DmaInd == IndInv /\ Dma => IndInv'
<1> SUFFICES ASSUME IndInv, Dma PROVE IndInv'
  OBVIOUS
<1> DEFINE f == stream[done + 1].file
           a == stream[done + 1].at
           v == FS_HEADER + done
<1>1. /\ UNCHANGED <<mode, files, pc, i, left, offset, src_offset, buf_offset, current_buf, staging,
                     stream, event>>
      /\ done' = done + 1 /\ done < Len(stream) /\ pc # "exit"
  BY DEF Dma, pipe
<1>2. TypeOK /\ Nums /\ DevType
  BY Numbers, Zenon DEF IndInv, TypeOK, DevType
<1>3. done + 1 \in 1..Len(stream) /\ done + 1 > done /\ Len(stream) # 0
  BY <1>1, <1>2 DEF Nums
<1>4. pc \in {"copy", "flip"}
  <2>1. pc # "remap"
    BY <1>3 DEF IndInv, Idle
  <2>2. pc # "done"
    BY <1>1, <1>2 DEF IndInv, Nums
  <2> QED
    BY <2>1, <2>2, <1>1, <1>2 DEF TypeOK
<1>5. i > 0
  BY <1>2, <1>3, <1>4 DEF IndInv, Idle, Nums
<1>6. PipeInv /\ TableInv /\ Mapped(Len(files)) /\ InFlightIntact /\ files \in Tables
  BY <1>4, <1>5 DEF IndInv
<1>7. buf_offset <= STAGING_BUF_SIZE
  BY <1>2, <1>4 DEF IndInv, Nums
<1>8. /\ f \in 1..Len(files) /\ a \in Nat /\ a < files[f].size
      /\ files[f].start_offset + a = FS_HEADER + (done + 1) - 1
  BY <1>2, <1>3, <1>6, OpType DEF TableInv
<1>9. a \in 0..(files[f].size - 1)
  <2>1. files[f].size \in Nat
    BY <1>6, <1>8, Contiguous
  <2>2. PICK y \in Nat : y = files[f].size
    BY <2>1, Zenon
  <2>3. PICK x \in Nat : x = a
    BY <1>8, Zenon
  <2>4. x < y
    BY <2>2, <2>3, <1>8, Zenon
  <2>5. x \in 0..(y - 1)
    BY <2>4
  <2> QED
    BY <2>2, <2>3, <2>5, Zenon
<1>10. FS_HEADER + (done + 1) - 1 = v /\ v \in Nat /\ v # Unmapped
  BY <1>2 DEF Nums, Unmapped
<1>11. staging[stream[done + 1].buf][stream[done + 1].off] = v
  <2>1. done + 1 \in (done + 1)..Len(stream)
    BY <1>2, <1>3 DEF Nums
  <2> QED
    BY <2>1, <1>6, <1>8, <1>10 DEF InFlightIntact
<1>12. dev[f][a] # Unmapped
  BY <1>6, <1>8, <1>9 DEF Mapped
<1>13. dev' = [dev EXCEPT ![f][a] = v]
  BY <1>11, <1>12 DEF Dma
<1> HIDE DEF f, a, v
<1>14. DevType'
  BY <1>1, <1>2, <1>8, <1>9, <1>10, <1>13 DEF DevType
<1>15. TypeOK'
  <2>1. done' \in 0..Len(stream)
    BY <1>1, <1>2 DEF Nums
  <2> QED
    BY <2>1, <1>1, <1>2, <1>14 DEF TypeOK, DevType
<1>16. ASSUME NEW b \in 1..Len(files), NEW o \in 0..(files[b].size - 1)
       PROVE  dev'[b][o] = IF b = f /\ o = a THEN v ELSE dev[b][o]
  BY <1>2, <1>8, <1>9, <1>13, Zenon DEF DevType
<1>17. Mapped(Len(files))'
  BY <1>1, <1>6, <1>10, <1>16 DEF Mapped
<1>18. InFlightIntact'
  <2> SUFFICES ASSUME NEW k \in (done + 1 + 1)..Len(stream)
               PROVE  staging[stream[k].buf][stream[k].off]
                        = files[stream[k].file].start_offset + stream[k].at
    BY <1>1 DEF InFlightIntact
  <2>1. k \in (done + 1)..Len(stream)
    BY <1>2 DEF Nums
  <2> QED
    BY <2>1, <1>6 DEF InFlightIntact
<1>19. PipeInv'
  <2>1. done' >= Base - STAGING_BUF_SIZE
    BY <1>1, <1>2, <1>6 DEF PipeInv, Base, Nums
  <2>2. Base' = Base /\ current_offset' = current_offset
    BY <1>1 DEF Base, current_offset
  <2> QED
    BY Zenon, <2>1, <2>2, <1>1, <1>6 DEF PipeInv
<1>20. TableInv'
  <2>1. ASSUME NEW k \in 1..Len(stream), k <= done'
        PROVE  dev'[stream[k].file][stream[k].at] = FS_HEADER + k - 1
    <3>1. /\ stream[k].file \in 1..Len(files) /\ stream[k].at \in Nat
          /\ stream[k].at < files[stream[k].file].size
          /\ files[stream[k].file].start_offset + stream[k].at = FS_HEADER + k - 1
          /\ k <= done => dev[stream[k].file][stream[k].at] = FS_HEADER + k - 1
      BY <1>2, <1>6, OpType DEF TableInv
    <3>2. stream[k].at \in 0..(files[stream[k].file].size - 1)
      <4>1. files[stream[k].file].size \in Nat
        BY <3>1, <1>6, Contiguous
      <4> QED
        BY <4>1, <3>1
    <3>3. dev'[stream[k].file][stream[k].at]
            = IF stream[k].file = f /\ stream[k].at = a THEN v ELSE dev[stream[k].file][stream[k].at]
      BY <3>1, <3>2, <1>16
    <3>4. CASE stream[k].file = f /\ stream[k].at = a
      <4>1. FS_HEADER + k - 1 = v
        BY <3>1, <3>4, <1>8, <1>10
      <4> QED
        BY <4>1, <3>3, <3>4
    <3>5. CASE ~(stream[k].file = f /\ stream[k].at = a)
      <4>1. k # done + 1
        BY <3>5 DEF f, a
      <4>2. k <= done
        BY <4>1, <2>1, <1>1, <1>2 DEF Nums
      <4> QED
        BY <4>2, <3>1, <3>3, <3>5
    <3> QED
      BY <3>4, <3>5
  <2> QED
    BY Zenon, <2>1, <1>1, <1>6 DEF TableInv
<1> QED
  BY <1>1, <1>4, <1>5, <1>6, <1>15, <1>17, <1>18, <1>19, <1>20 DEF IndInv

(* A refill puts the dump's units into one buffer, as far as the payload
   reaches, and leaves the other buffer alone. *)
Refilled(buf, from) ==
  /\ staging' \in [0..1 -> [0..(STAGING_BUF_SIZE - 1) -> Nat \cup {Junk}]]
  /\ \A b \in 0..1 : b # buf => staging'[b] = staging[b]
  /\ \A x \in 0..(STAGING_BUF_SIZE - 1) : from + x < current_offset => staging'[buf][x] = from + x

(* memcpy_multi does all of that: its four threads copy the whole range. *)
LEMMA RefillHolds ==
  ASSUME NEW buf \in 0..1, NEW from \in Nat, TypeOK, current_offset \in Nat,
         from <= current_offset, Refill(buf, from)
  PROVE  Refilled(buf, from)
<1> DEFINE n == MinOf(current_offset - from, STAGING_BUF_SIZE)
<1>1. n \in Nat /\ (n = current_offset - from \/ n = STAGING_BUF_SIZE)
  BY SizesAssumption DEF MinOf
<1>2. staging' = [staging EXCEPT ![buf] = [x \in DOMAIN @ |-> IF x \in Copied(n) THEN from + x
                                                                                  ELSE @[x]]]
  BY DEF Refill
<1> HIDE DEF n
<1>3. Copied(n) = 0..(n - 1)
  BY <1>1, CopiedAll
<1>4. staging \in [0..1 -> [0..(STAGING_BUF_SIZE - 1) -> Nat \cup {Junk}]]
  BY DEF TypeOK
<1>5. /\ DOMAIN staging = 0..1 /\ DOMAIN staging[buf] = 0..(STAGING_BUF_SIZE - 1)
      /\ staging' = [staging EXCEPT ![buf] =
           [x \in 0..(STAGING_BUF_SIZE - 1) |-> IF x \in Copied(n) THEN from + x ELSE staging[buf][x]]]
  BY <1>2, <1>4, Zenon
<1>6. [x \in 0..(STAGING_BUF_SIZE - 1) |-> IF x \in Copied(n) THEN from + x ELSE staging[buf][x]]
        \in [0..(STAGING_BUF_SIZE - 1) -> Nat \cup {Junk}]
  <2>1. \A x \in 0..(STAGING_BUF_SIZE - 1) : from + x \in Nat
    BY SizesAssumption
  <2>2. \A x \in 0..(STAGING_BUF_SIZE - 1) : staging[buf][x] \in Nat \cup {Junk}
    BY <1>4, Zenon
  <2> QED
    BY <2>1, <2>2, Zenon
<1>7. /\ staging' \in [0..1 -> [0..(STAGING_BUF_SIZE - 1) -> Nat \cup {Junk}]]
      /\ \A b \in 0..1 : b # buf => staging'[b] = staging[b]
  BY <1>4, <1>5, <1>6
<1>8. ASSUME NEW x \in 0..(STAGING_BUF_SIZE - 1), from + x < current_offset
      PROVE  staging'[buf][x] = from + x
  <2>1. x \in Copied(n)
    BY <1>1, <1>3, <1>8, SizesAssumption
  <2> QED
    BY <2>1, <1>5
<1> QED
  BY <1>7, <1>8 DEF Refilled

(* In step with the dump, no copy that is not done yet has been overtaken. *)
Flowing == /\ TypeOK /\ files \in Tables /\ i > 0 /\ buf_offset <= STAGING_BUF_SIZE
           /\ PipeInv /\ TableInv

(* The reading position is inside the payload. *)
LEMMA WithinPayload ==
  ASSUME TypeOK, files \in Tables, i > 0, TableInv
  PROVE  /\ current_offset \in Nat /\ i \in 1..Len(files)
         /\ files[i].start_offset \in Nat /\ files[i].size \in Nat
         /\ FS_HEADER <= files[i].start_offset
         /\ offset + left <= current_offset /\ offset <= current_offset
<1>n. Nums
  BY Numbers
<1>1. Nums /\ i \in 1..Len(files)
  BY <1>n DEF Nums
<1>2. /\ current_offset \in Nat /\ files[i].start_offset \in Nat /\ files[i].size \in Nat
      /\ FS_HEADER <= files[i].start_offset
      /\ files[i].start_offset + files[i].size <= current_offset
  BY <1>1, Inside DEF current_offset
<1>3. offset + left = files[i].start_offset + files[i].size
  BY DEF TableInv
<1>4. offset + left <= current_offset
  BY <1>2, <1>3
<1>5. offset <= current_offset
  BY <1>1, <1>2, <1>4 DEF Nums
<1> QED
  BY <1>1, <1>2, <1>4, <1>5

(* Each queued copy still finds the content for its destination. *)
LEMMA FlowingIntact == Flowing => InFlightIntact
<1> SUFFICES ASSUME Flowing, NEW k \in (done + 1)..Len(stream)
             PROVE  staging[stream[k].buf][stream[k].off]
                      = files[stream[k].file].start_offset + stream[k].at
  BY DEF InFlightIntact
<1>1. Nums /\ PipeInv /\ TableInv
  BY Numbers DEF Flowing
<1>2. k \in 1..Len(stream) /\ k > done
  BY <1>1 DEF Nums
<1>3. stream[k].off \in 0..(STAGING_BUF_SIZE - 1)
  BY <1>1, <1>2, OffInside DEF Flowing
<1>4. files[stream[k].file].start_offset + stream[k].at = FS_HEADER + k - 1
  BY <1>1, <1>2 DEF TableInv
<1>5. /\ offset <= current_offset /\ current_offset \in Nat /\ offset = FS_HEADER + Len(stream)
  BY <1>1, WithinPayload DEF Flowing, TableInv
<1>b. Base = src_offset - FS_HEADER /\ Base \in Int
  BY <1>1 DEF Nums, Base
<1>d. done >= Base - STAGING_BUF_SIZE
  BY <1>1 DEF PipeInv
<1>6. /\ Base = src_offset - FS_HEADER /\ Base \in Int
      /\ k > Base - STAGING_BUF_SIZE
  BY <1>b, <1>d, <1>1, <1>2 DEF Nums
<1>7. CASE k > Base
  <2>1. stream[k].buf = Cur(current_buf) /\ stream[k].off = k - 1 - Base
    BY <1>1, <1>2, <1>7 DEF PipeInv
  <2>2. src_offset + (k - 1 - Base) = FS_HEADER + k - 1 /\ FS_HEADER + k - 1 < current_offset
    BY <1>1, <1>2, <1>5, <1>6 DEF Nums
  <2>3. staging[Cur(current_buf)][k - 1 - Base] = src_offset + (k - 1 - Base)
    BY <2>1, <2>2, <1>1, <1>3 DEF PipeInv
  <2> QED
    BY <2>1, <2>2, <2>3, <1>4
<1>8. CASE ~(k > Base)
  <2>1. /\ stream[k].buf = Cur(current_buf + 1)
        /\ stream[k].off = k - 1 - Base + STAGING_BUF_SIZE /\ Base > 0
    <3>1. k <= Base /\ Base > 0
      BY <1>2, <1>6, <1>8, <1>1 DEF Nums
    <3> QED
      BY <3>1, <1>1, <1>2, <1>6 DEF PipeInv
  <2>2. src_offset - STAGING_BUF_SIZE + (k - 1 - Base + STAGING_BUF_SIZE) = FS_HEADER + k - 1
    BY <1>1, <1>2, <1>6 DEF Nums
  <2>3. staging[Cur(current_buf + 1)][k - 1 - Base + STAGING_BUF_SIZE]
          = src_offset - STAGING_BUF_SIZE + (k - 1 - Base + STAGING_BUF_SIZE)
    BY <2>1, <1>1, <1>3 DEF PipeInv
  <2> QED
    BY <2>1, <2>2, <2>3, <1>4
<1> QED
  BY <1>7, <1>8

(* The same of the state after a step. *)
LEMMA FlowingIntactNext == Flowing' => InFlightIntact'
BY FlowingIntact, PTL
(* A new file continues where the last one ended; the first one fills the
   first buffer. *)
LEMMA NextFileInd == IndInv /\ NextFile => IndInv'
<1> SUFFICES ASSUME IndInv, NextFile PROVE IndInv'
  OBVIOUS
<1>1. TypeOK /\ files \in Tables /\ pc = "copy" /\ left = 0 /\ i < Len(files)
  BY DEF IndInv, NextFile
<1>2. Nums
  BY <1>1, Numbers
<1>3. /\ i' = i + 1 /\ offset' = files[i + 1].start_offset /\ left' = files[i + 1].size
      /\ UNCHANGED <<mode, files, pc, current_buf, stream, done, event, dev>>
  BY DEF NextFile
<1>4. i + 1 \in 1..Len(files) /\ i + 1 > 0
  BY <1>1, <1>2 DEF Nums
<1>5. /\ files[i + 1].start_offset \in Nat /\ files[i + 1].size \in Nat
      /\ End(files) \in Nat /\ files[i + 1].start_offset + files[i + 1].size <= End(files)
  BY <1>1, <1>4, Inside
<1>6. current_offset' = current_offset /\ current_offset \in Nat
  BY <1>3, <1>5 DEF current_offset
<1>7. Mapped(Len(files))'
  BY <1>1, <1>3 DEF IndInv, Mapped
<1>8. CASE i = 0
  <2>1. Idle
    BY <1>1, <1>8 DEF IndInv
  <2>2. /\ src_offset' = files[1].start_offset /\ buf_offset' = 0
        /\ Refill(Cur(current_buf), files[1].start_offset)
    BY <1>8 DEF NextFile
  <2>3. files[1].start_offset = FS_HEADER /\ i + 1 = 1
    BY <1>1, <1>2, <1>4, <1>8, Contiguous DEF Nums
  <2>4. Refilled(Cur(current_buf), FS_HEADER)
    <3>1. Cur(current_buf) \in 0..1
      BY <1>2, CurFlips DEF Nums
    <3>2. FS_HEADER \in Nat /\ FS_HEADER <= current_offset
      BY <2>3, <1>5, SizesAssumption DEF current_offset
    <3> QED
      BY <3>1, <3>2, <2>2, <2>3, <1>1, <1>6, RefillHolds
  <2>5. /\ stream' = << >> /\ Len(stream') = 0 /\ done' = 0 /\ event' = 0 /\ buf_offset' = 0
        /\ src_offset' = FS_HEADER /\ offset' = FS_HEADER /\ Base' = 0
    BY <2>1, <2>2, <2>3, <1>3, SizesAssumption DEF Idle, Base
  <2>6. TypeOK'
    <3>1. i' \in 0..Len(files)' /\ left' \in Nat
      BY <1>3, <1>4, <1>5
    <3>2. staging' \in [0..1 -> [0..(STAGING_BUF_SIZE - 1) -> Nat \cup {Junk}]]
      BY <2>4 DEF Refilled
    <3>3. offset' \in Nat /\ src_offset' \in Nat /\ buf_offset' \in Nat
      BY <2>5, SizesAssumption
    <3> QED
      BY <3>1, <3>2, <3>3, <1>1, <1>3 DEF TypeOK
  <2>7. PipeInv'
    <3>1. 0 >= 0 - STAGING_BUF_SIZE /\ FS_HEADER >= FS_HEADER /\ 0 = 0 + 0 /\ ~(0 > 0)
      BY SizesAssumption
    <3>2. \A x \in 0..(STAGING_BUF_SIZE - 1) :
            src_offset' + x < current_offset' => staging'[Cur(current_buf)'][x] = src_offset' + x
      BY <2>4, <2>5, <1>3, <1>6 DEF Refilled, Cur
    <3>3. \A k \in 1..Len(stream') : FALSE
      BY <2>5
    <3> QED
      BY <3>1, <3>2, <3>3, <2>5 DEF PipeInv
  <2>8. TableInv'
    <3>1. offset' = FS_HEADER + Len(stream')
      BY <2>5, SizesAssumption
    <3>2. offset' >= files[i + 1].start_offset
      BY <1>3, <1>5
    <3>3. offset' + left' = files[i + 1].start_offset + files[i + 1].size
      BY <1>3
    <3>4. \A k \in 1..Len(stream') : FALSE
      BY <2>5
    <3> QED
      BY <3>1, <3>2, <3>3, <3>4, <1>3 DEF TableInv
  <2>9. InFlightIntact'
    BY <2>5 DEF InFlightIntact
  <2>10. buf_offset' < STAGING_BUF_SIZE /\ ~(i' = 0)
    BY <2>5, <1>2, <1>3 DEF Nums
  <2> QED
    BY <2>6, <2>7, <2>8, <2>9, <2>10, <1>1, <1>3, <1>7 DEF IndInv
<1>9. CASE i # 0
  <2>1. i > 0 /\ PipeInv /\ TableInv /\ InFlightIntact /\ buf_offset < STAGING_BUF_SIZE
    BY <1>1, <1>2, <1>9 DEF IndInv, Nums
  <2>2. UNCHANGED <<src_offset, buf_offset, staging>>
    BY <1>9 DEF NextFile
  <2>3. TypeOK'
    <3>1. i' \in 0..Len(files)' /\ left' \in Nat /\ offset' \in Nat
      BY <1>3, <1>4, <1>5
    <3> QED
      BY <3>1, <2>2, <1>1, <1>3 DEF TypeOK
  <2>4. PipeInv'
    BY Zenon, <2>1, <2>2, <1>3, <1>6 DEF PipeInv, Base
  <2>5. offset' = offset
    <3>1. i \in Nat \ {0}
      BY <2>1, <1>2 DEF Nums
    <3>2. files[i + 1].start_offset = files[i].start_offset + files[i].size
      BY <3>1, <1>1, <1>4, NextStart, Zenon
    <3>3. offset + left = files[i].start_offset + files[i].size
      BY <2>1 DEF TableInv
    <3>4. offset + left = offset
      BY <1>1, <1>2 DEF Nums
    <3> QED
      BY <3>2, <3>3, <3>4, <1>3
  <2>6. TableInv'
    <3>1. offset' >= files[i + 1].start_offset
      BY <1>3, <1>5
    <3>2. offset' + left' = files[i + 1].start_offset + files[i + 1].size
      BY <1>3
    <3> QED
      BY Zenon, <3>1, <3>2, <2>1, <2>5, <1>3 DEF TableInv
  <2>7. InFlightIntact'
    BY Zenon, <2>1, <2>2, <1>3 DEF InFlightIntact
  <2>8. ~(i' = 0)
    BY <1>2, <1>3 DEF Nums
  <2> QED
    BY <2>1, <2>2, <2>3, <2>4, <2>6, <2>7, <2>8, <1>1, <1>3, <1>7 DEF IndInv
<1> QED
  BY <1>8, <1>9

(* The other buffer is free for a refill: all copies from it are done. *)
LEMMA FlipInd == IndInv /\ Flip => IndInv'
<1> SUFFICES ASSUME IndInv, Flip PROVE IndInv'
  OBVIOUS
<1>1. TypeOK /\ files \in Tables /\ pc = "flip" /\ buf_offset = STAGING_BUF_SIZE
  BY DEF IndInv, Flip
<1>2. Nums
  BY <1>1, Numbers
<1>3. i > 0
  BY <1>1, <1>2 DEF IndInv, Idle, Nums
<1>4. PipeInv /\ TableInv /\ Mapped(Len(files))
  BY <1>1, <1>3 DEF IndInv
<1>5. /\ done >= event /\ src_offset' = src_offset + STAGING_BUF_SIZE
      /\ Refill(Cur(current_buf + 1), src_offset') /\ buf_offset' = 0
      /\ current_buf' = current_buf + 1 /\ event' = Len(stream) /\ pc' = "copy"
      /\ UNCHANGED <<mode, files, i, left, offset, stream, done, dev>>
  BY DEF Flip, synchronizeEvent
<1>6. current_offset' = current_offset /\ current_offset \in Nat /\ offset <= current_offset
  BY <1>1, <1>3, <1>4, <1>5, WithinPayload DEF current_offset
<1>7. /\ Base = src_offset - FS_HEADER /\ Base \in Int /\ Base >= 0
      /\ Base' = Base + STAGING_BUF_SIZE /\ Len(stream) = Base + STAGING_BUF_SIZE
      /\ event = Base
  <2>1. Base = src_offset - FS_HEADER /\ Base' = src_offset' - FS_HEADER
    BY DEF Base
  <2>2. src_offset >= FS_HEADER /\ Len(stream) = Base + buf_offset /\ event = Base
    BY <1>4 DEF PipeInv
  <2> QED
    BY <2>1, <2>2, <1>1, <1>2, <1>5 DEF Nums
<1>8. src_offset + STAGING_BUF_SIZE = offset
  <2>1. offset = FS_HEADER + Len(stream)
    BY <1>4 DEF TableInv
  <2> QED
    BY <2>1, <1>2, <1>7 DEF Nums
<1>9. /\ Cur(current_buf) \in 0..1 /\ Cur(current_buf + 1) \in 0..1
      /\ Cur(current_buf) # Cur(current_buf + 1)
      /\ Cur(current_buf)' = Cur(current_buf + 1) /\ Cur(current_buf + 1)' = Cur(current_buf)
  BY <1>2, <1>5, CurFlips DEF Nums, Cur
<1>10. Refilled(Cur(current_buf + 1), src_offset')
  <2>1. src_offset' \in Nat /\ src_offset' <= current_offset
    BY <1>2, <1>5, <1>6, <1>8 DEF Nums
  <2> QED
    BY <2>1, <1>1, <1>5, <1>6, <1>9, RefillHolds
<1>11. TypeOK'
  <2>1. src_offset' \in Nat /\ buf_offset' \in Nat /\ current_buf' \in Nat /\ event' \in 0..Len(stream)
    BY <1>2, <1>5 DEF Nums
  <2>2. staging' \in [0..1 -> [0..(STAGING_BUF_SIZE - 1) -> Nat \cup {Junk}]]
    BY <1>10 DEF Refilled
  <2> QED
    BY <2>1, <2>2, <1>1, <1>5 DEF TypeOK
<1>12. PipeInv'
  <2>1. /\ src_offset' >= FS_HEADER /\ Base' >= STAGING_BUF_SIZE
        /\ Len(stream)' = Base' + buf_offset' /\ event' = Base'
        /\ done' >= Base' - STAGING_BUF_SIZE
    BY <1>2, <1>5, <1>7 DEF Nums
  <2>2. ASSUME NEW k \in 1..Len(stream)
        PROVE  /\ ~(k > Base')
               /\ k > Base' - STAGING_BUF_SIZE =>
                    /\ stream[k].buf = Cur(current_buf)
                    /\ stream[k].off = k - 1 - Base' + STAGING_BUF_SIZE
    <3>1. ~(k > Base') /\ (k > Base' - STAGING_BUF_SIZE => k > Base)
      BY <1>2, <1>7 DEF Nums
    <3>2. k > Base => stream[k].buf = Cur(current_buf) /\ stream[k].off = k - 1 - Base
      BY <1>4 DEF PipeInv
    <3>3. k - 1 - Base = k - 1 - Base' + STAGING_BUF_SIZE
      BY <1>2, <1>7 DEF Nums
    <3> QED
      BY <3>1, <3>2, <3>3
  <2>3. ASSUME NEW x \in 0..(STAGING_BUF_SIZE - 1)
        PROVE  /\ src_offset' + x < current_offset =>
                    staging'[Cur(current_buf + 1)][x] = src_offset' + x
               /\ staging'[Cur(current_buf)][x] = src_offset' - STAGING_BUF_SIZE + x
    <3>1. src_offset + x < current_offset /\ src_offset + x = src_offset' - STAGING_BUF_SIZE + x
      BY <1>2, <1>5, <1>6, <1>8 DEF Nums
    <3>2. staging[Cur(current_buf)][x] = src_offset + x
      BY <3>1, <1>4 DEF PipeInv
    <3>3. staging'[Cur(current_buf)] = staging[Cur(current_buf)]
      BY <1>9, <1>10 DEF Refilled
    <3>4. src_offset' + x < current_offset => staging'[Cur(current_buf + 1)][x] = src_offset' + x
      BY <1>10 DEF Refilled
    <3> QED
      BY <3>1, <3>2, <3>3, <3>4
  <2> QED
    BY Zenon, <2>1, <2>2, <2>3, <1>5, <1>6, <1>9 DEF PipeInv
<1>13. TableInv'
  BY Zenon, <1>4, <1>5 DEF TableInv
<1>14. Mapped(Len(files))'
  BY Zenon, <1>4, <1>5 DEF Mapped
<1>15. buf_offset' < STAGING_BUF_SIZE /\ buf_offset' <= STAGING_BUF_SIZE
  BY <1>2, <1>5 DEF Nums
<1>16. Flowing'
  BY <1>1, <1>3, <1>5, <1>11, <1>12, <1>13, <1>15 DEF Flowing
<1>17. InFlightIntact'
  BY <1>16, FlowingIntactNext
<1>18. ~(i' = 0)
  BY <1>2, <1>3, <1>5 DEF Nums
<1> QED
  BY <1>1, <1>5, <1>11, <1>12, <1>13, <1>14, <1>15, <1>17, <1>18 DEF IndInv
(* The new copies continue the stream where it ends, and read what the
   current buffer holds for them. *)
LEMMA CopyChunkInd == IndInv /\ CopyChunk => IndInv'
<1> SUFFICES ASSUME IndInv, CopyChunk PROVE IndInv'
  OBVIOUS
<1> DEFINE at == offset - files[i].start_offset
           n == CopySize(mode, left, buf_offset, at)
           op(k) == [buf |-> Cur(current_buf), off |-> offset - src_offset + k - 1,
                     file |-> i, at |-> at + k - 1]
           new == [k \in 1..n |-> op(k)]
<1>1. TypeOK /\ files \in Tables /\ pc = "copy" /\ left > 0 /\ buf_offset < STAGING_BUF_SIZE
  BY DEF IndInv, CopyChunk
<1>2. Nums
  BY <1>1, Numbers
<1>3. i > 0
  BY <1>1, <1>2 DEF IndInv, Idle, Nums
<1>4. PipeInv /\ TableInv /\ Mapped(Len(files))
  BY <1>1, <1>3 DEF IndInv
<1>5. /\ i \in 1..Len(files) /\ files[i].start_offset \in Nat /\ files[i].size \in Nat
  BY <1>1, <1>3, <1>4, WithinPayload
<1>6. at \in Nat /\ at + left = files[i].size /\ files[i].start_offset + at = offset
  <2>1. offset >= files[i].start_offset /\ offset + left = files[i].start_offset + files[i].size
    BY <1>4 DEF TableInv
  <2>2. PICK x \in Nat, y \in Nat : x = files[i].start_offset /\ y = files[i].size
    BY <1>5
  <2>3. offset >= x /\ offset + left = x + y /\ offset \in Nat /\ left \in Nat
    BY <2>1, <2>2, <1>2, Zenon DEF Nums
  <2>4. offset - x \in Nat /\ offset - x + left = y /\ x + (offset - x) = offset
    BY <2>3
  <2> QED
    BY <2>2, <2>4
<1>7. /\ stream' = stream \o new /\ buf_offset' = buf_offset + n
      /\ offset' = offset + n /\ left' = left - n
      /\ pc' = IF buf_offset' >= STAGING_BUF_SIZE THEN "flip" ELSE "copy"
      /\ UNCHANGED <<mode, files, i, src_offset, current_buf, staging, done, event, dev>>
  BY DEF CopyChunk
<1> HIDE DEF at
<1>8. n \in Nat /\ n <= left /\ n <= STAGING_BUF_SIZE - buf_offset
  <2>1. buf_offset \in 0..STAGING_BUF_SIZE /\ left \in Nat
    BY <1>1, <1>2 DEF Nums
  <2> QED
    BY <2>1, <1>6, CopySizeFits
<1> HIDE DEF n
<1>9. /\ Base = src_offset - FS_HEADER /\ Base \in Int /\ Len(stream) = Base + buf_offset
      /\ offset = FS_HEADER + Len(stream) /\ offset - src_offset = buf_offset
  <2>1. Base = src_offset - FS_HEADER
    BY DEF Base
  <2>2. Len(stream) = Base + buf_offset /\ offset = FS_HEADER + Len(stream)
    BY <1>4 DEF PipeInv, TableInv
  <2> QED
    BY <2>1, <2>2, <1>2 DEF Nums
<1>10. \A k \in 1..n : op(k) \in Op
  <2> SUFFICES ASSUME NEW k \in 1..n PROVE op(k) \in Op
    OBVIOUS
  <2>1. Cur(current_buf) \in 0..1
    BY <1>2, CurFlips DEF Nums
  <2>2. offset - src_offset + k - 1 \in Nat /\ i \in Nat /\ at + k - 1 \in Nat
    BY <1>2, <1>6, <1>8, <1>9 DEF Nums
  <2> QED
    BY <2>1, <2>2 DEF Op
<1>11. new \in Seq(Op) /\ Len(new) = n /\ \A k \in 1..n : new[k] = op(k)
  BY <1>8, <1>10
<1> HIDE DEF new
<1>12. /\ stream' \in Seq(Op) /\ Len(stream') = Len(stream) + n
       /\ \A k \in 1..(Len(stream) + n) :
            stream'[k] = IF k <= Len(stream) THEN stream[k] ELSE new[k - Len(stream)]
  <2>1. stream \in Seq(Op)
    BY <1>1 DEF TypeOK
  <2> QED
    BY <2>1, <1>7, <1>11, ConcatProperties, Zenon
<1>13. \A k \in 1..Len(stream) : stream'[k] = stream[k]
  BY <1>2, <1>8, <1>12 DEF Nums
<1>14. ASSUME NEW k \in (Len(stream) + 1)..(Len(stream) + n)
       PROVE  /\ stream'[k].buf = Cur(current_buf) /\ stream'[k].off = k - 1 - Base
              /\ stream'[k].file = i /\ stream'[k].at = at + (k - Len(stream)) - 1
  <2>1. /\ k \in 1..(Len(stream) + n) /\ ~(k <= Len(stream))
        /\ k - Len(stream) \in 1..n
    BY <1>2, <1>8 DEF Nums
  <2>2. stream'[k] = op(k - Len(stream))
    BY <2>1, <1>11, <1>12, Zenon
  <2>3. offset - src_offset + (k - Len(stream)) - 1 = k - 1 - Base
    BY <1>2, <1>9 DEF Nums
  <2> QED
    BY <2>2, <2>3
<1> HIDE DEF op
<1>15. \A k \in 1..Len(stream') :
         k \in 1..Len(stream) \/ k \in (Len(stream) + 1)..(Len(stream) + n)
  BY <1>2, <1>8, <1>12 DEF Nums
<1>16. /\ buf_offset' \in Nat /\ buf_offset' <= STAGING_BUF_SIZE
       /\ pc' = "copy" => buf_offset' < STAGING_BUF_SIZE
       /\ pc' = "flip" => buf_offset' = STAGING_BUF_SIZE
       /\ pc' \in {"copy", "flip"}
  BY <1>2, <1>7, <1>8 DEF Nums
<1>17. TypeOK'
  <2>n. /\ left \in Nat /\ offset \in Nat /\ done \in Nat /\ event \in Nat /\ Len(stream) \in Nat
        /\ done <= Len(stream) /\ event <= Len(stream)
    BY <1>2 DEF Nums
  <2>p. left' = left - n /\ offset' = offset + n /\ Len(stream') = Len(stream) + n
    BY <1>7, <1>12
  <2>1. /\ left' \in Nat /\ offset' \in Nat /\ done \in 0..Len(stream') /\ event \in 0..Len(stream')
    BY <2>n, <2>p, <1>8
  <2> QED
    BY <2>1, <1>1, <1>7, <1>12, <1>16 DEF TypeOK
<1>18. Base' = Base /\ current_offset' = current_offset
  BY <1>7 DEF Base, current_offset
<1>19. PipeInv'
  <2>1. Len(stream') = Base + buf_offset'
    <3>1. /\ Len(stream') = Len(stream) + n /\ buf_offset' = buf_offset + n
          /\ Len(stream) = Base + buf_offset
      BY <1>7, <1>9, <1>12
    <3>2. Base \in Int /\ buf_offset \in Nat /\ n \in Nat
      BY <1>2, <1>8, <1>9 DEF Nums
    <3> QED
      BY <3>1, <3>2
  <2>2. ASSUME NEW k \in 1..Len(stream')
        PROVE  /\ k > Base => stream'[k].buf = Cur(current_buf) /\ stream'[k].off = k - 1 - Base
               /\ k <= Base /\ k > Base - STAGING_BUF_SIZE =>
                    /\ stream'[k].buf = Cur(current_buf + 1)
                    /\ stream'[k].off = k - 1 - Base + STAGING_BUF_SIZE
    <3>1. CASE k \in 1..Len(stream)
      BY Zenon, <3>1, <1>4, <1>13 DEF PipeInv
    <3>2. CASE k \in (Len(stream) + 1)..(Len(stream) + n)
      <4>1. ~(k <= Base)
        BY <3>2, <1>2, <1>9 DEF Nums
      <4> QED
        BY <4>1, <3>2, <1>14
    <3> QED
      BY <3>1, <3>2, <1>15
  <2> QED
    BY Zenon, <2>1, <2>2, <1>4, <1>7, <1>18 DEF PipeInv
<1>20. TableInv'
  <2>1. /\ offset' = FS_HEADER + Len(stream') /\ offset' >= files[i].start_offset
        /\ offset' + left' = files[i].start_offset + files[i].size
    <3>1. PICK x \in Nat, y \in Nat : x = files[i].start_offset /\ y = files[i].size
      BY <1>5
    <3>2. offset >= x /\ offset + left = x + y
      BY <3>1, <1>4 DEF TableInv
    <3>3. offset' >= x /\ offset' + left' = x + y /\ offset' = FS_HEADER + Len(stream')
      BY <3>2, <1>2, <1>7, <1>8, <1>9, <1>12 DEF Nums
    <3> QED
      BY <3>1, <3>3
  <2>2. ASSUME NEW k \in 1..Len(stream')
        PROVE  /\ stream'[k].file \in 1..Len(files)
               /\ stream'[k].at < files[stream'[k].file].size
               /\ files[stream'[k].file].start_offset + stream'[k].at = FS_HEADER + k - 1
               /\ k <= done => dev[stream'[k].file][stream'[k].at] = FS_HEADER + k - 1
    <3>1. CASE k \in 1..Len(stream)
      BY Zenon, <3>1, <1>4, <1>13 DEF TableInv
    <3>2. CASE k \in (Len(stream) + 1)..(Len(stream) + n)
      <4>1. ~(k <= done)
        BY <3>2, <1>2 DEF Nums
      <4>2. PICK x \in Nat, y \in Nat : x = files[i].start_offset /\ y = files[i].size
        BY <1>5
      <4>3. at + left = y /\ x + at = offset
        BY <4>2, <1>6
      <4>4. /\ at + (k - Len(stream)) - 1 < y
            /\ x + (at + (k - Len(stream)) - 1) = FS_HEADER + k - 1
        BY <4>3, <3>2, <1>2, <1>6, <1>8, <1>9 DEF Nums
      <4>5. stream'[k].file = i /\ stream'[k].at = at + (k - Len(stream)) - 1
        BY <3>2, <1>14
      <4> QED
        BY <4>1, <4>2, <4>4, <4>5, <1>5
    <3> QED
      BY <3>1, <3>2, <1>15
  <2> QED
    BY Zenon, <2>1, <2>2, <1>7 DEF TableInv
<1>21. Mapped(Len(files))'
  BY Zenon, <1>4, <1>7 DEF Mapped
<1>22. Flowing'
  BY <1>1, <1>3, <1>7, <1>16, <1>17, <1>19, <1>20 DEF Flowing
<1>23. InFlightIntact'
  BY <1>22, FlowingIntactNext
<1>24. ~(i' = 0)
  BY <1>2, <1>3, <1>7 DEF Nums
<1> QED
  BY <1>1, <1>7, <1>16, <1>17, <1>19, <1>20, <1>21, <1>23, <1>24 DEF IndInv

(* Every step of the specification preserves the invariant. *)
LEMMA NextInd == IndInv /\ [Next]_vars => IndInv'
<1> SUFFICES ASSUME IndInv, [Next]_vars PROVE IndInv'
  OBVIOUS
<1>1. CASE Remap
  BY <1>1, RemapInd
<1>2. CASE NextFile
  BY <1>2, NextFileInd
<1>3. CASE CopyChunk
  BY <1>3, CopyChunkInd
<1>4. CASE Flip
  BY <1>4, FlipInd
<1>5. CASE Sync
  BY <1>5, SyncInd
<1>6. CASE CudaFails
  BY <1>6, CudaFailsInd
<1>7. CASE Dma
  BY <1>7, DmaInd
<1>8. CASE UNCHANGED vars
  BY <1>8, StutterInd
<1> QED
  BY <1>1, <1>2, <1>3, <1>4, <1>5, <1>6, <1>7, <1>8 DEF Next, Host, Ended

(* Once the stream is drained, each unit of each block has arrived. *)
LEMMA AllArrived == IndInv => RestoredAll
<1> SUFFICES ASSUME IndInv, pc = "done", NEW b \in 1..Len(files),
                    NEW o \in 0..(files[b].size - 1)
             PROVE  dev[b][o] = files[b].start_offset + o
  BY DEF RestoredAll
<1>1. TypeOK /\ files \in Tables /\ i = Len(files) /\ left = 0 /\ done = Len(stream)
  BY DEF IndInv
<1>2. Nums
  BY <1>1, Numbers
<1>3. i > 0
  BY <1>1, <1>2 DEF Nums
<1>4. PipeInv /\ TableInv
  BY <1>3 DEF IndInv
<1>5. /\ files[b].start_offset \in Nat /\ files[b].size \in Nat
      /\ FS_HEADER <= files[b].start_offset
      /\ files[b].start_offset + files[b].size <= End(files) /\ End(files) \in Nat
  BY <1>1, Inside
<1>6. End(files) = FS_HEADER + Len(stream)
  <2>1. files # << >>
    BY <1>1, <1>3, <1>2 DEF Nums
  <2>2. End(files) = files[i].start_offset + files[i].size
    BY <2>1, <1>1, Zenon DEF End
  <2>3. offset + left = files[i].start_offset + files[i].size /\ offset = FS_HEADER + Len(stream)
    BY <1>4 DEF TableInv
  <2>4. offset + left = offset
    BY <1>1, <1>2 DEF Nums
  <2> QED
    BY <2>2, <2>3, <2>4
<1> DEFINE p == files[b].start_offset + o - FS_HEADER + 1
<1>7. /\ p \in 1..Len(stream) /\ p <= done /\ FS_HEADER + p - 1 = files[b].start_offset + o
      /\ o \in Nat /\ o < files[b].size
  <2>1. PICK x \in Nat, y \in Nat : x = files[b].start_offset /\ y = files[b].size
    BY <1>5
  <2>2. o \in Nat /\ o < y /\ FS_HEADER <= x /\ x + y <= FS_HEADER + Len(stream)
    BY <2>1, <1>5, <1>6
  <2>n. FS_HEADER \in Nat /\ Len(stream) \in Nat
    BY <1>2 DEF Nums
  <2>3. /\ x + o - FS_HEADER + 1 \in 1..Len(stream)
        /\ FS_HEADER + (x + o - FS_HEADER + 1) - 1 = x + o
    BY <2>2, <2>n
  <2>4. x + o - FS_HEADER + 1 <= done
    BY <2>3, <1>1, <1>2 DEF Nums
  <2> QED
    BY <2>1, <2>2, <2>3, <2>4
<1> HIDE DEF p
<1>8. /\ stream[p].file \in 1..Len(files) /\ stream[p].at < files[stream[p].file].size
      /\ files[stream[p].file].start_offset + stream[p].at = FS_HEADER + p - 1
      /\ dev[stream[p].file][stream[p].at] = FS_HEADER + p - 1
  BY <1>4, <1>7 DEF TableInv
<1>9. stream[p].at \in Nat
  BY <1>1, <1>7, OpType
<1>10. stream[p].file = b /\ stream[p].at = o
  BY <1>1, <1>7, <1>8, <1>9, SameUnit, Zenon
<1>11. dev[b][o] = FS_HEADER + p - 1
  BY <1>8, <1>10, Zenon
<1> QED
  BY <1>7, <1>11, Zenon

(* The asserts of the restore functions. *)
LEMMA AssertsFollow == IndInv => AssertsHold
<1> SUFFICES ASSUME IndInv PROVE AssertsHold
  OBVIOUS
<1>1. TypeOK /\ files \in Tables
  BY DEF IndInv
<1>2. Nums
  BY <1>1, Numbers
<1>3. ASSUME pc \in {"copy", "flip"}, i > 0
      PROVE  buf_offset = offset - src_offset /\ offset <= current_offset
  <2>1. PipeInv /\ TableInv
    BY <1>3 DEF IndInv
  <2>2. Len(stream) = src_offset - FS_HEADER + buf_offset /\ offset = FS_HEADER + Len(stream)
    BY <2>1 DEF PipeInv, TableInv, Base
  <2>3. offset <= current_offset
    BY <2>1, <1>1, <1>3, WithinPayload
  <2> QED
    BY <2>2, <2>3, <1>2 DEF Nums
<1>4. ASSUME pc = "copy", left > 0 PROVE buf_offset = offset - src_offset
  <2>1. i > 0
    BY <1>2, <1>4 DEF IndInv, Idle, Nums
  <2> QED
    BY <2>1, <1>3, <1>4
<1>5. ASSUME pc = "flip"
      PROVE  buf_offset = STAGING_BUF_SIZE /\ src_offset + STAGING_BUF_SIZE <= current_offset
  <2>1. buf_offset = STAGING_BUF_SIZE
    BY <1>5 DEF IndInv
  <2>2. i > 0
    BY <2>1, <1>2, <1>5 DEF IndInv, Idle, Nums
  <2>3. STAGING_BUF_SIZE = offset - src_offset /\ offset <= current_offset
    BY <2>1, <2>2, <1>3, <1>5
  <2>4. src_offset + STAGING_BUF_SIZE = offset
    BY <2>3, <1>2 DEF Nums
  <2> QED
    BY <2>1, <2>3, <2>4
<1> QED
  BY <1>4, <1>5 DEF AssertsHold

-----------------------------------------------------------------------------
(* The inductive invariant holds in every state of every restore. *)
THEOREM Invariance == Spec => []IndInv
BY InitInd, NextInd, PTL DEF Spec

(* For every buffer size, granule, table and mode: when the restore function
   returns, every unit of every block holds what the dump holds for it. *)
THEOREM RestoresEverything == Spec => []RestoredAll
BY Invariance, AllArrived, PTL

(* No refill of a staging buffer overtakes a copy that still reads it. *)
THEOREM NoRefillOvertakes == Spec => []InFlightIntact
<1>1. IndInv => InFlightIntact
  BY DEF IndInv
<1> QED
  BY <1>1, Invariance, PTL

(* The asserts hold, a buffer is exactly used up when it is flipped, and the
   length of a refill does not wrap. *)
THEOREM RestoreAssertsHold == Spec => []AssertsHold
BY Invariance, AssertsFollow, PTL
=============================================================================
