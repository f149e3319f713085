------------------------------ MODULE IpcMatch ------------------------------
(***************************************************************************)
(* How N workers find the memory they import again: the exports each one   *)
(* publishes (src/ipc_hooks.cpp), the copy the coordinator makes of them   *)
(* (coordinator/multi_cr_client.cpp), and the matching by position of      *)
(* ipc_import_from_shm_block.  Workers are named by their CR id.  A buffer *)
(* is named by a number, and bufs[b] is its owner.                         *)
(***************************************************************************)
EXTENDS Integers, Sequences, FiniteSets, Functions

CONSTANTS N, MaxBuffers, IPC_MAX_EXPORTS_PER_PROC

ASSUME IpcMatchAssumption ==
  N \in Nat /\ MaxBuffers \in Nat /\ IPC_MAX_EXPORTS_PER_PROC \in Nat

Workers == 0..(N - 1)
Torn    == 0

VARIABLES phase,          \* "run", "published", "exchanged"
          bufs,           \* owner of every buffer, in the order of their creation
          imports,        \* g_ipc_imports: per worker, the buffers in the order mapped
          now,            \* what is mapped there (Torn: nothing)
          my_block, peer_block,   \* in the shared memory of every worker
          rebuilt         \* workers that have handled IPC_IMPORT_MSG

vars == <<phase, bufs, imports, now, my_block, peer_block, rebuilt>>

Empty == [w \in Workers |-> << >>]

Init == /\ phase = "run" /\ bufs = << >> /\ imports = Empty /\ now = Empty
        /\ my_block = Empty /\ peer_block = Empty /\ rebuilt = {}

(* Worker w exports a buffer and some peers import and map it, which fixes the order of the
   records on both sides. *)
Share(w, peers) ==
  /\ phase = "run" /\ Len(bufs) < MaxBuffers
  /\ bufs' = Append(bufs, w)
  /\ LET b == Len(bufs) + 1
     IN imports' = [p \in Workers |-> IF p \in peers THEN Append(imports[p], b) ELSE imports[p]]
  /\ now' = imports'
  /\ UNCHANGED <<phase, my_block, peer_block, rebuilt>>

Exports(w) == SelectSeq([b \in DOMAIN bufs |-> b], LAMBDA b : bufs[b] = w)
First_Fewer(s, n) == SubSeq(s, 1, IF Len(s) < n THEN Len(s) ELSE n - 1)      \* mutant
First(s, n) == SubSeq(s, 1, IF Len(s) < n THEN Len(s) ELSE n)

(* Teardown of all imports, and later the re-export of all workers, who then publish their
   exports (ipc_write_export_info_to_shm): the first records, without those whose re-export
   failed, which have descriptor -1. *)
Published(w, lost) ==
  SelectSeq(First(Exports(w), IPC_MAX_EXPORTS_PER_PROC), LAMBDA b : b \notin lost)

Publish(lost) ==
  /\ phase = "run" /\ phase' = "published"
  /\ now' = [w \in Workers |-> [k \in DOMAIN imports[w] |-> Torn]]
  /\ my_block' = [w \in Workers |-> Published(w, lost)]
  /\ UNCHANGED <<bufs, imports, peer_block, rebuilt>>

(* exchange_ipc_export_info: the blocks of the other workers, one after the other. *)
exchange_ipc_export_info ==
  /\ phase = "published" /\ phase' = "exchanged"
  /\ peer_block' = [w \in Workers |->
       LET filled[j \in 0..N] ==
             IF j = 0 THEN << >>
             ELSE IF j - 1 = w THEN filled[j - 1]
             ELSE First(filled[j - 1] \o my_block[j - 1], IPC_MAX_EXPORTS_PER_PROC)
       IN filled[N]]
  /\ UNCHANGED <<bufs, imports, now, my_block, rebuilt>>

(* The matching loop of ipc_import_from_shm_block: the entries whose descriptor arrived, in
   the order of the block, go to the torn-down imports in their order.  A pair that cannot be
   imported or mapped is skipped, and its import stays torn down. *)
Rebuild(w, arrived, failed) ==
  LET valid == SelectSeq(peer_block[w], LAMBDA b : b \in arrived)
  IN /\ now' = [now EXCEPT ![w] = [k \in DOMAIN now[w] |->
                                     IF k <= Len(valid) /\ k \notin failed THEN valid[k] ELSE Torn]]
     /\ rebuilt' = rebuilt \cup {w}
     /\ UNCHANGED <<phase, bufs, imports, my_block, peer_block>>

(* ipc_import_from_shm_block.  Of the descriptors of a peer the first few come: "Got %d/%d
   fds", or none.  FdExchange says how. *)
Entries(w, o) == {b \in Range(peer_block[w]) : bufs[b] = o}

FirstOfEach(w, arrived) ==
  \A b \in arrived : \A c \in Entries(w, bufs[b]) : c < b => c \in arrived

ipc_import_from_shm_block(w, arrived, failed) ==
  /\ phase = "exchanged" /\ w \notin rebuilt
  /\ FirstOfEach(w, arrived)
  /\ Rebuild(w, arrived, failed)

Next == \/ \E w \in Workers : \E peers \in SUBSET (Workers \ {w}) :
             Share(w, peers)
        \/ \E lost \in SUBSET DOMAIN bufs : Publish(lost)
        \/ exchange_ipc_export_info
        \/ \E w \in Workers : \E arrived \in SUBSET Range(peer_block[w]) :
             \E failed \in SUBSET DOMAIN now[w] : ipc_import_from_shm_block(w, arrived, failed)

Spec == Init /\ [][Next]_vars

-----------------------------------------------------------------------------
(* Type invariant. *)
TypeOK ==
  /\ phase \in {"run", "published", "exchanged"} /\ bufs \in Seq(Workers)
  /\ \A w \in Workers :
       /\ imports[w] \in Seq(DOMAIN bufs) /\ now[w] \in Seq(DOMAIN bufs \cup {Torn})
       /\ my_block[w] \in Seq(DOMAIN bufs) /\ peer_block[w] \in Seq(DOMAIN bufs)
       /\ Len(my_block[w]) <= IPC_MAX_EXPORTS_PER_PROC
       /\ Len(peer_block[w]) <= IPC_MAX_EXPORTS_PER_PROC
  /\ rebuilt \subseteq Workers

(* One peer shares memory with w, and w imports all of it.  With two workers this is so. *)
OnePeer(w) ==
  \E o \in Workers : \A b \in DOMAIN bufs : bufs[b] # w => bufs[b] = o /\ b \in Range(imports[w])

(* No record of a worker is left out of its block but for want of room. *)
AllExported == \A w \in Workers : my_block[w] \in {<< >>, Published(w, {})}

(* No import shows another buffer than the one it showed before the checkpoint: what the
   comment in ipc_import_from_shm_block promises ("The Nth export from a peer corresponds
   to the Nth import we originally received from that peer").  The positions are those of
   the whole block, so this is about a worker with one peer, and about peers whose records
   could all be exported again: a record that is left out moves the ones behind it. *)
SameMemory ==
  \A w \in Workers : OnePeer(w) /\ AllExported =>
    \A k \in DOMAIN now[w] : now[w][k] \in {Torn, imports[w][k]}
=============================================================================
