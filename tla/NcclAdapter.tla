----------------------------- MODULE NcclAdapter -----------------------------
(***************************************************************************)
(* The NCCL adapter: two ranks whose communicators call                    *)
(* ncclCommCheckpointPrepare and ncclCommCheckpointRestore, the plugin     *)
(* that NCCL loads for them, and the runtime that keeps one state per      *)
(* process (adapters/nccl/runtime/gcr_checkpoint_runtime.cpp).  A rank has *)
(* one thread per communicator; the threads of both ranks meet at barriers *)
(* as examples/two_proc_nccl_test.cpp does, and the freeze by              *)
(* cuda-checkpoint happens at the barrier between prepare and restore.     *)
(*                                                                         *)
(* An entry point of the runtime holds g_state_mutex throughout and is one *)
(* step.  What the ipc_ functions do to single records is IpcRecords, how  *)
(* descriptors travel is FdExchange; here each kind of memory of a process *)
(* is up or down as a whole: a rebuild that skips a record is one that     *)
(* fails.  Unmapping and releasing are taken to succeed.  IPC events stay  *)
(* down and are left out.                                                  *)
(***************************************************************************)
EXTENDS Integers, FiniteSets

CONSTANTS Comms,         \* communicators of a rank
          MaxRounds, MaxFaults,
          Circumstances  \* see CircumstanceType

(* GCR_STOP_FD_SERVER_AFTER_IMPORT is set; after an error a thread calls again, or its
   process exits (CHECK_NCCL). *)
CircumstanceType == [stops : BOOLEAN, again : BOOLEAN]

ASSUME NcclAdapterAssumption ==
  /\ Comms # {} /\ Circumstances \subseteq CircumstanceType
  /\ MaxRounds \in Nat \ {0} /\ MaxFaults \in Nat

Ranks   == {0, 1}
Peer(r) == 1 - r
Callers == Ranks \X Comms

VARIABLES circ,
          pc,       \* per caller: the call it makes next, or the barrier it waits at
          plugin,   \* per rank: checkpointPluginStatus
          proc,     \* per rank: the runtime's state and the memory it manages
          shm,      \* per rank: is its export block written, with how many entries?
          server,   \* per rank: does its descriptor server run?
          faults, round,
          late,     \* ranks where a prepare failed after it had saved the exports
          unbuilt,  \* ranks where the rebuild of exports or local memory failed
          silent    \* what else failed without an error: importing, changing peer access

vars == <<circ, pc, plugin, proc, shm, server, faults, round, late, unbuilt, silent>>

(* exports and locals: mapped?  made: how often the exports were built.  imports: which
   building of the peer's exports is mapped, 0 if none is.  ebuf and lbuf: g_export_data
   and g_local_alloc_data; junk is allocated and not filled. *)
BufType == {"none", "junk", "data"}
ProcType == [g_prepared : BOOLEAN, exports : BOOLEAN, made : Nat, imports : Nat,
             locals : BOOLEAN, ebuf : BufType, lbuf : BufType, peers : BOOLEAN, saved : BOOLEAN]

Init == /\ circ \in Circumstances
        /\ pc = [c \in Callers |-> "prepare"]
        /\ plugin = [r \in Ranks |-> "Ready"]
        /\ proc = [r \in Ranks |->
             [g_prepared |-> FALSE, exports |-> TRUE, made |-> 1, imports |-> 1, locals |-> TRUE,
              ebuf |-> "none", lbuf |-> "none", peers |-> TRUE, saved |-> FALSE]]
        /\ shm = [r \in Ranks |-> "none"] /\ server = [r \in Ranks |-> FALSE]
        /\ faults = 0 /\ round = 1 /\ late = {} /\ unbuilt = {} /\ silent = {}

-----------------------------------------------------------------------------
(* The call returned no error, whether or not one was logged. *)
Succeed(c, next, logged) ==
  /\ pc' = [pc EXCEPT ![c] = next]
  /\ IF logged THEN faults < MaxFaults /\ faults' = faults + 1 ELSE UNCHANGED faults

(* The call returned an error. *)
Fail(c) == /\ faults < MaxFaults /\ faults' = faults + 1
           /\ pc' = IF circ.again THEN pc
                    ELSE [d \in Callers |-> IF d[1] = c[1] THEN "exited" ELSE pc[d]]

(* ncclCheckpointPluginLoad, by the first call; a failure is final. *)
ncclCheckpointPluginLoad(c) ==
  /\ pc[c] \in {"prepare", "export", "import"} /\ plugin[c[1]] = "Ready"
  /\ \/ plugin' = [plugin EXCEPT ![c[1]] = "Success"] /\ UNCHANGED <<pc, faults>>
     \/ plugin' = [plugin EXCEPT ![c[1]] = "Failed"] /\ Fail(c)
  /\ UNCHANGED <<circ, proc, shm, server, round, late, unbuilt, silent>>

(* allocate_buffer: nothing is allocated for memory that is not mapped. *)
Filled(mapped, content) == IF mapped THEN content ELSE "none"

(* Mutant: the latch is set first. *)
Stages_EarlyLatch(p) ==
  LET l  == [p EXCEPT !.g_prepared = TRUE]
      im == [l EXCEPT !.imports = 0]
      e0 == [im EXCEPT !.ebuf = "none"]
      e1 == [im EXCEPT !.ebuf = Filled(p.exports, "junk")]
      e2 == [im EXCEPT !.ebuf = Filled(p.exports, "data"), !.exports = FALSE]
      l0 == [e2 EXCEPT !.lbuf = "none"]
      l1 == [e2 EXCEPT !.lbuf = Filled(p.locals, "junk")]
      l2 == [e2 EXCEPT !.lbuf = Filled(p.locals, "data"), !.locals = FALSE]
      done == [l2 EXCEPT !.saved = p.peers]
  IN <<l, e0, e1, l0, l1, done, [done EXCEPT !.peers = FALSE]>>

(* gcr_checkpoint_prepare, what it leaves behind: when cudaDeviceSynchronize fails, when
   there is no buffer for the exports (the old one is gone by then), when they cannot be
   saved, the same for local memory, and when all is done: without disabling peer access,
   whose failure is only counted, or with it. *)
Stages(p) ==
  LET im == [p EXCEPT !.imports = 0]
      e0 == [im EXCEPT !.ebuf = "none"]
      e1 == [im EXCEPT !.ebuf = Filled(p.exports, "junk")]
      e2 == [im EXCEPT !.ebuf = Filled(p.exports, "data"), !.exports = FALSE]
      l0 == [e2 EXCEPT !.lbuf = "none"]
      l1 == [e2 EXCEPT !.lbuf = Filled(p.locals, "junk")]
      l2 == [e2 EXCEPT !.lbuf = Filled(p.locals, "data"), !.locals = FALSE]
      done == [l2 EXCEPT !.saved = p.peers, !.g_prepared = TRUE]
  IN <<p, e0, e1, l0, l1, done, [done EXCEPT !.peers = FALSE]>>

(* ncclCommCheckpointPrepare, gcrPluginPrepare, gcr_checkpoint_prepare. *)
Prepare(c) ==
  LET r == c[1] IN
  /\ pc[c] = "prepare" /\ plugin[r] = "Success"
  /\ \/ proc[r].g_prepared /\ Succeed(c, "parked", FALSE) /\ UNCHANGED <<proc, late, silent>>
     \/ /\ ~proc[r].g_prepared
        /\ \E k \in 1..7 :
             /\ proc' = [proc EXCEPT ![r] = Stages(@)[k]]
             /\ IF k \in {6, 7} THEN Succeed(c, "parked", k = 6) ELSE Fail(c)
             /\ late' = IF k \in {4, 5} /\ Stages(proc[r])[k].ebuf = "data"
                        THEN late \cup {r} ELSE late
             /\ silent' = IF k = 6 THEN silent \cup {<<r, "peers">>} ELSE silent
  /\ UNCHANGED <<circ, plugin, shm, server, round, unbuilt>>

(* Mutant: the buffer is released before it is used. *)
RebuildExports_Released(p, works) == [p EXCEPT !.ebuf = "none"]

(* The exports from g_export_data, local memory from g_local_alloc_data.  Only what was torn
   down is built; the buffer is released whether that works or not. *)
RebuildExports(p, works) ==
  LET ready == works /\ p.ebuf = "data"
  IN [p EXCEPT !.ebuf = "none", !.exports = @ \/ ready,
               !.made = IF ~p.exports /\ ready THEN @ + 1 ELSE @]
RebuildLocals(p, works) ==
  [p EXCEPT !.lbuf = "none", !.locals = @ \/ (works /\ p.lbuf = "data")]

(* ncclCommCheckpointRestore with NCCL_CKPT_RESTORE_EXPORT, gcrPluginRestore,
   gcr_checkpoint_restore_export; it is not latched.  A rebuild that skips records returns
   how many it did not skip, which is no error. *)
RestoreExport(c) ==
  LET r == c[1] IN
  /\ pc[c] = "export" /\ plugin[r] = "Success"
  /\ \E eworks, lworks \in BOOLEAN :
       LET exports == RebuildExports(proc[r], eworks)
           built   == RebuildLocals(exports, lworks) IN
       /\ ~eworks => proc[r].ebuf # "none"
       /\ ~lworks => proc[r].lbuf # "none"
       /\ unbuilt' = IF eworks /\ lworks THEN unbuilt ELSE unbuilt \cup {r}
       /\ \/ /\ ~eworks /\ Fail(c)          \* exports < 0
             /\ proc' = [proc EXCEPT ![r] = exports] /\ UNCHANGED <<shm, server>>
          \/ /\ proc' = [proc EXCEPT ![r] = built]
             /\ \/ Fail(c) /\ UNCHANGED <<shm, server>>      \* locals < 0, map_shm_block
                \/ /\ shm' = [shm EXCEPT ![r] = IF built.exports THEN "listed" ELSE "empty"]
                   /\ \/ ~server[r] /\ Fail(c) /\ UNCHANGED server
                      \/ /\ server' = [server EXCEPT ![r] = TRUE]
                         /\ Succeed(c, "exported", ~eworks \/ ~lworks)
  /\ UNCHANGED <<circ, plugin, round, late, silent>>

Alive(r) == \A c \in Callers : c[1] = r => pc[c] # "exited"

(* ipc_import_from_shm_block: an import that gets no descriptor stays torn down, and that
   is no error. *)
Imported(r) ==
  LET q == Peer(r) IN
  IF proc[r].imports # 0 THEN proc[r].imports
  ELSE IF shm[q] = "listed" /\ server[q] /\ Alive(q) THEN proc[q].made ELSE 0

(* Mutant: peer access is not enabled again. *)
Finish_NoPeers(p, works) == [p EXCEPT !.g_prepared = FALSE]

(* The end of gcr_checkpoint_restore_import; failing to enable peer access is only counted. *)
Finish(p, works) ==
  [p EXCEPT !.peers = @ \/ (p.saved /\ works), !.saved = FALSE, !.g_prepared = FALSE]

(* ncclCommCheckpointRestore with NCCL_CKPT_RESTORE_IMPORT and perhaps
   NCCL_CKPT_OPT_VALIDATE; the validation looks at what is mapped. *)
RestoreImport(c) ==
  LET r == c[1] IN
  /\ pc[c] = "import" /\ plugin[r] = "Success"
  /\ \/ Fail(c) /\ UNCHANGED <<proc, server, silent>>      \* map_shm_block
     \/ /\ shm[Peer(r)] # "none"
        /\ server' = [server EXCEPT ![r] = @ /\ ~circ.stops]
        /\ \E iworks, pworks \in BOOLEAN :
             LET imported == IF iworks THEN [proc[r] EXCEPT !.imports = Imported(r)] ELSE proc[r] IN
             /\ ~pworks => proc[r].saved
             /\ silent' = silent \cup (IF iworks THEN {} ELSE {<<r, "imports">>})
                                 \cup (IF pworks THEN {} ELSE {<<r, "peers">>})
             /\ \/ proc' = [proc EXCEPT ![r] = imported] /\ pworks /\ Fail(c)      \* validateErrors
                \/ proc' = [proc EXCEPT ![r] = Finish(imported, pworks)] /\ Succeed(c, "done", ~iworks \/ ~pworks)
  /\ UNCHANGED <<circ, plugin, shm, round, late, unbuilt>>

(* Barriers.  The parent runs cuda-checkpoint when every caller is parked. *)
All(place) == \A c \in Callers : pc[c] = place
Meet(place, next) == All(place) /\ pc' = [c \in Callers |-> next]

Freeze == /\ Meet("parked", "export")
          /\ UNCHANGED <<circ, plugin, proc, shm, server, faults, round, late, unbuilt, silent>>
Barrier == /\ Meet("exported", "import")
           /\ UNCHANGED <<circ, plugin, proc, shm, server, faults, round, late, unbuilt, silent>>
Again == /\ round < MaxRounds /\ round' = round + 1
         /\ Meet("done", "prepare")
         /\ UNCHANGED <<circ, plugin, proc, shm, server, faults, late, unbuilt, silent>>

Next == \/ \E c \in Callers : \/ ncclCheckpointPluginLoad(c) \/ Prepare(c)
                              \/ RestoreExport(c) \/ RestoreImport(c)
        \/ Freeze \/ Barrier \/ Again

Spec == Init /\ [][Next]_vars

-----------------------------------------------------------------------------
(* Type invariant. *)
TypeOK ==
  /\ circ \in Circumstances
  /\ pc \in [Callers -> {"prepare", "parked", "export", "exported", "import", "done", "exited"}]
  /\ plugin \in [Ranks -> {"Ready", "Success", "Failed"}] /\ proc \in [Ranks -> ProcType]
  /\ shm \in [Ranks -> {"none", "empty", "listed"}] /\ server \in [Ranks -> BOOLEAN]
  /\ faults \in 0..MaxFaults /\ round \in 1..MaxRounds
  /\ late \subseteq Ranks /\ unbuilt \subseteq Ranks
  /\ silent \subseteq Ranks \X {"imports", "peers"}

(* "gcr_checkpoint_prepare is once-per-process": whatever calls failed before, once every
   communicator's prepare has succeeded no process has an import, an exported or a local
   allocation mapped when cuda-checkpoint freezes it, nor peer access, unless the driver
   refused to disable it. *)
FrozenClean ==
  All("parked") => \A r \in Ranks :
    LET p == proc[r]
    IN p.imports = 0 /\ ~p.exports /\ ~p.locals /\ (p.peers => <<r, "peers">> \in silent)

(* Saved memory is not thrown away: what is torn down has its content in a buffer, unless a
   rebuild failed or, for the exports, a prepare is repeated that failed after it had saved
   them (it finds nothing to save and frees the buffer). *)
DataKept ==
  \A r \in Ranks :
    /\ ~proc[r].exports /\ proc[r].ebuf # "data" => r \in late \cup unbuilt
    /\ ~proc[r].locals /\ proc[r].lbuf # "data" => r \in unbuilt

(* When every communicator of both ranks is restored, each rank has its own memory, the
   peer's present exports and its peer access, and is ready for the next prepare; unless
   memory was lost as DataKept says, a descriptor server was stopped too early, or a failure
   to import or to enable peer access went without an error. *)
Restored ==
  All("done") /\ late \cup unbuilt = {} /\ silent = {} /\ ~circ.stops =>
    \A r \in Ranks : LET p == proc[r] IN
      /\ p.exports /\ p.locals /\ p.peers /\ ~p.g_prepared
      /\ p.imports = proc[Peer(r)].made
=============================================================================
