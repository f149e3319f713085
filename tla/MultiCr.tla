------------------------------ MODULE MultiCr ------------------------------
(***************************************************************************)
(* The multi-GPU coordinator (coordinator/multi_cr_client.cpp) and its     *)
(* workers.  A command is a list of phases.  A message phase writes a      *)
(* message into each worker's control word, signals each worker, and waits *)
(* until every control word reads FINISH; a cuda phase runs                *)
(* cuda-checkpoint on all workers; "exchange" copies the export tables     *)
(* between the workers' shared-memory files.                               *)
(*                                                                         *)
(* A signal stays pending until the kernel delivers it; the handler reads  *)
(* the control word when it starts, and writes FINISH when it ends.  While *)
(* a worker is locked or checkpointed its CUDA calls block.                *)
(***************************************************************************)
EXTENDS Worker, Sequences

CONSTANTS N,             \* workers 1..N, in the order of the -p option
          FirstId,       \* CR ids handed out by get_id() before these workers
          Setups         \* the circumstances a run is about, records with the fields

(*   action       cuda-checkpoint --action (TRUE) or --toggle                *)
(*   buffer_only  -b                                                        *)
(*   skip_nccl    -n                                                        *)
(*   failing      the actions of cuda-checkpoint that may fail on a worker  *)
(*   dies         a handler may meet an error that makes it exit            *)
(*   faults       the workers where it may meet one that is only logged     *)
(*   aborts       how often the coordinator may be killed during a command  *)
(*   quiet        a command is started only when all handlers are done      *)
CudaActions == {"lock", "checkpoint", "restore", "unlock", "toggle"}
SetupType == [action : BOOLEAN, buffer_only : BOOLEAN, skip_nccl : BOOLEAN,
              failing : SUBSET CudaActions, dies : BOOLEAN, faults : SUBSET (1..N),
              aborts : Nat, quiet : BOOLEAN]

ASSUME MultiCrAssumption == N \in Nat \ {0} /\ FirstId \in Nat /\ Setups \subseteq SetupType

Workers == 1..N
Nobody  == 0             \* no exports published in a file
Gone    == N + 1         \* published by a process of an earlier job

VARIABLES
  setup,                 \* the circumstances, fixed from the start
  cmd,                   \* the running command, or "none"
  todo,                  \* its phases still to run
  k,                     \* next worker to signal in a message phase
  failures,              \* some cuda-checkpoint call of this command failed
  wk,                    \* the workers
  word, pending, active, \* per worker: control word, signals, running handlers
  id, nextId,            \* CR ids of initialized workers; the get_id() counter
  mine, peer,            \* per shm file: who published exports; peer_block owners
  wanted,                \* peer devices each application has asked for
  aborts                 \* how often the coordinator may still be killed

coord == <<cmd, todo, k, failures>>
blocks == <<id, nextId, mine, peer>>
env == <<setup, wanted, aborts>>
vars == <<coord, wk, word, pending, active, blocks, env>>

Files == 0..(FirstId + N - 1)

Init ==
  /\ cmd = "none" /\ todo = << >> /\ k = 1 /\ failures = FALSE
  /\ wk = [w \in Workers |-> Fresh]
  /\ word = [w \in Workers |-> FINISH]
  /\ pending = [w \in Workers |-> {}] /\ active = [w \in Workers |-> {}]
  /\ id = [w \in Workers |-> -1] /\ nextId = FirstId
  /\ mine = [f \in Files |-> IF f < FirstId THEN Gone ELSE Nobody]
  /\ peer = [f \in Files |-> {}]
  /\ wanted = [w \in Workers |-> {}]
  /\ setup \in Setups /\ aborts = setup.aborts

-----------------------------------------------------------------------------
(* The commands. *)
Unless(skip, phases) == IF skip THEN << >> ELSE phases

Freeze   == Unless(setup.buffer_only, IF setup.action THEN <<"lock", "checkpoint">> ELSE <<"toggle">>)
Unfreeze == Unless(setup.buffer_only, IF setup.action THEN <<"restore", "unlock">> ELSE <<"toggle">>)

(* Mutants: a phase in the wrong place, or left out. *)
do_checkpoint_DumpFirst   == <<"CKPT">> \o Unless(setup.skip_nccl, <<"TEARDOWN">>) \o Freeze
do_checkpoint_FreezeFirst == Unless(setup.skip_nccl, <<"TEARDOWN">>) \o Freeze \o <<"CKPT">>
do_restore_DataFirst  == <<"verify", "RESTORE">> \o Unfreeze
                         \o Unless(setup.skip_nccl, <<"EXPORT", "exchange", "IMPORT">>)
do_restore_NoExchange == Unfreeze \o <<"verify", "RESTORE">>
                         \o Unless(setup.skip_nccl, <<"EXPORT", "IMPORT">>)

do_init       == <<"INIT">>
do_checkpoint == Unless(setup.skip_nccl, <<"TEARDOWN">>) \o <<"CKPT">> \o Freeze
do_restore    == Unfreeze \o <<"verify", "RESTORE">>
                 \o Unless(setup.skip_nccl, <<"EXPORT", "exchange", "IMPORT">>)

(* An operator starts a command: a checkpoint when the data is on the devices, a
   restore when it is parked. *)
Start(c, phases) ==
  /\ cmd = "none"
  /\ setup.quiet => \A w \in Workers : word[w] = FINISH /\ pending[w] = {} /\ active[w] = {}
  /\ cmd' = c /\ todo' = phases /\ k' = 1 /\ failures' = FALSE
  /\ UNCHANGED <<wk, word, pending, active, blocks, env>>

StartInit == Start("init", do_init)
StartCheckpoint ==
  /\ \A w \in Workers : wk[w].data = "live" /\ wk[w].cuda = "running"
  /\ Start("checkpoint", do_checkpoint)
StartRestore == /\ \A w \in Workers : wk[w].data = "parked"
                /\ Start("restore", do_restore)

Phase == IF todo = << >> THEN "end" ELSE Head(todo)
NextPhase == todo' = Tail(todo) /\ k' = 1

(* exit(EXIT_FAILURE), or the end of main(). *)
Leave == cmd' = "none" /\ todo' = << >> /\ k' = 1 /\ UNCHANGED failures
End == /\ cmd # "none" /\ todo = << >>
       /\ Leave
       /\ UNCHANGED <<wk, word, pending, active, blocks, env>>
Abort == /\ aborts > 0 /\ cmd # "none"
         /\ aborts' = aborts - 1
         /\ Leave
         /\ UNCHANGED <<wk, word, pending, active, blocks, setup, wanted>>

(* broadcast_and_wait, step 1: write the message and signal the next worker; the
   coordinator exits if the worker is gone. *)
Signal ==
  /\ Phase \in Messages /\ k <= N
  /\ word' = [word EXCEPT ![k] = Phase]
  /\ IF wk[k].alive
     THEN /\ pending' = [pending EXCEPT ![k] = @ \cup {SignalOf(Phase)}]
          /\ k' = k + 1 /\ UNCHANGED <<cmd, todo, failures>>
     ELSE Leave /\ UNCHANGED pending
  /\ UNCHANGED <<wk, active, blocks, env>>

(* Mutant: one ack is enough. *)
AllFinished_One ==
  /\ Phase \in Messages /\ k > N
  /\ \E w \in Workers : word[w] = FINISH
  /\ NextPhase
  /\ UNCHANGED <<cmd, failures, wk, word, pending, active, blocks, env>>

(* Step 2: wait until every worker reports FINISH. *)
AllFinished ==
  /\ Phase \in Messages /\ k > N
  /\ \A w \in Workers : word[w] = FINISH
  /\ NextPhase
  /\ UNCHANGED <<cmd, failures, wk, word, pending, active, blocks, env>>

Poll == /\ Phase \in Messages /\ k > N
        /\ \E w \in Workers : word[w] # FINISH
        /\ UNCHANGED vars

(* cuda_ckpt_all_parallel: one cuda-checkpoint per worker.  A failed lock or
   checkpoint is followed by an unlock of all workers, whose result is ignored. *)
Cuda ==
  /\ Phase \in CudaActions \cup {"rollback"}
  /\ \E broken \in SUBSET Workers :
       LET action == IF Phase = "rollback" THEN "unlock" ELSE Phase
           failed == {w \in Workers : w \in broken \/ ~wk[w].alive \/ ~CudaFrom(wk[w], action)}
       IN /\ broken # {} => action \in setup.failing
          /\ wk' = [w \in Workers |-> IF w \in failed THEN wk[w]
                                      ELSE [wk[w] EXCEPT !.cuda = CudaTo(wk[w], action)]]
          /\ failures' = (failures \/ failed # {})
          /\ todo' = IF Phase \in {"lock", "checkpoint"} /\ failed # {} THEN <<"rollback">>
                                                                       ELSE Tail(todo)
  /\ UNCHANGED <<cmd, k, word, pending, active, blocks, env>>

(* do_restore gives up when the unfreeze failed anywhere. *)
Verify ==
  /\ Phase = "verify"
  /\ IF failures THEN Leave ELSE NextPhase /\ UNCHANGED <<cmd, failures>>
  /\ UNCHANGED <<wk, word, pending, active, blocks, env>>

(* exchange_ipc_export_info works on the shm files 0..N-1. *)
Exchange ==
  /\ Phase = "exchange"
  /\ LET used == 0..(N - 1)
         others(f) == {mine[g] : g \in used \ {f}} \ {Nobody}
     IN IF \E f \in used : f >= nextId
        THEN Leave /\ UNCHANGED peer
        ELSE /\ peer' = [f \in Files |-> IF f \in used THEN others(f) ELSE peer[f]]
             /\ NextPhase /\ UNCHANGED <<cmd, failures>>
  /\ UNCHANGED <<wk, word, pending, active, id, nextId, mine, env>>

Coordinator == End \/ Signal \/ AllFinished \/ Poll \/ Cuda \/ Verify \/ Exchange

-----------------------------------------------------------------------------
(* The kernel delivers a pending signal to a thread of the worker.  The handler
   initializes the library if needed, then reads the control word. *)
Deliver(w, sig) ==
  /\ sig \in pending[w] /\ wk[w].alive
  /\ \A h \in active[w] : h.sig # sig
  /\ wk[w].init \/ wk[w].cuda = "running"
  /\ pending' = [pending EXCEPT ![w] = @ \ {sig}]
  /\ wk' = [wk EXCEPT ![w].init = TRUE]
  /\ IF wk[w].init THEN UNCHANGED <<id, nextId>>
                   ELSE id' = [id EXCEPT ![w] = nextId] /\ nextId' = nextId + 1
  /\ LET msg == IF sig = "INIT" THEN "INIT" ELSE word[w]
         fetch == IF msg = "IMPORT" /\ msg \in ActsOn(sig) THEN peer[id'[w]] ELSE {}
     IN active' = [active EXCEPT ![w] =
                     @ \cup {[sig |-> sig, msg |-> msg, fetch |-> fetch, got |-> {}]}]
  /\ UNCHANGED <<coord, word, mine, peer, env>>

(* Mutant: a connection that fails is tried again without end. *)
Fetch_Persistent(w, h) ==
  /\ h \in active[w] /\ wk[w].alive /\ wk[w].cuda = "running"
  /\ \E o \in h.fetch :
       LET up == o \in Workers /\ wk[o].alive /\ wk[o].server
       IN active' = IF up THEN [active EXCEPT ![w] = (@ \ {h}) \cup
                                  {[h EXCEPT !.fetch = @ \ {o}, !.got = @ \cup {o}]}]
                          ELSE active
  /\ UNCHANGED <<coord, wk, word, pending, blocks, env>>

(* ipc_import_from_shm_block: fetch the fds of the next owner from its server. *)
Fetch(w, h) ==
  /\ h \in active[w] /\ wk[w].alive /\ wk[w].cuda = "running"
  /\ h.fetch # {}
  /\ LET o == CHOOSE v \in h.fetch : \A u \in h.fetch : v <= u
         up == o \in Workers /\ wk[o].alive /\ wk[o].server
         next == [h EXCEPT !.fetch = @ \ {o}, !.got = IF up THEN @ \cup {o} ELSE @]
     IN active' = [active EXCEPT ![w] = (@ \ {h}) \cup {next}]
  /\ UNCHANGED <<coord, wk, word, pending, blocks, env>>

(* The handler does its work and acks, whatever was logged. *)
Respond(w, h) ==
  /\ h \in active[w] /\ wk[w].alive
  /\ h.sig # "INIT" => wk[w].cuda = "running"
  /\ h.fetch = {}
  /\ \E bad \in Faults :
       LET next == Handled(wk[w], h.sig, h.msg, h.got = Workers \ {w}, bad)
       IN /\ w \notin setup.faults => bad = NoFault
          /\ wk' = [wk EXCEPT ![w] = next]
          /\ IF next.alive THEN /\ word' = [word EXCEPT ![w] = FINISH]
                                /\ active' = [active EXCEPT ![w] = @ \ {h}]
                           ELSE /\ active' = [active EXCEPT ![w] = {}]
                                /\ UNCHANGED word
  /\ mine' = IF h.msg = "EXPORT" /\ h.msg \in ActsOn(h.sig)
             THEN [mine EXCEPT ![id[w]] = w] ELSE mine
  /\ UNCHANGED <<coord, pending, id, nextId, peer, env>>

(* A call fails in init_CR, a dump, a restore or the synchronization before a teardown:
   exit, and no ack.  The failures of the other IPC phases are logged. *)
Die(w) ==
  /\ setup.dies /\ wk[w].alive
  /\ \E h \in active[w] : h.msg \in ActsOn(h.sig) \ {"EXPORT", "IMPORT"}
  /\ wk' = [wk EXCEPT ![w].alive = FALSE, ![w].server = FALSE]
  /\ active' = [active EXCEPT ![w] = {}]
  /\ UNCHANGED <<coord, word, pending, blocks, env>>

(* Between commands the application enables or disables a peer device. *)
Application(w, dev) ==
  /\ cmd = "none" /\ wk[w].alive /\ wk[w].cuda = "running" /\ wk[w].data = "live"
  /\ active[w] = {} /\ pending[w] = {}
  /\ \/ /\ wanted' = [wanted EXCEPT ![w] = @ \cup {dev}]
        /\ wk' = [wk EXCEPT ![w] = EnablePeer(@, dev)]
     \/ /\ dev \in wk[w].driver
        /\ wanted' = [wanted EXCEPT ![w] = @ \ {dev}]
        /\ wk' = [wk EXCEPT ![w] = DisablePeer(@, dev)]
  /\ UNCHANGED <<coord, word, pending, active, blocks, setup, aborts>>

Handler(w) == \/ \E sig \in Signals : Deliver(w, sig)
              \/ \E h \in active[w] : Fetch(w, h) \/ Respond(w, h)

Next == \/ StartInit \/ StartCheckpoint \/ StartRestore
        \/ Coordinator \/ Abort
        \/ \E w \in Workers : Handler(w) \/ Die(w)
        \/ \E w \in Workers, dev \in Devices : Application(w, dev)

Spec == Init /\ [][Next]_vars
(* The coordinator polls until it may go on, the kernel delivers signals, and a
   handler that is not blocked runs to its end. *)
FairSpec == /\ Spec /\ WF_vars(Coordinator)
            /\ \A w \in Workers : WF_vars(Handler(w))

-----------------------------------------------------------------------------
(* Type invariant. *)
HandlerType == [sig : Signals, msg : Messages \cup {FINISH}, fetch : SUBSET (Workers \cup {Gone}),
                got : SUBSET Workers]

TypeOK ==
  /\ cmd \in {"none", "init", "checkpoint", "restore"}
  /\ todo \in Seq(Messages \cup CudaActions \cup {"rollback", "verify", "exchange"})
  /\ k \in 1..(N + 1) /\ failures \in BOOLEAN
  /\ wk \in [Workers -> WorkerType]
  /\ word \in [Workers -> Messages \cup {FINISH}]
  /\ pending \in [Workers -> SUBSET Signals] /\ active \in [Workers -> SUBSET HandlerType]
  /\ id \in [Workers -> Files \cup {-1}] /\ nextId \in FirstId..(FirstId + N)
  /\ mine \in [Files -> Workers \cup {Nobody, Gone}]
  /\ peer \in [Files -> SUBSET (Workers \cup {Gone})]
  /\ setup \in Setups /\ wanted \in [Workers -> SUBSET Devices] /\ aborts \in 0..setup.aborts

(* The handler of worker w is acting on msg. *)
Acting(w, msg) == \E h \in active[w] : h.msg = msg /\ msg \in ActsOn(h.sig)

(* "Teardown on all workers before any checkpoint": while any worker dumps, every
   worker, itself or another, has torn its IPC mappings down, and none is left but what
   its teardown reported that it could not save or unmap. *)
TeardownBeforeDump ==
  ~setup.skip_nccl => \A w, v \in Workers : Acting(w, "CKPT") => wk[v].ipc \in Torn

(* cuda-checkpoint freezes a worker only when every worker's data is in its dump and every
   worker has torn its IPC mappings down; the worker itself has no peer access left.  The
   handlers acknowledge a phase in which calls failed, and the coordinator goes on: memory
   that a teardown could not save or unmap is frozen as mapped memory, and a peer device
   whose disabling failed as an enabled one.  Nothing else is. *)
FreezeClean ==
  \A w, v \in Workers : wk[w].cuda = "checkpointed" =>
    /\ wk[v].data = "parked"
    /\ setup.skip_nccl \/ wk[v].ipc = "down" \/ (wk[v].ipc = "left" /\ v \in setup.faults)
    /\ wk[w].driver \subseteq wk[w].stuck

(* The note in cr_signal_handler: "cuda-checkpoint restore was already called by
   cr_client before this signal".  A handler of a restore phase runs only in a
   worker whose CUDA calls do not block. *)
RestoreUnfrozen ==
  \A w \in Workers : \A msg \in {"RESTORE", "EXPORT", "IMPORT"} :
    Acting(w, msg) => wk[w].cuda = "running"

(* "Export before import on rebuild": while a worker imports, every worker has
   published its exports, rebuilt but for those whose rebuild failed, and the worker's
   peer_block named all the others. *)
ExportBeforeImport ==
  \A w \in Workers : Acting(w, "IMPORT") =>
    /\ peer[id[w]] = Workers \ {w}
    /\ \A v \in Workers : mine[id[v]] = v /\ wk[v].ipc \notin Torn

(* What a worker has to show when a phase is over. *)
Did(w, msg) == CASE msg = "INIT"     -> wk[w].init
                 [] msg = "CKPT"     -> wk[w].data = "parked"
                 [] msg = "RESTORE"  -> wk[w].data = "live"
                 [] msg = "TEARDOWN" -> wk[w].ipc \in Torn
                 [] msg = "EXPORT"   -> wk[w].server
                 [] msg = "IMPORT"   -> ~wk[w].server

(* broadcast_and_wait: "Send a message + signal to ALL workers, then wait for ALL
   to finish".  The coordinator leaves a message phase only when every worker has
   done the phase's work, apart from what failed and was logged. *)
PhaseComplete ==
  [][AllFinished => \A w \in Workers : Did(w, Phase)]_vars

(* A worker whose data is live has the peer access its application asked for, except to
   devices on which a call of its handlers failed. *)
PeersBack ==
  cmd = "none" => \A w \in Workers :
    wk[w].data = "live" => \A dev \in Devices \ wk[w].stuck : dev \in wk[w].driver <=> dev \in wanted[w]

(* Without the IPC phases (-n) peer access is disabled once and enabled once in a round:
   between commands a worker has what its application asked for. *)
PeersRestored == setup.skip_nccl => PeersBack

(* ipc_hooks.h: "Re-enable peer access entries saved by
   ipc_disable_all_peer_access()".  The same with the IPC phases, in which peer access
   is disabled and enabled twice. *)
SavedPeersRestored == ~setup.skip_nccl => PeersBack

(* docs/onboarding/05: the stale-counter case is caught, "exchange_ipc_export_info() will
   fail to open /mnt/huge-ckpt/0".  If the ids of these workers do not start at 0, no
   worker gets to the import phase. *)
StaleIdsRefused == FirstId > 0 => \A w \in Workers : ~Acting(w, "IMPORT")

(* With no worker dying, every command comes to its end. *)
CommandEnds == (cmd # "none" /\ ~setup.dies) ~> (cmd = "none")
=============================================================================
