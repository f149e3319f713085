---------------------------- MODULE MultiCrProofs ----------------------------
(* The theorems about MultiCr, from the steps of MultiCrSteps. *)
EXTENDS MultiCrSteps, FiniteSetTheorems, SequenceTheorems

(* What a phase added in front of a list does. *)
LEMMA Cons ==
  ASSUME NEW x \in PhaseNames, NEW s \in Seq(PhaseNames)
  PROVE  Begins(<<x>> \o s, x, s)
<1>1. <<x>> \in Seq(PhaseNames) /\ Len(<<x>>) = 1 /\ <<x>>[1] = x
  OBVIOUS
<1> DEFINE t == <<x>> \o s
<1>2. t \in Seq(PhaseNames) /\ Len(t) = 1 + Len(s)
  BY <1>1, ConcatProperties
<1>3. t[1] = x /\ \A i \in 1..Len(s) : t[i + 1] = s[i]
  BY <1>1, <1>2, ConcatProperties, LenProperties
<1>4. t # << >>
  BY <1>2, LenProperties
<1>5. Head(t) = x /\ Tail(t) \in Seq(PhaseNames) /\ Len(Tail(t)) = Len(s)
      /\ \A i \in 1..Len(s) : Tail(t)[i] = t[i + 1]
  BY <1>2, <1>3, <1>4, HeadTailProperties, LenProperties
<1>6. Tail(t) = s
  BY <1>3, <1>5, SeqEqual
<1> QED BY <1>2, <1>4, <1>5, <1>6, Zenon DEF Begins, PhaseOf

(* The same for lists written out. *)
LEMMA Short1 ==
  ASSUME NEW x \in PhaseNames
  PROVE  Begins(<<x>>, x, << >>)
  BY DEF Begins, PhaseOf

LEMMA Short2 ==
  ASSUME NEW x \in PhaseNames, NEW y \in PhaseNames
  PROVE  Begins(<<x, y>>, x, <<y>>)
  BY DEF Begins, PhaseOf

LEMMA Short3 ==
  ASSUME NEW x \in PhaseNames, NEW y \in PhaseNames, NEW z \in PhaseNames
  PROVE  Begins(<<x, y, z>>, x, <<y, z>>)
  BY DEF Begins, PhaseOf

(* The lists of Lists, one by one. *)
LEMMA ListsBegin == ListFacts
<1>1. {"lock", "checkpoint", "toggle", "EXPORT", "exchange", "IMPORT", "RESTORE", "verify",
       "CKPT", "unlock", "restore", "TEARDOWN", "rollback", "INIT"} \subseteq PhaseNames
  BY DEF PhaseNames, Messages, CudaActions
<1>2. Freeze \in Seq(PhaseNames) /\ Rebuilding \in Seq(PhaseNames)
  BY <1>1 DEF Freeze, Rebuilding, Unless
<1>3. Begins(<<"CKPT">> \o Freeze, "CKPT", Freeze)
  BY <1>1, <1>2, Cons
<1>4. Begins(<<"RESTORE">> \o Rebuilding, "RESTORE", Rebuilding)
  BY <1>1, <1>2, Cons
<1>5. Begins(<<"TEARDOWN">> \o (<<"CKPT">> \o Freeze), "TEARDOWN", <<"CKPT">> \o Freeze)
  <2>1. <<"CKPT">> \o Freeze \in Seq(PhaseNames)
    BY <1>3 DEF Begins
  <2> QED BY <1>1, <2>1, Cons, Zenon
<1>6. Begins(Verifying, "verify", <<"RESTORE">> \o Rebuilding)
  <2>1. <<"RESTORE">> \o Rebuilding \in Seq(PhaseNames)
    BY <1>4 DEF Begins
  <2> QED BY <1>1, <2>1, Cons, Zenon DEF Verifying
<1>7. Verifying \in Seq(PhaseNames)
  BY <1>6 DEF Begins
<1>8. Begins(<<"toggle">> \o Verifying, "toggle", Verifying)
  BY <1>1, <1>7, Cons
<1>9. Begins(<<"unlock">> \o Verifying, "unlock", Verifying)
  BY <1>1, <1>7, Cons
<1>10. Begins(<<"restore">> \o (<<"unlock">> \o Verifying), "restore", <<"unlock">> \o Verifying)
  <2>1. <<"unlock">> \o Verifying \in Seq(PhaseNames)
    BY <1>9 DEF Begins
  <2> QED BY <1>1, <2>1, Cons, Zenon
<1>11. /\ Begins(<<"INIT">>, "INIT", << >>) /\ Begins(<<"IMPORT">>, "IMPORT", << >>)
       /\ Begins(<<"checkpoint">>, "checkpoint", << >>)
       /\ Begins(<<"rollback">>, "rollback", << >>) /\ Begins(<<"toggle">>, "toggle", << >>)
  BY <1>1, Short1
<1>12. /\ Begins(<<"exchange", "IMPORT">>, "exchange", <<"IMPORT">>)
       /\ Begins(<<"lock", "checkpoint">>, "lock", <<"checkpoint">>)
  BY <1>1, Short2
<1>13. Begins(<<"EXPORT", "exchange", "IMPORT">>, "EXPORT", <<"exchange", "IMPORT">>)
  BY <1>1, Short3
<1>14. /\ setup.buffer_only => Freeze = << >>
       /\ ByAction(setup) => Freeze = <<"lock", "checkpoint">>
       /\ Toggling(setup) => Freeze = <<"toggle">>
       /\ Rebuilding = IF setup.skip_nccl THEN << >> ELSE <<"EXPORT", "exchange", "IMPORT">>
  BY Zenon DEF Freeze, Rebuilding, Unless, ByAction, Toggling
<1> QED BY <1>2, <1>3, <1>4, <1>5, <1>6, <1>8, <1>9, <1>10, <1>11, <1>12, <1>13, <1>14, Zenon
        DEF ListFacts, PhaseOf

(* The lists that the commands start with. *)
LEMMA CommandsStart == StartFacts
<1>1. {"RESTORE", "verify", "CKPT", "unlock", "restore", "TEARDOWN", "toggle"} \subseteq PhaseNames
  BY DEF PhaseNames, Messages, CudaActions
<1>2. do_init \in Lists("init") /\ PhaseOf(do_init) = "INIT" /\ do_init \in Seq(PhaseNames)
  BY ListsBegin DEF ListFacts, do_init, Lists, Begins
<1>3. do_checkpoint = IF setup.skip_nccl THEN <<"CKPT">> \o Freeze
                                         ELSE <<"TEARDOWN">> \o (<<"CKPT">> \o Freeze)
  <2>1. <<"CKPT">> \in Seq(PhaseNames) /\ <<"TEARDOWN">> \in Seq(PhaseNames)
    BY <1>1
  <2>2. << >> \o <<"CKPT">> = <<"CKPT">>
    BY <2>1, ConcatEmptySeq
  <2>3. (<<"TEARDOWN">> \o <<"CKPT">>) \o Freeze = <<"TEARDOWN">> \o (<<"CKPT">> \o Freeze)
    BY <2>1, ListsBegin, ConcatAssociative DEF ListFacts
  <2> QED BY <2>2, <2>3, Zenon DEF do_checkpoint, Unless
<1>4. do_checkpoint \in Lists("checkpoint")
  BY <1>3 DEF Lists
<1>5. /\ do_checkpoint \in Seq(PhaseNames)
      /\ PhaseOf(do_checkpoint) = IF setup.skip_nccl THEN "CKPT" ELSE "TEARDOWN"
  BY <1>3, ListsBegin DEF ListFacts, Begins
<1>6. do_restore = Unfreeze \o Verifying
  <2>1. <<"verify", "RESTORE">> = <<"verify">> \o <<"RESTORE">>
    OBVIOUS
  <2>2. Unfreeze \in Seq(PhaseNames)
    BY <1>1 DEF Unfreeze, Unless
  <2>3. <<"verify">> \in Seq(PhaseNames) /\ <<"RESTORE">> \in Seq(PhaseNames)
    BY <1>1
  <2>4. <<"verify">> \o <<"RESTORE">> \in Seq(PhaseNames)
    BY <2>3, ConcatProperties
  <2>5. do_restore = (Unfreeze \o (<<"verify">> \o <<"RESTORE">>)) \o Rebuilding
    BY <2>1 DEF do_restore, Rebuilding
  <2>6. (Unfreeze \o (<<"verify">> \o <<"RESTORE">>)) \o Rebuilding
        = Unfreeze \o ((<<"verify">> \o <<"RESTORE">>) \o Rebuilding)
    BY <2>2, <2>4, ListsBegin, ConcatAssociative DEF ListFacts
  <2>7. (<<"verify">> \o <<"RESTORE">>) \o Rebuilding = Verifying
    BY <2>3, ListsBegin, ConcatAssociative DEF ListFacts, Verifying
  <2> QED BY <2>5, <2>6, <2>7, Zenon
<1>7. CASE setup.buffer_only
  <2>1. Verifying \in Seq(PhaseNames)
    BY ListsBegin DEF ListFacts, Begins
  <2>2. do_restore = Verifying
    BY <1>6, <1>7, <2>1, ConcatEmptySeq DEF Unfreeze, Unless
  <2>3. Verifying \in Lists("restore")
    BY DEF Lists
  <2> QED BY <1>2, <1>4, <1>5, <1>7, <2>2, <2>3, ListsBegin DEF ListFacts, StartFacts, Begins
<1>8. CASE ByAction(setup)
  <2>1. Unfreeze = <<"restore">> \o <<"unlock">>
    BY <1>8 DEF ByAction, Unfreeze, Unless
  <2>2. <<"restore">> \in Seq(PhaseNames) /\ <<"unlock">> \in Seq(PhaseNames)
    BY <1>1
  <2>3. Verifying \in Seq(PhaseNames)
    BY ListsBegin DEF ListFacts, Begins
  <2>4. do_restore = <<"restore">> \o (<<"unlock">> \o Verifying)
    BY <1>6, <2>1, <2>2, <2>3, ConcatAssociative
  <2>5. do_restore \in Lists("restore")
    BY <1>8, <2>4 DEF Lists, ByAction
  <2> QED BY <1>2, <1>4, <1>5, <1>8, <2>4, <2>5, ListsBegin DEF ListFacts, StartFacts, Begins
<1>9. CASE Toggling(setup)
  <2>1. do_restore = <<"toggle">> \o Verifying
    BY <1>6, <1>9 DEF Toggling, Unfreeze, Unless
  <2>2. do_restore \in Lists("restore")
    BY <1>9, <2>1 DEF Lists
  <2> QED BY <1>2, <1>4, <1>5, <1>9, <2>1, <2>2, ListsBegin DEF ListFacts, StartFacts, Begins
<1> QED BY <1>7, <1>8, <1>9, Zenon DEF ByAction, Toggling

LEMMA Countable == CountFacts
<1>1. IsFiniteSet(Workers) /\ Cardinality(Workers) = N
  BY FS_Interval, MultiCrAssumption DEF Workers
<1>2. ASSUME NEW S \in SUBSET Workers, NEW w \in Workers \ S
      PROVE  /\ Cardinality(S) \in Nat /\ Cardinality(S) + 1 <= N
             /\ Cardinality(S \cup {w}) = Cardinality(S) + 1
  <2>1. IsFiniteSet(S) /\ Cardinality(S) \in Nat /\ S \cup {w} \subseteq Workers
    BY <1>1, FS_Subset, FS_CardinalityType
  <2>2. Cardinality(S \cup {w}) = Cardinality(S) + 1
    BY <2>1, FS_AddElement, Zenon
  <2>3. Cardinality(S \cup {w}) <= Cardinality(Workers)
    BY <1>1, <2>1, FS_Subset
  <2> QED BY <1>1, <2>1, <2>2, <2>3
<1> QED BY <1>1, <1>2, FS_EmptySet DEF CountFacts

LEMMA NextInd == IInv /\ [Next]_vars => IInv'
<1> SUFFICES ASSUME IInv, [Next]_vars PROVE IInv'
  OBVIOUS
<1>1. CASE StartInit
  BY <1>1, CommandsStart, StartInitInd
<1>2. CASE StartCheckpoint
  BY <1>2, CommandsStart, StartCheckpointInd
<1>3. CASE StartRestore
  BY <1>3, CommandsStart, StartRestoreInd
<1>4. CASE End
  BY <1>4, EndInd
<1>5. CASE Signal
  BY <1>5, SignalInd
<1>6. CASE AllFinished
  BY <1>6, ListsBegin, AllFinishedInd
<1>7. CASE Poll
  BY <1>7, StutterInd DEF Poll
<1>8. CASE Cuda
  BY <1>8, ListsBegin, CudaInd
<1>9. CASE Verify
  BY <1>9, ListsBegin, VerifyInd
<1>10. CASE Exchange
  BY <1>10, ListsBegin, Countable, ExchangeInd
<1>11. CASE Abort
  BY <1>11, AbortInd
<1>12. CASE \E w \in Workers : \E sig \in Signals : Deliver(w, sig)
  BY <1>12, Countable, DeliverInd
<1>13. CASE \E w \in Workers : \E h \in active[w] : Fetch(w, h)
  BY <1>13, FetchInd
<1>14. CASE \E w \in Workers : \E h \in active[w] : Respond(w, h)
  BY <1>14, RespondInd
<1>15. CASE \E w \in Workers : Die(w)
  BY <1>15, DieInd
<1>16. CASE \E w \in Workers, dev \in Devices : Application(w, dev)
  BY <1>16, ApplicationInd
<1>17. CASE UNCHANGED vars
  BY <1>17, StutterInd
<1> QED BY <1>1, <1>2, <1>3, <1>4, <1>5, <1>6, <1>7, <1>8, <1>9, <1>10, <1>11, <1>12, <1>13, <1>14,
           <1>15, <1>16, <1>17 DEF Next, Coordinator, Handler

LEMMA Invariant == Spec /\ Regular(setup) => []IInv
<1>1. Init /\ Regular(setup) => IInv
  BY Countable, InitInd
<1> QED BY <1>1, NextInd, PTL DEF Spec

-----------------------------------------------------------------------------
(* What a worker whose handler acts on a message tells. *)
LEMMA ActingWorker ==
  ASSUME IInv, NEW w \in Workers, NEW msg \in Messages, Acting(w, msg)
  PROVE  wk[w].init /\ Ready(msg) /\ NotYet(w, msg)
<1>1. PICK h \in active[w] : h.msg = msg
  BY Zenon DEF Acting
<1>2. Handling(w)
  BY <1>1 DEF IInv, OneSignal, Idle, Signalled, Lost
<1>3. word[w] = msg /\ wk[w].init
  BY <1>1, <1>2 DEF Handling
<1>4. msg # FINISH
  BY DEF Messages, FINISH
<1> QED BY <1>3, <1>4, Zenon DEF IInv, Outstanding

(* The variables of the coordinator, its workers and their files keep their types. *)
THEOREM TypeCorrect == Spec /\ Regular(setup) => []TypeOK
<1>1. IInv => TypeOK
  BY DEF IInv
<1> QED BY <1>1, Invariant, PTL

(* "Teardown on all workers before any checkpoint" (do_checkpoint): while any worker dumps,
   every worker has torn its IPC mappings down, for any number of workers; what a teardown
   could not save or unmap it has reported, and stays. *)
THEOREM TeardownFirst == Spec /\ Regular(setup) => []TeardownBeforeDump
<1>1. IInv => TeardownBeforeDump
  BY ActingWorker, Zenon DEF TeardownBeforeDump, Messages, Ready, AllDown
<1> QED BY <1>1, Invariant, PTL

(* cuda-checkpoint (cuda_ckpt_all_parallel) freezes a worker only when every worker's data is
   dumped, its IPC mappings are gone and the worker's peer access is off, whatever fails: only
   on a worker whose handlers met a fault is memory left mapped, and only a device whose
   disabling failed is left enabled. *)
THEOREM FrozenClean == Spec /\ Regular(setup) => []FreezeClean
<1>1. IInv => FreezeClean
  <2> SUFFICES ASSUME IInv, NEW w \in Workers, NEW v \in Workers, wk[w].cuda = "checkpointed"
               PROVE  /\ wk[v].data = "parked"
                      /\ setup.skip_nccl \/ wk[v].ipc = "down"
                         \/ (wk[v].ipc = "left" /\ v \in setup.faults)
                      /\ wk[w].driver \subseteq wk[w].stuck
    BY DEF FreezeClean
  <2>1. wk[v].data = "parked" /\ wk[w].data = "parked"
    BY DEF IInv, WorkersInv, FrozenParked
  <2>2. setup.skip_nccl \/ wk[v].ipc = "down" \/ (wk[v].ipc = "left" /\ v \in setup.faults)
    BY <2>1 DEF IInv, WorkersInv, ParkedDown, LeftByFault, Torn
  <2>3. wk[w].driver \subseteq wk[w].stuck
    BY <2>1 DEF IInv, WorkersInv, PeerAccess
  <2> QED BY <2>1, <2>2, <2>3
<1> QED BY <1>1, Invariant, PTL

(* cr_signal_handler: "cuda-checkpoint restore was already called by cr_client before this
   signal": a handler of a restore phase runs in a worker that is not frozen. *)
THEOREM UnfrozenFirst == Spec /\ Regular(setup) => []RestoreUnfrozen
<1>1. IInv => RestoreUnfrozen
  BY ActingWorker DEF RestoreUnfrozen, Messages, Ready, AllCuda
<1> QED BY <1>1, Invariant, PTL

(* "Export before import on rebuild" (do_restore): if the ids start at 0, a worker imports
   only when every worker has published its exports and its peer_block names all others. *)
THEOREM ExportFirst ==
  ASSUME FirstId = 0
  PROVE  Spec /\ Regular(setup) => []ExportBeforeImport
<1>1. IInv => ExportBeforeImport
  <2> SUFFICES ASSUME IInv, NEW w \in Workers, Acting(w, "IMPORT")
               PROVE  /\ peer[id[w]] = Workers \ {w}
                      /\ \A v \in Workers : mine[id[v]] = v /\ wk[v].ipc \notin Torn
    BY DEF ExportBeforeImport
  <2>1. Published /\ Named
    BY ActingWorker DEF Messages, Ready
  <2> QED BY <2>1 DEF Published, Named
<1> QED BY <1>1, Invariant, PTL

(* Without the IPC phases (-n) a worker has, between commands, the peer access its
   application asked for: what ipc_disable_all_peer_access saves is what comes back, except
   for devices on which a call of the handlers failed. *)
THEOREM PeersComeBack == Spec /\ Regular(setup) => []PeersRestored
<1>1. IInv => PeersRestored
  BY Zenon DEF IInv, WorkersInv, PeersKept, PeersRestored, PeersBack, SameBut
<1> QED BY <1>1, Invariant, PTL

(* broadcast_and_wait leaves a message phase only when every worker has done its work. *)
THEOREM PhasesComplete == Spec /\ Regular(setup) => PhaseComplete
<1>1. IInv /\ [Next]_vars => [AllFinished => \A w \in Workers : Did(w, Phase)]_vars
  <2> SUFFICES ASSUME IInv, AllFinished, NEW w \in Workers PROVE Did(w, Phase)
    OBVIOUS
  <2>1. Phase \in Messages /\ k > N /\ \A v \in Workers : word[v] = FINISH
    BY DEF AllFinished
  <2>2. Done(w, Phase)
    BY <2>1, FinishedDone
  <2> QED BY <2>2 DEF Done
<1> QED BY <1>1, Invariant, PTL DEF Spec, PhaseComplete
=============================================================================
