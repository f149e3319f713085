---------------------------- MODULE MultiCrSteps -----------------------------
(***************************************************************************)
(* The inductive invariant of MultiCr, for any number of workers, any      *)
(* devices and any circumstances that are regular, and that every action   *)
(* keeps it.  What these proofs need of sequences and of cardinalities is  *)
(* a hypothesis here (ListFacts, StartFacts, CountFacts); MultiCrProofs    *)
(* discharges them from the library and states the theorems.               *)
(***************************************************************************)
EXTENDS MultiCr, TLAPS

(* cuda-checkpoint --toggle. *)
Toggling(s) == ~s.action /\ ~s.buffer_only

(* What the commands rely on.  A coordinator that may be killed is started again only when
   the handlers are done; and a toggle, which does not say which way it goes, neither fails
   on some workers only nor is cut off from the phases before it. *)
Regular(s) == /\ s.aborts > 0 => s.quiet
              /\ Toggling(s) => s.aborts = 0 /\ "toggle" \notin s.failing

-----------------------------------------------------------------------------
(* A worker and the message it was sent: done with it, not yet interrupted by the signal,
   in the handler, or gone without an answer. *)
Idle(w) == word[w] = FINISH /\ pending[w] = {} /\ active[w] = {} /\ wk[w].alive
Signalled(w) == /\ word[w] \in Messages /\ wk[w].alive
                /\ pending[w] = {SignalOf(word[w])} /\ active[w] = {}
Handling(w) == /\ word[w] \in Messages /\ wk[w].alive /\ wk[w].init /\ pending[w] = {}
               /\ \E h \in active[w] : /\ active[w] = {h}
                                       /\ h.msg = word[w] /\ h.sig = SignalOf(word[w])
Lost(w) == word[w] \in Messages /\ ~wk[w].alive /\ pending[w] = {} /\ active[w] = {}

OneSignal == \A w \in Workers : Idle(w) \/ Signalled(w) \/ Handling(w) \/ Lost(w)
OneMessage == \A w, v \in Workers : word[w] # FINISH /\ word[v] # FINISH => word[w] = word[v]

AllIdle == \A w \in Workers : Idle(w)
AllData(d) == \A w \in Workers : wk[w].data = d
AllCuda(c) == \A w \in Workers : wk[w].cuda = c
AllDown == \A w \in Workers : wk[w].ipc \in Torn

Published == \A w \in Workers : wk[w].init /\ mine[id[w]] = w /\ wk[w].ipc \notin Torn
Named == FirstId = 0 => \A w \in Workers : peer[id[w]] = Workers \ {w}

(* What is so of all workers while any of them has the message. *)
Ready(msg) ==
  /\ msg # "INIT" => AllCuda("running")
  /\ msg \in {"TEARDOWN", "EXPORT", "IMPORT"} => ~setup.skip_nccl /\ AllData("live")
  /\ msg \in {"CKPT", "RESTORE"} => setup.skip_nccl \/ AllDown
  /\ msg = "IMPORT" => Published /\ Named

(* A worker before it handles the message, and after. *)
NotYet(w, msg) == /\ msg = "CKPT" => wk[w].data = "live"
                  /\ msg = "RESTORE" => wk[w].data = "parked"
Done(w, msg) == /\ Did(w, msg)
                /\ msg = "EXPORT" => wk[w].init /\ mine[id[w]] = w /\ wk[w].ipc \notin Torn

Outstanding == \A w \in Workers : word[w] # FINISH => Ready(word[w]) /\ NotYet(w, word[w])

-----------------------------------------------------------------------------
(* What holds of the workers at any time. *)
FrozenParked == \A w, v \in Workers : wk[w].cuda = "checkpointed" => wk[v].data = "parked"
ParkedDown == \A w, v \in Workers : wk[w].data = "parked" /\ ~setup.skip_nccl => wk[v].ipc \in Torn
LeftByFault == \A w \in Workers : wk[w].ipc = "left" => w \in setup.faults

(* Two sets of devices agree, except about those in `stuck'. *)
SameBut(S, T, stuck) == \A dev \in Devices \ stuck : dev \in S <=> dev \in T
PeerAccess == \A w \in Workers : /\ SameBut(wk[w].driver, wk[w].tracked, wk[w].stuck)
                                 /\ wk[w].data = "parked" => wk[w].driver \subseteq wk[w].stuck
PeersKept == setup.skip_nccl =>
  \A w \in Workers : IF wk[w].data = "live" THEN SameBut(wk[w].driver, wanted[w], wk[w].stuck)
                                            ELSE SameBut(wk[w].saved, wanted[w], wk[w].stuck)
NeverFrozen == setup.buffer_only => AllCuda("running")

(* The CR ids handed out are those of the initialized workers, each has its own. *)
Initialized == {w \in Workers : wk[w].init}
Ids == /\ \A w \in Workers : IF wk[w].init THEN id[w] \in FirstId..(nextId - 1) ELSE id[w] = -1
       /\ \A w, v \in Initialized : id[w] = id[v] => w = v
       /\ \A f \in FirstId..(nextId - 1) : \E w \in Initialized : id[w] = f
       /\ nextId = FirstId + Cardinality(Initialized)

-----------------------------------------------------------------------------
(* The coordinator: the lists of phases that may be left to do, *)
Rebuilding == Unless(setup.skip_nccl, <<"EXPORT", "exchange", "IMPORT">>)
Verifying == <<"verify">> \o (<<"RESTORE">> \o Rebuilding)
Lists(c) ==
  CASE c = "none" -> {<< >>}
    [] c = "init" -> {<<"INIT">>, << >>}
    [] c = "checkpoint" ->
         {<<"CKPT">> \o Freeze, Freeze, << >>}
         \cup (IF setup.skip_nccl THEN {} ELSE {<<"TEARDOWN">> \o (<<"CKPT">> \o Freeze)})
         \cup (IF setup.action /\ ~setup.buffer_only THEN {<<"checkpoint">>, <<"rollback">>} ELSE {})
    [] c = "restore" ->
         {Verifying, <<"RESTORE">> \o Rebuilding, << >>}
         \cup (IF Toggling(setup) THEN {<<"toggle">> \o Verifying} ELSE {})
         \cup (IF setup.action /\ ~setup.buffer_only
               THEN {<<"restore">> \o (<<"unlock">> \o Verifying), <<"unlock">> \o Verifying} ELSE {})
         \cup (IF setup.skip_nccl THEN {}
               ELSE {<<"EXPORT", "exchange", "IMPORT">>, <<"exchange", "IMPORT">>, <<"IMPORT">>})

(* and what each phase finds. *)
InPhase(msg) ==
  /\ Ready(msg)
  /\ \A w \in Workers : /\ w < k => word[w] = msg \/ (Idle(w) /\ Done(w, msg))
                        /\ w >= k => Idle(w) /\ NotYet(w, msg)

(* Between the commands that toggle, all workers are on the same side. *)
Agreed == \/ AllData("live") /\ AllCuda("running")
          \/ AllData("parked") /\ AllCuda("checkpointed")

Finds ==
  /\ Phase \in Messages => InPhase(Phase)
  /\ Phase \notin Messages /\ (cmd # "none" \/ setup.aborts = 0) => AllIdle
  /\ Phase \in CudaActions \cup {"rollback", "verify"} => AllData("parked")
  /\ Phase = "lock" => AllCuda("running")
  /\ Phase = "checkpoint" => AllCuda("locked")
  /\ Phase = "unlock" => failures \/ AllCuda("locked")
  /\ Phase = "verify" => failures \/ AllCuda("running")
  /\ Phase = "exchange" => Ready("EXPORT") /\ Published
  /\ Phase = "toggle" => AllCuda(IF cmd = "checkpoint" THEN "running" ELSE "checkpointed")
  /\ Toggling(setup) => ~failures /\ (Phase \in {"INIT", "end"} => Agreed)

(* The inductive invariant. *)
WorkersInv == FrozenParked /\ ParkedDown /\ LeftByFault /\ PeerAccess /\ PeersKept /\ NeverFrozen
IInv == /\ TypeOK /\ Regular(setup) /\ OneSignal /\ OneMessage /\ Outstanding
        /\ WorkersInv /\ Ids /\ todo \in Lists(cmd) /\ Finds

-----------------------------------------------------------------------------
(* The lists of phases. *)
PhaseNames == Messages \cup CudaActions \cup {"rollback", "verify", "exchange"}

(* The phase that a list starts with. *)
PhaseOf(list) == IF list = << >> THEN "end" ELSE Head(list)

(* A list that starts with phase x and goes on with s. *)
Begins(list, x, s) == /\ list \in Seq(PhaseNames) /\ list # << >>
                      /\ Head(list) = x /\ PhaseOf(list) = x /\ Tail(list) = s

(* The phases that follow each other in a command. *)
ByAction(s) == s.action /\ ~s.buffer_only
Follows(p, q) ==
  \/ cmd = "init" /\ p = "INIT" /\ q = "end"
  \/ /\ cmd = "checkpoint"
     /\ \/ p = "TEARDOWN" /\ q = "CKPT" /\ ~setup.skip_nccl
        \/ p = "CKPT" /\ q = "end" /\ setup.buffer_only
        \/ p = "CKPT" /\ q = "lock" /\ ByAction(setup)
        \/ p = "CKPT" /\ q = "toggle" /\ Toggling(setup)
        \/ p = "lock" /\ q = "checkpoint" /\ ByAction(setup)
        \/ p \in {"checkpoint", "rollback"} /\ q = "end" /\ ByAction(setup)
        \/ p = "toggle" /\ q = "end" /\ Toggling(setup)
  \/ /\ cmd = "restore"
     /\ \/ p = "restore" /\ q = "unlock" /\ ByAction(setup)
        \/ p = "unlock" /\ q = "verify" /\ ByAction(setup)
        \/ p = "toggle" /\ q = "verify" /\ Toggling(setup)
        \/ p = "verify" /\ q = "RESTORE"
        \/ p = "RESTORE" /\ q = "end" /\ setup.skip_nccl
        \/ p = "RESTORE" /\ q = "EXPORT" /\ ~setup.skip_nccl
        \/ p = "EXPORT" /\ q = "exchange" /\ ~setup.skip_nccl
        \/ p = "exchange" /\ q = "IMPORT" /\ ~setup.skip_nccl
        \/ p = "IMPORT" /\ q = "end" /\ ~setup.skip_nccl

(* The lists of Lists, one by one. *)
ListFacts ==
  /\ Freeze \in Seq(PhaseNames) /\ Rebuilding \in Seq(PhaseNames)
  /\ Begins(<<"CKPT">> \o Freeze, "CKPT", Freeze)
  /\ Begins(<<"TEARDOWN">> \o (<<"CKPT">> \o Freeze), "TEARDOWN", <<"CKPT">> \o Freeze)
  /\ Begins(<<"RESTORE">> \o Rebuilding, "RESTORE", Rebuilding)
  /\ Begins(Verifying, "verify", <<"RESTORE">> \o Rebuilding)
  /\ Begins(<<"toggle">> \o Verifying, "toggle", Verifying)
  /\ Begins(<<"unlock">> \o Verifying, "unlock", Verifying)
  /\ Begins(<<"restore">> \o (<<"unlock">> \o Verifying), "restore", <<"unlock">> \o Verifying)
  /\ Begins(<<"INIT">>, "INIT", << >>)
  /\ Begins(<<"IMPORT">>, "IMPORT", << >>)
  /\ Begins(<<"exchange", "IMPORT">>, "exchange", <<"IMPORT">>)
  /\ Begins(<<"EXPORT", "exchange", "IMPORT">>, "EXPORT", <<"exchange", "IMPORT">>)
  /\ Begins(<<"checkpoint">>, "checkpoint", << >>)
  /\ Begins(<<"rollback">>, "rollback", << >>)
  /\ Begins(<<"lock", "checkpoint">>, "lock", <<"checkpoint">>)
  /\ Begins(<<"toggle">>, "toggle", << >>)
  /\ setup.buffer_only => Freeze = << >>
  /\ ByAction(setup) => Freeze = <<"lock", "checkpoint">>
  /\ Toggling(setup) => Freeze = <<"toggle">>
  /\ Rebuilding = IF setup.skip_nccl THEN << >> ELSE <<"EXPORT", "exchange", "IMPORT">>
  /\ PhaseOf(<< >>) = "end"

(* The lists that the commands start with. *)
StartFacts ==
  /\ do_init \in Lists("init") /\ PhaseOf(do_init) = "INIT" /\ do_init \in Seq(PhaseNames)
  /\ do_checkpoint \in Lists("checkpoint") /\ do_checkpoint \in Seq(PhaseNames)
  /\ PhaseOf(do_checkpoint) = IF setup.skip_nccl THEN "CKPT" ELSE "TEARDOWN"
  /\ do_restore \in Lists("restore") /\ do_restore \in Seq(PhaseNames)
  /\ \/ PhaseOf(do_restore) = "verify" /\ setup.buffer_only
     \/ PhaseOf(do_restore) = "restore" /\ ByAction(setup)
     \/ PhaseOf(do_restore) = "toggle" /\ Toggling(setup)

(* Workers and those of them that are initialized can be counted. *)
CountFacts ==
  /\ Cardinality({}) = 0 /\ Cardinality(Workers) = N
  /\ \A S \in SUBSET Workers : \A w \in Workers \ S :
       /\ Cardinality(S) \in Nat /\ Cardinality(S) + 1 <= N
       /\ Cardinality(S \cup {w}) = Cardinality(S) + 1

(* The lists of a command are closed under going on to the next phase. *)
LEMMA Advance ==
  ASSUME ListFacts, todo \in Lists(cmd), cmd \in {"none", "init", "checkpoint", "restore"}, todo # << >>
  PROVE  Tail(todo) \in Lists(cmd) /\ Follows(Phase, PhaseOf(Tail(todo)))
<1>1. Phase = Head(todo)
  BY DEF Phase
<1>2. setup.buffer_only \/ ByAction(setup) \/ Toggling(setup)
  BY Zenon DEF ByAction, Toggling
<1>3. CASE cmd = "none"
  BY <1>3, Zenon DEF Lists
<1>4. CASE cmd = "init"
  <2>1. todo = <<"INIT">>
    BY <1>4 DEF Lists
  <2> QED BY <1>1, <1>4, <2>1 DEF ListFacts, Lists, Begins, Follows
<1>5. CASE cmd = "checkpoint"
  <2>1. Lists(cmd) = {<<"CKPT">> \o Freeze, Freeze, << >>}
         \cup (IF setup.skip_nccl THEN {} ELSE {<<"TEARDOWN">> \o (<<"CKPT">> \o Freeze)})
         \cup (IF ByAction(setup) THEN {<<"checkpoint">>, <<"rollback">>} ELSE {})
    BY <1>5 DEF Lists, ByAction
  <2>2. CASE ~setup.skip_nccl /\ todo = <<"TEARDOWN">> \o (<<"CKPT">> \o Freeze)
    BY <1>1, <1>5, <2>1, <2>2, Zenon DEF ListFacts, Begins, Follows
  <2>3. CASE todo = <<"CKPT">> \o Freeze
    <3>1. Tail(todo) = Freeze /\ Phase = "CKPT"
      BY <1>1, <2>3, Zenon DEF ListFacts, Begins
    <3>2. \/ setup.buffer_only /\ PhaseOf(Freeze) = "end"
          \/ ByAction(setup) /\ PhaseOf(Freeze) = "lock"
          \/ Toggling(setup) /\ PhaseOf(Freeze) = "toggle"
      BY <1>2, Zenon DEF ListFacts, Begins
    <3> QED BY <1>5, <2>1, <3>1, <3>2, Zenon DEF Follows
  <2>4. CASE todo = Freeze
    <3>1. \/ ByAction(setup) /\ Begins(todo, "lock", <<"checkpoint">>)
          \/ Toggling(setup) /\ Begins(todo, "toggle", << >>)
      BY <1>2, <2>4, Zenon DEF ListFacts
    <3> QED BY <1>1, <1>5, <2>1, <3>1, Zenon DEF ListFacts, Begins, Follows
  <2>5. CASE ByAction(setup) /\ todo \in {<<"checkpoint">>, <<"rollback">>}
    <3>1. Begins(todo, "checkpoint", << >>) \/ Begins(todo, "rollback", << >>)
      BY <2>5, Zenon DEF ListFacts
    <3>2. PhaseOf(<< >>) = "end" /\ << >> \in Lists(cmd)
      BY <2>1 DEF ListFacts
    <3> QED BY <1>1, <1>5, <2>5, <3>1, <3>2, Zenon DEF Begins, Follows
  <2> QED BY <2>1, <2>2, <2>3, <2>4, <2>5, Zenon
<1>6. CASE cmd = "restore"
  <2>1. Lists(cmd) = {Verifying, <<"RESTORE">> \o Rebuilding, << >>}
         \cup (IF Toggling(setup) THEN {<<"toggle">> \o Verifying} ELSE {})
         \cup (IF ByAction(setup)
               THEN {<<"restore">> \o (<<"unlock">> \o Verifying), <<"unlock">> \o Verifying} ELSE {})
         \cup (IF setup.skip_nccl THEN {}
               ELSE {<<"EXPORT", "exchange", "IMPORT">>, <<"exchange", "IMPORT">>, <<"IMPORT">>})
    BY <1>6 DEF Lists, ByAction
  <2>2. CASE Toggling(setup) /\ todo = <<"toggle">> \o Verifying
    BY <1>1, <1>6, <2>1, <2>2, Zenon DEF ListFacts, Begins, Follows
  <2>3. CASE ByAction(setup) /\ todo = <<"restore">> \o (<<"unlock">> \o Verifying)
    BY <1>1, <1>6, <2>1, <2>3, Zenon DEF ListFacts, Begins, Follows
  <2>4. CASE ByAction(setup) /\ todo = <<"unlock">> \o Verifying
    BY <1>1, <1>6, <2>1, <2>4, Zenon DEF ListFacts, Begins, Follows
  <2>5. CASE todo = Verifying
    BY <1>1, <1>6, <2>1, <2>5, Zenon DEF ListFacts, Begins, Follows
  <2>6. CASE todo = <<"RESTORE">> \o Rebuilding
    <3>1. Tail(todo) = Rebuilding /\ Phase = "RESTORE"
      BY <1>1, <2>6, Zenon DEF ListFacts, Begins
    <3>2. CASE setup.skip_nccl
      BY <1>6, <2>1, <3>1, <3>2, Zenon DEF ListFacts, Follows
    <3>3. CASE ~setup.skip_nccl
      BY <1>6, <2>1, <3>1, <3>3, Zenon DEF ListFacts, Begins, Follows
    <3> QED BY <3>2, <3>3
  <2>7. CASE ~setup.skip_nccl /\ todo = <<"EXPORT", "exchange", "IMPORT">>
    BY <1>1, <1>6, <2>1, <2>7, Zenon DEF ListFacts, Begins, Follows
  <2>8. CASE ~setup.skip_nccl /\ todo = <<"exchange", "IMPORT">>
    BY <1>1, <1>6, <2>1, <2>8, Zenon DEF ListFacts, Begins, Follows
  <2>9. CASE ~setup.skip_nccl /\ todo = <<"IMPORT">>
    BY <1>1, <1>6, <2>1, <2>9 DEF ListFacts, Begins, Follows
  <2> QED BY <2>1, <2>2, <2>3, <2>4, <2>5, <2>6, <2>7, <2>8, <2>9, Zenon
<1> QED BY <1>3, <1>4, <1>5, <1>6

-----------------------------------------------------------------------------
(* The handlers. *)

(* The two functions that every phase with peer access calls. *)
LEMMA DisableRecord ==
  ASSUME NEW r \in WorkerType, NEW bad, NEW s, s = DisableAll(r, bad)
  PROVE  /\ s \in WorkerType
         /\ s.alive = r.alive /\ s.init = r.init /\ s.data = r.data /\ s.ipc = r.ipc
         /\ s.server = r.server /\ s.cuda = r.cuda
         /\ s.driver = r.driver \ (r.tracked \ bad) /\ s.tracked = {} /\ s.saved = r.tracked
         /\ s.stuck = r.stuck \cup (r.tracked \cap bad)
  BY Zenon DEF DisableAll, WorkerType

LEMMA ReenableRecord ==
  ASSUME NEW r \in WorkerType, NEW bad, NEW s, s = ReenableAll(r, bad)
  PROVE  /\ s \in WorkerType
         /\ s.alive = r.alive /\ s.init = r.init /\ s.data = r.data /\ s.ipc = r.ipc
         /\ s.server = r.server /\ s.cuda = r.cuda
         /\ s.driver = r.driver \cup (r.saved \ bad) /\ s.tracked = r.tracked \cup (r.saved \ bad)
         /\ s.saved = {} /\ s.stuck = r.stuck \cup (r.saved \cap bad)
  BY Zenon DEF ReenableAll, WorkerType

(* What the handler of its signal makes of a worker. *)
LEMMA HandledRecord ==
  ASSUME NEW r \in WorkerType, NEW msg \in Messages, NEW complete, NEW bad,
         NEW s, s = Handled(r, SignalOf(msg), msg, complete, bad)
  PROVE  /\ msg = "INIT" => s = r
         /\ msg = "CKPT" => s = OnCkpt(r, bad)
         /\ msg = "RESTORE" => s = OnRestore(r, bad)
         /\ msg = "TEARDOWN" => s = OnTeardown(r, bad)
         /\ msg = "EXPORT" => s = OnExport(r, bad)
         /\ msg = "IMPORT" => s = OnImport(r, complete, bad)
<1>1. msg \in ActsOn(SignalOf(msg))
  BY Zenon DEF Messages, ActsOn, SignalOf
<1> QED BY <1>1 DEF Handled, Messages

LEMMA HandledFields ==
  ASSUME NEW r \in WorkerType, NEW msg \in Messages, NEW complete, NEW bad,
         NEW s, s = Handled(r, SignalOf(msg), msg, complete, bad),
         msg = "CKPT" => r.data = "live"
  PROVE  /\ s \in WorkerType /\ s.init = r.init /\ s.cuda = r.cuda /\ s.alive = r.alive
         /\ s.data = IF msg = "CKPT" THEN "parked" ELSE IF msg = "RESTORE" THEN "live" ELSE r.data
         /\ msg = "TEARDOWN" => s.ipc = IF bad.ipc THEN "left" ELSE "down"
         /\ msg \in {"INIT", "CKPT", "RESTORE"} => s.ipc = r.ipc
         /\ msg = "EXPORT" => s.ipc \notin Torn /\ s.server
         /\ msg = "IMPORT" => (s.ipc \in Torn => s.ipc = r.ipc) /\ ~s.server
         /\ msg \in {"CKPT", "TEARDOWN"} =>
              /\ s.driver = r.driver \ (r.tracked \ bad.peers)
              /\ s.tracked = {} /\ s.saved = r.tracked
              /\ s.stuck = r.stuck \cup (r.tracked \cap bad.peers)
         /\ msg \in {"INIT", "EXPORT"} =>
              /\ s.driver = r.driver /\ s.tracked = r.tracked
              /\ s.saved = r.saved /\ s.stuck = r.stuck
         /\ msg \in {"RESTORE", "IMPORT"} =>
              /\ s.driver = r.driver \cup (r.saved \ bad.peers)
              /\ s.tracked = r.tracked \cup (r.saved \ bad.peers)
              /\ s.stuck = r.stuck \cup (r.saved \cap bad.peers)
<1>1. CASE msg = "INIT"
  BY <1>1, HandledRecord
<1>2. CASE msg = "CKPT"
  <2>1. PICK d \in WorkerType : d = DisableAll(r, bad.peers)
    BY DisableRecord
  <2>2. s = [d EXCEPT !.data = "parked"]
    BY <1>2, <2>1, HandledRecord DEF OnCkpt
  <2>3. /\ s \in WorkerType /\ s.data = "parked" /\ s.init = d.init /\ s.cuda = d.cuda
        /\ s.alive = d.alive /\ s.ipc = d.ipc
        /\ s.driver = d.driver /\ s.tracked = d.tracked /\ s.saved = d.saved /\ s.stuck = d.stuck
    BY <2>2 DEF WorkerType
  <2> QED BY <1>2, <2>1, <2>3, DisableRecord
<1>3. CASE msg = "RESTORE"
  <2>1. PICK d \in WorkerType : d = ReenableAll(r, bad.peers)
    BY ReenableRecord
  <2>2. s = [d EXCEPT !.data = "live"]
    BY <1>3, <2>1, HandledRecord DEF OnRestore
  <2>3. /\ s \in WorkerType /\ s.data = "live" /\ s.init = d.init /\ s.cuda = d.cuda
        /\ s.alive = d.alive /\ s.ipc = d.ipc /\ s.driver = d.driver /\ s.tracked = d.tracked
        /\ s.stuck = d.stuck
    BY <2>2 DEF WorkerType
  <2> QED BY <1>3, <2>1, <2>3, ReenableRecord
<1>4. CASE msg = "TEARDOWN"
  <2>1. PICK d \in WorkerType : d = DisableAll(r, bad.peers)
    BY DisableRecord
  <2>2. s = [d EXCEPT !.ipc = IF bad.ipc THEN "left" ELSE "down"]
    BY <1>4, <2>1, HandledRecord DEF OnTeardown
  <2>3. /\ s \in WorkerType /\ s.data = d.data /\ s.init = d.init /\ s.cuda = d.cuda
        /\ s.alive = d.alive /\ s.ipc = IF bad.ipc THEN "left" ELSE "down"
        /\ s.driver = d.driver /\ s.tracked = d.tracked /\ s.saved = d.saved /\ s.stuck = d.stuck
    BY <2>2 DEF WorkerType
  <2> QED BY <1>4, <2>1, <2>3, DisableRecord
<1>5. CASE msg = "EXPORT"
  <2>1. s = OnExport(r, bad)
    BY <1>5, HandledRecord
  <2>2. PICK i \in {"up", "exported", "partial"} :
          s = [r EXCEPT !.ipc = i, !.server = TRUE]
    <3> DEFINE i == IF r.ipc \in Torn THEN (IF bad.ipc THEN "partial" ELSE "exported") ELSE r.ipc
    <3>1. s = [r EXCEPT !.ipc = i, !.server = TRUE]
      BY <2>1, Zenon DEF OnExport
    <3>2. i \in {"up", "exported", "partial"}
      BY DEF WorkerType, Torn
    <3> HIDE DEF i
    <3> QED BY <3>1, <3>2, Zenon
  <2>3. /\ s \in WorkerType /\ s.data = r.data /\ s.init = r.init /\ s.cuda = r.cuda
        /\ s.alive = r.alive /\ s.ipc = i /\ s.server
        /\ s.driver = r.driver /\ s.tracked = r.tracked /\ s.saved = r.saved /\ s.stuck = r.stuck
    BY <2>2, Zenon DEF WorkerType
  <2> QED BY <1>5, <2>2, <2>3 DEF Torn
<1>6. CASE msg = "IMPORT"
  <2>1. PICK d \in WorkerType : d = ReenableAll(r, bad.peers)
    BY ReenableRecord
  <2>2. PICK i \in {"up", "down", "left", "exported", "partial"} :
          s = [d EXCEPT !.ipc = i, !.server = FALSE] /\ (i \in Torn => i = d.ipc)
    <3> DEFINE i == IF d.ipc = "exported" THEN (IF complete /\ ~bad.ipc THEN "up" ELSE "partial")
                                          ELSE d.ipc
    <3>1. s = [d EXCEPT !.ipc = i, !.server = FALSE]
      <4>1. s = OnImport(r, complete, bad)
        BY <1>6, HandledRecord
      <4> QED BY <2>1, <4>1, Zenon DEF OnImport
    <3>2. i \in {"up", "down", "left", "exported", "partial"} /\ (i \in Torn => i = d.ipc)
      BY <2>1 DEF WorkerType, Torn
    <3> HIDE DEF i
    <3> QED BY <3>1, <3>2, Zenon
  <2>3. /\ s \in WorkerType /\ s.data = d.data /\ s.init = d.init /\ s.cuda = d.cuda
        /\ s.alive = d.alive /\ s.ipc = i /\ ~s.server
        /\ s.driver = d.driver /\ s.tracked = d.tracked /\ s.stuck = d.stuck
    BY <2>2, Zenon DEF WorkerType
  <2> QED BY <1>6, <2>1, <2>2, <2>3, ReenableRecord
<1> QED BY <1>1, <1>2, <1>3, <1>4, <1>5, <1>6 DEF Messages

(* A worker that is not idle has the message of the phase, unless the coordinator is gone. *)
LEMMA BusyPhase ==
  ASSUME IInv, NEW w \in Workers, ~Idle(w)
  PROVE  /\ word[w] \in Messages /\ Ready(word[w]) /\ NotYet(w, word[w])
         /\ \/ Phase = word[w] /\ w < k /\ InPhase(Phase)
            \/ cmd = "none" /\ Phase = "end" /\ ~Toggling(setup)
<1>1. word[w] \in Messages
  BY DEF IInv, OneSignal, Signalled, Handling, Lost
<1>2. word[w] # FINISH
  BY <1>1 DEF Messages, FINISH
<1>3. Ready(word[w]) /\ NotYet(w, word[w])
  BY <1>2 DEF IInv, Outstanding
<1>4. CASE Phase \in Messages
  <2>1. InPhase(Phase)
    BY <1>4 DEF IInv, Finds
  <2>2. k \in 1..(N + 1) /\ w \in Nat
    BY MultiCrAssumption DEF IInv, TypeOK, Workers
  <2>3. w < k
    BY <2>1, <2>2 DEF InPhase
  <2>4. word[w] = Phase
    BY <2>1, <2>3 DEF InPhase
  <2> QED BY <1>1, <1>3, <2>1, <2>3, <2>4
<1>5. CASE Phase \notin Messages
  <2>1. cmd = "none" /\ setup.aborts # 0
    BY <1>5 DEF IInv, Finds, AllIdle
  <2>2. ~Toggling(setup)
    BY <2>1 DEF IInv, Regular
  <2>3. todo = << >>
    BY <2>1 DEF IInv, Lists
  <2>4. Phase = "end"
    BY <2>3 DEF Phase
  <2> QED BY <1>1, <1>3, <2>1, <2>2, <2>4
<1> QED BY <1>4, <1>5

(* A step of worker w leaves all others as they are. *)
Others(w) ==
  \A v \in Workers \ {w} :
    /\ wk'[v] = wk[v] /\ word'[v] = word[v] /\ pending'[v] = pending[v] /\ active'[v] = active[v]
    /\ id'[v] = id[v] /\ (wk[v].init => mine'[id[v]] = mine[id[v]])

LEMMA OthersKeep ==
  ASSUME NEW w \in Workers, Others(w), NEW v \in Workers \ {w}, NEW msg \in Messages
  PROVE  /\ Idle(v) => Idle(v)'
         /\ Signalled(v) => Signalled(v)'
         /\ Handling(v) => Handling(v)'
         /\ Lost(v) => Lost(v)'
         /\ NotYet(v, msg) => NotYet(v, msg)'
         /\ Done(v, msg) => Done(v, msg)'
<1>1. /\ wk'[v] = wk[v] /\ word'[v] = word[v] /\ pending'[v] = pending[v]
      /\ active'[v] = active[v] /\ id'[v] = id[v] /\ (wk[v].init => mine'[id[v]] = mine[id[v]])
  BY DEF Others
<1>2. Idle(v) => Idle(v)'
  BY <1>1 DEF Idle
<1>3. Signalled(v) => Signalled(v)'
  BY <1>1 DEF Signalled
<1>4. Handling(v) => Handling(v)'
  BY <1>1 DEF Handling
<1>5. Lost(v) => Lost(v)'
  BY <1>1 DEF Lost
<1>6. NotYet(v, msg) => NotYet(v, msg)'
  BY <1>1 DEF NotYet
<1>7. Did(v, msg) => Did(v, msg)'
  BY <1>1, Zenon DEF Did, Messages
<1>8. Done(v, msg) => Done(v, msg)'
  BY <1>1, <1>7 DEF Done
<1> QED BY <1>2, <1>3, <1>4, <1>5, <1>6, <1>8

(* What a step of the handler of w has to show for itself. *)
LEMMA HandlerKeeps ==
  ASSUME IInv, NEW w \in Workers, ~Idle(w), NEW msg, msg = word[w],
         UNCHANGED <<coord, setup>>, Others(w), Ready(msg)',
         \/ Idle(w)' /\ Done(w, msg)'
         \/ (Signalled(w) \/ Handling(w) \/ Lost(w))' /\ word'[w] = msg /\ NotYet(w, msg)',
         msg = "INIT" => wk'[w].data = wk[w].data /\ wk'[w].cuda = wk[w].cuda
  PROVE  (OneSignal /\ OneMessage /\ Outstanding /\ todo \in Lists(cmd) /\ Finds)'
<1>1. /\ msg \in Messages /\ msg # FINISH
      /\ \/ Phase = msg /\ w < k /\ InPhase(Phase)
         \/ cmd = "none" /\ Phase = "end" /\ ~Toggling(setup)
  BY BusyPhase, Zenon DEF Messages, FINISH
<1>2. \A v \in Workers : v # w =>
        /\ word'[v] = word[v] /\ wk'[v] = wk[v] /\ (Idle(v) => Idle(v)')
        /\ (Signalled(v) => Signalled(v)') /\ (Handling(v) => Handling(v)')
        /\ (Lost(v) => Lost(v)') /\ (NotYet(v, msg) => NotYet(v, msg)')
        /\ (Done(v, msg) => Done(v, msg)')
  BY <1>1, OthersKeep DEF Others
<1>3. OneSignal'
  BY <1>2, Zenon DEF IInv, OneSignal
<1>4. word'[w] \in {msg, FINISH}
  BY Zenon DEF Idle
<1>5. \A v \in Workers : word[v] # FINISH => word[v] = msg
  BY <1>1, Zenon DEF IInv, OneMessage
<1>6. \A v \in Workers : word'[v] # FINISH => word'[v] = msg
  BY <1>2, <1>4, <1>5
<1>7. OneMessage'
  BY <1>6 DEF OneMessage
<1>8. Outstanding'
  <2> SUFFICES ASSUME NEW v \in Workers, word'[v] # FINISH
               PROVE  Ready(word[v])' /\ NotYet(v, word[v])'
    BY Zenon DEF Outstanding
  <2>1. word'[v] = msg
    BY <1>6, Zenon
  <2>2. NotYet(v, msg)'
    <3>1. CASE v = w
      BY <3>1, <2>1, <1>1, Zenon DEF Idle
    <3>2. CASE v # w
      BY <3>2, <2>1, <1>2, Zenon DEF IInv, Outstanding
    <3> QED BY <3>1, <3>2, Zenon
  <2>3. Ready(word[v])' <=> Ready(msg)'
    BY <2>1, Zenon DEF Ready
  <2>4. NotYet(v, word[v])' <=> NotYet(v, msg)'
    BY <2>1, Zenon DEF NotYet
  <2> QED BY <2>2, <2>3, <2>4, Zenon
<1>9. Phase' = Phase /\ todo' = todo /\ cmd' = cmd /\ k' = k /\ setup' = setup /\ failures' = failures
  BY Zenon DEF Phase, coord
<1>10. (todo \in Lists(cmd))'
  <2>1. Lists(cmd)' = Lists(cmd)
    BY <1>9, Zenon DEF Lists, Toggling, Verifying, Rebuilding, Freeze
  <2> QED BY <1>9, <2>1 DEF IInv
<1>11. Finds'
  <2>1. CASE cmd = "none" /\ Phase = "end" /\ ~Toggling(setup)
    <3>1. setup.aborts # 0
      BY <2>1, Zenon DEF IInv, Finds, AllIdle, Messages
    <3> QED BY <1>9, <2>1, <3>1 DEF Finds, Messages, CudaActions, Toggling
  <2>2. CASE Phase = msg /\ w < k /\ InPhase(Phase)
    <3>1. InPhase(msg)'
      <4> SUFFICES ASSUME NEW v \in Workers
                   PROVE  /\ (v < k => word[v] = msg \/ (Idle(v) /\ Done(v, msg)))'
                          /\ (v >= k => Idle(v) /\ NotYet(v, msg))'
        BY Zenon DEF InPhase
      <4>1. CASE v = w
        <5>1. ~(w >= k)
          BY <2>2, MultiCrAssumption DEF IInv, TypeOK, Workers
        <5> QED BY <4>1, <5>1, <1>9, Zenon
      <4>2. CASE v # w
        BY <4>2, <1>2, <1>9, <2>2 DEF InPhase
      <4> QED BY <4>1, <4>2, Zenon
    <3>2. InPhase(Phase)'
      BY <3>1, <2>2, <1>9, Zenon DEF InPhase, Ready, NotYet, Done, Did
    <3>3. Toggling(setup) /\ Phase \in {"INIT", "end"} => Agreed'
      <4> SUFFICES ASSUME Toggling(setup), Phase = "INIT"
                   PROVE  Agreed'
        BY <2>2, <1>1, Zenon DEF Messages
      <4>1. Agreed
        BY Zenon DEF IInv, Finds
      <4>2. \A v \in Workers : wk'[v].data = wk[v].data /\ wk'[v].cuda = wk[v].cuda
        BY <1>2, <2>2, Zenon
      <4> QED BY <4>1, <4>2 DEF Agreed, AllData, AllCuda
    <3>4. Toggling(setup) => ~failures
      BY DEF IInv, Finds
    <3> QED BY <1>1, <1>9, <2>2, <3>2, <3>3, <3>4, Zenon DEF Finds, Messages, CudaActions, Toggling
  <2> QED BY <1>1, <2>1, <2>2, Zenon
<1> QED BY <1>3, <1>7, <1>8, <1>10, <1>11, Zenon

(* Steps that change nothing that WorkersInv is about. *)
LEMMA WorkersSame ==
  ASSUME WorkersInv, UNCHANGED <<setup, wanted>>,
         \A v \in Workers : /\ wk'[v].data = wk[v].data /\ wk'[v].cuda = wk[v].cuda
                            /\ wk'[v].ipc = wk[v].ipc /\ wk'[v].driver = wk[v].driver
                            /\ wk'[v].tracked = wk[v].tracked /\ wk'[v].saved = wk[v].saved
                            /\ wk'[v].stuck = wk[v].stuck
  PROVE  WorkersInv'
<1>1. FrozenParked'
  BY DEF WorkersInv, FrozenParked
<1>2. ParkedDown'
  BY DEF WorkersInv, ParkedDown
<1>3. PeerAccess'
  BY Zenon DEF WorkersInv, PeerAccess, SameBut
<1>4. PeersKept'
  BY Zenon DEF WorkersInv, PeersKept, SameBut
<1>5. NeverFrozen'
  BY DEF WorkersInv, NeverFrozen, AllCuda
<1>6. LeftByFault'
  BY DEF WorkersInv, LeftByFault
<1> QED BY <1>1, <1>2, <1>3, <1>4, <1>5, <1>6 DEF WorkersInv

(* Ids stay as they are as long as the initialized workers do. *)
LEMMA IdsSame ==
  ASSUME Ids, UNCHANGED <<id, nextId>>, \A v \in Workers : wk'[v].init = wk[v].init
  PROVE  Ids'
<1>1. Initialized' = Initialized
  BY DEF Initialized
<1> QED BY <1>1 DEF Ids

(* There are ids left while a worker is not initialized. *)
LEMMA IdsLeft ==
  ASSUME TypeOK, Ids, CountFacts, NEW w \in Workers, ~wk[w].init
  PROVE  /\ Cardinality(Initialized) \in Nat /\ Cardinality(Initialized) + 1 <= N
         /\ Cardinality(Initialized \cup {w}) = Cardinality(Initialized) + 1
<1>1. Initialized \in SUBSET Workers /\ w \in Workers \ Initialized
  BY DEF Initialized
<1> QED BY <1>1 DEF CountFacts

(* A signal is delivered to a worker that waits for it, and its handler reads the message
   it was sent with. *)
LEMMA DeliverSignal ==
  ASSUME IInv, NEW w \in Workers, NEW sig \in Signals, Deliver(w, sig)
  PROVE  /\ Signalled(w) /\ sig = SignalOf(word[w]) /\ word[w] \in Messages
         /\ word[w] = IF sig = "INIT" THEN "INIT" ELSE word[w]
<1>1. sig \in pending[w]
  BY Zenon DEF Deliver
<1>2. Signalled(w)
  BY <1>1 DEF IInv, OneSignal, Idle, Handling, Lost
<1>3. sig = SignalOf(word[w]) /\ word[w] \in Messages
  BY <1>1, <1>2 DEF Signalled
<1> QED BY <1>2, <1>3 DEF SignalOf, Messages

LEMMA DeliverIds ==
  ASSUME CountFacts, IInv, NEW w \in Workers, NEW sig \in Signals, Deliver(w, sig)
  PROVE  /\ Ids' /\ id' \in [Workers -> Files \cup {-1}] /\ id'[w] \in Files
         /\ nextId' \in FirstId..(FirstId + N) /\ wk' \in [Workers -> WorkerType]
         /\ wk'[w] = [wk[w] EXCEPT !.init = TRUE] /\ wk'[w].init
         /\ \A v \in Workers : /\ v # w => wk'[v] = wk[v]
                               /\ wk[v].init \/ v # w => id'[v] = id[v]
<1>1. /\ wk \in [Workers -> WorkerType] /\ id \in [Workers -> Files \cup {-1}]
      /\ nextId \in FirstId..(FirstId + N) /\ FirstId \in Nat /\ N \in Nat \ {0} /\ Ids /\ TypeOK
  BY MultiCrAssumption DEF IInv, TypeOK
<1>2. wk' = [wk EXCEPT ![w].init = TRUE]
  BY DEF Deliver
<1>3. wk' \in [Workers -> WorkerType]
  <2>1. [wk[w] EXCEPT !.init = TRUE] \in WorkerType
    <3>1. wk[w] \in WorkerType
      BY <1>1, Zenon
    <3> QED BY <3>1 DEF WorkerType
  <2>2. wk' = [wk EXCEPT ![w] = [wk[w] EXCEPT !.init = TRUE]]
    BY <1>1, <1>2
  <2> QED BY <1>1, <2>1, <2>2
<1>4. /\ wk'[w] = [wk[w] EXCEPT !.init = TRUE] /\ wk'[w].init
      /\ \A v \in Workers : v # w => wk'[v] = wk[v]
  BY <1>1, <1>2 DEF WorkerType
<1>5. CASE wk[w].init
  <2>1. UNCHANGED <<id, nextId>>
    BY <1>5 DEF Deliver
  <2>2. Ids'
    <3>1. \A v \in Workers : wk'[v].init = wk[v].init
      BY <1>1, <1>4, <1>5, Zenon DEF WorkerType
    <3> QED BY <1>1, <2>1, <3>1, IdsSame, Zenon
  <2>3. id[w] \in FirstId..(nextId - 1)
    BY <1>1, <1>5 DEF Ids
  <2>4. id[w] \in Files
    BY <1>1, <2>3 DEF Files
  <2> QED BY <1>1, <1>3, <1>4, <2>1, <2>2, <2>4
<1>6. CASE ~wk[w].init
  <2>1. id' = [id EXCEPT ![w] = nextId] /\ nextId' = nextId + 1
    BY <1>6 DEF Deliver
  <2>2. PICK c \in Nat : /\ c = Cardinality(Initialized) /\ c + 1 <= N
                         /\ Cardinality(Initialized \cup {w}) = c + 1
    BY <1>1, <1>6, IdsLeft
  <2>3. nextId = FirstId + c
    BY <1>1, <2>2 DEF Ids
  <2>4. nextId \in Files /\ nextId' \in FirstId..(FirstId + N)
    BY <1>1, <2>1, <2>2, <2>3 DEF Files
  <2>5. id' \in [Workers -> Files \cup {-1}] /\ id'[w] = nextId
        /\ \A v \in Workers : v # w => id'[v] = id[v]
    BY <1>1, <2>1, <2>4
  <2>6. Initialized' = Initialized \cup {w} /\ w \notin Initialized
    BY <1>4, <1>6, Zenon DEF Initialized
  <2>7. nextId' = FirstId + Cardinality(Initialized')
    BY <1>1, <2>1, <2>2, <2>3, <2>6
  <2>8. \A v \in Workers : IF wk'[v].init THEN id'[v] \in FirstId..(nextId' - 1) ELSE id'[v] = -1
    <3> SUFFICES ASSUME NEW v \in Workers
                 PROVE  IF wk'[v].init THEN id'[v] \in FirstId..(nextId' - 1) ELSE id'[v] = -1
      OBVIOUS
    <3>1. CASE v = w
      BY <3>1, <1>1, <1>4, <2>1, <2>3, <2>5
    <3>2. CASE v # w
      <4>1. IF wk[v].init THEN id[v] \in FirstId..(nextId - 1) ELSE id[v] = -1
        BY <1>1 DEF Ids
      <4> QED BY <3>2, <4>1, <1>1, <1>4, <2>1, <2>5
    <3> QED BY <3>1, <3>2
  <2>9. \A v \in Initialized : id[v] \in FirstId..(nextId - 1)
    BY <1>1 DEF Ids, Initialized
  <2>10. \A v \in Initialized : id[v] # nextId /\ id'[v] = id[v]
    BY <1>1, <2>5, <2>6, <2>9 DEF Initialized
  <2>11. \A u, v \in Initialized' : id'[u] = id'[v] => u = v
    BY <1>1, <2>5, <2>6, <2>10 DEF Ids
  <2>12. \A f \in FirstId..(nextId' - 1) : \E v \in Initialized' : id'[v] = f
    <3> SUFFICES ASSUME NEW f \in FirstId..(nextId' - 1)
                 PROVE  \E v \in Initialized' : id'[v] = f
      OBVIOUS
    <3>1. CASE f = nextId
      BY <3>1, <2>5, <2>6
    <3>2. CASE f # nextId
      <4>1. f \in FirstId..(nextId - 1)
        BY <3>2, <1>1, <2>1
      <4>2. PICK v \in Initialized : id[v] = f
        BY <4>1, <1>1 DEF Ids
      <4>3. v \in Initialized' /\ id'[v] = f
        BY <4>2, <2>6, <2>10, Zenon
      <4> QED BY <4>3
    <3> QED BY <3>1, <3>2
  <2>13. Ids'
    BY <2>7, <2>8, <2>11, <2>12 DEF Ids
  <2> QED BY <1>3, <1>4, <1>6, <2>4, <2>5, <2>13
<1> QED BY <1>5, <1>6, Zenon

LEMMA DeliverType ==
  ASSUME CountFacts, IInv, NEW w \in Workers, NEW sig \in Signals, Deliver(w, sig)
  PROVE  TypeOK' /\ Handling(w)'
<1>1. /\ sig = SignalOf(word[w]) /\ word[w] \in Messages /\ Signalled(w)
      /\ word[w] = IF sig = "INIT" THEN "INIT" ELSE word[w]
  BY DeliverSignal
<1> DEFINE fetch == IF word[w] = "IMPORT" /\ word[w] \in ActsOn(sig) THEN peer[id'[w]] ELSE {}
           h == [sig |-> sig, msg |-> word[w], fetch |-> fetch, got |-> {}]
<1>2. active' = [active EXCEPT ![w] = active[w] \cup {h}]
  BY <1>1, Zenon DEF Deliver
<1>3. TypeOK
  BY DEF IInv
<1>4. id'[w] \in Files /\ wk' \in [Workers -> WorkerType] /\ id' \in [Workers -> Files \cup {-1}]
      /\ nextId' \in FirstId..(FirstId + N) /\ wk'[w] = [wk[w] EXCEPT !.init = TRUE] /\ wk'[w].init
  BY DeliverIds
<1>5. fetch \in SUBSET (Workers \cup {Gone})
  BY <1>3, <1>4, Zenon DEF TypeOK
<1>6. h \in HandlerType
  BY <1>1, <1>5 DEF HandlerType
<1>7. UNCHANGED <<cmd, todo, k, failures, word, mine, peer, setup, wanted, aborts>>
  BY DEF Deliver, coord, env
<1>8. pending' = [pending EXCEPT ![w] = pending[w] \ {sig}]
  BY Zenon DEF Deliver
<1> HIDE DEF h
<1>9. active' \in [Workers -> SUBSET HandlerType] /\ pending' \in [Workers -> SUBSET Signals]
  BY <1>2, <1>3, <1>6, <1>8 DEF TypeOK
<1>10. TypeOK'
  BY <1>3, <1>4, <1>7, <1>9, Zenon DEF TypeOK
<1>11. active'[w] = {h} /\ pending'[w] = {}
  BY <1>1, <1>2, <1>3, <1>8 DEF Signalled, TypeOK
<1>12. h.msg = word'[w] /\ h.sig = SignalOf(word'[w])
  BY <1>1, <1>7 DEF h
<1>13. wk'[w].alive
  BY <1>1, <1>3, <1>4 DEF Signalled, TypeOK, WorkerType
<1>14. Handling(w)'
  BY <1>1, <1>4, <1>7, <1>11, <1>12, <1>13 DEF Handling
<1> QED BY <1>10, <1>14

LEMMA DeliverInd ==
  ASSUME CountFacts, IInv, NEW w \in Workers, NEW sig \in Signals, Deliver(w, sig)
  PROVE  IInv'
<1>1. /\ wk \in [Workers -> WorkerType] /\ pending \in [Workers -> SUBSET Signals]
      /\ active \in [Workers -> SUBSET HandlerType]
  BY DEF IInv, TypeOK
<1>2. /\ wk'[w] = [wk[w] EXCEPT !.init = TRUE] /\ Ids'
      /\ \A v \in Workers : v # w => wk'[v] = wk[v]
      /\ \A v \in Workers : wk[v].init \/ v # w => id'[v] = id[v]
  BY DeliverIds
<1>3. Signalled(w) /\ word[w] \in Messages
  BY DeliverSignal
<1>4. \A v \in Workers : /\ wk'[v].data = wk[v].data /\ wk'[v].cuda = wk[v].cuda
                         /\ wk'[v].ipc = wk[v].ipc /\ wk'[v].driver = wk[v].driver
                         /\ wk'[v].tracked = wk[v].tracked /\ wk'[v].saved = wk[v].saved
                         /\ wk'[v].stuck = wk[v].stuck
                         /\ wk[v].init => wk'[v].init
  BY <1>1, <1>2 DEF WorkerType
<1>5. UNCHANGED <<coord, word, mine, peer, setup, wanted>>
  BY DEF Deliver, env
<1>6. ~Idle(w)
  BY <1>3 DEF Idle, Signalled, Messages, FINISH
<1>7. Others(w)
  BY <1>1, <1>2, <1>5 DEF Others, Deliver
<1> DEFINE msg == word[w]
<1>8. Ready(msg) /\ NotYet(w, msg)
  BY <1>6, BusyPhase
<1>9. Handling(w)' /\ TypeOK'
  BY DeliverType
<1>10. PICK m : m = msg
  OBVIOUS
<1>11. Ready(m) /\ NotYet(w, m) /\ m = word[w] /\ word'[w] = m
  BY <1>5, <1>8, <1>10
<1>12. Ready(m)'
  BY <1>2, <1>4, <1>5, <1>11 DEF Ready, AllCuda, AllData, AllDown, Published, Named
<1>13. NotYet(w, m)'
  BY <1>4, <1>11 DEF NotYet
<1>14. (OneSignal /\ OneMessage /\ Outstanding /\ todo \in Lists(cmd) /\ Finds)'
  BY <1>4, <1>5, <1>6, <1>7, <1>9, <1>11, <1>12, <1>13, HandlerKeeps, Zenon
<1>15. WorkersInv'
  BY <1>4, <1>5, WorkersSame, Zenon DEF IInv
<1>16. Regular(setup)'
  BY <1>5, Zenon DEF IInv, Regular, Toggling
<1> QED BY <1>2, <1>9, <1>14, <1>15, <1>16 DEF IInv

(* A step that changes neither the records of the workers nor the control words. *)
LEMMA FetchInd ==
  ASSUME IInv, NEW w \in Workers, NEW h \in active[w], Fetch(w, h)
  PROVE  IInv'
<1>1. /\ active \in [Workers -> SUBSET HandlerType] /\ TypeOK
  BY DEF IInv, TypeOK
<1> DEFINE o == CHOOSE v \in h.fetch : \A u \in h.fetch : v <= u
           up == o \in Workers /\ wk[o].alive /\ wk[o].server
           next == [h EXCEPT !.fetch = @ \ {o}, !.got = IF up THEN @ \cup {o} ELSE @]
<1>2. active' = [active EXCEPT ![w] = (active[w] \ {h}) \cup {next}]
  BY Zenon DEF Fetch
<1>3. UNCHANGED <<coord, wk, word, pending, blocks, env>>
  BY Zenon DEF Fetch
<1>4. UNCHANGED <<cmd, todo, k, failures, wk, word, pending, id, nextId, mine, peer, setup, wanted, aborts>>
  BY <1>3 DEF coord, blocks, env
<1>5. next \in HandlerType /\ next.sig = h.sig /\ next.msg = h.msg
  <2>1. h \in HandlerType
    BY <1>1, Zenon
  <2> HIDE DEF o
  <2> QED BY <2>1, Zenon DEF HandlerType
<1> HIDE DEF next
<1>6. TypeOK'
  <2>1. active' \in [Workers -> SUBSET HandlerType]
    BY <1>1, <1>2, <1>5, Zenon
  <2> QED BY <1>1, <1>4, <2>1 DEF TypeOK
<1>7. Handling(w)
  BY Zenon DEF IInv, OneSignal, Idle, Signalled, Lost
<1>8. active[w] = {h} /\ h.msg = word[w] /\ h.sig = SignalOf(word[w])
  BY <1>7, Zenon DEF Handling
<1>9. active'[w] = {next}
  BY <1>1, <1>2, <1>8, Zenon
<1>10. Handling(w)'
  BY <1>4, <1>5, <1>7, <1>8, <1>9, Zenon DEF Handling
<1>11. ~Idle(w)
  BY <1>7 DEF Idle, Handling, Messages, FINISH
<1>12. PICK m : m = word[w]
  BY Zenon
<1>13. Ready(m) /\ NotYet(w, m) /\ word'[w] = m
  BY <1>4, <1>11, <1>12, BusyPhase, Zenon
<1>14. Ready(m)' /\ NotYet(w, m)'
  BY <1>4, <1>13, Zenon DEF Ready, AllCuda, AllData, AllDown, Published, Named, NotYet
<1>15. Others(w)
  BY <1>1, <1>2, <1>4, Zenon DEF Others
<1>16. (OneSignal /\ OneMessage /\ Outstanding /\ todo \in Lists(cmd) /\ Finds)'
  BY <1>3, <1>4, <1>10, <1>11, <1>12, <1>13, <1>14, <1>15, HandlerKeeps, Zenon
<1>17. WorkersInv' /\ Ids'
  BY <1>4, WorkersSame, IdsSame, Zenon DEF IInv
<1>18. Regular(setup)'
  BY <1>4, Zenon DEF IInv, Regular, Toggling
<1> QED BY <1>6, <1>16, <1>17, <1>18, Zenon DEF IInv

LEMMA RespondInd ==
  ASSUME IInv, NEW w \in Workers, NEW h \in active[w], Respond(w, h)
  PROVE  IInv'
<1>1. /\ wk \in [Workers -> WorkerType] /\ word \in [Workers -> Messages \cup {FINISH}]
      /\ active \in [Workers -> SUBSET HandlerType] /\ TypeOK /\ WorkersInv /\ Ids
      /\ mine \in [Files -> Workers \cup {Nobody, Gone}]
  BY Zenon DEF IInv, TypeOK
<1>2. Handling(w)
  BY DEF IInv, OneSignal, Idle, Signalled, Lost
<1>3. ~Idle(w)
  BY <1>2 DEF Idle, Handling, Messages, FINISH
<1>4. PICK m \in Messages : m = word[w]
  BY <1>2, Zenon DEF Handling
<1>5. h.msg = m /\ h.sig = SignalOf(m) /\ active[w] = {h} /\ wk[w].alive /\ wk[w].init /\ pending[w] = {}
  BY <1>2, <1>4, Zenon DEF Handling
<1>6. Ready(m) /\ NotYet(w, m)
  BY <1>3, <1>4, BusyPhase, Zenon
<1>7. PICK complete : complete = (h.got = Workers \ {w})
  BY Zenon
<1>8. PICK bad, s :
         /\ bad \in Faults /\ s = Handled(wk[w], SignalOf(m), m, complete, bad)
         /\ w \notin setup.faults => bad = NoFault
         /\ wk' = [wk EXCEPT ![w] = s]
         /\ IF s.alive THEN /\ word' = [word EXCEPT ![w] = FINISH]
                            /\ active' = [active EXCEPT ![w] = @ \ {h}]
                       ELSE /\ active' = [active EXCEPT ![w] = {}]
                            /\ UNCHANGED word
  BY <1>5, <1>7, Zenon DEF Respond
<1>9. /\ s \in WorkerType /\ s.init = wk[w].init /\ s.cuda = wk[w].cuda /\ s.alive
      /\ s.data = IF m = "CKPT" THEN "parked" ELSE IF m = "RESTORE" THEN "live" ELSE wk[w].data
      /\ m = "TEARDOWN" => s.ipc = IF bad.ipc THEN "left" ELSE "down"
      /\ m \in {"INIT", "CKPT", "RESTORE"} => s.ipc = wk[w].ipc
      /\ m = "EXPORT" => s.ipc \notin Torn /\ s.server
      /\ m = "IMPORT" => (s.ipc \in Torn => s.ipc = wk[w].ipc) /\ ~s.server
      /\ m \in {"CKPT", "TEARDOWN"} =>
              /\ s.driver = wk[w].driver \ (wk[w].tracked \ bad.peers)
              /\ s.tracked = {} /\ s.saved = wk[w].tracked
              /\ s.stuck = wk[w].stuck \cup (wk[w].tracked \cap bad.peers)
      /\ m \in {"INIT", "EXPORT"} =>
              /\ s.driver = wk[w].driver /\ s.tracked = wk[w].tracked
              /\ s.saved = wk[w].saved /\ s.stuck = wk[w].stuck
      /\ m \in {"RESTORE", "IMPORT"} =>
              /\ s.driver = wk[w].driver \cup (wk[w].saved \ bad.peers)
              /\ s.tracked = wk[w].tracked \cup (wk[w].saved \ bad.peers)
              /\ s.stuck = wk[w].stuck \cup (wk[w].saved \cap bad.peers)
  <2>1. m = "CKPT" => wk[w].data = "live"
    BY <1>6 DEF NotYet
  <2>2. wk[w] \in WorkerType
    BY <1>1, Zenon
  <2>3. s = Handled(wk[w], SignalOf(m), m, complete, bad)
    BY <1>8, Zenon
  <2>4. s.alive = wk[w].alive
    BY <2>1, <2>2, <2>3, HandledFields
  <2>5. s.alive
    BY <1>5, <2>4, Zenon
  <2> QED BY <2>1, <2>2, <2>3, <2>5, HandledFields
<1>10. m \in ActsOn(SignalOf(m))
  BY DEF Messages, ActsOn, SignalOf
<1>11. /\ wk' = [wk EXCEPT ![w] = s] /\ word' = [word EXCEPT ![w] = FINISH]
       /\ active' = [active EXCEPT ![w] = active[w] \ {h}]
       /\ mine' = IF m = "EXPORT" THEN [mine EXCEPT ![id[w]] = w] ELSE mine
  <2>1. mine' = IF m = "EXPORT" THEN [mine EXCEPT ![id[w]] = w] ELSE mine
    BY <1>5, <1>10, Zenon DEF Respond
  <2> QED BY <1>8, <1>9, <2>1, Zenon
<1>12. UNCHANGED <<cmd, todo, k, failures, pending, id, nextId, peer, setup, wanted, aborts>>
  BY Zenon DEF Respond, coord, env
<1>13. wk'[w] = s /\ word'[w] = FINISH /\ active'[w] = {} /\ pending'[w] = {}
  BY <1>1, <1>5, <1>11, <1>12, Zenon
<1>14. \A v \in Workers : v # w => wk'[v] = wk[v]
  BY <1>1, <1>11, Zenon
<1>15. id[w] \in Files
  <2>1. id[w] \in FirstId..(nextId - 1) /\ nextId \in FirstId..(FirstId + N)
    BY <1>1, <1>5, Zenon DEF Ids, TypeOK
  <2> QED BY <2>1, MultiCrAssumption DEF Files
<1>16. TypeOK'
  <2>1. wk' \in [Workers -> WorkerType]
    BY <1>1, <1>9, <1>11, Zenon
  <2>2. word' \in [Workers -> Messages \cup {FINISH}]
    BY <1>1, <1>11, Zenon
  <2>3. active' \in [Workers -> SUBSET HandlerType]
    BY <1>1, <1>11
  <2>4. mine' \in [Files -> Workers \cup {Nobody, Gone}]
    BY <1>1, <1>11, Zenon
  <2> QED BY <1>1, <1>12, <2>1, <2>2, <2>3, <2>4 DEF TypeOK
<1>17. Others(w)
  <2>1. \A v \in Workers : v # w /\ wk[v].init => mine'[id[v]] = mine[id[v]]
    <3> SUFFICES ASSUME NEW v \in Workers, v # w, wk[v].init
                 PROVE  mine'[id[v]] = mine[id[v]]
      BY Zenon
    <3>1. id[v] # id[w]
      BY <1>1, <1>5, Zenon DEF Ids, Initialized
    <3> QED BY <1>1, <1>11, <3>1
  <2>2. \A v \in Workers : v # w => word'[v] = word[v] /\ active'[v] = active[v]
    BY <1>1, <1>11, Zenon
  <2> QED BY <1>12, <1>14, <2>1, <2>2, Zenon DEF Others
<1>18. Ready(m)'
  <2>1. m # "INIT" => AllCuda("running")'
    BY <1>6, <1>9, <1>13, <1>14 DEF Ready, AllCuda
  <2>2. m \in {"TEARDOWN", "EXPORT", "IMPORT"} => (~setup.skip_nccl)' /\ AllData("live")'
    <3> SUFFICES ASSUME m \in {"TEARDOWN", "EXPORT", "IMPORT"}
                 PROVE  (~setup.skip_nccl)' /\ AllData("live")'
      OBVIOUS
    <3>1. ~setup.skip_nccl /\ AllData("live")
      BY <1>6, Zenon DEF Ready
    <3>2. wk'[w].data = wk[w].data
      BY <1>9, <1>13
    <3> QED BY <1>12, <1>14, <3>1, <3>2, Zenon DEF AllData
  <2>3. m \in {"CKPT", "RESTORE"} => (setup.skip_nccl \/ AllDown)'
    <3> SUFFICES ASSUME m \in {"CKPT", "RESTORE"}
                 PROVE  (setup.skip_nccl \/ AllDown)'
      OBVIOUS
    <3>1. setup.skip_nccl \/ AllDown
      BY <1>6, Zenon DEF Ready
    <3>2. wk'[w].ipc = wk[w].ipc
      BY <1>9, <1>13
    <3> QED BY <1>12, <1>14, <3>1, <3>2, Zenon DEF AllDown
  <2>4. m = "IMPORT" => Published' /\ Named'
    <3> SUFFICES ASSUME m = "IMPORT" PROVE Published' /\ Named'
      OBVIOUS
    <3>1. Published /\ Named
      BY <1>6, Zenon DEF Ready
    <3>2. \A v \in Workers : wk'[v].init = wk[v].init /\ (wk'[v].ipc \in Torn => wk[v].ipc \in Torn)
      BY <1>9, <1>13, <1>14
    <3>3. mine' = mine
      BY <1>11
    <3> QED BY <1>12, <3>1, <3>2, <3>3, Zenon DEF Published, Named
  <2> QED BY <2>1, <2>2, <2>3, <2>4, Zenon DEF Ready
<1>19. Idle(w)' /\ Done(w, m)'
  <2>1. Idle(w)'
    BY <1>9, <1>13, Zenon DEF Idle
  <2>2. m = "EXPORT" => mine'[id'[w]] = w
    BY <1>1, <1>11, <1>12, <1>15
  <2>3. Did(w, m)'
    BY <1>5, <1>9, <1>13, Zenon DEF Did, Messages, Torn
  <2> QED BY <1>5, <1>9, <1>13, <2>1, <2>2, <2>3, Zenon DEF Done
<1>20. (OneSignal /\ OneMessage /\ Outstanding /\ todo \in Lists(cmd) /\ Finds)'
  <2>1. m = "INIT" => wk'[w].data = wk[w].data /\ wk'[w].cuda = wk[w].cuda
    BY <1>9, <1>13, Zenon
  <2>2. UNCHANGED <<coord, setup>>
    BY <1>12, Zenon DEF coord
  <2> QED BY <1>3, <1>4, <1>17, <1>18, <1>19, <2>1, <2>2, HandlerKeeps, Zenon
<1>21. WorkersInv'
  <2>1. FrozenParked'
    <3>1. \A v \in Workers : wk'[v].cuda = wk[v].cuda
      BY <1>9, <1>13, <1>14, Zenon
    <3>2. CASE m = "RESTORE"
      BY <1>6, <3>1, <3>2 DEF Ready, AllCuda, FrozenParked
    <3>3. CASE m # "RESTORE"
      BY <1>1, <1>9, <1>13, <1>14, <3>1, <3>3 DEF WorkersInv, FrozenParked
    <3> QED BY <3>2, <3>3, Zenon
  <2>2. ParkedDown'
    <3>1. CASE m \in {"TEARDOWN", "EXPORT", "IMPORT"}
      <4>1. AllData("live")'
        BY <1>18, <3>1 DEF Ready
      <4> QED BY <4>1, Zenon DEF AllData, ParkedDown
    <3>2. CASE m \in {"CKPT", "RESTORE"}
      BY <1>18, <3>2, Zenon DEF Ready, AllDown, ParkedDown
    <3>3. CASE m = "INIT"
      BY <1>1, <1>9, <1>12, <1>13, <1>14, <3>3 DEF WorkersInv, ParkedDown
    <3> QED BY <3>1, <3>2, <3>3, Zenon DEF Messages
  <2>3. PeerAccess'
    <3>0. s.stuck \subseteq Devices /\ s.driver \subseteq Devices
      BY <1>9 DEF WorkerType
    <3>1. /\ SameBut(wk[w].driver, wk[w].tracked, wk[w].stuck)
          /\ wk[w].data = "parked" => wk[w].driver \subseteq wk[w].stuck
      BY <1>1 DEF WorkersInv, PeerAccess
    <3>2. SameBut(s.driver, s.tracked, s.stuck)
      BY <1>9, <3>1 DEF Messages, SameBut
    <3>3. m = "IMPORT" => s.data = "live"
      BY <1>6, <1>9, Zenon DEF Ready, AllData
    <3>4. s.data = "parked" => s.driver \subseteq s.stuck
      <4>1. CASE m \in {"CKPT", "TEARDOWN"}
        BY <1>9, <3>0, <3>1, <3>2, <4>1 DEF SameBut
      <4>2. CASE m \in {"INIT", "EXPORT"}
        BY <1>9, <3>1, <4>2
      <4>3. CASE m \in {"RESTORE", "IMPORT"}
        BY <1>9, <3>3, <4>3
      <4> QED BY <4>1, <4>2, <4>3 DEF Messages
    <3> QED BY <1>1, <1>13, <1>14, <3>2, <3>4, Zenon DEF WorkersInv, PeerAccess
  <2>4. PeersKept'
    <3> SUFFICES ASSUME setup.skip_nccl, NEW v \in Workers
                 PROVE  IF wk'[v].data = "live"
                        THEN SameBut(wk'[v].driver, wanted[v], wk'[v].stuck)
                        ELSE SameBut(wk'[v].saved, wanted[v], wk'[v].stuck)
      BY <1>12, Zenon DEF PeersKept, SameBut
    <3>1. IF wk[v].data = "live" THEN SameBut(wk[v].driver, wanted[v], wk[v].stuck)
                                 ELSE SameBut(wk[v].saved, wanted[v], wk[v].stuck)
      BY <1>1, Zenon DEF WorkersInv, PeersKept
    <3>2. CASE v # w
      BY <1>14, <3>1, <3>2, Zenon
    <3>3. CASE v = w
      <4>1. m \in {"INIT", "CKPT", "RESTORE"}
        BY <1>6, Zenon DEF Ready, Messages
      <4>2. /\ SameBut(wk[w].driver, wk[w].tracked, wk[w].stuck)
            /\ wk[w].data = "parked" => wk[w].driver \subseteq wk[w].stuck
        BY <1>1 DEF WorkersInv, PeerAccess
      <4>3. CASE m = "INIT"
        BY <1>9, <1>13, <3>1, <3>3, <4>3, Zenon
      <4>4. CASE m = "CKPT"
        BY <1>6, <1>9, <1>13, <3>1, <3>3, <4>2, <4>4 DEF NotYet, SameBut
      <4>5. CASE m = "RESTORE"
        BY <1>6, <1>9, <1>13, <3>1, <3>3, <4>2, <4>5 DEF NotYet, SameBut
      <4> QED BY <4>1, <4>3, <4>4, <4>5, Zenon
    <3> QED BY <3>2, <3>3, Zenon
  <2>5. NeverFrozen'
    BY <1>1, <1>9, <1>12, <1>13, <1>14, Zenon DEF WorkersInv, NeverFrozen, AllCuda
  <2>6. LeftByFault'
    <3>1. wk[w].ipc = "left" => w \in setup.faults
      BY <1>1 DEF WorkersInv, LeftByFault
    <3>2. s.ipc = "left" => wk[w].ipc = "left" \/ (m = "TEARDOWN" /\ bad.ipc)
      BY <1>9 DEF Messages, Torn
    <3>3. bad.ipc => w \in setup.faults
      BY <1>8 DEF NoFault
    <3>4. s.ipc = "left" => w \in setup.faults
      BY <3>1, <3>2, <3>3
    <3> QED BY <1>1, <1>12, <1>13, <1>14, <3>4, Zenon DEF WorkersInv, LeftByFault
  <2> QED BY <2>1, <2>2, <2>3, <2>4, <2>5, <2>6, Zenon DEF WorkersInv
<1>22. Ids'
  BY <1>1, <1>9, <1>12, <1>13, <1>14, IdsSame, Zenon
<1>23. Regular(setup)'
  BY <1>12, Zenon DEF IInv, Regular, Toggling
<1> QED BY <1>16, <1>20, <1>21, <1>22, <1>23, Zenon DEF IInv

LEMMA DeadRecord ==
  ASSUME NEW r \in WorkerType, NEW s, s = [r EXCEPT !.alive = FALSE, !.server = FALSE]
  PROVE  /\ s \in WorkerType /\ ~s.alive
         /\ s.data = r.data /\ s.cuda = r.cuda /\ s.ipc = r.ipc /\ s.driver = r.driver
         /\ s.tracked = r.tracked /\ s.saved = r.saved /\ s.init = r.init /\ s.stuck = r.stuck
  BY Zenon DEF WorkerType

LEMMA DieInd ==
  ASSUME IInv, NEW w \in Workers, Die(w)
  PROVE  IInv'
<1>1. /\ wk \in [Workers -> WorkerType] /\ active \in [Workers -> SUBSET HandlerType] /\ TypeOK
  BY DEF IInv, TypeOK
<1>2. active[w] # {} /\ wk' = [wk EXCEPT ![w].alive = FALSE, ![w].server = FALSE]
      /\ active' = [active EXCEPT ![w] = {}]
  BY DEF Die
<1>3. UNCHANGED <<cmd, todo, k, failures, word, pending, id, nextId, mine, peer, setup, wanted, aborts>>
  BY DEF Die, coord, blocks, env
<1>4. Handling(w)
  BY <1>2, Zenon DEF IInv, OneSignal, Idle, Signalled, Lost
<1>5. ~Idle(w)
  BY <1>4 DEF Idle, Handling, Messages, FINISH
<1>6. PICK r : r = [wk[w] EXCEPT !.alive = FALSE, !.server = FALSE]
  OBVIOUS
<1>61. /\ r \in WorkerType /\ ~r.alive
       /\ r.data = wk[w].data /\ r.cuda = wk[w].cuda /\ r.ipc = wk[w].ipc /\ r.driver = wk[w].driver
       /\ r.tracked = wk[w].tracked /\ r.saved = wk[w].saved /\ r.init = wk[w].init
       /\ r.stuck = wk[w].stuck
  <2>1. wk[w] \in WorkerType
    BY <1>1
  <2> QED BY <1>6, <2>1, DeadRecord, Zenon
<1>7. wk' = [wk EXCEPT ![w] = r]
  BY <1>1, <1>2, <1>6, Zenon
<1>8. wk'[w] = r /\ \A v \in Workers : v # w => wk'[v] = wk[v]
  BY <1>1, <1>7, Zenon
<1>9. TypeOK'
  <2>1. wk' \in [Workers -> WorkerType] /\ active' \in [Workers -> SUBSET HandlerType]
    BY <1>1, <1>2, <1>61, <1>7, Zenon
  <2> QED BY <1>1, <1>3, <2>1 DEF TypeOK
<1>10. \A v \in Workers : /\ wk'[v].data = wk[v].data /\ wk'[v].cuda = wk[v].cuda
                          /\ wk'[v].ipc = wk[v].ipc /\ wk'[v].driver = wk[v].driver
                          /\ wk'[v].tracked = wk[v].tracked /\ wk'[v].saved = wk[v].saved
                          /\ wk'[v].stuck = wk[v].stuck
                          /\ wk'[v].init = wk[v].init
  BY <1>61, <1>8
<1>11. Lost(w)'
  BY <1>1, <1>2, <1>3, <1>4, <1>61, <1>8 DEF Handling, Lost
<1>12. PICK m : m = word[w]
  BY Zenon
<1>13. Ready(m) /\ NotYet(w, m) /\ word'[w] = m
  BY <1>3, <1>5, <1>12, BusyPhase, Zenon
<1>14. Ready(m)' /\ NotYet(w, m)'
  <2>1. (AllCuda("running") => AllCuda("running")') /\ (AllData("live") => AllData("live")')
    BY <1>10, Zenon DEF AllCuda, AllData
  <2>2. (AllDown => AllDown') /\ (Published => Published') /\ (Named => Named')
    BY <1>3, <1>10, Zenon DEF AllDown, Published, Named
  <2>3. NotYet(w, m)'
    BY <1>10, <1>13, Zenon DEF NotYet
  <2> QED BY <1>3, <1>13, <2>1, <2>2, <2>3, Zenon DEF Ready
<1>15. Others(w)
  BY <1>1, <1>2, <1>3, <1>8 DEF Others
<1>16. (OneSignal /\ OneMessage /\ Outstanding /\ todo \in Lists(cmd) /\ Finds)'
  <2>1. UNCHANGED <<coord, setup>>
    BY <1>3, Zenon DEF coord
  <2> QED BY <1>5, <1>10, <1>11, <1>12, <1>13, <1>14, <1>15, <2>1, HandlerKeeps, Zenon
<1>17. WorkersInv' /\ Ids'
  BY <1>3, <1>10, WorkersSame, IdsSame, Zenon DEF IInv
<1>18. Regular(setup)'
  BY <1>3, Zenon DEF IInv, Regular, Toggling
<1> QED BY <1>9, <1>16, <1>17, <1>18, Zenon DEF IInv

(* Between commands the application changes its peer access. *)
LEMMA EnableRecord ==
  ASSUME NEW r \in WorkerType, NEW dev \in Devices, NEW s, s = EnablePeer(r, dev)
  PROVE  /\ s \in WorkerType /\ s.alive = r.alive /\ s.init = r.init /\ s.data = r.data
         /\ s.ipc = r.ipc /\ s.server = r.server /\ s.cuda = r.cuda /\ s.saved = r.saved
         /\ s.stuck = r.stuck
         /\ s.driver = r.driver \cup {dev} /\ s.tracked = r.tracked \cup {dev}
  BY Zenon DEF EnablePeer, WorkerType

LEMMA DisablePeerRecord ==
  ASSUME NEW r \in WorkerType, NEW dev \in Devices, NEW s, s = DisablePeer(r, dev)
  PROVE  /\ s \in WorkerType /\ s.alive = r.alive /\ s.init = r.init /\ s.data = r.data
         /\ s.ipc = r.ipc /\ s.server = r.server /\ s.cuda = r.cuda /\ s.saved = r.saved
         /\ s.stuck = r.stuck
         /\ s.driver = r.driver \ {dev} /\ s.tracked = r.tracked \ {dev}
  BY Zenon DEF DisablePeer, WorkerType

LEMMA ApplicationInd ==
  ASSUME IInv, NEW w \in Workers, NEW dev \in Devices, Application(w, dev)
  PROVE  IInv'
<1>1. /\ wk \in [Workers -> WorkerType] /\ TypeOK /\ WorkersInv /\ wk[w] \in WorkerType
      /\ wanted \in [Workers -> SUBSET Devices]
  BY DEF IInv, TypeOK
<1>2. UNCHANGED <<cmd, todo, k, failures, word, pending, active, id, nextId, mine, peer, setup, aborts>>
  BY Zenon DEF Application, coord, blocks
<1>3. /\ SameBut(wk[w].driver, wk[w].tracked, wk[w].stuck)
      /\ setup.skip_nccl => SameBut(wk[w].driver, wanted[w], wk[w].stuck)
      /\ wk[w].data = "live"
  BY <1>1 DEF Application, WorkersInv, PeerAccess, PeersKept
<1>4. PICK s : /\ wk' = [wk EXCEPT ![w] = s] /\ s \in WorkerType
               /\ s.alive = wk[w].alive /\ s.init = wk[w].init /\ s.data = wk[w].data
               /\ s.ipc = wk[w].ipc /\ s.server = wk[w].server /\ s.cuda = wk[w].cuda
               /\ SameBut(s.driver, s.tracked, s.stuck)
               /\ setup.skip_nccl => SameBut(s.driver, wanted'[w], s.stuck)
               /\ wanted' \in [Workers -> SUBSET Devices]
               /\ \A v \in Workers : v # w => wanted'[v] = wanted[v]
  <2>1. CASE /\ wanted' = [wanted EXCEPT ![w] = @ \cup {dev}]
             /\ wk' = [wk EXCEPT ![w] = EnablePeer(@, dev)]
    <3>1. PICK s : s = EnablePeer(wk[w], dev)
      BY Zenon
    <3>2. wk' = [wk EXCEPT ![w] = s]
      BY <1>1, <2>1, <3>1, Zenon
    <3>3. /\ s \in WorkerType /\ s.alive = wk[w].alive /\ s.init = wk[w].init /\ s.data = wk[w].data
          /\ s.ipc = wk[w].ipc /\ s.server = wk[w].server /\ s.cuda = wk[w].cuda
          /\ s.driver = wk[w].driver \cup {dev} /\ s.tracked = wk[w].tracked \cup {dev}
          /\ s.stuck = wk[w].stuck
      BY <1>1, <3>1, EnableRecord
    <3>4. wanted' \in [Workers -> SUBSET Devices] /\ wanted'[w] = wanted[w] \cup {dev}
          /\ \A v \in Workers : v # w => wanted'[v] = wanted[v]
      BY <1>1, <2>1, Zenon
    <3>5. /\ SameBut(s.driver, s.tracked, s.stuck)
          /\ setup.skip_nccl => SameBut(s.driver, wanted'[w], s.stuck)
      BY <1>3, <3>3, <3>4 DEF SameBut
    <3> QED BY <3>2, <3>3, <3>4, <3>5, Zenon
  <2>2. CASE /\ wanted' = [wanted EXCEPT ![w] = @ \ {dev}]
             /\ wk' = [wk EXCEPT ![w] = DisablePeer(@, dev)]
    <3>1. PICK s : s = DisablePeer(wk[w], dev)
      OBVIOUS
    <3>2. wk' = [wk EXCEPT ![w] = s]
      BY <1>1, <2>2, <3>1, Zenon
    <3>3. /\ s \in WorkerType /\ s.alive = wk[w].alive /\ s.init = wk[w].init /\ s.data = wk[w].data
          /\ s.ipc = wk[w].ipc /\ s.server = wk[w].server /\ s.cuda = wk[w].cuda
          /\ s.driver = wk[w].driver \ {dev} /\ s.tracked = wk[w].tracked \ {dev}
          /\ s.stuck = wk[w].stuck
      BY <1>1, <3>1, DisablePeerRecord
    <3>4. wanted' \in [Workers -> SUBSET Devices] /\ wanted'[w] = wanted[w] \ {dev}
          /\ \A v \in Workers : v # w => wanted'[v] = wanted[v]
      BY <1>1, <2>2, Zenon
    <3>5. /\ SameBut(s.driver, s.tracked, s.stuck)
          /\ setup.skip_nccl => SameBut(s.driver, wanted'[w], s.stuck)
      BY <1>3, <3>3, <3>4 DEF SameBut
    <3> QED BY <3>2, <3>3, <3>4, <3>5, Zenon
  <2> QED BY <2>1, <2>2, Zenon DEF Application
<1>5. wk'[w] = s /\ (\A v \in Workers : v # w => wk'[v] = wk[v]) /\ wk' \in [Workers -> WorkerType]
  BY <1>1, <1>4, Zenon
<1>6. \A v \in Workers : /\ wk'[v].alive = wk[v].alive /\ wk'[v].init = wk[v].init
                         /\ wk'[v].data = wk[v].data /\ wk'[v].cuda = wk[v].cuda
                         /\ wk'[v].ipc = wk[v].ipc /\ wk'[v].server = wk[v].server
  BY <1>4, <1>5
<1>7. TypeOK'
  BY <1>1, <1>2, <1>4, <1>5, Zenon DEF TypeOK
<1>8. WorkersInv'
  <2>1. FrozenParked' /\ ParkedDown' /\ LeftByFault' /\ NeverFrozen'
    BY <1>1, <1>2, <1>6 DEF WorkersInv, FrozenParked, ParkedDown, LeftByFault, NeverFrozen, AllCuda
  <2>2. PeerAccess'
    <3> SUFFICES ASSUME NEW v \in Workers
                 PROVE  /\ SameBut(wk'[v].driver, wk'[v].tracked, wk'[v].stuck)
                        /\ wk'[v].data = "parked" => wk'[v].driver \subseteq wk'[v].stuck
      BY Zenon DEF PeerAccess, SameBut
    <3>1. CASE v = w
      BY <1>3, <1>4, <1>5, <3>1
    <3>2. CASE v # w
      BY <1>1, <1>5, <3>2, Zenon DEF WorkersInv, PeerAccess
    <3> QED BY <3>1, <3>2
  <2>3. PeersKept'
    <3> SUFFICES ASSUME setup.skip_nccl, NEW v \in Workers
                 PROVE  IF wk'[v].data = "live"
                        THEN SameBut(wk'[v].driver, wanted'[v], wk'[v].stuck)
                        ELSE SameBut(wk'[v].saved, wanted'[v], wk'[v].stuck)
      BY <1>2, Zenon DEF PeersKept, SameBut
    <3>1. CASE v = w
      BY <1>3, <1>4, <1>5, <3>1
    <3>2. CASE v # w
      BY <1>1, <1>4, <1>5, <3>2, Zenon DEF WorkersInv, PeersKept
    <3> QED BY <3>1, <3>2
  <2> QED BY <2>1, <2>2, <2>3 DEF WorkersInv
<1>9. Ids'
  BY <1>2, <1>6, IdsSame DEF IInv
<1>10. \A v \in Workers : /\ Idle(v)' <=> Idle(v)
                          /\ Signalled(v)' <=> Signalled(v)
                          /\ Handling(v)' <=> Handling(v)
                          /\ Lost(v)' <=> Lost(v)
  BY <1>2, <1>6, Zenon DEF Idle, Signalled, Handling, Lost
<1>11. OneSignal' /\ OneMessage'
  BY <1>2, <1>10, Zenon DEF IInv, OneSignal, OneMessage
<1>12. Outstanding'
  <2> SUFFICES ASSUME NEW v \in Workers, word[v] # FINISH
               PROVE  (Ready(word[v]) /\ NotYet(v, word[v]))'
    BY <1>2 DEF Outstanding
  <2>1. PICK m : m = word[v]
    BY Zenon
  <2>2. Ready(m) /\ NotYet(v, m)
    BY <2>1, Zenon DEF IInv, Outstanding
  <2>3. Ready(m)' /\ NotYet(v, m)'
    BY <1>2, <1>6, <2>2 DEF Ready, AllCuda, AllData, AllDown, Published, Named, NotYet
  <2> QED BY <1>2, <2>1, <2>3, Zenon
<1>13. (todo \in Lists(cmd) /\ Finds)'
  <2>1. cmd = "none" /\ todo = << >> /\ Phase = "end" /\ Phase' = "end"
    BY <1>2 DEF Application, IInv, Lists, Phase
  <2>2. (todo \in Lists(cmd))'
    BY <1>2, <2>1, Zenon DEF Lists
  <2>3. (setup.aborts = 0 => AllIdle) /\ (Toggling(setup) => ~failures /\ Agreed)
    BY <2>1, Zenon DEF IInv, Finds, Messages
  <2>4. (setup.aborts = 0 => AllIdle)'
    BY <1>2, <1>10, <2>3, Zenon DEF AllIdle
  <2>5. (Toggling(setup) => ~failures /\ Agreed)'
    BY <1>2, <1>6, <2>3 DEF Toggling, Agreed, AllData, AllCuda
  <2> QED BY <1>2, <2>1, <2>2, <2>4, <2>5 DEF Finds, Messages, CudaActions
<1>14. Regular(setup)'
  BY <1>2, Zenon DEF IInv, Regular, Toggling
<1> QED BY <1>7, <1>8, <1>9, <1>11, <1>12, <1>13, <1>14, Zenon DEF IInv

-----------------------------------------------------------------------------
(* Steps of the coordinator alone. *)
LEMMA WorkersLeft ==
  ASSUME IInv, UNCHANGED <<wk, word, pending, active, id, nextId, mine, peer, setup, wanted>>,
         TypeOK', (todo \in Lists(cmd))', Finds'
  PROVE  IInv'
<1>1. OneSignal'
  BY Zenon DEF IInv, OneSignal, Idle, Signalled, Handling, Lost
<1>2. OneMessage'
  BY Zenon DEF IInv, OneMessage
<1>3. Outstanding'
  <2> SUFFICES ASSUME NEW v \in Workers, word[v] # FINISH
               PROVE  (Ready(word[v]) /\ NotYet(v, word[v]))'
    BY Zenon DEF Outstanding
  <2>1. PICK m : m = word[v]
    BY Zenon
  <2>2. Ready(m) /\ NotYet(v, m)
    BY <2>1, Zenon DEF IInv, Outstanding
  <2>3. Ready(m)' /\ NotYet(v, m)'
    BY <2>2, Zenon DEF Ready, AllCuda, AllData, AllDown, Published, Named, NotYet
  <2> QED BY <2>1, <2>3, Zenon
<1>4. WorkersInv'
  BY WorkersSame, Zenon DEF IInv
<1>5. Ids'
  BY IdsSame, Zenon DEF IInv
<1>6. Regular(setup)'
  BY DEF IInv, Regular, Toggling
<1> QED BY <1>1, <1>2, <1>3, <1>4, <1>5, <1>6 DEF IInv

(* A message phase starts with its first worker. *)
LEMMA Enter ==
  ASSUME NEW p, k' = 1, AllIdle', Ready(p)', \A w \in Workers : NotYet(w, p)'
  PROVE  InPhase(p)'
  BY DEF InPhase, AllIdle, Workers

(* The command that runs is known from the phase. *)
LEMMA PhaseStep ==
  ASSUME ListFacts, IInv, Phase # "end"
  PROVE  /\ todo # << >> /\ cmd # "none" /\ Follows(Phase, PhaseOf(Tail(todo)))
         /\ Tail(todo) \in Lists(cmd) /\ Tail(todo) \in Seq(PhaseNames)
<1>1. todo # << >> /\ todo \in Lists(cmd) /\ cmd \in {"none", "init", "checkpoint", "restore"}
      /\ todo \in Seq(PhaseNames)
  BY DEF Phase, IInv, TypeOK, PhaseNames
<1>2. Tail(todo) \in Seq(PhaseNames)
  BY <1>1
<1> QED BY <1>1, <1>2, Advance, Zenon DEF Follows

LEMMA EndInd ==
  ASSUME IInv, End
  PROVE  IInv'
<1>1. UNCHANGED <<failures, wk, word, pending, active, id, nextId, mine, peer, setup, wanted, aborts>>
      /\ cmd' = "none" /\ todo' = << >> /\ k' = 1
  BY Zenon DEF End, Leave, blocks, env
<1>2. Phase = "end" /\ Phase' = "end" /\ cmd # "none"
  BY <1>1, Zenon DEF End, Phase
<1>3. AllIdle /\ (Toggling(setup) => ~failures /\ Agreed)
  BY <1>2, Zenon DEF IInv, Finds, Messages
<1>4. Finds'
  BY <1>1, <1>2, <1>3, Zenon DEF Finds, Messages, CudaActions, AllIdle, Idle, Toggling, Agreed, AllData, AllCuda
<1>5. TypeOK'
  BY <1>1, MultiCrAssumption DEF IInv, TypeOK
<1>6. (todo \in Lists(cmd))'
  BY <1>1, Zenon DEF Lists
<1> QED BY <1>1, <1>4, <1>5, <1>6, WorkersLeft, Zenon

LEMMA AbortInd ==
  ASSUME IInv, Abort
  PROVE  IInv'
<1>1. UNCHANGED <<failures, wk, word, pending, active, id, nextId, mine, peer, setup, wanted>>
      /\ cmd' = "none" /\ todo' = << >> /\ k' = 1 /\ aborts > 0 /\ aborts' = aborts - 1
  BY Zenon DEF Abort, Leave, blocks
<1>2. setup.aborts \in Nat /\ aborts \in 0..setup.aborts
  BY MultiCrAssumption, Zenon DEF IInv, TypeOK, SetupType
<1>3. setup.aborts # 0 /\ ~Toggling(setup)
  BY <1>1, <1>2 DEF IInv, Regular
<1>4. Phase' = "end"
  BY <1>1, Zenon DEF Phase
<1>5. Finds'
  BY <1>1, <1>3, <1>4, Zenon DEF Finds, Messages, CudaActions, Toggling
<1>6. TypeOK'
  <2>1. aborts' \in 0..setup.aborts
    BY <1>1, <1>2
  <2> QED BY <1>1, <2>1, MultiCrAssumption DEF IInv, TypeOK
<1>7. (todo \in Lists(cmd))'
  BY <1>1 DEF Lists
<1> QED BY <1>1, <1>5, <1>6, <1>7, WorkersLeft, Zenon

(* A command is started when every handler is done. *)
LEMMA StartIdle ==
  ASSUME IInv, NEW c, NEW phases, Start(c, phases)
  PROVE  AllIdle /\ (Toggling(setup) => Agreed)
<1>1. cmd = "none" /\ todo = << >> /\ Phase = "end"
  BY Zenon DEF Start, IInv, Lists, Phase
<1>2. (setup.aborts = 0 => AllIdle) /\ (Toggling(setup) => Agreed)
  BY <1>1, Zenon DEF IInv, Finds, Messages
<1>3. setup.aborts \in Nat
  BY MultiCrAssumption DEF IInv, TypeOK, SetupType
<1>4. CASE setup.aborts > 0
  <2>1. \A w \in Workers : word[w] = FINISH
    BY <1>4, Zenon DEF IInv, Regular, Start
  <2>2. AllIdle
    BY <2>1, Zenon DEF IInv, OneSignal, AllIdle, Signalled, Handling, Lost, Messages, FINISH
  <2> QED BY <1>2, <2>2, Zenon
<1> QED BY <1>2, <1>3, <1>4

LEMMA StartKeeps ==
  ASSUME IInv, NEW c \in {"init", "checkpoint", "restore"}, NEW phases \in Seq(PhaseNames),
         phases \in Lists(c), Start(c, phases), Finds'
  PROVE  IInv'
<1>1. UNCHANGED <<wk, word, pending, active, id, nextId, mine, peer, setup, wanted, aborts>>
      /\ cmd' = c /\ todo' = phases /\ k' = 1 /\ failures' = FALSE
  BY Zenon DEF Start, blocks, env
<1>2. TypeOK'
  <2>1. todo' \in Seq(Messages \cup CudaActions \cup {"rollback", "verify", "exchange"})
    BY <1>1, Zenon DEF PhaseNames
  <2>2. k' \in 1..(N + 1) /\ cmd' \in {"none", "init", "checkpoint", "restore"}
    BY <1>1, MultiCrAssumption
  <2>3. failures' \in BOOLEAN
    BY <1>1, Zenon
  <2> QED BY <1>1, <2>1, <2>2, <2>3 DEF IInv, TypeOK
<1>3. (todo \in Lists(cmd))'
  BY <1>1, Zenon DEF Lists, Freeze, Unless, Verifying, Rebuilding, Toggling
<1> QED BY <1>1, <1>2, <1>3, WorkersLeft, Zenon

LEMMA StartInitInd ==
  ASSUME StartFacts, IInv, StartInit
  PROVE  IInv'
<1>1. Start("init", do_init)
  BY Zenon DEF StartInit
<1>2. UNCHANGED <<wk, word, pending, active, setup>>
      /\ cmd' = "init" /\ todo' = do_init /\ k' = 1 /\ failures' = FALSE
  BY <1>1 DEF Start, env
<1>3. AllIdle /\ (Toggling(setup) => Agreed)
  BY <1>1, StartIdle, Zenon
<1>4. do_init \in Lists("init") /\ do_init \in Seq(PhaseNames) /\ Phase' = "INIT"
  BY <1>2, Zenon DEF StartFacts, Phase, PhaseOf
<1>5. InPhase("INIT")'
  <2>1. AllIdle' /\ Ready("INIT")' /\ \A w \in Workers : NotYet(w, "INIT")'
    BY <1>2, <1>3, Zenon DEF AllIdle, Idle, Ready, NotYet
  <2> QED BY <1>2, <2>1, Enter, Zenon
<1>6. (Toggling(setup) => Agreed)'
  BY <1>2, <1>3, Zenon DEF Toggling, Agreed, AllData, AllCuda
<1>7. Finds'
  BY <1>2, <1>4, <1>5, <1>6 DEF Finds, Messages, CudaActions
<1> QED BY <1>1, <1>4, <1>7, StartKeeps

LEMMA StartCheckpointInd ==
  ASSUME StartFacts, IInv, StartCheckpoint
  PROVE  IInv'
<1>1. Start("checkpoint", do_checkpoint) /\ AllData("live") /\ AllCuda("running")
  BY Zenon DEF StartCheckpoint, AllData, AllCuda
<1>2. UNCHANGED <<wk, word, pending, active, setup>>
      /\ cmd' = "checkpoint" /\ todo' = do_checkpoint /\ k' = 1 /\ failures' = FALSE
  BY <1>1 DEF Start, env
<1>3. AllIdle
  BY <1>1, StartIdle
<1>4. PICK p : p = IF setup.skip_nccl THEN "CKPT" ELSE "TEARDOWN"
  BY Zenon
<1>5. do_checkpoint \in Lists("checkpoint") /\ do_checkpoint \in Seq(PhaseNames) /\ Phase' = p
  BY <1>2, <1>4, Zenon DEF StartFacts, Phase, PhaseOf
<1>6. InPhase(p)'
  <2>1. AllIdle'
    BY <1>2, <1>3, Zenon DEF AllIdle, Idle
  <2>2. Ready(p)' /\ \A w \in Workers : NotYet(w, p)'
    BY <1>1, <1>2, <1>4, Zenon DEF AllData, AllCuda, Ready, NotYet
  <2> QED BY <1>2, <2>1, <2>2, Enter, Zenon
<1>7. Finds'
  BY <1>2, <1>4, <1>5, <1>6, Zenon DEF Finds, Messages, CudaActions
<1> QED BY <1>1, <1>5, <1>7, StartKeeps, Zenon

LEMMA StartRestoreInd ==
  ASSUME StartFacts, IInv, StartRestore
  PROVE  IInv'
<1>1. Start("restore", do_restore) /\ AllData("parked")
  BY Zenon DEF StartRestore, AllData
<1>2. UNCHANGED <<wk, word, pending, active, setup>>
      /\ cmd' = "restore" /\ todo' = do_restore /\ k' = 1 /\ failures' = FALSE
  BY <1>1 DEF Start, env
<1>3. AllIdle /\ (Toggling(setup) => Agreed)
  BY <1>1, StartIdle
<1>4. PICK p : p = PhaseOf(do_restore)
  BY Zenon
<1>5. do_restore \in Lists("restore") /\ do_restore \in Seq(PhaseNames) /\ Phase' = p
  BY <1>2, <1>4, Zenon DEF StartFacts, Phase, PhaseOf
<1>6. AllIdle' /\ AllData("parked")'
  BY <1>1, <1>2, <1>3, Zenon DEF AllIdle, Idle, AllData
<1>7. Finds'
  <2>1. CASE p = "verify" /\ setup.buffer_only
    <3>1. AllCuda("running")'
      BY <1>2, <2>1, Zenon DEF IInv, WorkersInv, NeverFrozen, AllCuda
    <3> QED BY <1>2, <1>5, <1>6, <2>1, <3>1, Zenon DEF Finds, Messages, CudaActions
  <2>2. CASE p = "restore" /\ ByAction(setup)
    BY <1>2, <1>5, <1>6, <2>2, Zenon DEF Finds, Messages, CudaActions
  <2>3. CASE p = "toggle" /\ Toggling(setup)
    <3>1. AllCuda("checkpointed")
      <4>1. 1 \in Workers
        BY MultiCrAssumption DEF Workers
      <4> QED BY <1>1, <1>3, <2>3, <4>1 DEF Agreed, AllData
    <3>2. AllCuda("checkpointed")'
      BY <1>2, <3>1, Zenon DEF AllCuda
    <3> QED BY <1>2, <1>5, <1>6, <2>3, <3>2, Zenon DEF Finds, Messages, CudaActions
  <2> QED BY <1>4, <2>1, <2>2, <2>3 DEF StartFacts
<1> QED BY <1>1, <1>5, <1>7, StartKeeps, Zenon

(* Every worker has answered: its handler is done, with the work of the phase. *)
LEMMA FinishedDone ==
  ASSUME IInv, Phase \in Messages, k > N, \A w \in Workers : word[w] = FINISH
  PROVE  \A w \in Workers : Idle(w) /\ Done(w, Phase)
<1> SUFFICES ASSUME NEW w \in Workers PROVE Idle(w) /\ Done(w, Phase)
  BY Zenon
<1>1. k \in 1..(N + 1) /\ InPhase(Phase)
  BY Zenon DEF IInv, TypeOK, Finds
<1>2. w < k /\ word[w] # Phase
  BY <1>1, MultiCrAssumption DEF Workers, Messages, FINISH
<1> QED BY <1>1, <1>2 DEF InPhase

LEMMA AllFinishedInd ==
  ASSUME ListFacts, IInv, AllFinished
  PROVE  IInv'
<1>1. UNCHANGED <<cmd, failures, wk, word, pending, active, id, nextId, mine, peer, setup, wanted, aborts>>
      /\ todo' = Tail(todo) /\ k' = 1 /\ Phase \in Messages
  BY DEF AllFinished, NextPhase, blocks, env
<1>2. PICK m : m = Phase
  BY Zenon
<1>3. m \in Messages /\ m # "end"
  BY <1>1, <1>2, Zenon DEF Messages
<1>4. (\A w \in Workers : Idle(w) /\ Done(w, m)) /\ Ready(m)
      /\ (Toggling(setup) => ~failures /\ (m = "INIT" => Agreed))
  BY <1>1, <1>2, FinishedDone DEF AllFinished, IInv, Finds, InPhase
<1>5. PICK q : q = PhaseOf(Tail(todo))
  BY Zenon
<1>6. Follows(m, q) /\ Tail(todo) \in Lists(cmd) /\ Tail(todo) \in Seq(PhaseNames) /\ Phase' = q /\ cmd # "none"
  BY <1>1, <1>2, <1>3, <1>5, PhaseStep, Zenon DEF Phase, PhaseOf
<1>7. AllIdle' /\ (Toggling(setup) => ~failures)'
  BY <1>1, <1>4, Zenon DEF AllIdle, Idle, Toggling
<1>8. TypeOK'
  <2>1. todo' \in Seq(Messages \cup CudaActions \cup {"rollback", "verify", "exchange"})
    BY <1>1, <1>6, Zenon DEF PhaseNames
  <2>2. k' \in 1..(N + 1)
    BY <1>1, MultiCrAssumption
  <2> QED BY <1>1, <2>1, <2>2 DEF IInv, TypeOK
<1>9. (todo \in Lists(cmd))'
  BY <1>1, <1>6, Zenon DEF Lists, Toggling, Verifying, Rebuilding, Freeze
<1>10. Finds'
  <2>1. CASE m = "INIT"
    <3>1. q = "end" /\ (Toggling(setup) => Agreed)'
      BY <1>1, <1>4, <1>6, <2>1, Zenon DEF Follows, Toggling, Agreed, AllData, AllCuda
    <3> QED BY <1>6, <1>7, <3>1, Zenon DEF Finds, Messages, CudaActions
  <2>2. CASE m = "TEARDOWN"
    <3>1. q = "CKPT"
      BY <1>6, <2>2 DEF Follows
    <3>2. Ready("CKPT")' /\ \A w \in Workers : NotYet(w, "CKPT")'
      BY <1>1, <1>4, <2>2, Zenon DEF Ready, AllCuda, AllData, AllDown, NotYet, Done, Did
    <3>3. InPhase(q)'
      BY <1>1, <1>7, <3>1, <3>2, Enter, Zenon
    <3> QED BY <1>6, <1>7, <3>1, <3>3, Zenon DEF Finds, Messages, CudaActions
  <2>3. CASE m = "CKPT"
    <3>1. AllData("parked")' /\ AllCuda("running")'
      BY <1>1, <1>4, <2>3, Zenon DEF Ready, AllCuda, AllData, Done, Did
    <3>2. \/ q = "end" /\ setup.buffer_only
          \/ q = "lock"
          \/ q = "toggle" /\ cmd = "checkpoint"
      BY <1>6, <2>3, Zenon DEF Follows
    <3>3. q = "end" => ~Toggling(setup)'
      BY <1>1, <3>2, Zenon DEF Toggling
    <3> QED BY <1>1, <1>6, <1>7, <3>1, <3>2, <3>3 DEF Finds, Messages, CudaActions
  <2>4. CASE m = "RESTORE"
    <3>1. AllData("live")' /\ AllCuda("running")'
      BY <1>1, <1>4, <2>4, Zenon DEF Ready, AllCuda, AllData, Done, Did
    <3>2. q = "end" \/ (q = "EXPORT" /\ ~setup.skip_nccl)
      BY <1>6, <2>4, Zenon DEF Follows
    <3>3. q = "EXPORT" => Ready("EXPORT")' /\ \A w \in Workers : NotYet(w, "EXPORT")'
      BY <1>1, <3>1, <3>2, Zenon DEF Ready, NotYet
    <3>4. q = "EXPORT" => InPhase(q)'
      BY <1>1, <1>7, <3>3, Enter
    <3>5. Agreed'
      BY <3>1 DEF Agreed
    <3> QED BY <1>6, <1>7, <3>2, <3>4, <3>5 DEF Finds, Messages, CudaActions
  <2>5. CASE m = "EXPORT"
    <3>1. q = "exchange"
      BY <1>6, <2>5 DEF Follows
    <3>2. Ready("EXPORT")' /\ Published'
      BY <1>1, <1>4, <2>5, Zenon DEF Ready, AllCuda, AllData, Published, Done
    <3> QED BY <1>6, <1>7, <3>1, <3>2, Zenon DEF Finds, Messages, CudaActions
  <2>6. CASE m = "IMPORT"
    <3>1. q = "end"
      BY <1>6, <2>6, Zenon DEF Follows
    <3>2. Agreed'
      BY <1>1, <1>4, <2>6 DEF Ready, AllCuda, AllData, Agreed
    <3> QED BY <1>6, <1>7, <3>1, <3>2, Zenon DEF Finds, Messages, CudaActions
  <2> QED BY <1>3, <2>1, <2>2, <2>3, <2>4, <2>5, <2>6 DEF Messages
<1> QED BY <1>1, <1>8, <1>9, <1>10, WorkersLeft, Zenon

LEMMA VerifyInd ==
  ASSUME ListFacts, IInv, Verify
  PROVE  IInv'
<1>1. UNCHANGED <<failures, wk, word, pending, active, id, nextId, mine, peer, setup, wanted, aborts>>
      /\ k' = 1 /\ Phase = "verify"
      /\ IF failures THEN cmd' = "none" /\ todo' = << >> ELSE cmd' = cmd /\ todo' = Tail(todo)
  BY Zenon DEF Verify, Leave, NextPhase, blocks, env
<1>2. PICK q : q = PhaseOf(Tail(todo))
  OBVIOUS
<1>3. q = "RESTORE" /\ Tail(todo) \in Lists(cmd) /\ Tail(todo) \in Seq(PhaseNames) /\ cmd # "none"
  BY <1>1, <1>2, PhaseStep, Zenon DEF Follows
<1>4. AllIdle /\ AllData("parked") /\ (failures \/ AllCuda("running")) /\ (Toggling(setup) => ~failures)
  BY <1>1, <1>3, Zenon DEF IInv, Finds, Messages
<1>5. AllIdle' /\ (Toggling(setup) => ~failures)'
  BY <1>1, <1>4, Zenon DEF AllIdle, Idle, Toggling
<1>6. TypeOK'
  <2>1. todo' \in Seq(Messages \cup CudaActions \cup {"rollback", "verify", "exchange"})
    <3>1. << >> \in Seq(PhaseNames)
      OBVIOUS
    <3> QED BY <1>1, <1>3, <3>1, Zenon DEF PhaseNames
  <2>2. k' \in 1..(N + 1) /\ cmd' \in {"none", "init", "checkpoint", "restore"}
    BY <1>1, MultiCrAssumption DEF IInv, TypeOK
  <2> QED BY <1>1, <2>1, <2>2 DEF IInv, TypeOK
<1>7. CASE failures
  <2>1. cmd' = "none" /\ todo' = << >> /\ Phase' = "end" /\ ~Toggling(setup)'
    BY <1>1, <1>4, <1>7, Zenon DEF Phase, Toggling
  <2>2. Finds'
    BY <1>5, <2>1 DEF Finds, Messages, CudaActions
  <2>3. (todo \in Lists(cmd))'
    BY <2>1, Zenon DEF Lists
  <2> QED BY <1>1, <1>6, <2>2, <2>3, WorkersLeft, Zenon
<1>8. CASE ~failures
  <2>1. cmd' = cmd /\ todo' = Tail(todo) /\ Phase' = "RESTORE"
    BY <1>1, <1>2, <1>3, <1>8 DEF Phase, PhaseOf
  <2>2. (todo \in Lists(cmd))'
    BY <1>1, <1>3, <2>1, Zenon DEF Lists, Toggling, Verifying, Rebuilding, Freeze
  <2>3. Ready("RESTORE")' /\ \A w \in Workers : NotYet(w, "RESTORE")'
    BY <1>1, <1>4, <1>8, Zenon DEF Ready, NotYet, AllCuda, AllData, AllDown, IInv, WorkersInv, ParkedDown
  <2>4. InPhase("RESTORE")'
    BY <1>1, <1>5, <2>3, Enter
  <2>5. Finds'
    BY <1>5, <2>1, <2>4, Zenon DEF Finds, Messages, CudaActions
  <2> QED BY <1>1, <1>6, <2>2, <2>5, WorkersLeft, Zenon
<1> QED BY <1>7, <1>8, Zenon

(* The message goes to the next worker, which waits for nothing else. *)
LEMMA SignalInd ==
  ASSUME IInv, Signal
  PROVE  IInv'
<1>1. /\ word \in [Workers -> Messages \cup {FINISH}] /\ pending \in [Workers -> SUBSET Signals]
      /\ k \in 1..(N + 1) /\ TypeOK
  BY DEF IInv, TypeOK
<1>2. PICK m : m = Phase
  BY Zenon
<1>3. m \in Messages /\ InPhase(m) /\ k \in Workers /\ m # FINISH
  BY <1>1, <1>2, MultiCrAssumption DEF Signal, IInv, Finds, Workers, Messages, FINISH
<1>4. PICK i \in Workers : i = k
  BY <1>3, Zenon
<1>5. Idle(i) /\ NotYet(i, m) /\ Ready(m)
  BY <1>1, <1>3, <1>4 DEF InPhase
<1>6. wk[i].alive /\ word[i] = FINISH /\ pending[i] = {} /\ active[i] = {}
  BY <1>5, Zenon DEF Idle
<1>7. /\ word' = [word EXCEPT ![i] = m]
      /\ pending' = [pending EXCEPT ![i] = pending[i] \cup {SignalOf(m)}]
      /\ k' = i + 1
      /\ UNCHANGED <<cmd, todo, failures, wk, active, id, nextId, mine, peer, setup, wanted, aborts>>
  BY <1>2, <1>4, <1>6, Zenon DEF Signal, blocks, env
<1>8. /\ word'[i] = m /\ pending'[i] = {SignalOf(m)} /\ SignalOf(m) \in Signals
      /\ \A w \in Workers : w # i => word'[w] = word[w] /\ pending'[w] = pending[w]
  BY <1>1, <1>3, <1>6, <1>7, Zenon DEF SignalOf, Signals, Messages
<1>9. TypeOK'
  <2>1. word' \in [Workers -> Messages \cup {FINISH}] /\ pending' \in [Workers -> SUBSET Signals]
    BY <1>1, <1>3, <1>7, <1>8, Zenon
  <2>2. k' \in 1..(N + 1)
    BY <1>7, MultiCrAssumption DEF Workers
  <2> QED BY <1>1, <1>7, <2>1, <2>2, Zenon DEF TypeOK
<1>10. Signalled(i)'
  BY <1>3, <1>6, <1>7, <1>8, Zenon DEF Signalled
<1>11. \A w \in Workers : w # i =>
         /\ Idle(w) => Idle(w)'
         /\ Signalled(w) => Signalled(w)'
         /\ Handling(w) => Handling(w)'
         /\ Lost(w) => Lost(w)'
  BY <1>7, <1>8, Zenon DEF Idle, Signalled, Handling, Lost
<1>12. \A w \in Workers : word'[w] = m \/ word'[w] = FINISH
  <2>1. \A w \in Workers : w < i => word[w] = m \/ Idle(w)
    BY <1>3, <1>4, Zenon DEF InPhase
  <2>2. \A w \in Workers : w >= i => Idle(w)
    BY <1>3, <1>4 DEF InPhase
  <2> QED BY <1>8, <2>1, <2>2 DEF Idle, Workers
<1>13. OneSignal' /\ OneMessage'
  BY <1>10, <1>11, <1>12, Zenon DEF IInv, OneSignal, OneMessage
<1>14. Ready(m)' /\ \A w \in Workers : (NotYet(w, m) => NotYet(w, m)') /\ (Done(w, m) => Done(w, m)')
  BY <1>5, <1>7, Zenon DEF Ready, AllCuda, AllData, AllDown, Published, Named, NotYet, Done, Did
<1>15. Outstanding'
  <2> SUFFICES ASSUME NEW w \in Workers, word'[w] # FINISH
               PROVE  (Ready(word[w]) /\ NotYet(w, word[w]))'
    BY DEF Outstanding
  <2>1. word'[w] = m
    BY <1>12, Zenon
  <2>2. NotYet(w, m)
    <3>1. w # i => word[w] = m /\ m # FINISH
      BY <1>3, <1>8, <2>1, Zenon
    <3> QED BY <1>5, <3>1, Zenon DEF IInv, Outstanding
  <2> QED BY <1>14, <2>1, <2>2, Zenon
<1>16. InPhase(m)'
  <2>1. \A w \in Workers : w < i + 1 => word'[w] = m \/ (Idle(w)' /\ Done(w, m)')
    <3> SUFFICES ASSUME NEW w \in Workers, w < i + 1, w # i
                 PROVE  word'[w] = m \/ (Idle(w)' /\ Done(w, m)')
      BY <1>8, Zenon
    <3>1. w < k
      BY <1>4 DEF Workers
    <3>2. word[w] = m \/ (Idle(w) /\ Done(w, m))
      BY <1>3, <3>1, Zenon DEF InPhase
    <3>3. word[w] = m => word'[w] = m
      BY <1>8, Zenon
    <3>4. Idle(w) /\ Done(w, m) => Idle(w)' /\ Done(w, m)'
      BY <1>11, <1>14, Zenon
    <3> QED BY <3>2, <3>3, <3>4, Zenon
  <2>2. \A w \in Workers : w >= i + 1 => Idle(w)' /\ NotYet(w, m)'
    <3> SUFFICES ASSUME NEW w \in Workers, w >= i + 1
                 PROVE  Idle(w)' /\ NotYet(w, m)'
      OBVIOUS
    <3>1. w >= k /\ w # i
      BY <1>4 DEF Workers
    <3>2. Idle(w) /\ NotYet(w, m)
      BY <1>3, <3>1, Zenon DEF InPhase
    <3> QED BY <1>11, <1>14, <3>1, <3>2, Zenon
  <2> QED BY <1>7, <1>14, <2>1, <2>2 DEF InPhase
<1>17. Finds'
  <2>1. Phase' = m /\ (Toggling(setup) => ~failures /\ (m = "INIT" => Agreed))
    BY <1>2, <1>3, <1>7, Zenon DEF Phase, IInv, Finds
  <2>2. (Toggling(setup) => ~failures /\ (m = "INIT" => Agreed))'
    BY <1>7, <2>1, Zenon DEF Toggling, Agreed, AllData, AllCuda
  <2> QED BY <1>3, <1>16, <2>1, <2>2, Zenon DEF Finds, Messages, CudaActions
<1>18. WorkersInv' /\ Ids'
  BY <1>7, WorkersSame, IdsSame DEF IInv
<1>19. (todo \in Lists(cmd))' /\ Regular(setup)'
  BY <1>7, Zenon DEF IInv, Lists, Regular, Toggling, Verifying, Rebuilding, Freeze
<1> QED BY <1>9, <1>13, <1>15, <1>17, <1>18, <1>19, Zenon DEF IInv

(* exchange_ipc_export_info puts the other workers in the peer_block of each, if the ids of
   the workers are those it looks at. *)
LEMMA ExchangeNames ==
  ASSUME CountFacts, IInv, Published, FirstId = 0,
         peer' = [f \in Files |-> IF f \in 0..(N - 1)
                                  THEN {mine[g] : g \in (0..(N - 1)) \ {f}} \ {Nobody} ELSE peer[f]]
  PROVE  \A w \in Workers : peer'[id[w]] = Workers \ {w}
<1>1. Ids /\ N \in Nat \ {0}
  BY MultiCrAssumption, Zenon DEF IInv
<1>2. Initialized = Workers
  BY Zenon DEF Initialized, Published
<1>3. nextId = N
  BY <1>1, <1>2 DEF CountFacts, Ids
<1>4. /\ \A w \in Workers : id[w] \in 0..(N - 1)
      /\ \A w, v \in Workers : id[w] = id[v] => w = v
      /\ \A f \in 0..(N - 1) : \E w \in Workers : id[w] = f
  BY <1>1, <1>2, <1>3, Zenon DEF Ids, Published
<1>5. \A w \in Workers : mine[id[w]] = w /\ w # Nobody
  BY DEF Published, Workers, Nobody
<1> SUFFICES ASSUME NEW w \in Workers PROVE peer'[id[w]] = Workers \ {w}
  OBVIOUS
<1>6. peer'[id[w]] = {mine[g] : g \in (0..(N - 1)) \ {id[w]}} \ {Nobody}
  BY <1>1, <1>4 DEF Files
<1>7. \A v \in Workers \ {w} : v \in {mine[g] : g \in (0..(N - 1)) \ {id[w]}} \ {Nobody}
  <2> SUFFICES ASSUME NEW v \in Workers \ {w}
               PROVE  v \in {mine[g] : g \in (0..(N - 1)) \ {id[w]}} /\ v # Nobody
    BY Zenon
  <2>1. id[v] \in (0..(N - 1)) \ {id[w]} /\ mine[id[v]] = v /\ v # Nobody
    BY <1>4, <1>5, Zenon
  <2> QED BY <2>1
<1>8. \A g \in (0..(N - 1)) \ {id[w]} : mine[g] \in Workers \ {w}
  BY <1>4, <1>5
<1> QED BY <1>6, <1>7, <1>8

LEMMA ExchangeInd ==
  ASSUME CountFacts, ListFacts, IInv, Exchange
  PROVE  IInv'
<1>1. UNCHANGED <<failures, wk, word, pending, active, id, nextId, mine, setup, wanted, aborts>>
      /\ k' = 1 /\ Phase = "exchange"
  BY Zenon DEF Exchange, Leave, NextPhase, env
<1>2. PICK q : q = PhaseOf(Tail(todo))
  OBVIOUS
<1>3. q = "IMPORT" /\ Tail(todo) \in Lists(cmd) /\ Tail(todo) \in Seq(PhaseNames) /\ cmd # "none"
  BY <1>1, <1>2, PhaseStep, Zenon DEF Follows
<1>4. AllIdle /\ Ready("EXPORT") /\ Published /\ (Toggling(setup) => ~failures)
  BY <1>1, <1>3 DEF IInv, Finds, Messages
<1>5. AllIdle' /\ (Toggling(setup) => ~failures)' /\ Agreed' /\ k' \in 1..(N + 1)
  BY <1>1, <1>4, MultiCrAssumption DEF AllIdle, Idle, Toggling, Agreed, Ready, AllData, AllCuda
<1>6. CASE \E f \in 0..(N - 1) : f >= nextId
  <2>1. cmd' = "none" /\ todo' = << >> /\ Phase' = "end" /\ peer' = peer
    BY <1>6, Zenon DEF Exchange, Leave, Phase
  <2>2. Finds'
    BY <1>5, <2>1 DEF Finds, Messages, CudaActions
  <2>3. (todo \in Lists(cmd))'
    BY <2>1, Zenon DEF Lists
  <2>4. TypeOK'
    BY <1>1, <1>5, <2>1 DEF IInv, TypeOK
  <2> QED BY <1>1, <2>1, <2>2, <2>3, <2>4, WorkersLeft, Zenon
<1>7. CASE ~\E f \in 0..(N - 1) : f >= nextId
  <2>1. /\ cmd' = cmd /\ todo' = Tail(todo)
        /\ peer' = [f \in Files |-> IF f \in 0..(N - 1)
                                    THEN {mine[g] : g \in (0..(N - 1)) \ {f}} \ {Nobody} ELSE peer[f]]
    BY <1>7, Zenon DEF Exchange, NextPhase
  <2>2. Phase' = "IMPORT"
    BY <1>2, <1>3, <2>1 DEF Phase, PhaseOf
  <2>3. (todo \in Lists(cmd))'
    BY <1>1, <1>3, <2>1, Zenon DEF Lists, Toggling, Verifying, Rebuilding, Freeze
  <2>4. TypeOK'
    <3>1. todo' \in Seq(Messages \cup CudaActions \cup {"rollback", "verify", "exchange"})
      BY <1>3, <2>1, Zenon DEF PhaseNames
    <3>2. mine \in [Files -> Workers \cup {Nobody, Gone}] /\ peer \in [Files -> SUBSET (Workers \cup {Gone})]
      BY Zenon DEF IInv, TypeOK
    <3>3. \A g \in 0..(N - 1) : mine[g] \in Workers \cup {Nobody, Gone}
      BY <3>2, MultiCrAssumption DEF Files
    <3>4. peer' \in [Files -> SUBSET (Workers \cup {Gone})]
      BY <2>1, <3>2, <3>3
    <3> QED BY <1>1, <1>5, <2>1, <3>1, <3>4, Zenon DEF IInv, TypeOK
  <2>5. Published'
    BY <1>1, <1>4, Zenon DEF Published
  <2>6. Named'
    BY <1>1, <1>4, <2>1, ExchangeNames, Zenon DEF Named
  <2>7. Ready("IMPORT")' /\ \A w \in Workers : NotYet(w, "IMPORT")'
    BY <1>1, <1>4, <2>5, <2>6, Zenon DEF Ready, NotYet, AllCuda, AllData
  <2>8. InPhase("IMPORT")'
    BY <1>1, <1>5, <2>7, Enter
  <2>9. Finds'
    BY <1>5, <2>2, <2>8, Zenon DEF Finds, Messages, CudaActions
  <2>10. (OneSignal /\ OneMessage /\ Outstanding)'
    BY <1>5, Zenon DEF AllIdle, Idle, OneSignal, OneMessage, Outstanding
  <2>11. WorkersInv' /\ Ids'
    BY <1>1, WorkersSame, IdsSame, Zenon DEF IInv
  <2>12. Regular(setup)'
    BY <1>1 DEF IInv, Regular, Toggling
  <2> QED BY <2>3, <2>4, <2>9, <2>10, <2>11, <2>12 DEF IInv
<1> QED BY <1>6, <1>7

(* cuda-checkpoint changes nothing else of a worker. *)
LEMMA CudaRecord ==
  ASSUME NEW r \in WorkerType, NEW a \in CudaActions, NEW s, s = [r EXCEPT !.cuda = CudaTo(r, a)]
  PROVE  /\ s \in WorkerType /\ s.cuda = CudaTo(r, a)
         /\ s.alive = r.alive /\ s.init = r.init /\ s.data = r.data /\ s.ipc = r.ipc
         /\ s.driver = r.driver /\ s.tracked = r.tracked /\ s.saved = r.saved /\ s.stuck = r.stuck
<1>1. CudaTo(r, a) \in {"running", "locked", "checkpointed"}
  BY DEF CudaTo, CudaActions
<1> QED BY <1>1 DEF WorkerType

(* Action a of cuda-checkpoint on all workers, of which some failed. *)
CudaEffect(a, failed) ==
  /\ a = IF Phase = "rollback" THEN "unlock" ELSE Phase
  /\ \A w \in failed : a \in setup.failing \/ ~wk[w].alive \/ ~CudaFrom(wk[w], a)
  /\ wk' \in [Workers -> WorkerType]
  /\ \A w \in Workers \ failed : CudaFrom(wk[w], a) /\ wk'[w].cuda = CudaTo(wk[w], a)
  /\ \A w \in Workers : /\ wk'[w].alive = wk[w].alive /\ wk'[w].init = wk[w].init
                        /\ wk'[w].data = wk[w].data /\ wk'[w].ipc = wk[w].ipc
                        /\ wk'[w].driver = wk[w].driver /\ wk'[w].tracked = wk[w].tracked
                        /\ wk'[w].saved = wk[w].saved /\ wk'[w].stuck = wk[w].stuck
  /\ failures' \in BOOLEAN /\ (failures' <=> failures \/ failed # {})
  /\ todo' = IF Phase \in {"lock", "checkpoint"} /\ failed # {} THEN <<"rollback">> ELSE Tail(todo)

LEMMA CudaStep ==
  ASSUME IInv, Cuda
  PROVE  \E a \in CudaActions, failed \in SUBSET Workers : CudaEffect(a, failed)
<1>1. PICK a : a = IF Phase = "rollback" THEN "unlock" ELSE Phase
  OBVIOUS
<1>2. a \in CudaActions
  BY <1>1 DEF Cuda, CudaActions
<1>3. PICK broken \in SUBSET Workers :
        LET action == IF Phase = "rollback" THEN "unlock" ELSE Phase
            failed == {w \in Workers : w \in broken \/ ~wk[w].alive \/ ~CudaFrom(wk[w], action)}
        IN /\ broken # {} => action \in setup.failing
           /\ wk' = [w \in Workers |-> IF w \in failed THEN wk[w]
                                       ELSE [wk[w] EXCEPT !.cuda = CudaTo(wk[w], action)]]
           /\ failures' = (failures \/ failed # {})
           /\ todo' = IF Phase \in {"lock", "checkpoint"} /\ failed # {} THEN <<"rollback">>
                                                                        ELSE Tail(todo)
  BY Zenon DEF Cuda
<1>4. PICK failed : failed = {w \in Workers : w \in broken \/ ~wk[w].alive \/ ~CudaFrom(wk[w], a)}
  BY Zenon
<1>5. /\ broken # {} => a \in setup.failing
      /\ wk' = [w \in Workers |-> IF w \in failed THEN wk[w]
                                  ELSE [wk[w] EXCEPT !.cuda = CudaTo(wk[w], a)]]
      /\ failures' = (failures \/ failed # {})
      /\ todo' = IF Phase \in {"lock", "checkpoint"} /\ failed # {} THEN <<"rollback">> ELSE Tail(todo)
  BY <1>1, <1>3, <1>4, Zenon
<1>6. wk \in [Workers -> WorkerType] /\ failures \in BOOLEAN
  BY DEF IInv, TypeOK
<1>7. \A w \in Workers : /\ w \in failed => wk'[w] = wk[w]
                         /\ w \notin failed => wk'[w] = [wk[w] EXCEPT !.cuda = CudaTo(wk[w], a)]
  BY <1>5
<1>8. \A w \in Workers : /\ wk'[w] \in WorkerType
                         /\ w \notin failed => wk'[w].cuda = CudaTo(wk[w], a)
                         /\ wk'[w].alive = wk[w].alive /\ wk'[w].init = wk[w].init
                         /\ wk'[w].data = wk[w].data /\ wk'[w].ipc = wk[w].ipc
                         /\ wk'[w].driver = wk[w].driver /\ wk'[w].tracked = wk[w].tracked
                         /\ wk'[w].saved = wk[w].saved /\ wk'[w].stuck = wk[w].stuck
  <2> TAKE w \in Workers
  <2>1. CASE w \in failed
    BY <1>6, <1>7, <2>1, Zenon
  <2>2. CASE w \notin failed
    <3>1. PICK r \in WorkerType : r = wk[w]
      BY <1>6
    <3>2. PICK s : s = [r EXCEPT !.cuda = CudaTo(r, a)]
      BY Zenon
    <3>3. wk'[w] = s
      BY <1>7, <2>2, <3>1, <3>2
    <3> QED BY <1>2, <2>2, <3>1, <3>2, <3>3, CudaRecord
  <2> QED BY <2>1, <2>2, Zenon
<1>9. wk' \in [Workers -> WorkerType]
  BY <1>5, <1>8
<1>10. failures' \in BOOLEAN /\ (failures' <=> failures \/ failed # {})
  BY <1>5, <1>6, Zenon
<1>11. /\ failed \in SUBSET Workers
       /\ \A w \in failed : a \in setup.failing \/ ~wk[w].alive \/ ~CudaFrom(wk[w], a)
       /\ \A w \in Workers \ failed : CudaFrom(wk[w], a)
  BY <1>4, <1>5
<1>12. CudaEffect(a, failed)
  BY <1>1, <1>5, <1>8, <1>9, <1>10, <1>11, Zenon DEF CudaEffect
<1> QED BY <1>2, <1>11, <1>12, Zenon

LEMMA CudaInd ==
  ASSUME ListFacts, IInv, Cuda
  PROVE  IInv'
<1>0. PICK a \in CudaActions, failed \in SUBSET Workers : CudaEffect(a, failed)
  BY CudaStep
<1>1. /\ a = IF Phase = "rollback" THEN "unlock" ELSE Phase
      /\ \A w \in failed : a \in setup.failing \/ ~wk[w].alive \/ ~CudaFrom(wk[w], a)
      /\ wk' \in [Workers -> WorkerType]
      /\ \A w \in Workers \ failed : CudaFrom(wk[w], a) /\ wk'[w].cuda = CudaTo(wk[w], a)
      /\ \A w \in Workers : /\ wk'[w].alive = wk[w].alive /\ wk'[w].init = wk[w].init
                            /\ wk'[w].data = wk[w].data /\ wk'[w].ipc = wk[w].ipc
                            /\ wk'[w].driver = wk[w].driver /\ wk'[w].tracked = wk[w].tracked
                            /\ wk'[w].saved = wk[w].saved /\ wk'[w].stuck = wk[w].stuck
      /\ failures' \in BOOLEAN /\ (failures' <=> failures \/ failed # {})
      /\ todo' = IF Phase \in {"lock", "checkpoint"} /\ failed # {} THEN <<"rollback">> ELSE Tail(todo)
  BY <1>0, Zenon DEF CudaEffect
<1>2. UNCHANGED <<cmd, k, word, pending, active, id, nextId, mine, peer, setup, wanted, aborts>>
  BY DEF Cuda, blocks, env
<1>3. PICK p : p = Phase
  OBVIOUS
<1>4. p \in CudaActions \cup {"rollback"} /\ p # "end" /\ p \notin Messages
  BY <1>3 DEF Cuda, CudaActions, Messages
<1>5. PICK q : q = PhaseOf(Tail(todo))
  BY Zenon
<1>6. /\ Follows(p, q) /\ Tail(todo) \in Lists(cmd) /\ Tail(todo) \in Seq(PhaseNames) /\ cmd # "none"
  BY <1>3, <1>4, <1>5, PhaseStep, Zenon
<1>7. /\ AllIdle /\ AllData("parked") /\ (Toggling(setup) => ~failures)
      /\ p = "lock" => AllCuda("running")
      /\ p = "checkpoint" => AllCuda("locked")
      /\ p = "unlock" => failures \/ AllCuda("locked")
      /\ p = "toggle" => AllCuda(IF cmd = "checkpoint" THEN "running" ELSE "checkpointed")
  BY <1>3, <1>4, <1>6 DEF IInv, Finds
<1>8. AllIdle' /\ AllData("parked")' /\ cmd' # "none"
  BY <1>1, <1>2, <1>6, <1>7, Zenon DEF AllIdle, Idle, AllData
<1>9. \/ /\ p \in {"lock", "checkpoint"} /\ cmd = "checkpoint" /\ ByAction(setup) /\ failed # {}
         /\ todo' = <<"rollback">> /\ Phase' = "rollback"
      \/ /\ p \in {"lock", "checkpoint"} => failed = {}
         /\ todo' = Tail(todo) /\ Phase' = q
  <2>1. CASE p \in {"lock", "checkpoint"} /\ failed # {}
    <3>1. cmd = "checkpoint" /\ ByAction(setup)
      BY <1>6, <2>1 DEF Follows
    <3>2. todo' = <<"rollback">> /\ Phase' = "rollback"
      BY <1>1, <1>3, <2>1, Zenon DEF ListFacts, Phase, PhaseOf, Begins
    <3> QED BY <2>1, <3>1, <3>2, Zenon
  <2>2. CASE ~(p \in {"lock", "checkpoint"} /\ failed # {})
    BY <1>1, <1>3, <1>5, <2>2, Zenon DEF Phase, PhaseOf
  <2> QED BY <2>1, <2>2, Zenon
<1>10. todo' \in Lists(cmd) /\ todo' \in Seq(PhaseNames)
  BY <1>6, <1>9, Zenon DEF ListFacts, Lists, Begins, ByAction
<1>11. TypeOK'
  <2>1. todo' \in Seq(Messages \cup CudaActions \cup {"rollback", "verify", "exchange"})
    BY <1>10, Zenon DEF PhaseNames
  <2> QED BY <1>1, <1>2, <2>1, Zenon DEF IInv, TypeOK
<1>12. (todo \in Lists(cmd))'
  BY <1>2, <1>10, Zenon DEF Lists, Toggling, Verifying, Rebuilding, Freeze
<1>13. (OneSignal /\ OneMessage /\ Outstanding)'
  BY <1>8, Zenon DEF AllIdle, Idle, OneSignal, OneMessage, Outstanding
<1>14. WorkersInv'
  <2>1. FrozenParked'
    BY <1>8 DEF AllData, FrozenParked
  <2>2. ParkedDown' /\ LeftByFault' /\ PeerAccess' /\ PeersKept'
    <3>1. \A w \in Workers : /\ wk'[w].data = wk[w].data /\ wk'[w].ipc = wk[w].ipc
                             /\ wk'[w].driver = wk[w].driver /\ wk'[w].tracked = wk[w].tracked
                             /\ wk'[w].saved = wk[w].saved /\ wk'[w].stuck = wk[w].stuck
      BY <1>1, Zenon
    <3>2. setup' = setup /\ wanted' = wanted
      BY <1>2, Zenon
    <3>3. ParkedDown /\ LeftByFault /\ PeerAccess /\ PeersKept
      BY Zenon DEF IInv, WorkersInv
    <3>4. ParkedDown'
      BY <3>1, <3>2, <3>3, Zenon DEF ParkedDown
    <3>5. PeerAccess'
      BY <3>1, <3>2, <3>3, Zenon DEF PeerAccess, SameBut
    <3>6. PeersKept'
      BY <3>1, <3>2, <3>3, Zenon DEF PeersKept, SameBut
    <3>7. LeftByFault'
      BY <3>1, <3>2, <3>3, Zenon DEF LeftByFault
    <3> QED BY <3>4, <3>5, <3>6, <3>7, Zenon
  <2>3. ~setup'.buffer_only
    BY <1>2, <1>4, <1>6, Zenon DEF Follows, ByAction, Toggling, CudaActions
  <2>4. NeverFrozen'
    BY <2>3 DEF NeverFrozen
  <2> QED BY <2>1, <2>2, <2>4, Zenon DEF WorkersInv
<1>15. Ids'
  BY <1>1, <1>2, IdsSame, Zenon DEF IInv
<1>16. Regular(setup)'
  BY <1>2, Zenon DEF IInv, Regular, Toggling
<1>17. Finds'
  <2>1. CASE Phase' = "rollback"
    <3>1. ~Toggling(setup)'
      BY <1>2, <1>4, <1>6, <1>9, <2>1 DEF Follows, ByAction, Toggling
    <3> QED BY <1>8, <2>1, <3>1, Zenon DEF Finds, Messages, CudaActions
  <2>2. CASE Phase' = q /\ p \in {"lock", "checkpoint", "restore", "unlock", "rollback"}
                        /\ (p \in {"lock", "checkpoint"} => failed = {})
    <3>1. ~Toggling(setup)'
      BY <1>2, <1>6, <2>2 DEF Follows, ByAction, Toggling
    <3>2. q = CASE p = "lock" -> "checkpoint" [] p = "restore" -> "unlock"
                [] p = "unlock" -> "verify" [] OTHER -> "end"
      BY <1>6, <2>2 DEF Follows
    <3>3. p = "lock" => AllCuda("locked")'
      BY <1>1, <1>3, <2>2 DEF AllCuda, CudaTo
    <3>4. p = "restore" => failures' \/ AllCuda("locked")'
      BY <1>1, <1>3 DEF AllCuda, CudaTo
    <3>5. p = "unlock" => failures' \/ AllCuda("running")'
      BY <1>1, <1>3, Zenon DEF AllCuda, CudaTo
    <3> QED BY <1>8, <2>2, <3>1, <3>2, <3>3, <3>4, <3>5, Zenon DEF Finds, Messages, CudaActions
  <2>3. CASE Phase' = q /\ p = "toggle"
    <3>1. Toggling(setup) /\ a = "toggle"
      BY <1>1, <1>3, <1>6, <2>3, Zenon DEF Follows
    <3>2. \A w \in Workers : wk[w].alive /\ CudaFrom(wk[w], a)
      BY <1>7, <2>3, <3>1 DEF AllIdle, Idle, AllCuda, CudaFrom
    <3>3. failed = {}
      BY <1>1, <3>1, <3>2, Zenon DEF IInv, Regular
    <3>4. ~failures'
      BY <1>1, <1>7, <3>1, <3>3
    <3>5. CASE cmd = "checkpoint"
      <4>1. q = "end"
        BY <1>6, <2>3, <3>5 DEF Follows
      <4>2. AllCuda("checkpointed")'
        <5>1. \A w \in Workers : wk[w].cuda = "running" /\ wk'[w].cuda = CudaTo(wk[w], "toggle")
          BY <1>1, <1>7, <2>3, <3>1, <3>3, <3>5, Zenon DEF AllCuda
        <5> QED BY <5>1 DEF AllCuda, CudaTo
      <4>3. Agreed'
        BY <1>8, <4>2 DEF Agreed
      <4> QED BY <1>8, <2>3, <3>4, <4>1, <4>3, Zenon DEF Finds, Messages, CudaActions
    <3>6. CASE cmd # "checkpoint"
      <4>1. q = "verify"
        BY <1>6, <2>3, <3>6 DEF Follows
      <4>2. AllCuda("running")'
        <5>1. \A w \in Workers : wk[w].cuda = "checkpointed" /\ wk'[w].cuda = CudaTo(wk[w], "toggle")
          BY <1>1, <1>7, <2>3, <3>1, <3>3, <3>6, Zenon DEF AllCuda
        <5> QED BY <5>1 DEF AllCuda, CudaTo
      <4> QED BY <1>8, <2>3, <3>4, <4>1, <4>2, Zenon DEF Finds, Messages, CudaActions
    <3> QED BY <3>5, <3>6
  <2> QED BY <1>4, <1>9, <2>1, <2>2, <2>3, Zenon DEF CudaActions
<1> QED BY <1>11, <1>12, <1>13, <1>14, <1>15, <1>16, <1>17 DEF IInv

-----------------------------------------------------------------------------
LEMMA InitInd ==
  ASSUME CountFacts, Init, Regular(setup)
  PROVE  IInv
<1>1. \A w \in Workers : wk[w] = Fresh /\ word[w] = FINISH /\ pending[w] = {} /\ active[w] = {}
  BY DEF Init
<1>2. /\ Fresh \in WorkerType /\ Fresh.alive /\ ~Fresh.init /\ Fresh.data = "live"
      /\ Fresh.cuda = "running" /\ Fresh.driver = {} /\ Fresh.tracked = {}
      /\ Fresh.ipc = "up"
  BY Zenon DEF Fresh, WorkerType
<1>3. N \in Nat \ {0} /\ FirstId \in Nat /\ setup.aborts \in Nat
  BY MultiCrAssumption DEF Init, SetupType
<1>4. Phase = "end" /\ todo \in Lists(cmd)
  BY Zenon DEF Init, Phase, Lists
<1>5. TypeOK
  <2>1. << >> \in Seq(Messages \cup CudaActions \cup {"rollback", "verify", "exchange"})
    OBVIOUS
  <2>2. wk \in [Workers -> WorkerType] /\ id \in [Workers -> Files \cup {-1}]
        /\ nextId \in FirstId..(FirstId + N) /\ aborts \in 0..setup.aborts /\ k \in 1..(N + 1)
    <3>1. wk \in [Workers -> WorkerType] /\ id \in [Workers -> Files \cup {-1}]
      BY <1>2, Zenon DEF Init
    <3>2. nextId \in FirstId..(FirstId + N) /\ aborts \in 0..setup.aborts /\ k \in 1..(N + 1)
      BY <1>3 DEF Init
    <3> QED BY <3>1, <3>2, Zenon
  <2>3. mine \in [Files -> Workers \cup {Nobody, Gone}] /\ peer \in [Files -> SUBSET (Workers \cup {Gone})]
    BY Zenon DEF Init
  <2>4. word \in [Workers -> Messages \cup {FINISH}] /\ pending \in [Workers -> SUBSET Signals]
        /\ active \in [Workers -> SUBSET HandlerType] /\ wanted \in [Workers -> SUBSET Devices]
    BY DEF Init
  <2>5. failures \in BOOLEAN
    BY Zenon DEF Init
  <2> QED BY <2>1, <2>2, <2>3, <2>4, <2>5 DEF Init, TypeOK
<1>6. AllIdle /\ AllData("live") /\ AllCuda("running")
  BY <1>1, <1>2, Zenon DEF AllIdle, Idle, AllData, AllCuda
<1>7. OneSignal /\ OneMessage /\ Outstanding
  BY <1>1, <1>6, Zenon DEF AllIdle, OneSignal, OneMessage, Outstanding
<1>8. WorkersInv
  <2>1. FrozenParked /\ ParkedDown /\ NeverFrozen /\ LeftByFault
    BY <1>1, <1>2, <1>6 DEF AllCuda, AllData, FrozenParked, ParkedDown, NeverFrozen, LeftByFault
  <2>2. PeerAccess /\ PeersKept
    BY <1>1, <1>2, Zenon DEF Init, PeerAccess, PeersKept, SameBut
  <2> QED BY <2>1, <2>2, Zenon DEF WorkersInv
<1>9. Ids
  <2>1. Initialized = {}
    BY <1>1, <1>2 DEF Initialized
  <2>2. Cardinality(Initialized) = 0
    BY <2>1, Zenon DEF CountFacts
  <2>3. \A w \in Workers : ~wk[w].init /\ id[w] = -1
    BY <1>1, <1>2, Zenon DEF Init
  <2>4. nextId = FirstId
    BY DEF Init
  <2> QED BY <1>3, <2>1, <2>2, <2>3, <2>4 DEF Ids
<1>10. ~failures /\ Agreed
  BY <1>6, Zenon DEF Init, Agreed
<1>11. Finds
  BY <1>4, <1>6, <1>10, Zenon DEF Finds, Messages, CudaActions
<1> QED BY <1>4, <1>5, <1>7, <1>8, <1>9, <1>11, Zenon DEF IInv

LEMMA StutterInd ==
  ASSUME IInv, UNCHANGED vars
  PROVE  IInv'
<1>1. UNCHANGED <<cmd, todo, k, failures, wk, word, pending, active, id, nextId, mine, peer, setup,
                  wanted, aborts>>
  BY Zenon DEF vars, coord, blocks, env
<1>2. TypeOK'
  BY <1>1 DEF IInv, TypeOK
<1>3. (todo \in Lists(cmd))'
  BY <1>1, Zenon DEF IInv, Lists, Toggling, Verifying, Rebuilding, Freeze
<1>4. Finds'
  <2>1. PICK p : p = Phase
    BY Zenon
  <2>2. Phase' = p
    BY <1>1, <2>1, Zenon DEF Phase
  <2>3. p \in Messages => InPhase(p)
    BY <2>1 DEF IInv, Finds
  <2>4. p \in Messages => InPhase(p)'
    BY <1>1, <2>3, Zenon DEF InPhase, Ready, AllCuda, AllData, AllDown, Published, Named, NotYet, Done, Did, Idle
  <2>5. /\ p \notin Messages /\ (cmd # "none" \/ setup.aborts = 0) => AllIdle
        /\ p \in CudaActions \cup {"rollback", "verify"} => AllData("parked")
        /\ p = "lock" => AllCuda("running")
        /\ p = "checkpoint" => AllCuda("locked")
        /\ p = "unlock" => failures \/ AllCuda("locked")
        /\ p = "verify" => failures \/ AllCuda("running")
        /\ p = "exchange" => Ready("EXPORT") /\ Published
        /\ p = "toggle" => AllCuda(IF cmd = "checkpoint" THEN "running" ELSE "checkpointed")
        /\ Toggling(setup) => ~failures /\ (p \in {"INIT", "end"} => Agreed)
    BY <2>1 DEF IInv, Finds
  <2>6. /\ AllIdle => AllIdle'
        /\ \A d : AllData(d) => AllData(d)'
        /\ \A c : AllCuda(c) => AllCuda(c)'
        /\ Ready("EXPORT") => Ready("EXPORT")'
        /\ Published => Published'
        /\ Agreed => Agreed'
        /\ Toggling(setup)' => Toggling(setup)
    BY <1>1, Zenon DEF AllIdle, Idle, AllData, AllCuda, Ready, Published, Agreed, Toggling
  <2> QED BY <1>1, <2>2, <2>4, <2>5, <2>6 DEF Finds
<1> QED BY <1>1, <1>2, <1>3, <1>4, WorkersLeft, Zenon
=============================================================================
