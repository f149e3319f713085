-------------------------- MODULE NcclAdapterProofs --------------------------
(* The properties of NcclAdapter for any communicators, rounds and failures. *)
EXTENDS NcclAdapter, TLAPS

(* The callers that have not exited are in one phase. *)
Phase1 == {"prepare", "parked"}
Phase2 == {"export", "exported"}
Phase3 == {"import", "done"}
InPhase(P) == \A c \in Callers : pc[c] \in P \cup {"exited"}
Together == InPhase(Phase1) \/ InPhase(Phase2) \/ InPhase(Phase3)

Down(p) == p.imports = 0 /\ ~p.exports /\ ~p.locals

(* A failure to change the peer access of r was only logged. *)
PeersFailed(r) == <<r, "peers">> \in silent

(* The latch, per rank: what it says about the memory depends on the phase. *)
LatchInv ==
  \A c \in Callers : LET p == proc[c[1]] IN
    /\ pc[c] = "parked" => p.g_prepared
    /\ pc[c] \in Phase1 /\ p.g_prepared => Down(p) /\ (p.peers => PeersFailed(c[1]))
    /\ pc[c] = "done" => ~p.g_prepared

PeersInv == \A r \in Ranks : \/ PeersFailed(r)
                             \/ /\ ~proc[r].g_prepared => proc[r].peers
                                /\ ~proc[r].peers => proc[r].saved

(* Nothing went wrong that DataKept and Restored make an exception for. *)
Good == late \cup unbuilt = {} /\ silent = {} /\ ~circ.stops /\ \A r \in Ranks : Alive(r)

(* How far the restore has come. *)
RestoreInv ==
  Good => \A c \in Callers : LET r == c[1] IN
    /\ pc[c] \in {"exported"} \cup Phase3 =>
         proc[r].exports /\ proc[r].locals /\ shm[r] = "listed" /\ server[r]
    /\ pc[c] \in Phase2 => proc[r].imports = 0
    /\ pc[c] = "import" => proc[r].imports \in {0, proc[Peer(r)].made}
    /\ pc[c] = "done" => proc[r].imports = proc[Peer(r)].made

(* Who may have lost memory: a rank that is not latched, or has been through the export
   phase, has its memory unless an exception of DataKept applies. *)
LostInv ==
  /\ \A r \in Ranks : ~proc[r].g_prepared => /\ proc[r].exports \/ r \in late \cup unbuilt
                                             /\ proc[r].locals \/ r \in unbuilt
  /\ \A c \in Callers : pc[c] \in {"exported"} \cup Phase3 =>
       /\ proc[c[1]].exports \/ c[1] \in late \cup unbuilt
       /\ proc[c[1]].locals \/ c[1] \in unbuilt

IInv == TypeOK /\ Together /\ DataKept /\ LatchInv /\ PeersInv /\ LostInv /\ RestoreInv

-----------------------------------------------------------------------------
(* What gcr_checkpoint_prepare leaves behind is of the right kind. *)
LEMMA StagesType ==
  ASSUME NEW p \in ProcType, NEW k \in 1..7
  PROVE  Stages(p)[k] \in ProcType
<1>1. Stages(p)[1] \in ProcType
  BY DEF Stages, Filled, ProcType, BufType
<1>2. Stages(p)[2] \in ProcType
  BY DEF Stages, Filled, ProcType, BufType
<1>3. Stages(p)[3] \in ProcType
  BY DEF Stages, Filled, ProcType, BufType
<1>4. Stages(p)[4] \in ProcType
  BY DEF Stages, Filled, ProcType, BufType
<1>5. Stages(p)[5] \in ProcType
  BY DEF Stages, Filled, ProcType, BufType
<1>6. Stages(p)[6] \in ProcType
  BY DEF Stages, Filled, ProcType, BufType
<1>7. Stages(p)[7] \in ProcType
  BY DEF Stages, Filled, ProcType, BufType
<1>8. k \in {1, 2, 3, 4, 5, 6, 7}
  OBVIOUS
<1> QED  BY <1>1, <1>2, <1>3, <1>4, <1>5, <1>6, <1>7, <1>8

(* A prepare that fails leaves the latch, local memory and peer access as they were. *)
LEMMA StagesFail ==
  ASSUME NEW p \in ProcType, NEW k \in 1..5
  PROVE  /\ Stages(p)[k].g_prepared = p.g_prepared /\ Stages(p)[k].locals = p.locals
         /\ Stages(p)[k].peers = p.peers /\ Stages(p)[k].saved = p.saved
<1>1. CASE k = 1
  BY <1>1 DEF Stages, Filled, ProcType, BufType
<1>2. CASE k = 2
  BY <1>2 DEF Stages, Filled, ProcType, BufType
<1>3. CASE k = 3
  BY <1>3 DEF Stages, Filled, ProcType, BufType
<1>4. CASE k = 4
  BY <1>4 DEF Stages, Filled, ProcType, BufType
<1>5. CASE k = 5
  BY <1>5 DEF Stages, Filled, ProcType, BufType
<1> QED  BY <1>1, <1>2, <1>3, <1>4, <1>5

(* A prepare that fails has not touched the exports, or it has saved them. *)
LEMMA StagesKeep ==
  ASSUME NEW p \in ProcType, NEW k \in 1..5, p.exports
  PROVE  Stages(p)[k].exports \/ (k \in {4, 5} /\ Stages(p)[k].ebuf = "data")
<1>1. CASE k = 1
  BY <1>1 DEF Stages, Filled, ProcType, BufType
<1>2. CASE k = 2
  BY <1>2 DEF Stages, Filled, ProcType, BufType
<1>3. CASE k = 3
  BY <1>3 DEF Stages, Filled, ProcType, BufType
<1>4. CASE k = 4
  BY <1>4 DEF Stages, Filled, ProcType, BufType
<1>5. CASE k = 5
  BY <1>5 DEF Stages, Filled, ProcType, BufType
<1> QED  BY <1>1, <1>2, <1>3, <1>4, <1>5

(* A prepare that succeeds has saved what was mapped, taken the memory down, and latched. *)
LEMMA StagesDone ==
  ASSUME NEW p \in ProcType, NEW k \in {6, 7}
  PROVE  /\ Stages(p)[k].g_prepared /\ Down(Stages(p)[k]) /\ Stages(p)[k].saved = p.peers
         /\ p.exports => Stages(p)[k].ebuf = "data"
         /\ p.locals => Stages(p)[k].lbuf = "data"
         /\ k = 7 => ~Stages(p)[k].peers
<1>1. CASE k = 6
  <2>1. Stages(p)[6].g_prepared /\ Stages(p)[6].saved = p.peers
    BY DEF Stages, Filled, ProcType, BufType
  <2>2. Down(Stages(p)[6])
    BY DEF Down, Stages, Filled, ProcType, BufType
  <2>3. /\ p.exports => Stages(p)[6].ebuf = "data"
        /\ p.locals => Stages(p)[6].lbuf = "data"
    BY DEF Stages, Filled, ProcType, BufType
  <2> QED  BY <1>1, <2>1, <2>2, <2>3
<1>2. CASE k = 7
  <2>1. Stages(p)[7].g_prepared /\ Stages(p)[7].saved = p.peers /\ ~Stages(p)[7].peers
    BY DEF Stages, Filled, ProcType, BufType
  <2>2. Down(Stages(p)[7])
    BY DEF Down, Stages, Filled, ProcType, BufType
  <2>3. /\ p.exports => Stages(p)[7].ebuf = "data"
        /\ p.locals => Stages(p)[7].lbuf = "data"
    BY DEF Stages, Filled, ProcType, BufType
  <2> QED  BY <1>2, <2>1, <2>2, <2>3
<1> QED  BY <1>1, <1>2

(* The runtime starts in the invariant. *)
LEMMA InitInv == Init => IInv
<1> SUFFICES ASSUME Init PROVE IInv
  OBVIOUS
<1>1. TypeOK
  BY NcclAdapterAssumption DEF Init, TypeOK, ProcType, BufType, CircumstanceType
<1>2. \A c \in Callers : pc[c] = "prepare" /\ c[1] \in Ranks
  BY DEF Init, Callers
<1>3. \A r \in Ranks : /\ ~proc[r].g_prepared /\ proc[r].exports
                       /\ proc[r].locals /\ proc[r].peers
  BY DEF Init
<1>4. Together /\ RestoreInv
  BY <1>2 DEF Together, InPhase, RestoreInv, Phase1, Phase2, Phase3
<1>5. DataKept /\ LatchInv /\ PeersInv /\ LostInv
  BY <1>2, <1>3 DEF DataKept, LatchInv, PeersInv, LostInv, Phase1, Phase3
<1> QED  BY <1>1, <1>4, <1>5 DEF IInv

(* What a call that returns no error does to the callers. *)
LEMMA SucceedFacts ==
  ASSUME TypeOK, NEW c \in Callers, NEW next \in {"parked", "exported", "done"},
         NEW logged \in BOOLEAN, Succeed(c, next, logged)
  PROVE  /\ pc' = [pc EXCEPT ![c] = next]
         /\ pc' \in [Callers -> {"prepare", "parked", "export", "exported", "import", "done", "exited"}]
         /\ faults' \in 0..MaxFaults
  BY NcclAdapterAssumption DEF TypeOK, Succeed

(* Every rank has a caller. *)
LEMMA HasCaller ==
  ASSUME NEW r \in Ranks
  PROVE  \E c \in Callers : c[1] = r
<1>1. PICK k \in Comms : TRUE
  BY NcclAdapterAssumption
<1>2. <<r, k>> \in Callers /\ <<r, k>>[1] = r
  BY DEF Callers
<1> QED  BY <1>2

(* In the first phase the invariant says nothing about restoring. *)
LEMMA FirstPhase ==
  ASSUME InPhase(Phase1)
  PROVE  /\ Together /\ RestoreInv
         /\ \A c \in Callers : pc[c] \notin {"exported"} \cup Phase3
  BY DEF InPhase, Together, RestoreInv, Phase1, Phase2, Phase3

(* gcr_checkpoint_prepare preserves the invariant. *)
LEMMA PrepareInv ==
  ASSUME IInv, NEW c \in Callers, Prepare(c)
  PROVE  IInv'
<1> DEFINE r == c[1]
<1>1. r \in Ranks /\ proc[r] \in ProcType
  BY DEF IInv, TypeOK, Callers
<1>2. /\ pc[c] = "prepare"
      /\ UNCHANGED <<circ, plugin, shm, server, round, unbuilt>>
  BY DEF Prepare
<1>3. InPhase(Phase1)
  BY <1>2 DEF IInv, Together, InPhase, Phase1, Phase2, Phase3
<1>4. CASE proc[r].g_prepared
  <2>1. Succeed(c, "parked", FALSE) /\ UNCHANGED <<proc, late, silent>>
    BY <1>4 DEF Prepare
  <2>2. TypeOK'
    BY <1>2, <2>1 DEF IInv, TypeOK, Succeed
  <2>3. InPhase(Phase1)'
    BY <1>3, <2>1 DEF InPhase, Phase1, IInv, TypeOK, Succeed
  <2>4. LatchInv'
    BY <1>1, <1>2, <1>4, <2>1 DEF IInv, LatchInv, PeersFailed, TypeOK, Phase1, Succeed
  <2>5. DataKept' /\ PeersInv'
    BY <1>2, <2>1 DEF IInv, DataKept, PeersInv, PeersFailed
  <2>6. Together' /\ RestoreInv' /\ LostInv'
    <3>1. Together' /\ RestoreInv' /\ (\A d \in Callers : pc'[d] \notin {"exported"} \cup Phase3)
      BY <2>3, FirstPhase DEF InPhase, Together, RestoreInv, Phase1, Phase2, Phase3
    <3> QED  BY <1>2, <2>1, <3>1 DEF IInv, LostInv
  <2> QED  BY <2>2, <2>4, <2>5, <2>6 DEF IInv
<1>5. CASE ~proc[r].g_prepared
  <2>1. PICK k \in 1..7 :
          /\ proc' = [proc EXCEPT ![r] = Stages(@)[k]]
          /\ IF k \in {6, 7} THEN Succeed(c, "parked", k = 6) ELSE Fail(c)
          /\ late' = IF k \in {4, 5} /\ Stages(proc[r])[k].ebuf = "data"
                     THEN late \cup {r} ELSE late
          /\ silent' = IF k = 6 THEN silent \cup {<<r, "peers">>} ELSE silent
    BY <1>5 DEF Prepare
  <2> DEFINE q == Stages(proc[r])[k]
  <2>2. q \in ProcType
    BY <1>1, StagesType
  <2>3. proc' \in [Ranks -> ProcType] /\ proc'[r] = q /\ (\A s \in Ranks : s # r => proc'[s] = proc[s])
    BY <1>1, <2>1, <2>2 DEF IInv, TypeOK
  <2>4. /\ \A d \in Callers : pc'[d] \in {pc[d], "exited"} \/ (d = c /\ k \in {6, 7} /\ pc'[d] = "parked")
        /\ pc' \in [Callers -> {"prepare", "parked", "export", "exported", "import", "done", "exited"}]
        /\ faults' \in 0..MaxFaults
    BY <2>1, NcclAdapterAssumption DEF Succeed, Fail, IInv, TypeOK
  <2>5. /\ late \subseteq late' /\ late' \subseteq Ranks
        /\ silent \subseteq silent' /\ silent' \subseteq Ranks \X {"imports", "peers"}
        /\ k = 6 => PeersFailed(r)'
    BY <1>1, <2>1 DEF IInv, TypeOK, PeersFailed
  <2>6. TypeOK'
    BY <1>2, <2>3, <2>4, <2>5 DEF IInv, TypeOK
  <2>7. InPhase(Phase1)'
    BY <1>3, <2>4 DEF InPhase, Phase1
  <2>8. LatchInv'
    <3> SUFFICES ASSUME NEW d \in Callers
                 PROVE  /\ pc'[d] = "parked" => proc'[d[1]].g_prepared
                        /\ pc'[d] \in Phase1 /\ proc'[d[1]].g_prepared =>
                             Down(proc'[d[1]]) /\ (proc'[d[1]].peers => PeersFailed(d[1])')
                        /\ pc'[d] # "done"
      BY DEF LatchInv, Down, PeersFailed
    <3>1. pc'[d] # "done"
      BY <2>7 DEF InPhase, Phase1
    <3>2. CASE d[1] # r
      BY <2>3, <2>4, <2>5, <3>1, <3>2 DEF IInv, LatchInv, PeersFailed, Callers, Phase1
    <3>3. CASE d[1] = r /\ k \in {6, 7}
      BY <1>1, <2>3, <2>5, <3>1, <3>3, StagesDone
    <3>4. CASE d[1] = r /\ k \notin {6, 7}
      <4>1. ~proc'[r].g_prepared
        BY <1>1, <1>5, <2>3, <3>4, StagesFail
      <4> QED  BY <1>5, <2>4, <3>1, <3>4, <4>1 DEF IInv, LatchInv
    <3> QED  BY <3>2, <3>3, <3>4
  <2>9. PeersInv'
    <3>0. \A s \in Ranks : PeersFailed(s) => PeersFailed(s)'
      BY <2>5 DEF PeersFailed
    <3>1. CASE k = 6
      BY <1>1, <2>3, <2>5, <3>0, <3>1 DEF IInv, PeersInv
    <3>2. CASE k = 7
      <4>1. q.g_prepared /\ q.saved = proc[r].peers
        BY <1>1, <3>2, StagesDone
      <4> HIDE DEF q
      <4> QED  BY <1>1, <1>5, <2>3, <3>0, <4>1 DEF IInv, PeersInv
    <3>3. CASE k \in 1..5
      <4>1. q.g_prepared = proc[r].g_prepared /\ q.peers = proc[r].peers /\ q.saved = proc[r].saved
        BY <1>1, <3>3, StagesFail
      <4> HIDE DEF q
      <4> QED  BY <1>1, <2>3, <3>0, <4>1 DEF IInv, PeersInv
    <3> QED  BY <3>1, <3>2, <3>3
  <2>10. LostInv' /\ DataKept'
    <3>1. /\ proc[r].exports \/ r \in late' \cup unbuilt'
          /\ proc[r].locals \/ r \in unbuilt'
      BY <1>1, <1>2, <1>5, <2>5 DEF IInv, LostInv
    <3>2. /\ ~q.g_prepared => q.exports \/ r \in late' \cup unbuilt'
          /\ ~q.exports /\ q.ebuf # "data" => r \in late' \cup unbuilt'
      <4>1. CASE k \in {6, 7}
        BY <1>1, <3>1, <4>1, StagesDone
      <4>2. CASE k \notin {6, 7}
        BY <1>1, <2>1, <3>1, <4>2, StagesKeep
      <4> QED  BY <4>1, <4>2
    <3>3. /\ ~q.g_prepared => q.locals \/ r \in unbuilt'
          /\ ~q.locals /\ q.lbuf # "data" => r \in unbuilt'
      <4>1. CASE k \in {6, 7}
        BY <1>1, <3>1, <4>1, StagesDone
      <4>2. CASE k \notin {6, 7}
        BY <1>1, <3>1, <4>2, StagesFail
      <4> QED  BY <4>1, <4>2
    <3>4. \A d \in Callers : pc'[d] \notin {"exported"} \cup Phase3
      BY <2>7 DEF InPhase, Phase1, Phase3
    <3>5. DataKept'
      BY <1>2, <2>3, <2>5, <3>2, <3>3 DEF IInv, DataKept
    <3>6. LostInv'
      BY <1>2, <2>3, <2>5, <3>2, <3>3, <3>4 DEF IInv, LostInv
    <3> QED  BY <3>5, <3>6
  <2>11. Together' /\ RestoreInv'
    BY <2>7, FirstPhase DEF InPhase, Together, RestoreInv, Phase1, Phase2, Phase3
  <2> QED  BY <2>6, <2>8, <2>9, <2>10, <2>11 DEF IInv
<1> QED  BY <1>4, <1>5

(* Exits are final, so what goes well at the end of a step went well before it. *)
LEMMA GoodBefore ==
  ASSUME UNCHANGED circ, late \subseteq late', unbuilt \subseteq unbuilt',
         silent \subseteq silent',
         \A d \in Callers : pc[d] = "exited" => pc'[d] = "exited", Good'
  PROVE  Good
  BY DEF Good, Alive

(* Steps that touch no memory, and after which callers are where they were or have exited. *)
LEMMA OnlyExits ==
  ASSUME IInv, TypeOK', UNCHANGED <<circ, proc, shm, server, late, unbuilt, silent>>,
         \A d \in Callers : pc'[d] \in {pc[d], "exited"}
  PROVE  IInv'
<1>1. Together'
  BY DEF IInv, Together, InPhase
<1>2. DataKept' /\ PeersInv' /\ LostInv'
  BY DEF IInv, DataKept, PeersInv, PeersFailed, LostInv, Phase3
<1>3. LatchInv'
  BY DEF IInv, LatchInv, PeersFailed, Phase1
<1>4. RestoreInv'
  <2> SUFFICES ASSUME Good' PROVE RestoreInv'
    BY DEF RestoreInv
  <2>1. Good
    BY GoodBefore
  <2> QED  BY <2>1 DEF IInv, RestoreInv, Phase2, Phase3
<1> QED  BY <1>1, <1>2, <1>3, <1>4 DEF IInv

(* What an error does to the callers. *)
LEMMA FailFacts ==
  ASSUME TypeOK, NEW c \in Callers, Fail(c)
  PROVE  /\ \A d \in Callers : pc'[d] \in {pc[d], "exited"}
         /\ \A d \in Callers : pc[d] = "exited" => pc'[d] = "exited"
         /\ pc' \in [Callers -> {"prepare", "parked", "export", "exported", "import", "done", "exited"}]
         /\ faults' \in 0..MaxFaults
  BY NcclAdapterAssumption DEF TypeOK, Fail

(* Loading the plugin preserves the invariant. *)
LEMMA LoadInv ==
  ASSUME IInv, NEW c \in Callers, ncclCheckpointPluginLoad(c)
  PROVE  IInv'
<1>1. c[1] \in Ranks /\ UNCHANGED <<circ, proc, shm, server, round, late, unbuilt, silent>>
  BY DEF Callers, ncclCheckpointPluginLoad
<1>2. CASE plugin' = [plugin EXCEPT ![c[1]] = "Success"] /\ UNCHANGED <<pc, faults>>
  <2>1. TypeOK'
    BY <1>1, <1>2 DEF IInv, TypeOK
  <2> QED  BY <1>1, <1>2, <2>1, OnlyExits
<1>3. CASE plugin' = [plugin EXCEPT ![c[1]] = "Failed"] /\ Fail(c)
  <2>1. TypeOK'
    BY <1>1, <1>3, FailFacts DEF IInv, TypeOK
  <2> QED  BY <1>1, <1>3, <2>1, OnlyExits, FailFacts DEF IInv
<1> QED  BY <1>2, <1>3 DEF ncclCheckpointPluginLoad

(* The barriers preserve the invariant; the freeze is one of them. *)
LEMMA BarrierInv ==
  ASSUME IInv, Freeze \/ Barrier \/ Again
  PROVE  IInv'
<1>1. /\ UNCHANGED <<circ, plugin, proc, shm, server, faults, late, unbuilt, silent>>
      /\ TypeOK'
  BY NcclAdapterAssumption DEF Freeze, Barrier, Again, Meet, IInv, TypeOK
<1>2. DataKept' /\ PeersInv'
  BY <1>1 DEF IInv, DataKept, PeersInv, PeersFailed
<1>3. CASE Freeze
  <2>1. \A c \in Callers : pc[c] = "parked" /\ pc'[c] = "export"
    BY <1>3 DEF Freeze, Meet, All
  <2>2. Together' /\ LatchInv' /\ LostInv'
    BY <1>1, <2>1 DEF IInv, Together, InPhase, LatchInv, LostInv, Phase1, Phase2, Phase3
  <2>3. RestoreInv'
    BY <1>1, <2>1 DEF IInv, LatchInv, Down, RestoreInv, Phase1, Phase2, Phase3
  <2> QED  BY <1>1, <1>2, <2>2, <2>3 DEF IInv
<1>4. CASE Barrier
  <2>1. \A c \in Callers : pc[c] = "exported" /\ pc'[c] = "import"
    BY <1>4 DEF Barrier, Meet, All
  <2>2. Together' /\ LatchInv' /\ LostInv'
    BY <1>1, <2>1 DEF IInv, Together, InPhase, LatchInv, LostInv, Phase1, Phase2, Phase3
  <2>3. RestoreInv'
    <3> SUFFICES ASSUME Good' PROVE RestoreInv'
      BY DEF RestoreInv
    <3>1. Good
      BY <1>1, <2>1, GoodBefore
    <3> QED  BY <1>1, <2>1, <3>1 DEF IInv, RestoreInv, Phase1, Phase2, Phase3
  <2> QED  BY <1>1, <1>2, <2>2, <2>3 DEF IInv
<1>5. CASE Again
  <2>1. \A c \in Callers : pc[c] = "done" /\ pc'[c] = "prepare"
    BY <1>5 DEF Again, Meet, All
  <2>2. Together' /\ LatchInv' /\ LostInv' /\ RestoreInv'
    BY <1>1, <2>1 DEF IInv, Together, InPhase, LatchInv, LostInv, RestoreInv, Phase1, Phase2, Phase3
  <2> QED  BY <1>1, <1>2, <2>2 DEF IInv
<1> QED  BY <1>3, <1>4, <1>5

(* What the rebuild of exports and of local memory does to a process. *)
LEMMA RebuildFacts ==
  ASSUME NEW p \in ProcType, NEW works \in BOOLEAN
  PROVE  /\ RebuildExports(p, works) \in ProcType /\ RebuildLocals(p, works) \in ProcType
         /\ RebuildExports(p, works).exports = (p.exports \/ (works /\ p.ebuf = "data"))
         /\ RebuildExports(p, works).imports = p.imports
         /\ RebuildExports(p, works).locals = p.locals /\ RebuildExports(p, works).lbuf = p.lbuf
         /\ RebuildExports(p, works).g_prepared = p.g_prepared
         /\ RebuildExports(p, works).peers = p.peers /\ RebuildExports(p, works).saved = p.saved
         /\ RebuildLocals(p, works).locals = (p.locals \/ (works /\ p.lbuf = "data"))
         /\ RebuildLocals(p, works).imports = p.imports
         /\ RebuildLocals(p, works).exports = p.exports /\ RebuildLocals(p, works).ebuf = p.ebuf
         /\ RebuildLocals(p, works).g_prepared = p.g_prepared
         /\ RebuildLocals(p, works).peers = p.peers /\ RebuildLocals(p, works).saved = p.saved
<1>1. RebuildExports(p, works) \in ProcType
  <2>1. ASSUME NEW ex \in BOOLEAN, NEW m \in Nat
        PROVE  [p EXCEPT !.ebuf = "none", !.exports = ex, !.made = m] \in ProcType
    BY DEF ProcType, BufType
  <2>2. /\ (p.exports \/ (works /\ p.ebuf = "data")) \in BOOLEAN
        /\ (IF ~p.exports /\ works /\ p.ebuf = "data" THEN p.made + 1 ELSE p.made) \in Nat
    BY DEF ProcType
  <2> QED  BY <2>1, <2>2 DEF RebuildExports
<1>4. RebuildLocals(p, works) \in ProcType
  BY DEF RebuildLocals, ProcType, BufType
<1>2. /\ RebuildExports(p, works).exports = (p.exports \/ (works /\ p.ebuf = "data"))
      /\ RebuildExports(p, works).imports = p.imports
      /\ RebuildExports(p, works).locals = p.locals /\ RebuildExports(p, works).lbuf = p.lbuf
      /\ RebuildExports(p, works).g_prepared = p.g_prepared
      /\ RebuildExports(p, works).peers = p.peers /\ RebuildExports(p, works).saved = p.saved
  BY DEF RebuildExports, ProcType
<1>3. /\ RebuildLocals(p, works).locals = (p.locals \/ (works /\ p.lbuf = "data"))
      /\ RebuildLocals(p, works).imports = p.imports
      /\ RebuildLocals(p, works).exports = p.exports /\ RebuildLocals(p, works).ebuf = p.ebuf
      /\ RebuildLocals(p, works).g_prepared = p.g_prepared
      /\ RebuildLocals(p, works).peers = p.peers /\ RebuildLocals(p, works).saved = p.saved
  BY DEF RebuildLocals, ProcType
<1> QED  BY <1>1, <1>2, <1>3, <1>4

(* gcr_checkpoint_restore_export preserves the invariant. *)
LEMMA RestoreExportInv ==
  ASSUME IInv, NEW c \in Callers, RestoreExport(c)
  PROVE  IInv'
<1> DEFINE r == c[1]
<1>1. r \in Ranks /\ proc[r] \in ProcType /\ TypeOK
  BY DEF IInv, TypeOK, Callers
<1>2. pc[c] = "export" /\ UNCHANGED <<circ, plugin, round, late, silent>>
  BY DEF RestoreExport
<1>3. InPhase(Phase2)
  BY <1>2 DEF IInv, Together, InPhase, Phase1, Phase2, Phase3
<1>4. PICK eworks \in BOOLEAN, lworks \in BOOLEAN :
        LET exports == RebuildExports(proc[r], eworks)
            built   == RebuildLocals(exports, lworks) IN
        /\ unbuilt' = IF eworks /\ lworks THEN unbuilt ELSE unbuilt \cup {r}
        /\ \/ /\ ~eworks /\ Fail(c)
              /\ proc' = [proc EXCEPT ![r] = exports] /\ UNCHANGED <<shm, server>>
           \/ /\ proc' = [proc EXCEPT ![r] = built]
              /\ \/ Fail(c) /\ UNCHANGED <<shm, server>>
                 \/ /\ shm' = [shm EXCEPT ![r] = IF built.exports THEN "listed" ELSE "empty"]
                    /\ \/ ~server[r] /\ Fail(c) /\ UNCHANGED server
                       \/ /\ server' = [server EXCEPT ![r] = TRUE]
                          /\ Succeed(c, "exported", ~eworks \/ ~lworks)
  BY Zenon DEF RestoreExport
<1> DEFINE exports == RebuildExports(proc[r], eworks)
<1> DEFINE built == RebuildLocals(exports, lworks)
<1>5. /\ exports \in ProcType /\ exports.g_prepared = proc[r].g_prepared
      /\ exports.peers = proc[r].peers /\ exports.saved = proc[r].saved
      /\ exports.imports = proc[r].imports /\ exports.locals = proc[r].locals
      /\ exports.exports = (proc[r].exports \/ (eworks /\ proc[r].ebuf = "data"))
      /\ exports.lbuf = proc[r].lbuf
  BY <1>1, RebuildFacts
<1> HIDE DEF exports
<1>6. /\ built \in ProcType /\ built.imports = proc[r].imports
      /\ built.exports = (proc[r].exports \/ (eworks /\ proc[r].ebuf = "data"))
      /\ built.locals = (proc[r].locals \/ (lworks /\ proc[r].lbuf = "data"))
      /\ built.g_prepared = proc[r].g_prepared
      /\ built.peers = proc[r].peers /\ built.saved = proc[r].saved
  <2>1. \A p \in ProcType : /\ RebuildLocals(p, lworks) \in ProcType
                           /\ RebuildLocals(p, lworks).locals = (p.locals \/ (lworks /\ p.lbuf = "data"))
                           /\ RebuildLocals(p, lworks).imports = p.imports
                           /\ RebuildLocals(p, lworks).exports = p.exports
                           /\ RebuildLocals(p, lworks).g_prepared = p.g_prepared
                           /\ RebuildLocals(p, lworks).peers = p.peers
                           /\ RebuildLocals(p, lworks).saved = p.saved
    BY RebuildFacts
  <2> QED  BY <1>5, <2>1
<1> HIDE DEF built
<1>7. /\ unbuilt' = IF eworks /\ lworks THEN unbuilt ELSE unbuilt \cup {r}
      /\ \/ /\ ~eworks /\ Fail(c)
            /\ proc' = [proc EXCEPT ![r] = exports] /\ UNCHANGED <<shm, server>>
         \/ /\ proc' = [proc EXCEPT ![r] = built]
            /\ \/ Fail(c) /\ UNCHANGED <<shm, server>>
               \/ /\ shm' = [shm EXCEPT ![r] = IF built.exports THEN "listed" ELSE "empty"]
                  /\ \/ ~server[r] /\ Fail(c) /\ UNCHANGED server
                     \/ /\ server' = [server EXCEPT ![r] = TRUE]
                        /\ Succeed(c, "exported", ~eworks \/ ~lworks)
  BY <1>4 DEF built, exports
<1>8. /\ \A d \in Callers : pc'[d] \in {pc[d], "exited"} \/ (d = c /\ pc'[d] = "exported")
      /\ \A d \in Callers : pc[d] = "exited" => pc'[d] = "exited"
      /\ pc' \in [Callers -> {"prepare", "parked", "export", "exported", "import", "done", "exited"}]
      /\ faults' \in 0..MaxFaults
  <2>1. CASE Fail(c)
    BY <1>1, <2>1, FailFacts
  <2>2. CASE Succeed(c, "exported", ~eworks \/ ~lworks)
    BY <1>1, <1>2, <2>2, SucceedFacts DEF TypeOK
  <2> QED  BY <1>7, <2>1, <2>2
<1>9. /\ shm' \in [Ranks -> {"none", "empty", "listed"}] /\ server' \in [Ranks -> BOOLEAN]
      /\ \A s \in Ranks : s # r => shm'[s] = shm[s]
      /\ \A s \in Ranks : shm[s] = "listed" /\ built.exports => shm'[s] = "listed"
      /\ \A s \in Ranks : server[s] => server'[s]
  BY <1>1, <1>7 DEF TypeOK
<1>10. InPhase(Phase2)'
  BY <1>3, <1>8 DEF InPhase, Phase2
<1>11. Together' /\ LatchInv'
  BY <1>10 DEF InPhase, Together, LatchInv, Phase1, Phase2, Phase3
<1>12. CASE ~(eworks /\ lworks)
  <2>1. PICK q : proc' = [proc EXCEPT ![r] = q] /\ q \in {exports, built}
    BY <1>7
  <2>2. /\ q \in ProcType /\ q.g_prepared = proc[r].g_prepared
        /\ q.peers = proc[r].peers /\ q.saved = proc[r].saved
    BY <1>5, <1>6, <2>1
  <2>3. proc' \in [Ranks -> ProcType] /\ proc'[r] = q /\ (\A s \in Ranks : s # r => proc'[s] = proc[s])
    BY <1>1, <2>1, <2>2 DEF TypeOK
  <2>4. unbuilt' = unbuilt \cup {r}
    BY <1>7, <1>12
  <2>5. TypeOK'
    BY <1>1, <1>2, <1>8, <1>9, <2>3, <2>4 DEF TypeOK
  <2>6. DataKept' /\ PeersInv'
    BY <1>2, <2>2, <2>3, <2>4 DEF IInv, DataKept, PeersInv, PeersFailed
  <2>7. LostInv'
    BY <1>1, <1>2, <1>8, <2>3, <2>4 DEF IInv, LostInv, Callers, Phase3
  <2>8. RestoreInv'
    BY <2>4 DEF RestoreInv, Good
  <2> QED  BY <1>11, <2>5, <2>6, <2>7, <2>8 DEF IInv
<1>13. CASE eworks /\ lworks
  <2>1. proc' = [proc EXCEPT ![r] = built] /\ UNCHANGED unbuilt
    BY <1>7, <1>13
  <2>2. proc' \in [Ranks -> ProcType] /\ proc'[r] = built /\ (\A s \in Ranks : s # r => proc'[s] = proc[s])
    BY <1>1, <1>6, <2>1 DEF TypeOK
  <2>5. pc'[c] = "exported" /\ built.exports => shm'[r] = "listed" /\ server'[r]
    BY <1>1, <1>2, <1>7, <1>13, FailFacts DEF TypeOK
  <2>6. TypeOK'
    BY <1>1, <1>2, <1>8, <1>9, <2>1, <2>2 DEF TypeOK
  <2>9. DataKept' /\ PeersInv'
    BY <1>2, <1>6, <1>13, <2>1, <2>2 DEF IInv, DataKept, PeersInv, PeersFailed
  <2>10. LostInv'
    <3>1. /\ built.exports \/ r \in late \cup unbuilt
          /\ built.locals \/ r \in unbuilt
      BY <1>1, <1>6, <1>13 DEF IInv, DataKept
    <3> QED  BY <1>2, <1>6, <1>8, <2>1, <2>2, <3>1 DEF IInv, LostInv, Callers, Phase3
  <2>11. RestoreInv'
    <3> SUFFICES ASSUME Good', NEW d \in Callers
                 PROVE  /\ pc'[d] = "exported" =>
                             /\ proc'[d[1]].exports /\ proc'[d[1]].locals
                             /\ shm'[d[1]] = "listed" /\ server'[d[1]]
                        /\ pc'[d] \in Phase2 => proc'[d[1]].imports = 0
      BY <1>10 DEF RestoreInv, InPhase, Phase2, Phase3
    <3>1. Good
      BY <1>2, <1>8, <2>1, GoodBefore
    <3>2. built.exports /\ built.locals
      BY <1>1, <1>6, <1>13, <3>1 DEF IInv, DataKept, Good
    <3>3. pc'[d] \in Phase2 => proc'[d[1]].imports = 0
      BY <1>2, <1>6, <1>8, <2>2, <3>1 DEF IInv, RestoreInv, Callers, Phase2
    <3>4. ASSUME pc'[d] = "exported", d # c
          PROVE  proc[d[1]].exports /\ proc[d[1]].locals /\ shm[d[1]] = "listed" /\ server[d[1]]
      BY <1>8, <3>1, <3>4 DEF IInv, RestoreInv
    <3> QED  BY <1>1, <1>9, <2>2, <2>5, <3>2, <3>3, <3>4 DEF Callers
  <2> QED  BY <1>11, <2>6, <2>9, <2>10, <2>11 DEF IInv
<1> QED  BY <1>12, <1>13

(* What the end of the import phase does to a process. *)
LEMMA FinishFacts ==
  ASSUME NEW p \in ProcType, NEW works \in BOOLEAN
  PROVE  /\ Finish(p, works) \in ProcType
         /\ ~Finish(p, works).g_prepared
         /\ (p.peers \/ p.saved) /\ works => Finish(p, works).peers
         /\ Finish(p, works).imports = p.imports /\ Finish(p, works).made = p.made
         /\ Finish(p, works).exports = p.exports /\ Finish(p, works).locals = p.locals
         /\ Finish(p, works).ebuf = p.ebuf /\ Finish(p, works).lbuf = p.lbuf
<1>1. (p.peers \/ (p.saved /\ works)) \in BOOLEAN
  OBVIOUS
<1>2. ASSUME NEW b \in BOOLEAN
      PROVE  [p EXCEPT !.peers = b, !.saved = FALSE, !.g_prepared = FALSE] \in ProcType
  BY DEF ProcType
<1>3. Finish(p, works) \in ProcType
  BY <1>1, <1>2 DEF Finish
<1>4. ~Finish(p, works).g_prepared /\ ((p.peers \/ p.saved) /\ works => Finish(p, works).peers)
  BY DEF Finish, ProcType
<1>5. /\ Finish(p, works).imports = p.imports /\ Finish(p, works).made = p.made
      /\ Finish(p, works).exports = p.exports /\ Finish(p, works).locals = p.locals
      /\ Finish(p, works).ebuf = p.ebuf /\ Finish(p, works).lbuf = p.lbuf
  BY DEF Finish, ProcType
<1> QED  BY <1>3, <1>4, <1>5

(* A rank whose restore went well so far imports the peer's present exports. *)
LEMMA ImportsPeer ==
  ASSUME IInv, NEW r \in Ranks, NEW c \in Callers, c[1] = r, pc[c] = "import"
  PROVE  /\ Imported(r) \in Nat
         /\ Good => Imported(r) = proc[Peer(r)].made
<1>1. Peer(r) \in Ranks
  BY DEF Peer, Ranks
<1>2. Imported(r) \in Nat
  BY <1>1 DEF Imported, IInv, TypeOK, ProcType
<1>3. ASSUME Good PROVE Imported(r) = proc[Peer(r)].made
  <2>1. InPhase(Phase3)
    BY DEF IInv, Together, InPhase, Phase1, Phase2, Phase3
  <2>2. PICK d \in Callers : d[1] = Peer(r)
    BY <1>1, HasCaller
  <2>3. pc[d] \in Phase3 /\ Alive(Peer(r))
    BY <1>1, <1>3, <2>1, <2>2 DEF InPhase, Good, Alive
  <2>4. shm[Peer(r)] = "listed" /\ server[Peer(r)]
    BY <1>3, <2>2, <2>3 DEF IInv, RestoreInv
  <2>5. proc[r].imports \in {0, proc[Peer(r)].made}
    BY <1>3 DEF IInv, RestoreInv
  <2> QED  BY <2>3, <2>4, <2>5 DEF Imported
<1> QED  BY <1>2, <1>3

(* gcr_checkpoint_restore_import preserves the invariant. *)
LEMMA RestoreImportInv ==
  ASSUME IInv, NEW c \in Callers, RestoreImport(c)
  PROVE  IInv'
<1> DEFINE r == c[1]
<1>1. r \in Ranks /\ proc[r] \in ProcType /\ TypeOK
  BY DEF IInv, TypeOK, Callers
<1>2. pc[c] = "import" /\ UNCHANGED <<circ, plugin, shm, round, late, unbuilt>>
  BY DEF RestoreImport
<1>3. CASE Fail(c) /\ UNCHANGED <<proc, server, silent>>
  <2>1. TypeOK'
    BY <1>1, <1>2, <1>3, FailFacts DEF TypeOK
  <2> QED  BY <1>1, <1>2, <1>3, <2>1, OnlyExits, FailFacts
<1>4. ASSUME NEW iworks \in BOOLEAN, NEW pworks \in BOOLEAN, NEW imported,
             imported = IF iworks THEN [proc[r] EXCEPT !.imports = Imported(r)] ELSE proc[r],
             server' = [server EXCEPT ![r] = @ /\ ~circ.stops],
             silent' = silent \cup (IF iworks THEN {} ELSE {<<r, "imports">>})
                              \cup (IF pworks THEN {} ELSE {<<r, "peers">>}),
             \/ proc' = [proc EXCEPT ![r] = imported] /\ pworks /\ Fail(c)
             \/ proc' = [proc EXCEPT ![r] = Finish(imported, pworks)]
                /\ Succeed(c, "done", ~iworks \/ ~pworks)
      PROVE  IInv'
  <2>1. PICK q : /\ proc' = [proc EXCEPT ![r] = q]
                 /\ \/ q = imported /\ pworks /\ Fail(c)
                    \/ q = Finish(imported, pworks) /\ Succeed(c, "done", ~iworks \/ ~pworks)
    BY <1>4
  <2>2. /\ Imported(r) \in Nat
        /\ Good => Imported(r) = proc[Peer(r)].made
    BY <1>1, <1>2, ImportsPeer
  <2>17. silent \subseteq silent' /\ silent' \subseteq Ranks \X {"imports", "peers"}
    BY <1>1, <1>4 DEF TypeOK
  <2>19. ~pworks => PeersFailed(r)'
    BY <1>4 DEF PeersFailed
  <2>20. silent' = {} => iworks
    BY <1>4
  <2>21. \A s \in Ranks : PeersFailed(s) => PeersFailed(s)'
    BY <2>17 DEF PeersFailed
  <2>18. /\ imported \in ProcType /\ imported.exports = proc[r].exports
        /\ imported.locals = proc[r].locals /\ imported.made = proc[r].made
        /\ imported.ebuf = proc[r].ebuf /\ imported.lbuf = proc[r].lbuf
        /\ imported.g_prepared = proc[r].g_prepared /\ imported.peers = proc[r].peers
        /\ imported.saved = proc[r].saved /\ (iworks => imported.imports = Imported(r))
    BY <1>1, <1>4, <2>2 DEF ProcType
  <2>3. q \in ProcType
    BY <2>1, <2>18, FinishFacts
  <2>4. /\ iworks => q.imports = Imported(r)
        /\ q.exports = proc[r].exports /\ q.locals = proc[r].locals
        /\ q.made = proc[r].made /\ q.ebuf = proc[r].ebuf /\ q.lbuf = proc[r].lbuf
    BY <2>1, <2>18, FinishFacts
  <2>5. \/ q.g_prepared = proc[r].g_prepared /\ q.peers = proc[r].peers /\ q.saved = proc[r].saved /\ Fail(c)
        \/ /\ ~q.g_prepared /\ (q.peers \/ PeersFailed(r)')
           /\ Succeed(c, "done", ~iworks \/ ~pworks)
    <3>1. CASE q = imported /\ Fail(c)
      BY <2>18, <3>1
    <3>2. CASE q = Finish(imported, pworks) /\ Succeed(c, "done", ~iworks \/ ~pworks)
      <4>1. proc[r].peers \/ proc[r].saved \/ PeersFailed(r)
        BY <1>1 DEF IInv, PeersInv
      <4>2. ~q.g_prepared /\ ((imported.peers \/ imported.saved) /\ pworks => q.peers)
        BY <2>18, <3>2, FinishFacts
      <4> QED  BY <1>1, <2>18, <2>19, <2>21, <3>2, <4>1, <4>2
    <3> QED  BY <2>1, <3>1, <3>2
  <2>6. proc' \in [Ranks -> ProcType] /\ proc'[r] = q /\ (\A s \in Ranks : s # r => proc'[s] = proc[s])
    BY <1>1, <2>1, <2>3 DEF TypeOK
  <2>7. /\ \A d \in Callers : pc'[d] \in {pc[d], "exited"} \/ (d = c /\ ~q.g_prepared /\ pc'[d] = "done")
        /\ \A d \in Callers : pc[d] = "exited" => pc'[d] = "exited"
        /\ pc' \in [Callers -> {"prepare", "parked", "export", "exported", "import", "done", "exited"}]
        /\ faults' \in 0..MaxFaults
    <3>1. CASE Fail(c)
      BY <1>1, <3>1, FailFacts
    <3>2. CASE ~q.g_prepared /\ Succeed(c, "done", ~iworks \/ ~pworks)
      BY <1>1, <1>2, <3>2, SucceedFacts DEF TypeOK
    <3> QED  BY <2>5, <3>1, <3>2
  <2>8. server' \in [Ranks -> BOOLEAN] /\ (~circ.stops => server' = server)
    BY <1>1, <1>4 DEF TypeOK
  <2>9. TypeOK'
    BY <1>1, <1>2, <2>6, <2>7, <2>8, <2>17 DEF TypeOK
  <2>10. InPhase(Phase3) /\ InPhase(Phase3)'
    BY <1>2, <2>7 DEF IInv, Together, InPhase, Phase1, Phase2, Phase3
  <2>11. Together'
    BY <2>10 DEF InPhase, Together
  <2>12. DataKept'
    BY <1>2, <2>4, <2>6 DEF IInv, DataKept
  <2>13. PeersInv'
    BY <1>1, <2>5, <2>6, <2>21 DEF IInv, PeersInv
  <2>14. LatchInv'
    <3> SUFFICES ASSUME NEW d \in Callers, pc'[d] = "done" PROVE ~proc'[d[1]].g_prepared
      BY <2>10 DEF LatchInv, InPhase, Phase1, Phase3
    <3>1. CASE d[1] # r
      BY <2>6, <2>7, <3>1 DEF IInv, LatchInv, Callers
    <3>2. CASE d[1] = r
      BY <1>1, <2>5, <2>6, <2>7, <3>2 DEF IInv, LatchInv
    <3> QED  BY <3>1, <3>2
  <2>15. LostInv'
    <3>1. /\ proc[r].exports \/ r \in late \cup unbuilt
          /\ proc[r].locals \/ r \in unbuilt
      BY <1>2 DEF IInv, LostInv, Phase3
    <3> QED  BY <1>2, <2>4, <2>6, <2>7, <3>1 DEF IInv, LostInv, Callers, Phase3
  <2>16. RestoreInv'
    <3> SUFFICES ASSUME Good', NEW d \in Callers, pc'[d] \in Phase3
                 PROVE  /\ proc'[d[1]].exports /\ proc'[d[1]].locals
                        /\ shm'[d[1]] = "listed" /\ server'[d[1]]
                        /\ pc'[d] = "import" => proc'[d[1]].imports \in {0, proc'[Peer(d[1])].made}
                        /\ pc'[d] = "done" => proc'[d[1]].imports = proc'[Peer(d[1])].made
      BY <2>10 DEF RestoreInv, InPhase, Phase2, Phase3
    <3>1. Good /\ server' = server
      BY <1>2, <2>7, <2>8, <2>17, GoodBefore DEF Good
    <3>2. pc[d] \in Phase3 /\ d[1] \in Ranks
      BY <1>2, <2>7 DEF Callers, Phase3
    <3>3. proc[d[1]].exports /\ proc[d[1]].locals /\ shm[d[1]] = "listed" /\ server[d[1]]
      BY <3>1, <3>2 DEF IInv, RestoreInv
    <3>4. proc'[d[1]].exports /\ proc'[d[1]].locals /\ shm'[d[1]] = "listed" /\ server'[d[1]]
      BY <1>2, <2>4, <2>6, <3>1, <3>2, <3>3
    <3>5. proc'[Peer(d[1])].made = proc[Peer(d[1])].made
      <4>1. Peer(d[1]) \in Ranks
        BY <3>2 DEF Peer, Ranks
      <4> QED  BY <2>4, <2>6, <4>1
    <3>6. CASE d[1] = r
      <4>1. iworks
        BY <2>20 DEF Good
      <4> QED  BY <2>2, <2>4, <2>6, <3>1, <3>4, <3>5, <3>6, <4>1
    <3>7. CASE d[1] # r
      <4>1. proc'[d[1]] = proc[d[1]] /\ pc'[d] = pc[d]
        BY <2>6, <2>7, <3>2, <3>7 DEF Phase3
      <4> QED  BY <3>1, <3>4, <3>5, <4>1 DEF IInv, RestoreInv
    <3> QED  BY <3>6, <3>7
  <2> QED  BY <2>9, <2>11, <2>12, <2>13, <2>14, <2>15, <2>16 DEF IInv
<1> QED
  <2>1. \/ Fail(c) /\ UNCHANGED <<proc, server, silent>>
        \/ /\ server' = [server EXCEPT ![r] = @ /\ ~circ.stops]
           /\ \E iworks, pworks \in BOOLEAN :
                LET imported == IF iworks THEN [proc[r] EXCEPT !.imports = Imported(r)] ELSE proc[r] IN
                /\ silent' = silent \cup (IF iworks THEN {} ELSE {<<r, "imports">>})
                                    \cup (IF pworks THEN {} ELSE {<<r, "peers">>})
                /\ \/ proc' = [proc EXCEPT ![r] = imported] /\ pworks /\ Fail(c)
                   \/ proc' = [proc EXCEPT ![r] = Finish(imported, pworks)]
                      /\ Succeed(c, "done", ~iworks \/ ~pworks)
    BY Zenon DEF RestoreImport
  <2> QED  BY <1>3, <1>4, <2>1, Zenon

(* Every step of the adapter preserves the invariant. *)
LEMMA NextInv ==
  ASSUME IInv, [Next]_vars
  PROVE  IInv'
<1>1. CASE UNCHANGED vars
  <2>1. TypeOK'
    BY <1>1 DEF vars, IInv, TypeOK
  <2> QED  BY <1>1, <2>1, OnlyExits DEF vars
<1>2. ASSUME NEW c \in Callers,
             \/ ncclCheckpointPluginLoad(c) \/ Prepare(c) \/ RestoreExport(c) \/ RestoreImport(c)
      PROVE  IInv'
  BY <1>2, LoadInv, PrepareInv, RestoreExportInv, RestoreImportInv
<1>3. CASE Freeze \/ Barrier \/ Again
  BY <1>3, BarrierInv
<1> QED  BY <1>1, <1>2, <1>3 DEF Next

(* The inductive invariant holds in every behaviour, for any set of communicators and any
   number of rounds and of failing calls. *)
THEOREM AdapterInvariant == Spec => []IInv
  BY InitInv, NextInv, PTL DEF Spec

(* The memory that cuda-checkpoint finds: FrozenClean. *)
THEOREM AlwaysFrozenClean == Spec => []FrozenClean
<1>1. IInv => FrozenClean
  <2> SUFFICES ASSUME IInv, All("parked"), NEW r \in Ranks
               PROVE  Down(proc[r]) /\ (proc[r].peers => PeersFailed(r))
    BY DEF FrozenClean, Down, PeersFailed
  <2>1. PICK c \in Callers : c[1] = r
    BY HasCaller
  <2> QED  BY <2>1 DEF IInv, LatchInv, All, Phase1
<1> QED  BY <1>1, AdapterInvariant, PTL

(* Saved memory is lost only by a repeated prepare or a failed rebuild: DataKept. *)
THEOREM AlwaysDataKept == Spec => []DataKept
<1>1. IInv => DataKept
  BY DEF IInv
<1> QED  BY <1>1, AdapterInvariant, PTL

(* A restore that went well brings everything back: Restored. *)
THEOREM AlwaysRestored == Spec => []Restored
<1>1. IInv => Restored
  <2> SUFFICES ASSUME IInv, All("done"), late \cup unbuilt = {}, silent = {}, ~circ.stops, NEW r \in Ranks
               PROVE  /\ proc[r].exports /\ proc[r].locals /\ proc[r].peers
                      /\ ~proc[r].g_prepared /\ proc[r].imports = proc[Peer(r)].made
    BY DEF Restored
  <2>1. PICK c \in Callers : c[1] = r
    BY HasCaller
  <2>2. Good
    BY DEF Good, Alive, All
  <2>3. ~proc[r].g_prepared /\ proc[r].peers
    BY <2>1 DEF IInv, LatchInv, PeersInv, PeersFailed, All
  <2> QED  BY <2>1, <2>2, <2>3 DEF IInv, RestoreInv, All, Phase3
<1> QED  BY <1>1, AdapterInvariant, PTL
=============================================================================
