----------------------------- MODULE IpcRecords -----------------------------
(***************************************************************************)
(* The IPC-capable memory of one worker: what the cuMem hooks of           *)
(* src/ipc_hooks.cpp record, and how the teardown, export and import       *)
(* phases of cr_ipc_signal_handler (src/vGPU.cpp) use the records to take  *)
(* every mapping down and to build it again at the same address.           *)
(*                                                                         *)
(* All blocks have one size.  A handle names one physical allocation.  The *)
(* content of the worker's own memory is Junk or the address it was        *)
(* written through; the memory of the peer's k-th export is named -k.  The *)
(* peer keeps its exports, and gave them out in order.  The application    *)
(* makes no CUDA calls during a round.  Access to a mapping is granted to  *)
(* one location (a device or a host NUMA node) at a time and not taken     *)
(* back; the library's own copies reach a mapping whatever was granted.    *)
(* What the library unmaps or releases is gone: failures of these calls    *)
(* are only logged, and taken not to happen here.                          *)
(***************************************************************************)
EXTENDS Integers, Sequences, FiniteSets

CONSTANTS MaxVA, MaxHandle,
          MaxOwn, MaxImports, MaxExports,  \* what the application makes at most
          MaxEvents,     \* event values, and records of them
          Devs,          \* devices it allocates on
          Usages

(* A usage of the library, and bounds for it: the driver hands out the value of a released
   handle again; the application exports an allocation several times; it unmaps and
   releases memory, and destroys events; a coordinator that was interrupted repeats the
   teardown; the application grants access to what it maps; calls of the library fail;
   the application shares events. *)
UsageType == [reuse : BOOLEAN, reexport : BOOLEAN, unmap : BOOLEAN, twice : BOOLEAN,
              access : BOOLEAN, fails : BOOLEAN, vas : 0..MaxVA, handles : 0..MaxHandle,
              own : 0..MaxOwn, imports : 0..MaxImports, exports : 0..MaxExports, events : 0..MaxEvents]

ASSUME IpcRecordsAssumption ==
  /\ {MaxVA, MaxHandle, MaxOwn, MaxImports, MaxExports, MaxEvents} \subseteq Nat
  /\ Devs \subseteq Nat
  /\ Usages \subseteq UsageType

VAs     == 1..MaxVA
Handles == 1..MaxHandle
Events  == 1..MaxEvents
Locations == {"DEVICE", "HOST_NUMA"} \X Devs     \* type and id
Junk    == 0
None    == MaxVA + 1     \* nothing is mapped
NoBuf   == << >>         \* a null data buffer

VARIABLES
  usage,
  phase,                 \* "up", "down" (torn down), "exported" (exports rebuilt)
  map, held, data,       \* driver: handle mapped at a VA (0: none), handles not
                         \*   released, content of the allocations
  used,                  \* handle values given out so far
  app, mine,             \* application: handle values it has, addresses it has mapped
  own, fetched,          \* allocations made by the application; imports
  imported,              \* g_imported_handles
  created, va_of,        \* g_created_allocs (handle to device), g_handle_to_va
  exports, imports, locals,    \* g_ipc_exports, g_ipc_imports, g_local_allocs
  alias,                 \* g_rebuilt_handle_alias
  access, asked, descs,  \* locations with access to a VA: at the driver, granted by the
                         \*   application since it mapped the VA, g_va_access_descs
  export_at,             \* g_vaddr_to_export_idx (0: none)
  live, events,          \* event values at the driver: "none", "own" or "opened" (of a
                         \*   peer); g_ipc_events
  export_buf, local_buf, \* the saved data
  before,                \* what was mapped when the round started
  spared, failed         \* what the last teardown gave up on: "exports", "locals"; what
                         \*   could not be rebuilt: addresses, and what is missing there

driver == <<map, held, data, used>>
tables == <<imported, created, va_of, exports, imports, locals, alias>>
rights == <<access, asked, descs, export_at>>
shared == <<live, events>>
vars == <<usage, phase, driver, app, mine, own, fetched, tables, rights, shared,
          export_buf, local_buf, before, spared, failed>>

Nothing == [h \in {} |-> 0]

Init == /\ usage \in Usages
        /\ phase = "up" /\ map = [v \in VAs |-> 0] /\ held = {} /\ used = {}
        /\ data = [h \in Handles |-> Junk]
        /\ app = {} /\ mine = {} /\ own = 0 /\ fetched = 0 /\ imported = {}
        /\ created = Nothing /\ va_of = Nothing /\ alias = Nothing
        /\ exports = << >> /\ imports = << >> /\ locals = << >>
        /\ access = [v \in VAs |-> {}] /\ asked = access /\ descs = access
        /\ export_at = [v \in VAs |-> 0]
        /\ live = [e \in Events |-> "none"] /\ events = << >>
        /\ export_buf = NoBuf /\ local_buf = NoBuf
        /\ before = [v \in VAs |-> None] /\ spared = {} /\ failed = {}

-----------------------------------------------------------------------------
Mapped(M) == {M[v] : v \in VAs} \ {0}
Rank(S, x) == Cardinality({y \in S : y < x}) + 1
Kth(S, k) == CHOOSE x \in S : Rank(S, x) = k

(* The handles the driver may give for the next n allocations: increasing values, or any
   that are not in use. *)
Free == (1..usage.handles) \ (IF usage.reuse THEN held \cup Mapped(map) ELSE used)
NewHandles(n) ==
  CASE usage.reuse -> {p \in [1..n -> Free] : \A j, k \in 1..n : p[j] = p[k] => j = k}
    [] ~usage.reuse /\ Cardinality(Free) >= n -> {[k \in 1..n |-> Kth(Free, k)]}
    [] OTHER -> {}

Put(f, x, y) == [z \in DOMAIN f \cup {x} |-> IF z = x THEN y ELSE f[z]]
Drop(f, S) == [z \in DOMAIN f \ S |-> f[z]]
Cleared(M, S) == [v \in VAs |-> IF v \in S THEN 0 ELSE M[v]]
LastOf(S, none) == IF S = {} THEN none ELSE Kth(S, Cardinality(S))

(* g_vaddr_to_import_idx: the last record of an import at an address. *)
ImportAt(v) == LastOf({i \in DOMAIN imports : imports[i].va = v}, 0)

(* The application's calls.  hook_cuMemCreate, IPC-capable memory only: *)
cuMemCreate(dev) ==
  /\ phase = "up" /\ own < usage.own
  /\ \E p \in NewHandles(1) : LET h == p[1]
     IN /\ held' = held \cup {h} /\ used' = used \cup {h} /\ app' = app \cup {h}
        /\ data' = [data EXCEPT ![h] = Junk]
        /\ created' = Put(created, h, dev)
  /\ own' = own + 1
  /\ UNCHANGED <<usage, phase, map, mine, fetched, imported, va_of, exports, imports, locals, alias,
                 rights, shared, export_buf, local_buf, before, spared, failed>>

(* hook_cuMemImportFromShareableHandle, of the peer's next export. *)
cuMemImport ==
  /\ phase = "up" /\ fetched < usage.imports
  /\ \E p \in NewHandles(1) : LET h == p[1]
     IN /\ held' = held \cup {h} /\ used' = used \cup {h} /\ app' = app \cup {h}
        /\ data' = [data EXCEPT ![h] = -(fetched + 1)]
        /\ imported' = imported \cup {h}
  /\ fetched' = fetched + 1
  /\ UNCHANGED <<usage, phase, map, mine, own, created, va_of, exports, imports, locals, alias,
                 rights, shared, export_buf, local_buf, before, spared, failed>>

(* hook_cuMemMap.  The application maps an allocation once, and imports in the order
   in which they were made. *)
cuMemMap(v, h) ==
  /\ phase = "up" /\ v <= usage.vas /\ map[v] = 0 /\ v \notin mine /\ h \in held \cap app
  /\ h \notin Mapped(map) /\ (h \notin DOMAIN va_of \/ usage.reuse)
  /\ \A i \in DOMAIN imports : imports[i].handle # h
  /\ data[h] < 0 => \A g \in held : data[g] < 0 /\ data[g] > data[h] => g \in Mapped(map)
  /\ map' = [map EXCEPT ![v] = h] /\ mine' = mine \cup {v}
  /\ imports' = IF h \in imported
                THEN Append(imports, [va |-> v, handle |-> h, torn |-> FALSE, access |-> {}])
                ELSE imports
  /\ IF h \in DOMAIN created
     THEN /\ va_of' = Put(va_of, h, v)
          /\ exports' = [i \in DOMAIN exports |->
                           IF exports[i].handle = h /\ exports[i].va = 0
                           THEN [exports[i] EXCEPT !.va = v] ELSE exports[i]]
          /\ export_at' = [export_at EXCEPT ![v] = LastOf({i \in DOMAIN exports :
                              exports[i].handle = h /\ exports[i].va = 0}, @)]
     ELSE UNCHANGED <<va_of, exports, export_at>>
  /\ UNCHANGED <<usage, phase, held, data, used, app, own, fetched, imported, created, locals, alias,
                 access, asked, descs, shared, export_buf, local_buf, before, spared, failed>>

(* hook_cuMemExportToShareableHandle, of own memory; a record without mapping has va = 0.  An
   export whose creation is not recorded has size 0 and takes no part in a round: it is left
   out. *)
cuMemExport(h) ==
  /\ phase = "up" /\ h \in held \cap app \cap DOMAIN created /\ data[h] >= 0
  /\ Len(exports) < usage.exports
  /\ usage.reexport \/ \A i \in DOMAIN exports : exports[i].app # h
  /\ exports' = Append(exports,
       [app |-> h, handle |-> h, va |-> IF h \in DOMAIN va_of THEN va_of[h] ELSE 0,
        dev |-> created[h], fd |-> TRUE, torn |-> FALSE, off |-> 0, access |-> {}])
  /\ export_at' = IF h \in DOMAIN va_of
                  THEN [export_at EXCEPT ![va_of[h]] = Len(exports) + 1] ELSE export_at
  /\ UNCHANGED <<usage, phase, driver, app, mine, own, fetched, imported, created, va_of, imports, locals,
                 alias, access, asked, descs, shared, export_buf, local_buf, before, spared, failed>>

(* hook_cuMemSetAccess, with one descriptor: it is kept for the address, in the last
   import record of the address, and, instead of an earlier one, in the export record. *)
cuMemSetAccess(v, l) ==
  /\ usage.access /\ phase = "up" /\ v \in mine /\ map[v] # 0
  /\ access' = [access EXCEPT ![v] = @ \cup {l}] /\ asked' = [asked EXCEPT ![v] = @ \cup {l}]
  /\ descs' = [descs EXCEPT ![v] = @ \cup {l}]
  /\ imports' = [i \in DOMAIN imports |->
                   IF i = ImportAt(v) THEN [imports[i] EXCEPT !.access = @ \cup {l}] ELSE imports[i]]
  /\ exports' = [i \in DOMAIN exports |->
                   IF i = export_at[v] THEN [exports[i] EXCEPT !.access = {l}] ELSE exports[i]]
  /\ UNCHANGED <<usage, phase, driver, app, mine, own, fetched, imported, created, va_of, locals,
                 alias, export_at, shared, export_buf, local_buf, before, spared, failed>>

(* A kernel of the application writes to its own memory. *)
Write(v) ==
  /\ phase = "up" /\ v \in mine /\ map[v] # 0 /\ data[map[v]] >= 0
  /\ data' = [data EXCEPT ![map[v]] = v]
  /\ UNCHANGED <<usage, phase, map, held, used, app, mine, own, fetched, tables, rights, shared,
                 export_buf, local_buf, before, spared, failed>>

(* hook_cuMemUnmap: the last import record of the address is marked (mutant: none). *)
UnmapMarks_None(v) == imports
UnmapMarks(v) ==
  [i \in DOMAIN imports |->
     IF i = ImportAt(v) THEN [imports[i] EXCEPT !.torn = TRUE] ELSE imports[i]]

cuMemUnmap(v) ==
  /\ usage.unmap /\ phase = "up" /\ v \in mine /\ map[v] # 0
  /\ map' = [map EXCEPT ![v] = 0] /\ mine' = mine \ {v}
  /\ imports' = UnmapMarks(v)
  /\ access' = [access EXCEPT ![v] = {}] /\ asked' = [asked EXCEPT ![v] = {}]
  /\ UNCHANGED <<usage, phase, held, data, used, app, own, fetched, imported, created, va_of, exports,
                 locals, alias, descs, export_at, shared, export_buf, local_buf, before, spared, failed>>

(* hook_cuMemRelease: the handle that stands for the application's is released, and
   both are forgotten.  If the driver does not know it, nothing happens. *)
cuMemRelease(h) ==
  /\ usage.unmap /\ phase = "up" /\ h \in app
  /\ app' = app \ {h}
  /\ LET actual == IF h \in DOMAIN alias THEN alias[h] ELSE h
         gone == {h, actual}
         at == {va_of[g] : g \in gone \cap DOMAIN va_of}
     IN IF actual \in held
        THEN /\ held' = held \ {actual}
             /\ va_of' = Drop(va_of, gone) /\ created' = Drop(created, gone)
             /\ imported' = imported \ gone
             /\ imports' = [i \in DOMAIN imports |-> IF imports[i].handle \in gone
                              THEN [imports[i] EXCEPT !.handle = 0] ELSE imports[i]]
             /\ exports' = [i \in DOMAIN exports |-> IF exports[i].handle \in gone
                              THEN [exports[i] EXCEPT !.handle = 0] ELSE exports[i]]
             /\ locals' = [i \in DOMAIN locals |-> IF locals[i].handle \in gone
                             THEN [locals[i] EXCEPT !.torn = TRUE] ELSE locals[i]]
             /\ alias' = Drop(alias, {a \in DOMAIN alias : a \in gone \/ alias[a] \in gone})
             /\ descs' = [v \in VAs |-> IF v \in at THEN {} ELSE descs[v]]
             /\ export_at' = Cleared(export_at, at)
        ELSE UNCHANGED <<held, va_of, created, imported, imports, exports, locals, alias, descs,
                         export_at>>
  /\ UNCHANGED <<usage, phase, map, data, used, mine, own, fetched, access, asked, shared,
                 export_buf, local_buf, before, spared, failed>>

-----------------------------------------------------------------------------
(* Events.  cudaEventCreate and cudaEventDestroy are not intercepted. *)
OtherThanEvents == <<usage, phase, driver, app, mine, own, fetched, tables, rights,
                     export_buf, local_buf, before, spared, failed>>
EventRecord(e, opened) == [event |-> e, opened |-> opened, torn |-> FALSE]

cudaEventCreate(e) ==
  /\ phase = "up" /\ e <= usage.events /\ live[e] = "none"
  /\ live' = [live EXCEPT ![e] = "own"]
  /\ UNCHANGED <<events, OtherThanEvents>>

cudaEventDestroy(e) ==
  /\ phase = "up" /\ usage.unmap /\ live[e] # "none"
  /\ live' = [live EXCEPT ![e] = "none"]
  /\ UNCHANGED <<events, OtherThanEvents>>

cudaIpcGetEventHandle(e) ==
  /\ phase = "up" /\ live[e] = "own" /\ Len(events) < usage.events
  /\ events' = Append(events, EventRecord(e, FALSE))
  /\ UNCHANGED <<live, OtherThanEvents>>

cudaIpcOpenEventHandle(e) ==
  /\ phase = "up" /\ e <= usage.events /\ live[e] = "none" /\ Len(events) < usage.events
  /\ live' = [live EXCEPT ![e] = "opened"]
  /\ events' = Append(events, EventRecord(e, TRUE))
  /\ UNCHANGED OtherThanEvents

-----------------------------------------------------------------------------
(* cr_ipc_signal_handler.  The bound on handles is met before a round starts: at most one
   record per address is rebuilt. *)
EnoughHandles == usage.reuse \/ Cardinality(Free) >= usage.vas

(* Of the calls of a phase one fails at most: for which table, for which record, and what it
   should have given. *)
NoFault == <<"none", 0, "none">>
Faults(table, S, kinds) == {NoFault} \cup IF usage.fails THEN {table} \X S \X kinds ELSE {}
Fails(fault, table, kind) == IF fault[1] = table /\ fault[3] = kind THEN {fault[2]} ELSE {}

Active  == {i \in DOMAIN exports : ~exports[i].torn /\ exports[i].va # 0}
Local   == {h \in DOMAIN created \cap DOMAIN va_of :
              \A i \in DOMAIN exports : exports[i].va # va_of[h]}

(* Positions when what is saved is grouped by device. *)
ExportPos(i) == Cardinality({j \in Active : \/ exports[j].dev < exports[i].dev
                                           \/ (exports[j].dev = exports[i].dev /\ j <= i)})
LocalPos(h) == Cardinality({g \in Local : \/ created[g] < created[h]
                                         \/ (created[g] = created[h] /\ g <= h)})

ContentAt(M, v) == IF M[v] = 0 THEN Junk ELSE data[M[v]]

(* ipc_teardown_all_imports. *)
TornImports == [i \in DOMAIN imports |->
                  IF imports[i].torn THEN imports[i]
                                     ELSE [imports[i] EXCEPT !.torn = TRUE, !.handle = 0]]
MapA  == Cleared(map, {imports[i].va : i \in {j \in DOMAIN imports : ~imports[j].torn}})
HeldA == held \ {imports[i].handle : i \in {j \in DOMAIN imports : ~imports[j].torn}}

(* ipc_save_and_teardown_all_exports, if mmap gave a buffer: save all, close the fds, then
   unmap and release.  A copy that fails is the end of it, with nothing torn down. *)
HasBuf(fault) == IF Active = {} THEN export_buf # NoBuf
                 ELSE Fails(fault, "export", "buffer") = {}
SavedExports_Dropped(fault) == export_buf                        \* mutant
SavedExports(fault) ==
  CASE Active = {} -> export_buf
    [] Active # {} /\ ~HasBuf(fault) -> NoBuf
    [] OTHER -> [k \in 1..Cardinality(Active) |->
                   ContentAt(MapA, exports[CHOOSE i \in Active : ExportPos(i) = k].va)]
Saves(fault) == /\ HasBuf(fault)
                /\ Fails(fault, "export", "copy") = {}
                /\ \A i \in Active : MapA[exports[i].va] # 0
TornExports(fault) ==
  IF Saves(fault)
  THEN [i \in DOMAIN exports |->
          IF i \in Active
          THEN [exports[i] EXCEPT !.torn = TRUE, !.handle = 0, !.fd = FALSE, !.off = ExportPos(i)]
          ELSE [exports[i] EXCEPT !.fd = FALSE]]
  ELSE exports
MapB_NotUnmapped(fault) == MapA                                  \* mutant
MapB(fault) == IF Saves(fault) THEN Cleared(MapA, {exports[i].va : i \in Active}) ELSE MapA
HeldB(fault) == IF Saves(fault) THEN HeldA \ {exports[i].handle : i \in Active} ELSE HeldA

(* ipc_save_and_teardown_local_allocs, if there is a buffer: data is saved in the order of the
   handles, records are made device by device.  A failed copy is only noted if the buffer is
   pinned; otherwise it ends the function. *)
NotCopied(M, fault) == {h \in Local : M[va_of[h]] = 0} \cup Fails(fault, "local", "copy")
SavedLocals_TooLate(M, fault) ==                                 \* mutant: after the unmap
  [k \in 1..Cardinality(Local) |-> Junk]
SavedLocals(M, fault) ==
  [k \in 1..Cardinality(Local) |->
     IF Kth(Local, k) \in NotCopied(M, fault) THEN Junk ELSE data[M[va_of[Kth(Local, k)]]]]
LocalRecord(k, torn) == LET h == CHOOSE g \in Local : LocalPos(g) = k
                        IN [handle |-> h, va |-> va_of[h], dev |-> created[h], torn |-> torn]

(* ipc_teardown_all_events: what was opened is destroyed. *)
Destroyed == {events[i].event : i \in {j \in DOMAIN events : ~events[j].torn /\ events[j].opened}}

(* The teardown phase. *)
Teardown(pinned, fault) ==
  LET M == MapB(fault)
      H == HeldB(fault)
      finishes == NotCopied(M, fault) = {} \/ pinned IN
  /\ \/ phase = "up" /\ EnoughHandles
     \/ phase = "down" /\ usage.twice
  /\ imports' = TornImports
  /\ exports' = TornExports(fault) /\ export_buf' = SavedExports(fault)
  /\ local_buf' = CASE Local = {} -> local_buf
                    [] Local # {} /\ Fails(fault, "local", "buffer") # {} -> NoBuf
                    [] OTHER -> SavedLocals(M, fault)
  /\ CASE local_buf' = NoBuf -> locals' = locals /\ map' = M /\ held' = H
       [] local_buf' # NoBuf /\ finishes ->
            /\ locals' = [k \in 1..Cardinality(Local) |-> LocalRecord(k, TRUE)]
            /\ map' = Cleared(M, {va_of[h] : h \in Local})
            /\ held' = H \ Local
       [] OTHER ->
            /\ LET done == {h \in Local : \A g \in NotCopied(M, fault) : created[h] < created[g]}
               IN locals' = [k \in 1..Cardinality(done) |-> LocalRecord(k, FALSE)]
            /\ map' = M /\ held' = H
  /\ spared' = (IF Active # {} /\ ~Saves(fault) THEN {"exports"} ELSE {})
               \cup IF Local # {} /\ (local_buf' = NoBuf \/ ~finishes) THEN {"locals"} ELSE {}
  /\ failed' = failed \cup {<<va_of[h], "data">> : h \in Fails(fault, "local", "copy")}
  /\ access' = [v \in VAs |-> IF map'[v] = 0 THEN {} ELSE access[v]]
  /\ live' = [e \in Events |-> IF e \in Destroyed THEN "none" ELSE live[e]]
  /\ events' = [i \in DOMAIN events |-> [events[i] EXCEPT !.torn = TRUE]]
  /\ phase' = "down"
  /\ before' = IF phase = "up" THEN [v \in VAs |-> IF map[v] = 0 THEN None ELSE data[map[v]]]
                               ELSE before
  /\ UNCHANGED <<usage, data, used, app, mine, own, fetched, imported, created, va_of, alias,
                 asked, descs, export_at>>

(* Of the records in S, those that can be mapped again: the address is free, and no
   earlier record of S has it. *)
Mappable(recs, S) ==
  {i \in S : map[recs[i].va] = 0 /\ \A j \in S : j < i => recs[j].va # recs[i].va}

(* What the handle of a rebuilt export's first creation now stands for: of several records
   with one such value the last decides, in the order of their devices (mutant: an entry
   that exists is kept). *)
LastWith(S, a) ==
  CHOOSE i \in S : /\ exports[i].app = a
                   /\ \A j \in S : exports[j].app = a =>
                        \/ exports[j].dev < exports[i].dev
                        \/ exports[j].dev = exports[i].dev /\ j <= i
Aliases_Kept(S, new) ==
  [a \in DOMAIN alias \cup {exports[i].app : i \in S} |->
     IF a \in DOMAIN alias THEN alias[a] ELSE new[LastWith(S, a)]]
Aliases(S, new) ==
  [a \in DOMAIN alias \cup {exports[i].app : i \in S} |->
     IF \E i \in S : exports[i].app = a THEN new[LastWith(S, a)] ELSE alias[a]]

(* The handles in a table after a rebuild: those of the rebuilt exports come in, those of
   the rebuilt local records are replaced (mutant: only erased). *)
Rekeyed_Erased(D, rebuilt, old, kept) == (D \cup rebuilt) \ old
Rekeyed(D, rebuilt, old, kept) == ((D \cup rebuilt) \ old) \cup kept

(* The rebuild phase.  ipc_rebuild_and_restore_all_exports, then ipc_rebuild_local_allocs,
   each in the order of its records and only if data was saved.  A new allocation that
   cannot be mapped at the old address is released again.  After a failure the record is
   skipped, or it lacks its data, its access or its descriptor, and the others go on. *)
ExportsToRebuild == IF export_buf = NoBuf THEN {}
                    ELSE {i \in DOMAIN exports : exports[i].torn /\ exports[i].va # 0}
LocalsToRebuild == IF local_buf = NoBuf THEN {} ELSE {i \in DOMAIN locals : locals[i].torn}

(* The access that is replayed to a rebuilt mapping: all that was granted to the address,
   else what the record has, else the owning device's (mutant: of the locations with one
   id only one). *)
Granted_OnePerId(v, recorded, dev) ==
  CASE descs[v] # {} -> {l \in descs[v] : l[1] = "DEVICE" \/ <<"DEVICE", l[2]>> \notin descs[v]}
    [] descs[v] = {} /\ recorded # {} -> recorded
    [] OTHER -> {<<"DEVICE", dev>>}
Granted(v, recorded, dev) ==
  CASE descs[v] # {} -> descs[v]
    [] descs[v] = {} /\ recorded # {} -> recorded
    [] OTHER -> {<<"DEVICE", dev>>}

(* The copies to the device: an export from the offset it was saved at, the rebuilt local
   allocations one after the other. *)
ExportData(i) == IF exports[i].off <= Len(export_buf) THEN export_buf[exports[i].off] ELSE Junk
LocalData(i, rebuilt) == local_buf[Rank(rebuilt, i)]

(* The new handles that stay in a table: the rebuilt local records are re-keyed one by one,
   the new handle entered before the old one is erased. *)
KeptLocals(rebuilt, new) ==
  {new[i] : i \in {j \in rebuilt : \A l \in rebuilt : l >= j => locals[l].handle # new[j]}}

(* The addresses that get other data than they had because of the fault: its own, and those of
   the local allocations behind it if it was skipped. *)
Missing(fault) ==
  {<<exports[i].va, k>> : i \in Fails(fault, "export", fault[3]), k \in {fault[3]}}
  \cup {<<locals[i].va, k>> : i \in Fails(fault, "local", fault[3]), k \in {fault[3]}}
  \cup {<<locals[l].va, "data">> :
           l \in {m \in LocalsToRebuild : \E i \in Fails(fault, "local", "memory") : i <= m}}

Export(fault) ==
  /\ phase = "down"
  /\ LET RE == Mappable(exports, ExportsToRebuild \ Fails(fault, "export", "memory"))
         RL == {i \in Mappable(locals, LocalsToRebuild \ Fails(fault, "local", "memory")) :
                  \A j \in RE : exports[j].va # locals[i].va}
         The(S) == CHOOSE i \in S : TRUE
         expAt(v) == {i \in RE : exports[i].va = v}
         locAt(v) == {i \in RL : locals[i].va = v}
     IN \E p \in NewHandles(Cardinality(RE) + Cardinality(RL)) :
        LET ne == [i \in RE |-> p[Rank(RE, i)]]
            nl == [i \in RL |-> p[Cardinality(RE) + Rank(RL, i)]]
            HE == {ne[i] : i \in RE}
            HL == {nl[i] : i \in RL}
            expOf(h) == CHOOSE i \in RE : ne[i] = h
            locOf(h) == CHOOSE i \in RL : nl[i] = h
            old  == {locals[i].handle : i \in RL}
            kept == KeptLocals(RL, nl)
        IN /\ map' = [v \in VAs |-> CASE expAt(v) # {} -> ne[The(expAt(v))]
                                      [] locAt(v) # {} -> nl[The(locAt(v))]
                                      [] OTHER -> map[v]]
           /\ access' = [v \in VAs |->
                CASE expAt(v) # {} ->
                       IF expAt(v) = Fails(fault, "export", "access") THEN {}
                       ELSE Granted(v, exports[The(expAt(v))].access, exports[The(expAt(v))].dev)
                  [] locAt(v) # {} ->
                       IF locAt(v) = Fails(fault, "local", "access") THEN {}
                       ELSE Granted(v, {}, locals[The(locAt(v))].dev)
                  [] OTHER -> access[v]]
           /\ data' = [h \in Handles |->
                CASE h \in HE -> IF expOf(h) \in Fails(fault, "export", "data") THEN Junk
                                 ELSE ExportData(expOf(h))
                  [] h \in HL -> IF locOf(h) \in Fails(fault, "local", "data") THEN Junk
                                 ELSE LocalData(locOf(h), RL)
                  [] OTHER -> data[h]]
           /\ held' = held \cup HE \cup HL /\ used' = used \cup HE \cup HL
           /\ exports' = [i \in DOMAIN exports |->
                IF i \in RE THEN [exports[i] EXCEPT !.handle = ne[i], !.torn = FALSE,
                                                    !.fd = i \notin Fails(fault, "export", "fd")]
                            ELSE exports[i]]
           /\ locals' = [i \in DOMAIN locals |->
                IF i \in RL THEN [locals[i] EXCEPT !.handle = nl[i], !.torn = FALSE] ELSE locals[i]]
           /\ alias' = Aliases({i \in RE : exports[i].app # ne[i]}, ne)
           /\ created' = [h \in Rekeyed(DOMAIN created, HE, old, kept) |->
                CASE h \in kept -> locals[locOf(h)].dev
                  [] h \in HE -> exports[expOf(h)].dev
                  [] OTHER -> created[h]]
           /\ va_of' = [h \in Rekeyed(DOMAIN va_of, HE, old, kept) |->
                CASE h \in kept -> locals[locOf(h)].va
                  [] h \in HE -> exports[expOf(h)].va
                  [] OTHER -> va_of[h]]
  /\ export_buf' = NoBuf /\ local_buf' = NoBuf
  /\ failed' = failed \cup Missing(fault)
  /\ phase' = "exported"
  /\ UNCHANGED <<usage, app, mine, own, fetched, imported, imports, before, spared, asked, descs,
                 export_at, shared>>

(* ipc_import_from_shm_block: the peer's exports are matched with the torn-down imports
   by position; a pair that cannot be imported or mapped is skipped. *)
TornDown == {i \in DOMAIN imports : imports[i].torn}
Matched  == {i \in TornDown : Rank(TornDown, i) <= fetched}

Import(fault) ==
  /\ phase = "exported"
  /\ LET S == Mappable(imports, Matched \ Fails(fault, "import", "memory"))
         at(v) == {i \in S : imports[i].va = v}
         The(T) == CHOOSE i \in T : TRUE
     IN \E p \in NewHandles(Cardinality(S)) :
        LET new == [i \in S |-> p[Rank(S, i)]]
            from(h) == {i \in S : new[i] = h}
        IN /\ map' = [v \in VAs |-> IF at(v) # {} THEN new[The(at(v))] ELSE map[v]]
           /\ access' = [v \in VAs |->
                CASE at(v) = {} -> access[v]
                  [] at(v) # {} /\ at(v) = Fails(fault, "import", "access") -> {}
                  [] OTHER -> imports[The(at(v))].access]
           /\ data' = [h \in Handles |-> IF from(h) # {} THEN -Rank(TornDown, The(from(h))) ELSE data[h]]
           /\ held' = held \cup {new[i] : i \in S} /\ used' = used \cup {new[i] : i \in S}
           /\ imports' = [i \in DOMAIN imports |->
                IF i \in S THEN [imports[i] EXCEPT !.handle = new[i], !.torn = FALSE] ELSE imports[i]]
  /\ failed' = failed \cup {<<imports[i].va, k>> : i \in Fails(fault, "import", fault[3]), k \in {fault[3]}}
  /\ phase' = "up"
  /\ UNCHANGED <<usage, app, mine, own, fetched, imported, created, va_of, exports, locals, alias,
                 asked, descs, export_at, shared, export_buf, local_buf, before, spared>>

Next == \/ \E dev \in Devs : cuMemCreate(dev)
        \/ cuMemImport
        \/ \E v \in VAs : Write(v) \/ cuMemUnmap(v) \/ (\E h \in Handles : cuMemMap(v, h))
                            \/ \E l \in Locations : cuMemSetAccess(v, l)
        \/ \E h \in Handles : cuMemExport(h) \/ cuMemRelease(h)
        \/ \E e \in Events : \/ cudaEventCreate(e) \/ cudaEventDestroy(e)
                            \/ cudaIpcGetEventHandle(e) \/ cudaIpcOpenEventHandle(e)
        \/ \E pinned \in BOOLEAN, fault \in Faults("export", {0}, {"buffer", "copy"})
                                            \cup Faults("local", {0}, {"buffer"})
                                            \cup Faults("local", Local, {"copy"}) :
             Teardown(pinned, fault)
        \/ \E fault \in Faults("export", ExportsToRebuild, {"memory", "data", "access", "fd"})
                        \cup Faults("local", LocalsToRebuild, {"memory", "data", "access"}) :
             Export(fault)
        \/ \E fault \in Faults("import", Matched, {"memory", "access"}) : Import(fault)

Spec == Init /\ [][Next]_vars

-----------------------------------------------------------------------------
(* Type invariant. *)
TypeOK ==
  /\ spared \subseteq {"exports", "locals"}
  /\ failed \subseteq VAs \X {"memory", "data", "access", "fd"}
  /\ usage \in Usages /\ phase \in {"up", "down", "exported"}
  /\ map \in [VAs -> 0..MaxHandle] /\ held \subseteq used /\ used \subseteq Handles /\ mine \subseteq VAs
  /\ data \in [Handles -> (-MaxImports)..MaxVA] /\ app \subseteq used
  /\ own \in 0..MaxOwn /\ fetched \in 0..MaxImports /\ imported \subseteq used
  /\ created \in [DOMAIN created -> Devs] /\ va_of \in [DOMAIN va_of -> VAs]
  /\ DOMAIN created \cup DOMAIN va_of \cup DOMAIN alias \subseteq Handles
  /\ exports \in Seq([app : Handles, handle : 0..MaxHandle, va : 0..MaxVA, dev : Devs,
                      fd : BOOLEAN, torn : BOOLEAN, off : 0..MaxExports, access : SUBSET Locations])
  /\ imports \in Seq([va : VAs, handle : 0..MaxHandle, torn : BOOLEAN, access : SUBSET Locations])
  /\ {access, asked, descs} \subseteq [VAs -> SUBSET Locations] /\ export_at \in [VAs -> 0..MaxExports]
  /\ live \in [Events -> {"none", "own", "opened"}]
  /\ events \in Seq([event : Events, opened : BOOLEAN, torn : BOOLEAN])
  /\ locals \in Seq([handle : Handles, va : VAs, dev : Devs, torn : BOOLEAN])

(* When a round is over, every address shows the memory it showed before: the worker's
   own memory with its data, and for an import the same memory of the peer
   (docs/onboarding/03: "both sides of every NCCL channel see the same physical memory at
   the same virtual addresses as before the checkpoint"). *)
Back(v) == map'[v] # 0 /\ data'[map'[v]] = before[v]
Restored == phase = "exported" /\ phase' = "up"
RoundTrip == [][Restored => \A v \in VAs : before[v] # None => Back(v)]_vars

(* After the teardown phase no event of a peer is open and no IPC-capable memory mapped,
   which cuda-checkpoint could not restore, but for the exports, or the local memory, that the
   phase gave up on: for want of a buffer, or because a copy failed.  Imports are never
   left.  (Memory whose handle the application released first is in no table; and with a
   handle value that is given again a mapping can be forgotten.) *)
TeardownComplete ==
  phase = "down" =>
    /\ \A e \in Events : live[e] # "opened"
    /\ ~usage.reuse => \A v \in VAs :
         \/ map[v] = 0
         \/ usage.unmap /\ map[v] \notin held
         \/ "exports" \in spared /\ \E i \in Active : exports[i].va = v
         \/ "locals" \in spared /\ \E h \in Local : va_of[h] = v

(* "Libraries such as NVSHMEM may still release the original handle": the handle value
   that the application has for an export, if it is not the memory's own now, stands for the
   memory at the export's address, however often it was rebuilt and whatever handles the
   driver gives.  (A rebuild that gets the original value back leaves the alias of the round
   before; and a value the driver gave again for new memory has two meanings.) *)
AliasValid ==
  phase = "up" /\ ~usage.unmap => \A i \in DOMAIN exports :
    LET rec == exports[i] IN
    /\ ~rec.torn /\ rec.va # 0 /\ rec.app \in app /\ rec.app # rec.handle
    => rec.app \in DOMAIN alias /\ alias[rec.app] = map[rec.va]

(* g_created_allocs is "re-keyed to new handles at rebuild" (docs/onboarding/03): the
   next teardown finds every rebuilt local allocation.  (A new handle that has the value
   of an old one which is erased later is lost.) *)
LocalsTracked ==
  ~usage.reuse => \A i \in DOMAIN locals : ~locals[i].torn => locals[i].handle \in DOMAIN created

(* What is left of RoundTrip in the hard cases.  Whatever the application unmapped or
   released before, in this round or an earlier one, its own memory survives: a copy that
   fails or a stale record of an address never costs other memory its data, nor does the
   stale record of an import, unless there are two for the address (the rebuild of the first
   is then not seen by a later unmap, and its teardown unmaps what is there instead).  With
   handle values that are given again this holds for memory that no stale entry makes both an
   import and own memory: g_imported_handles and g_created_allocs keep the values of memory
   that was torn down.  And the flags protect imports and exports, though not local
   allocations, from a repeated teardown.  After a failed call only the memory it was for has
   lost its data, and the local allocations behind it if it was not rebuilt.  A teardown spares the events the application
   made.  (The record of an opened event that it destroyed stays: a new event of that value
   is then lost.) *)
ImportsAt(v) == {i \in DOMAIN imports : imports[i].va = v}
OwnAt(v) == \/ \E h \in DOMAIN created \cap DOMAIN va_of : va_of[h] = v
            \/ \E i \in DOMAIN locals : locals[i].va = v
Promised(v) ==
  /\ before[v] # None
  /\ usage.unmap => before[v] >= 0
  /\ before[v] >= 0 => Cardinality(ImportsAt(v)) <= 1
  /\ usage.reuse => ImportsAt(v) = {} \/ ~OwnAt(v)
  /\ usage.twice => before[v] < 0 \/ \E i \in DOMAIN exports : exports[i].va = v
  /\ <<v, "memory">> \notin failed' /\ <<v, "data">> \notin failed'
Survives ==
  [][/\ Restored => \A v \in VAs : Promised(v) => Back(v)
     /\ ~usage.unmap => \A e \in Events : live[e] = "own" => live'[e] = "own"]_vars

(* "Access descriptors are the easiest thing to lose" (docs/onboarding/03): outside of a
   round, every location that the application granted access to an address has it, in
   whatever order it mapped, granted and exported, unless a call for that address failed.
   (A release erases what was granted to the address last mapped for the handle, also while
   other memory is mapped there: then it holds for imports, which have their own record of
   it, if there is one record for the address.) *)
AccessKept ==
  phase = "up" => \A v \in mine :
    /\ map[v] # 0
    /\ usage.unmap => data[map[v]] < 0 /\ Cardinality(ImportsAt(v)) = 1
    /\ <<v, "access">> \notin failed
    => asked[v] \subseteq access[v]

(* A record of an import that is not torn down tells the truth: the peer's memory is mapped
   at its address, also when the application unmaps, releases and imports again, unless it
   does so at the same address: an unmap marks only the last record of it.  (Own memory that
   gets the handle value of an import which was torn down is recorded as an import.) *)
ImportRecordsTrue ==
  \A i \in DOMAIN imports :
    ~imports[i].torn /\ Cardinality(ImportsAt(imports[i].va)) = 1 =>
      map[imports[i].va] # 0 /\ (data[map[imports[i].va]] < 0 \/ usage.reuse)

(* docs/onboarding/03, on the export rebuild: "after this, the exporter looks to itself
   exactly as before the checkpoint - same VAs, same data, valid fds".  An export has a valid
   fd unless a call for it failed, the teardown gave up, or an earlier record has its
   address: that one is rebuilt, released or not. *)
ExportsValid ==
  phase = "exported" /\ "exports" \notin spared => \A i \in DOMAIN exports :
    \/ exports[i].va = 0 \/ exports[i].fd
    \/ \E j \in 1..(i - 1) : exports[j].va = exports[i].va
    \/ \E k \in {"memory", "fd"} : <<exports[i].va, k>> \in failed
=============================================================================
