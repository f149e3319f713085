------------------------------- MODULE Worker -------------------------------
(***************************************************************************)
(* One process with the vGPU library preloaded, as its two signal handlers *)
(* (cr_signal_handler and cr_ipc_signal_handler in src/vGPU.cpp) and the   *)
(* peer-access functions of src/ipc_hooks.cpp change it.  A worker is a    *)
(* record; the operators return the record a handler leaves behind.        *)
(*                                                                         *)
(*   alive    the process exists                                           *)
(*   init     CR_initialized                                               *)
(*   data     cudaMalloc blocks: "live", or "parked" in the dump           *)
(*   ipc      IPC mappings: "up", "down", "left" (torn down but for what   *)
(*            could not be saved or unmapped), "exported" (exports rebuilt,*)
(*            imports not yet), "partial" (something was not rebuilt)      *)
(*   server   the UDS fd server runs                                       *)
(*   cuda     what cuda-checkpoint made of it: "running", "locked",        *)
(*            "checkpointed"                                               *)
(*   driver   peer devices the CUDA driver has enabled                     *)
(*   tracked, saved   g_peer_access_devices, g_saved_peer_access_devices   *)
(*   stuck    (history) peer devices on which a handler's call failed      *)
(***************************************************************************)
EXTENDS Integers, FiniteSets

CONSTANT Devices         \* the peer devices a worker may enable

(* The control word; a new control file holds FINISH, which is 0. *)
FINISH == "FINISH"
Messages == {"INIT", "CKPT", "RESTORE", "TEARDOWN", "EXPORT", "IMPORT"}
Signals  == {"INIT", "CKPT", "RESTORE", "TEARDOWN", "REBUILD"}

(* The signal the coordinators send with a message. *)
SignalOf(msg) == IF msg \in {"EXPORT", "IMPORT"} THEN "REBUILD" ELSE msg

(* The messages the handler of a signal acts on; it only acks any other.  The
   handler of CR_INIT_SIGNAL does not look at the control word. *)
ActsOn(sig) == CASE sig = "INIT" -> {"INIT"}
                 [] sig \in {"CKPT", "RESTORE"} -> {"CKPT", "RESTORE"}
                 [] OTHER -> {"TEARDOWN", "EXPORT", "IMPORT"}

WorkerType ==
  [alive : BOOLEAN, init : BOOLEAN, data : {"live", "parked"},
   ipc : {"up", "down", "left", "exported", "partial"}, server : BOOLEAN,
   cuda : {"running", "locked", "checkpointed"},
   driver : SUBSET Devices, tracked : SUBSET Devices, saved : SUBSET Devices,
   stuck : SUBSET Devices]

Fresh == [alive |-> TRUE, init |-> FALSE, data |-> "live", ipc |-> "up",
          server |-> FALSE, cuda |-> "running",
          driver |-> {}, tracked |-> {}, saved |-> {}, stuck |-> {}]

(* A teardown has run. *)
Torn == {"down", "left"}

(* The calls of a handler that fail and are only logged or counted: the saving, unmapping,
   rebuilding or mapping of IPC memory, and the switching of peer devices. *)
Faults == [ipc : BOOLEAN, peers : SUBSET Devices]
NoFault == [ipc |-> FALSE, peers |-> {}]

-----------------------------------------------------------------------------
(* The cudaDeviceEnablePeerAccess and cudaDeviceDisablePeerAccess hooks. *)
EnablePeer(w, dev) == [w EXCEPT !.driver = @ \cup {dev}, !.tracked = @ \cup {dev}]
DisablePeer(w, dev) == [w EXCEPT !.driver = @ \ {dev}, !.tracked = @ \ {dev}]

(* Mutant: nothing is remembered. *)
DisableAll_Forgets(w, bad) ==
  [w EXCEPT !.driver = @ \ (w.tracked \ bad), !.tracked = {}, !.stuck = @ \cup (w.tracked \cap bad)]

(* ipc_disable_all_peer_access: remember what is tracked, disable it, forget it, also where
   the call failed. *)
DisableAll(w, bad) ==
  [w EXCEPT !.saved = w.tracked, !.driver = @ \ (w.tracked \ bad), !.tracked = {},
            !.stuck = @ \cup (w.tracked \cap bad)]

(* ipc_reenable_all_peer_access: what was enabled is tracked again, what was saved forgotten. *)
ReenableAll(w, bad) ==
  [w EXCEPT !.tracked = @ \cup (w.saved \ bad), !.driver = @ \cup (w.saved \ bad), !.saved = {},
            !.stuck = @ \cup (w.saved \cap bad)]

-----------------------------------------------------------------------------
(* What each branch of the handlers does.  ckpt() of blocks that are parked
   copies from unmapped addresses, fails, and exits. *)
OnCkpt(w, bad) == IF w.data = "live" THEN [DisableAll(w, bad.peers) EXCEPT !.data = "parked"]
                                     ELSE [w EXCEPT !.alive = FALSE]

OnRestore_PeersOnly(w, bad) == ReenableAll(w, bad.peers)    \* mutant
OnRestore(w, bad) == [ReenableAll(w, bad.peers) EXCEPT !.data = "live"]

(* With no buffer to save it in, or after a copy that failed, memory stays mapped. *)
OnTeardown(w, bad) ==
  [DisableAll(w, bad.peers) EXCEPT !.ipc = IF bad.ipc THEN "left" ELSE "down"]

(* Exports that were torn down are rebuilt from the saved buffer, those that fail skipped; the
   fd server starts in any case. *)
OnExport(w, bad) ==
  [w EXCEPT !.ipc = IF @ \in Torn THEN (IF bad.ipc THEN "partial" ELSE "exported") ELSE @,
            !.server = TRUE]

(* complete: the descriptors of every torn-down import were fetched. *)
OnImport(w, complete, bad) ==
  [ReenableAll(w, bad.peers) EXCEPT
     !.ipc = IF @ = "exported" THEN (IF complete /\ ~bad.ipc THEN "up" ELSE "partial") ELSE @,
     !.server = FALSE]

(* The record after the handler of `sig' has acted on `msg'. *)
Handled(w, sig, msg, complete, bad) ==
  CASE msg \notin ActsOn(sig) -> w
    [] msg = "INIT"     -> w
    [] msg = "CKPT"     -> OnCkpt(w, bad)
    [] msg = "RESTORE"  -> OnRestore(w, bad)
    [] msg = "TEARDOWN" -> OnTeardown(w, bad)
    [] msg = "EXPORT"   -> OnExport(w, bad)
    [] msg = "IMPORT"   -> OnImport(w, complete, bad)

-----------------------------------------------------------------------------
(* cuda-checkpoint, an external tool: which state an action starts from, and
   which it leads to.  Any other start state is an error. *)
CudaFrom(w, action) ==
  CASE action = "lock"       -> w.cuda = "running"
    [] action = "checkpoint" -> w.cuda = "locked"
    [] action = "restore"    -> w.cuda = "checkpointed"
    [] action = "unlock"     -> w.cuda = "locked"
    [] action = "toggle"     -> w.cuda \in {"running", "checkpointed"}

CudaTo(w, action) ==
  CASE action \in {"lock", "restore"} -> "locked"
    [] action = "checkpoint"          -> "checkpointed"
    [] action = "unlock"              -> "running"
    [] action = "toggle" -> IF w.cuda = "running" THEN "checkpointed" ELSE "running"
=============================================================================
