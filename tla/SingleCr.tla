------------------------------ MODULE SingleCr ------------------------------
(***************************************************************************)
(* The single-process client (coordinator/cr_client.cpp) and its target.   *)
(* The protocol is that of MultiCr with one worker, but the client does    *)
(* not look at the result of kill() nor at the exit status of the external *)
(* tool: system() is negative only if no child could be created.           *)
(*                                                                         *)
(* On NVIDIA the tool is "cuda-checkpoint --toggle"; on AMD it is CRIU,    *)
(* whose dump ends the process and whose restore brings it back with the   *)
(* memory it had, pending signals and handlers included.                   *)
(***************************************************************************)
EXTENDS Worker, Sequences

CONSTANT Setups          \* a build, "NVIDIA" or "AMD"; a value of -b; whether calls may fail

ASSUME SingleCrAssumption == Setups \subseteq {"NVIDIA", "AMD"} \X BOOLEAN \X BOOLEAN

VARIABLES
  platform,              \* the build: __HIP_PLATFORM_AMD__ or not
  may_fail,              \* the external tool, or a call for peer access, may fail
  cmd, todo,             \* the running command, or "none"; its steps still to do
  buffer_only,           \* -b was given with it
  w,                     \* the target process
  word, pending, handler,\* control word, pending signals, the running handler
  wanted                 \* peer devices the application has asked for

client == <<cmd, todo, buffer_only>>
env == <<platform, may_fail>>
vars == <<env, client, w, word, pending, handler, wanted>>

None == [sig |-> "none", msg |-> FINISH]

Init == /\ cmd = "none" /\ todo = << >>
        /\ \E s \in Setups : platform = s[1] /\ buffer_only = s[2] /\ may_fail = s[3]
        /\ w = Fresh /\ word = FINISH /\ pending = {} /\ handler = None
        /\ wanted = {}

-----------------------------------------------------------------------------
(* The steps of a command: write the message and send the signal, wait, and run
   the tool.  On AMD a restore runs the tool first. *)
Handshake(msg) == <<msg, "wait">>
do_ckpt_ToolFirst == <<"tool">> \o Handshake("CKPT")          \* mutant
do_ckpt == Handshake("CKPT") \o <<"tool">>
do_restore_ToolLast == Handshake("RESTORE") \o <<"tool">>     \* mutant
do_restore == IF platform = "AMD" THEN <<"tool">> \o Handshake("RESTORE")
                                  ELSE Handshake("RESTORE") \o <<"tool">>

(* An operator starts a command: a checkpoint when the data is on the device, a
   restore when it is parked, with -b if the checkpoint was made with -b. *)
Start(c, steps) == /\ cmd = "none"
                   /\ cmd' = c /\ todo' = steps
                   /\ UNCHANGED <<env, w, word, pending, handler, wanted>>

StartInit    == w.alive /\ Start("init", Handshake("INIT")) /\ UNCHANGED buffer_only
StartCkpt    == /\ w.alive /\ w.data = "live" /\ w.cuda = "running"
                /\ Start("checkpoint", do_ckpt)
                /\ \E b \in BOOLEAN : <<platform, b, may_fail>> \in Setups /\ buffer_only' = b
StartRestore == w.data = "parked" /\ Start("restore", do_restore) /\ UNCHANGED buffer_only

Step == IF todo = << >> THEN "end" ELSE Head(todo)
Leave   == cmd' = "none" /\ todo' = << >> /\ UNCHANGED buffer_only
Advance == todo' = Tail(todo) /\ UNCHANGED <<cmd, buffer_only>>

(* send_msg, then kill: a signal to a process that is gone is lost. *)
Signal ==
  /\ Step \in Messages
  /\ word' = Step
  /\ pending' = IF w.alive THEN pending \cup {SignalOf(Step)} ELSE pending
  /\ Advance
  /\ UNCHANGED <<env, w, handler, wanted>>

(* Poll the control word. *)
Wait == /\ Step = "wait"
        /\ IF word = FINISH THEN Advance ELSE UNCHANGED client
        /\ UNCHANGED <<env, w, word, pending, handler, wanted>>

(* What the external tool does to the process in the running command. *)
AfterTool ==
  IF platform = "AMD"
  THEN [w EXCEPT !.alive = (cmd = "restore")]
  ELSE IF w.alive /\ CudaFrom(w, "toggle") THEN [w EXCEPT !.cuda = CudaTo(w, "toggle")] ELSE w

(* system(), skipped with -b.  `ret' is then compared without having been
   assigned: the comparison may come out either way, and the client may exit with an
   error.  It also exits if no child could be created, and on AMD if AMD_CKPT_DIR is not
   set; the exit status of the tool is not looked at. *)
Tool ==
  /\ Step = "tool"
  /\ \/ ~buffer_only /\ Advance /\ w' = AfterTool
     \/ ~buffer_only /\ Advance /\ may_fail /\ UNCHANGED w
     \/ buffer_only /\ Advance /\ UNCHANGED w
     \/ (buffer_only \/ may_fail) /\ Leave /\ UNCHANGED w
  /\ UNCHANGED <<env, word, pending, handler, wanted>>

End == /\ cmd # "none" /\ todo = << >>
       /\ Leave
       /\ UNCHANGED <<env, w, word, pending, handler, wanted>>

Client == Signal \/ Wait \/ Tool \/ End

-----------------------------------------------------------------------------
(* A signal is delivered; the handler initializes the library if needed, then
   reads the control word. *)
Deliver(sig) ==
  /\ sig \in pending /\ w.alive /\ handler = None
  /\ w.init \/ w.cuda = "running"
  /\ pending' = pending \ {sig} /\ w' = [w EXCEPT !.init = TRUE]
  /\ handler' = [sig |-> sig, msg |-> IF sig = "INIT" THEN "INIT" ELSE word]
  /\ UNCHANGED <<env, client, word, wanted>>

(* The handler does its work and acks; its CUDA calls block while the process is
   checkpointed.  The AMD build leaves peer access alone. *)
Respond ==
  /\ handler # None /\ w.alive
  /\ handler.sig # "INIT" => w.cuda = "running"
  /\ \E peers \in SUBSET Devices :
       LET next == Handled(w, handler.sig, handler.msg, FALSE, [NoFault EXCEPT !.peers = peers])
       IN /\ peers # {} => may_fail /\ platform = "NVIDIA"
          /\ w' = IF platform = "NVIDIA" THEN next
                  ELSE [next EXCEPT !.driver = w.driver, !.tracked = w.tracked, !.saved = w.saved]
  /\ handler' = None
  /\ word' = IF w'.alive THEN FINISH ELSE word
  /\ UNCHANGED <<env, client, pending, wanted>>

(* Between commands the application enables or disables a peer device. *)
Application(dev) ==
  /\ cmd = "none" /\ w.alive /\ w.cuda = "running" /\ w.data = "live"
  /\ handler = None /\ pending = {} /\ platform = "NVIDIA"
  /\ \/ wanted' = wanted \cup {dev} /\ w' = EnablePeer(w, dev)
     \/ dev \in w.driver /\ wanted' = wanted \ {dev} /\ w' = DisablePeer(w, dev)
  /\ UNCHANGED <<env, client, word, pending, handler>>

Handler == (\E sig \in Signals : Deliver(sig)) \/ Respond

Next == \/ StartInit \/ StartCkpt \/ StartRestore \/ Client \/ Handler
        \/ \E dev \in Devices : Application(dev)

Spec == Init /\ [][Next]_vars
(* The client polls until it may go on, the kernel delivers signals, and a
   handler that is not blocked runs to its end. *)
FairSpec == Spec /\ WF_vars(Client) /\ WF_vars(Handler)

-----------------------------------------------------------------------------
(* Type invariant. *)
TypeOK ==
  /\ platform \in {"NVIDIA", "AMD"}
  /\ cmd \in {"none", "init", "checkpoint", "restore"}
  /\ todo \in Seq(Messages \cup {"wait", "tool"})
  /\ buffer_only \in BOOLEAN /\ may_fail \in BOOLEAN /\ w \in WorkerType
  /\ word \in Messages \cup {FINISH} /\ pending \in SUBSET {"INIT", "CKPT", "RESTORE"}
  /\ handler \in [sig : Signals \cup {"none"}, msg : Messages \cup {FINISH}]
  /\ wanted \in SUBSET Devices

(* The external tool freezes or dumps the process only when its data is in the
   dump, it has no peer access left except where disabling it failed, and no handler is
   running or due in it.  The one exception is a toggle of a restore: the client does not
   see that the tool failed in the checkpoint, and then freezes a process that runs. *)
Frozen(p) == p.cuda = "checkpointed" \/ ~p.alive
FreezeClean ==
  [][~Frozen(w) /\ Frozen(w') =>
       /\ handler = None /\ pending = {}
       /\ \/ w.data = "parked" /\ w.driver \subseteq w.stuck
          \/ cmd = "restore" /\ platform = "NVIDIA" /\ may_fail]_vars

(* A command that ends well has had its effect: the data is where the command
   puts it, and after a restore the process has the peer access that its
   application had asked for, except to devices on which a call failed. *)
EndMeansDone ==
  [][End => CASE cmd = "checkpoint" -> w.data = "parked"
              [] cmd = "restore"    -> /\ w.data = "live" /\ w.alive
                                       /\ w.driver \ w.stuck = wanted \ w.stuck
              [] cmd = "init"       -> w.init]_vars

(* What the client waits for without end: the handler of a process that CRIU has not brought
   back, or one that is frozen until the toggle that comes after the wait. *)
WaitsInVain ==
  /\ cmd = "restore" /\ Step = "wait" /\ ~buffer_only
  /\ IF platform = "AMD" THEN may_fail /\ ~w.alive ELSE w.cuda = "checkpointed"

(* Every command comes to its end, on both builds, with and without -b, and with a tool that
   fails or cannot be run, except for two restores: of a process that CRIU failed to bring
   back, and, on NVIDIA without -b, of a process that cuda-checkpoint has frozen, where the
   client waits for the handler before it unfreezes the process. *)
CommandEnds == (cmd # "none") ~> (cmd = "none" \/ WaitsInVain)
=============================================================================
