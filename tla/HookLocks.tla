------------------------------ MODULE HookLocks ------------------------------
(***************************************************************************)
(* The mutexes of one worker process, the threads of the application that  *)
(* take them in the library's hooks, and the signal handlers that take     *)
(* them in whatever thread a signal interrupts (src/vGPU.cpp,              *)
(* src/ipc_hooks.cpp, src/GPUs/NVIDIA/nv.cpp).                             *)
(*                                                                         *)
(* A thread is a stack of frames; a frame is a hook or a handler with the  *)
(* mutex operations it has still to do.  Sections of the same mutex that   *)
(* follow each other directly are one section here.  The application's own *)
(* mutexes and those inside libc are left out.                             *)
(***************************************************************************)
EXTENDS Integers, Sequences, FiniteSets

CONSTANTS Threads, MaxCalls, MaxMessages, MaxValidations

ASSUME HookLocksAssumption == {MaxCalls, MaxMessages, MaxValidations} \subseteq Nat

VARIABLES stack,         \* per thread: its frames, the last one runs
          held,          \* per mutex: the threads that hold it, one entry per lock()
          pending,       \* messages whose signal is sent and not yet delivered
          sent,          \* messages the coordinator has sent
          waiting,       \* the coordinator waits for its acknowledgement
          calls, validations   \* calls and on-demand validations so far

vars == <<stack, held, pending, sent, waiting, calls, validations>>

Mutexes == {"fs_mutex", "gpu_mem_mutex", "g_ipc_hook_mutex", "g_peer_access_mutex",
            "g_ipc_events_mutex"}

(* Mutant: a plain mutex for the tables. *)
Recursive_None == {}
(* std::recursive_mutex; the others are std::mutex. *)
Recursive == {"g_ipc_hook_mutex"}

Section(m) == <<<<"lock", m>>, <<"unlock", m>>>>

(* A section of m with a section of g_ipc_hook_mutex inside: nv.cpp calls cuMemMap,
   cuMemSetAccess, cuMemUnmap and cuMemRelease, which are the library's own hooks. *)
Around(m) == <<<<"lock", m>>>> \o Section("g_ipc_hook_mutex") \o <<<<"unlock", m>>>>

(* The hooks the application calls.  Every one makes the driver call first, or inside. *)
Hooks == {"cudaMalloc", "cuMem", "PeerAccess", "IpcEvent"}
HookOps(h) == CASE h = "cudaMalloc" -> Around("gpu_mem_mutex")       \* and cudaFree
                [] h = "cuMem"      -> Section("g_ipc_hook_mutex")   \* Create, Map, Export, ...
                [] h = "PeerAccess" -> Section("g_peer_access_mutex")
                [] h = "IpcEvent"   -> Section("g_ipc_events_mutex")

(* ckpt: releasePhysicalMemory calls the cuMem hooks; fs_mutex is unlocked by hand at the end,
   gpu_mem_mutex by its guard after that. *)
ckpt == <<<<"lock", "fs_mutex">>, <<"lock", "gpu_mem_mutex">>>> \o Section("g_ipc_hook_mutex")
        \o <<<<"unlock", "fs_mutex">>, <<"unlock", "gpu_mem_mutex">>>>

(* cr_signal_handler; restore holds gpu_mem_mutex while remapPhysicalMemory calls the hooks. *)
cr_signal_handler(msg) ==
  (IF msg = "CKPT" THEN ckpt ELSE Around("gpu_mem_mutex")) \o Section("g_peer_access_mutex")

(* cr_ipc_signal_handler: counting imports, exports and events, teardown of imports and
   exports, of events, of local allocations, and of peer access; rebuild of exports and
   local allocations; import, validation, and peer access. *)
cr_ipc_signal_handler(msg) ==
  CASE msg = "TEARDOWN" -> Section("g_ipc_hook_mutex") \o Section("g_ipc_events_mutex")
                           \o Section("g_ipc_hook_mutex") \o Section("g_ipc_events_mutex")
                           \o Section("g_ipc_hook_mutex") \o Section("g_peer_access_mutex")
    [] msg = "EXPORT"   -> Section("g_ipc_hook_mutex")
    [] msg = "IMPORT"   -> Section("g_ipc_hook_mutex") \o Section("g_peer_access_mutex")

(* The messages of a checkpoint and a restore, in their order. *)
Messages == <<"TEARDOWN", "CKPT", "RESTORE", "EXPORT", "IMPORT">>

(* The message that the coordinator sent last. *)
Message == Messages[((sent - 1) % Len(Messages)) + 1]

HandlerOps(msg) == CASE msg \in {"CKPT", "RESTORE"} -> cr_signal_handler(msg)
                     [] msg = "VALIDATE" -> Section("g_ipc_hook_mutex")
                     [] OTHER -> cr_ipc_signal_handler(msg)

Init == /\ stack = [t \in Threads |-> << >>] /\ held = [m \in Mutexes |-> << >>]
        /\ pending = {} /\ sent = 0 /\ waiting = FALSE
        /\ calls = 0 /\ validations = 0

-----------------------------------------------------------------------------
Top(t) == stack[t][Len(stack[t])]
Push(t, name, ops) ==
  stack' = [stack EXCEPT ![t] = Append(@, [name |-> name, ops |-> ops])]

(* The application calls a hook. *)
Call(t, h) ==
  /\ stack[t] = << >> /\ calls < MaxCalls
  /\ Push(t, h, HookOps(h)) /\ calls' = calls + 1
  /\ UNCHANGED <<held, pending, sent, waiting, validations>>

(* The coordinator sends a message and its signal once the last one is acknowledged. *)
Send ==
  /\ ~waiting /\ waiting' = TRUE /\ sent < MaxMessages
  /\ sent' = sent + 1 /\ pending' = pending \cup {Message'}
  /\ UNCHANGED <<stack, held, calls, validations>>

(* CR_IPC_VALIDATE_SIGNAL, sent by hand at any time. *)
SendValidate ==
  /\ validations < MaxValidations /\ validations' = validations + 1
  /\ pending' = pending \cup {"VALIDATE"}
  /\ UNCHANGED <<stack, held, sent, waiting, calls>>

(* The kernel picks a thread, whatever it is doing, for a signal that it does not mask. *)
Deliver(t, msg) ==
  /\ msg \in pending
  /\ \A f \in 1..Len(stack[t]) : stack[t][f].name # msg
  /\ Push(t, msg, HandlerOps(msg)) /\ pending' = pending \ {msg}
  /\ UNCHANGED <<held, sent, waiting, calls, validations>>

(* What lock() of m does in t: it returns if the mutex is free, or recursive and t's. *)
MayLock(t, m) == \A i \in DOMAIN held[m] : m \in Recursive /\ held[m][i] = t

Step(t) ==
  /\ stack[t] # << >> /\ Top(t).ops # << >>
  /\ LET op == Head(Top(t).ops)
     IN IF op[1] = "lock"
        THEN MayLock(t, op[2]) /\ held' = [held EXCEPT ![op[2]] = Append(@, t)]
        ELSE held' = [held EXCEPT ![op[2]] = Tail(@)]
  /\ stack' = [stack EXCEPT ![t][Len(stack[t])].ops = Tail(@)]
  /\ UNCHANGED <<pending, sent, waiting, calls, validations>>

(* Mutant: one way through the handler returns before it acknowledges. *)
Return_Silent(t) ==
  /\ stack[t] # << >> /\ Top(t).ops = << >>
  /\ stack' = [stack EXCEPT ![t] = SubSeq(@, 1, Len(@) - 1)]
  /\ waiting' = (waiting /\ (Top(t).name # Message \/ Len(stack[t]) > 1))
  /\ UNCHANGED <<held, pending, sent, calls, validations>>

(* A hook returns, or a handler: it has written FINISH_MSG. *)
Return(t) ==
  /\ stack[t] # << >> /\ Top(t).ops = << >>
  /\ stack' = [stack EXCEPT ![t] = SubSeq(@, 1, Len(@) - 1)]
  /\ waiting' = (waiting /\ Top(t).name # Message)
  /\ UNCHANGED <<held, pending, sent, calls, validations>>

Next == \/ \E t \in Threads : \/ \E h \in Hooks : Call(t, h)
                              \/ \E msg \in pending : Deliver(t, msg)
                              \/ Step(t) \/ Return(t)
        \/ Send \/ SendValidate

Spec == Init /\ [][Next]_vars
(* Threads run, and the kernel delivers signals.  Calls and messages are bounded, so nothing
   is assumed about who gets a mutex that several threads want again and again. *)
FairSpec == /\ Spec
            /\ \A t \in Threads : WF_vars(Step(t)) /\ WF_vars(Return(t))
            /\ WF_vars(\E t \in Threads, msg \in pending : Deliver(t, msg))

-----------------------------------------------------------------------------
(* Type invariant. *)
OpType == {"lock", "unlock"} \X Mutexes
TypeOK ==
  /\ \A t \in Threads : \A f \in DOMAIN stack[t] :
       stack[t][f].ops \in Seq(OpType) /\ stack[t][f].name \in STRING
  /\ held \in [Mutexes -> Seq(Threads)] /\ sent \in 0..MaxMessages /\ waiting \in BOOLEAN
  /\ calls \in 0..MaxCalls /\ validations \in 0..MaxValidations

(* The mutex that t waits for cannot be had now. *)
Blocked(t) == /\ stack[t] # << >> /\ Top(t).ops # << >>
              /\ LET op == Head(Top(t).ops) IN op[1] = "lock" /\ ~MayLock(t, op[2])
WaitsFor(t) == Head(Top(t).ops)[2]
Holder(t) == held[WaitsFor(t)][1]

(* A handler runs in t on top of frame f, a hook or a validation on demand that is inside its
   critical section. *)
Interrupted(t, f) ==
  LET g == stack[t][f]
  IN /\ f < Len(stack[t])
     /\ \/ g.name \in Hooks /\ g.ops \notin {<< >>, HookOps(g.name)}
        \/ g.name = "VALIDATE" /\ g.ops \notin {<< >>, HandlerOps("VALIDATE")}

(* Every thread of S waits for a mutex that a thread of S holds: none will ever run on. *)
Circle(S) == S # {} /\ \A t \in S : Blocked(t) /\ Holder(t) \in S

(* A thread of S was interrupted in a critical section.  A thread on its own gets stuck only
   over a std::mutex: it was in no section of g_ipc_hook_mutex alone. *)
InterruptedIn(S) ==
  \E t \in S : \E f \in DOMAIN stack[t] :
    Interrupted(t, f) /\ (S = {t} => stack[t][f].name \notin {"cuMem", "VALIDATE"})

(* The comment at g_ipc_hook_mutex: it must be recursive because "the signal can fire while
   the main thread is inside a hooked cuMem function that already holds the lock".  Threads
   wait in a circle only if a signal interrupted one of them inside the critical section of a
   hook or of a validation on demand.  A single thread never does so inside a hooked cuMem
   function or a validation: that takes a second thread, in cudaMalloc or cudaFree, which holds
   gpu_mem_mutex and waits for g_ipc_hook_mutex while the handler waits for gpu_mem_mutex.
   Signals that arrive between critical sections are safe: hooks and handlers take their
   mutexes in one order. *)
NoCircle == \A S \in SUBSET Threads : Circle(S) => InterruptedIn(S)

(* Every message the coordinator sends is acknowledged and every call of a hook returns,
   unless a signal that interrupted a critical section closed a circle of waiting threads: no
   mutex is left locked, and no signal is lost. *)
Answered ==
  (waiting \/ \E t \in Threads : stack[t] # << >>)
    ~> ((~waiting /\ \A t \in Threads : stack[t] = << >>)
        \/ \E S \in SUBSET Threads : Circle(S) /\ InterruptedIn(S))
=============================================================================
