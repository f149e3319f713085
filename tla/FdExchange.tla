----------------------------- MODULE FdExchange -----------------------------
(***************************************************************************)
(* The import phase of N workers with its sockets: every worker runs a     *)
(* descriptor server (src/ipc_fd_exchange.cpp) in a thread of its own      *)
(* while the handler of IPC_IMPORT_MSG, or gcr_checkpoint_restore_import,  *)
(* fetches descriptors from the others, matches them (IpcMatch) and stops  *)
(* its own server.  A descriptor is named by its buffer.                   *)
(*                                                                         *)
(* A worker has one connection at a time, named by the worker.  The        *)
(* listening socket lives until its descriptor is closed and no accept()   *)
(* is in progress; connections still queued are reset then.                *)
(***************************************************************************)
EXTENDS IpcMatch

CONSTANTS UDS_MAX_FDS, LISTEN_BACKLOG,
          Exporters,       \* workers that share memory
          Circumstances    \* pairs of a fault and whether servers are stopped

(* Both limits are 64: what a block holds of one owner always fits a request, so the
   checks of num_fds never refuse one. *)
ASSUME FdExchangeAssumption ==
  UDS_MAX_FDS \in Nat /\ IPC_MAX_EXPORTS_PER_PROC <= UDS_MAX_FDS /\ LISTEN_BACKLOG \in Nat
  /\ Exporters \subseteq Workers
  /\ Circumstances \subseteq {"none", "export", "start", "fd", "pipe", "full", "map"} \X BOOLEAN

Nobody == -1

VARIABLES
  fault,       \* "none"; "export": one record is not exported again; "start": one server does
               \*   not start; "fd": one descriptor is not open; "pipe": SIGPIPE is not ignored;
               \*   "full": one worker may have no descriptors left; "map": an import fails
  stops,       \* the server is stopped after the import: always by the handler, by the
               \*   adapter only with GCR_STOP_FD_SERVER_AFTER_IMPORT
  closed,      \* buffers whose descriptor is not open at its owner
  full,        \* workers whose table of descriptors may be full
  client,      \* per worker: pc, owners still to be asked, and descriptors that arrived
  server,      \* g_server: running, the listening socket, its queue, thread and connection
  reply        \* what the server side did to the worker's connection: nothing yet, reset it,
               \*   or sent the count, these descriptors, and closed it

fdvars == <<fault, stops, closed, full, client, server, reply>>

Down == [running |-> FALSE, sock |-> FALSE, queue |-> << >>, thread |-> "gone", conn |-> Nobody]
Up   == [running |-> TRUE, sock |-> TRUE, queue |-> << >>, thread |-> "accept", conn |-> Nobody]

Pending   == [state |-> "none", fds |-> {}]
Reset     == [state |-> "reset", fds |-> {}]
Sent(fds) == [state |-> "sent", fds |-> fds]

FdInit == /\ Init
          /\ \E c \in Circumstances : fault = c[1] /\ stops = c[2]
          /\ closed = {} /\ full = {}
          /\ client = [w \in Workers |-> [pc |-> "idle", todo |-> {}, got |-> {}]]
          /\ server = [w \in Workers |-> Down]
          /\ reply = [w \in Workers |-> Pending]

(* The export phase ends with uds_fd_server_start, whose result is ignored. *)
uds_fd_server_start ==
  /\ \E lost \in {{}} \cup (IF fault = "export" THEN {{b} : b \in DOMAIN bufs} ELSE {}) :
       Publish(lost)
  /\ \E failed \in {{}} \cup (IF fault = "start" THEN {{w} : w \in Workers} ELSE {}) :
       server' = [w \in Workers |-> IF w \in failed THEN Down ELSE Up]
  /\ \E shut \in {{}} \cup (IF fault = "fd" THEN {{b} : b \in DOMAIN bufs} ELSE {}) :
       closed' = shut
  /\ \E short \in {{}} \cup (IF fault = "full" THEN {{w} : w \in Workers} ELSE {}) :
       full' = short
  /\ UNCHANGED <<fault, stops, client, reply>>

-----------------------------------------------------------------------------
(* The importing side. *)
Owners(w) == {o \in Workers : Entries(w, o) # {}}
Asked(w)  == CHOOSE o \in client[w].todo : \A v \in client[w].todo : o <= v

(* The coordinator has exchanged the blocks and sends IPC_IMPORT_MSG to all.  From here to
   Match a handler holds g_ipc_hook_mutex. *)
Begin ==
  /\ exchange_ipc_export_info
  /\ client' = [w \in Workers |->
       [pc |-> "fetch", todo |-> Owners(w)', got |-> {}]]
  /\ UNCHANGED <<fault, stops, closed, full, server, reply>>

(* Give up on the owner; the import goes on with the next one. *)
Lose(w) == client' = [client EXCEPT ![w].pc = "fetch", ![w].todo = @ \ {Asked(w)}]

(* Mutant: a full queue is an error, as it is for a non-blocking socket. *)
Connect_NonBlocking(w) ==
  /\ client[w].pc = "fetch" /\ client[w].todo # {}
  /\ LET o == Asked(w)
     IN IF server[o].sock /\ Len(server[o].queue) <= LISTEN_BACKLOG
        THEN /\ server' = [server EXCEPT ![o].queue = Append(@, w)]
             /\ client' = [client EXCEPT ![w].pc = "connected"]
        ELSE Lose(w) /\ UNCHANGED server
  /\ UNCHANGED <<vars, fault, stops, closed, full, reply>>

(* connect() waits while the queue is full, and fails when nobody listens.  No server
   starts in this phase, so the 20 attempts all fail or the first succeeds.  socket() fails
   if w has no descriptor left, and is not tried again. *)
Connect(w) ==
  /\ client[w].pc = "fetch" /\ client[w].todo # {}
  /\ LET o == Asked(w)
     IN \/ /\ server[o].sock /\ Len(server[o].queue) <= LISTEN_BACKLOG
           /\ server' = [server EXCEPT ![o].queue = Append(@, w)]
           /\ client' = [client EXCEPT ![w].pc = "connected"]
        \/ /\ ~server[o].sock \/ w \in full
           /\ Lose(w) /\ UNCHANGED server
  /\ UNCHANGED <<vars, fault, stops, closed, full, reply>>

(* Send the request.  On a connection that was reset this raises SIGPIPE, which ends a
   process that does not ignore it: its sockets are closed with it. *)
Send(w) ==
  /\ client[w].pc = "connected"
  /\ IF reply[w] = Pending
     THEN client' = [client EXCEPT ![w].pc = "sent"] /\ UNCHANGED <<server, reply>>
     ELSE IF fault = "pipe"
     THEN /\ client' = [client EXCEPT ![w].pc = "dead"]
          /\ server' = [server EXCEPT ![w] = Down]
          /\ reply' = [v \in Workers |-> IF v \in {server[w].conn} \cup Range(server[w].queue)
                                         THEN Reset ELSE reply[v]]
     ELSE Lose(w) /\ reply' = [reply EXCEPT ![w] = Pending] /\ UNCHANGED server
  /\ UNCHANGED <<vars, fault, stops, closed, full>>

(* recv_fds: what was sent, or as many of the first as w has descriptors left for ("Expected
   %d fds, got %d"); without SCM_RIGHTS in the answer there are none. *)
recv_fds(w) ==
  LET sent == reply[w].fds
  IN IF w \in full THEN {fds \in SUBSET sent : \A b \in fds, c \in sent : c < b => c \in fds}
                   ELSE {sent}

(* Mutant: the matching is done anew after every answer. *)
Receive_Matching(w) ==
  /\ client[w].pc = "sent" /\ reply[w] # Pending
  /\ \E fds \in recv_fds(w) :
       /\ client' = [client EXCEPT ![w].pc = "fetch", ![w].todo = @ \ {Asked(w)},
                                   ![w].got = @ \cup fds]
       /\ Rebuild(w, client[w].got \cup fds, {})
  /\ reply' = [reply EXCEPT ![w] = Pending]
  /\ UNCHANGED <<fault, stops, closed, full, server>>

(* Receive the count and the descriptors. *)
Receive(w) ==
  /\ client[w].pc = "sent" /\ reply[w] # Pending
  /\ \E fds \in recv_fds(w) :
       client' = [client EXCEPT ![w].pc = "fetch", ![w].todo = @ \ {Asked(w)},
                                ![w].got = @ \cup fds]
  /\ reply' = [reply EXCEPT ![w] = Pending]
  /\ UNCHANGED <<vars, fault, stops, closed, full, server>>

(* uds_fd_server_stop up to the join: close the listening socket.  If the thread is inside
   accept() at that moment the socket lives on until the call returns; if it is about to
   call it, the call fails. *)
uds_fd_server_stop(w) ==
  IF stops /\ server[w].running
  THEN /\ client' = [client EXCEPT ![w].pc = "join"]
       /\ \E lingers \in {FALSE, server[w].thread = "accept"} :
            IF lingers
            THEN server' = [server EXCEPT ![w].running = FALSE] /\ UNCHANGED reply
            ELSE /\ server' = [server EXCEPT ![w].running = FALSE, ![w].sock = FALSE,
                                             ![w].queue = << >>]
                 /\ reply' = [v \in Workers |-> IF v \in Range(server[w].queue)
                                                THEN Reset ELSE reply[v]]
  ELSE client' = [client EXCEPT ![w].pc = "done"] /\ UNCHANGED <<server, reply>>

(* All owners were asked: the matching of IpcMatch with what arrived, then the stop. *)
Match(w) ==
  /\ client[w].pc = "fetch" /\ client[w].todo = {}
  /\ \E failed \in {{}} \cup (IF fault = "map" THEN {{k} : k \in DOMAIN now[w]} ELSE {}) :
       Rebuild(w, client[w].got, failed)
  /\ uds_fd_server_stop(w)
  /\ UNCHANGED <<fault, stops, closed, full>>

(* pthread_join, and the end of the handler. *)
Join(w) ==
  /\ client[w].pc = "join" /\ server[w].thread = "gone"
  /\ client' = [client EXCEPT ![w].pc = "done"]
  /\ UNCHANGED <<vars, fault, stops, closed, full, server, reply>>

-----------------------------------------------------------------------------
(* uds_server_thread.  Its accept() times out every 50 ms and is called again, which
   changes nothing while the server runs; nor does one that fails because no descriptor is
   left. *)
Accept(o) ==
  LET s == server[o]
  IN /\ s.thread = "accept" /\ s.queue # << >>
     /\ IF s.running
        THEN /\ server' = [server EXCEPT ![o].thread = "serve", ![o].conn = Head(s.queue),
                                         ![o].queue = Tail(s.queue)]
             /\ UNCHANGED reply
        ELSE /\ server' = [server EXCEPT ![o].thread = "serve", ![o].conn = Head(s.queue),
                                         ![o].queue = << >>, ![o].sock = FALSE]
             /\ reply' = [v \in Workers |-> IF v \in Range(Tail(s.queue))
                                            THEN Reset ELSE reply[v]]
     /\ UNCHANGED <<vars, fault, stops, closed, full, client>>

AcceptFails(o) ==
  /\ server[o].thread = "accept" /\ ~server[o].running /\ server[o].queue = << >>
  /\ server' = [server EXCEPT ![o].thread = "gone", ![o].sock = FALSE]
  /\ UNCHANGED <<vars, fault, stops, closed, full, client, reply>>

(* Mutant: the descriptors that are open are sent. *)
Answer_Valid(request) == Sent(request \ closed)
(* send_fds: one message with all descriptors that were asked for, open or not; sendmsg
   refuses it as a whole if one is not open.  The count was sent before. *)
Answer(request) == IF request \cap closed = {} THEN Sent(request) ELSE Sent({})

(* Mutant: the thread takes g_ipc_hook_mutex. *)
Serve_Locked(o) ==
  LET c == server[o].conn
      next == [server[o] EXCEPT !.thread = IF server[o].running THEN "accept" ELSE "gone",
                                !.conn = Nobody]
  IN /\ server[o].thread = "serve" /\ client[c].pc = "sent"
     /\ client[o].pc \notin {"fetch", "connected", "sent"}
     /\ server' = [server EXCEPT ![o] = next]
     /\ reply' = [reply EXCEPT ![c] = Answer(Entries(c, o))]
     /\ UNCHANGED <<vars, fault, stops, closed, full, client>>

(* Read the request, answer, close.  recv() has no timeout: it waits for a client that has
   not sent yet.  (A client dies only on a connection that is reset, not on this one.) *)
Serve(o) ==
  LET c == server[o].conn
      next == [server[o] EXCEPT !.thread = IF server[o].running THEN "accept" ELSE "gone",
                                !.conn = Nobody]
  IN /\ server[o].thread = "serve" /\ client[c].pc = "sent"
     /\ server' = [server EXCEPT ![o] = next]
     /\ reply' = [reply EXCEPT ![c] = Answer(Entries(c, o))]
     /\ UNCHANGED <<vars, fault, stops, closed, full, client>>

-----------------------------------------------------------------------------
(* All others import what a worker shares. *)
Sharing == /\ \E w \in Exporters : Share(w, Workers \ {w})
           /\ UNCHANGED fdvars

Handler(w) == Connect(w) \/ Send(w) \/ Receive(w) \/ Match(w) \/ Join(w)
Thread(o)  == Accept(o) \/ AcceptFails(o) \/ Serve(o)

FdNext == \/ Sharing \/ uds_fd_server_start \/ Begin
          \/ \E w \in Workers : Handler(w) \/ Thread(w)

(* The handlers and the server threads of all processes run. *)
FdSpec == /\ FdInit /\ [][FdNext]_<<vars, fdvars>>
          /\ \A w \in Workers : WF_<<vars, fdvars>>(Handler(w)) /\ WF_<<vars, fdvars>>(Thread(w))

-----------------------------------------------------------------------------
(* The exchange implements the import step of IpcMatch: seen from the tables, a worker
   imports once, and of every peer it gets the first few descriptors, without a gap that the
   matching by position would close, in spite of queues, stops, full tables, failing messages
   and deaths. *)
NoGap == Spec

(* A peer's descriptors are lost only for a reason: its server did not start, one of the
   descriptors is not open, the worker that asks has no descriptors left, or the peer has
   stopped its server, after its own import, or died.  Not because two workers ask at once
   or the queue is full. *)
LossExplained ==
  \A w \in Workers : client[w].pc \notin {"idle", "dead"} =>
    \A o \in Owners(w) \ client[w].todo :
      \/ Entries(w, o) \subseteq client[w].got
      \/ fault = "start" /\ server[o] = Down
      \/ Entries(w, o) \cap closed # {} \/ w \in full
      \/ stops /\ client[o].pc \in {"join", "done"}
      \/ client[o].pc = "dead"

(* If the servers stay up (the adapter's default, "keeps it alive for peer restore
   overlap"), nothing fails and the blocks do not overflow, a worker with one peer ends
   with all its imports back, in their places. *)
AllBack ==
  \A w \in Workers :
    /\ client[w].pc = "done" /\ ~stops /\ fault \in {"none", "pipe"} /\ OnePeer(w)
    /\ Cardinality(DOMAIN bufs) <= IPC_MAX_EXPORTS_PER_PROC
    => now[w] = imports[w]

(* Once the blocks are exchanged, everyone gets to the end of the handler or dies: there is
   no cycle of handlers that wait for servers, servers that wait for clients and joins that
   wait for servers.  (A worker's table of descriptors does not stay full: its thread gets
   to accept() in the end.) *)
ImportEnds ==
  (phase = "exchanged") ~> (\A w \in Workers : client[w].pc \in {"done", "dead"})
=============================================================================
