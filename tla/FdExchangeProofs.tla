--------------------------- MODULE FdExchangeProofs ---------------------------
(***************************************************************************)
(* The descriptor exchange for any number of workers, any limits and any   *)
(* circumstances: it implements the import of IpcMatch, and every loss has *)
(* a reason.                                                               *)
(***************************************************************************)
EXTENDS FdExchange, WellFoundedInduction, TLAPS

-----------------------------------------------------------------------------
(* The inductive invariant. *)
Blocks     == UNION {Range(peer_block[w]) : w \in Workers}
ClientType == [pc : {"idle", "fetch", "connected", "sent", "join", "done", "dead"},
               todo : SUBSET Workers, got : SUBSET Blocks]
ServerType == [running : BOOLEAN, sock : BOOLEAN, queue : Seq(Workers),
               thread : {"accept", "serve", "gone"}, conn : Workers \cup {Nobody}]
ReplyType  == {Pending, Reset} \cup {Sent(f) : f \in SUBSET Blocks}

FdTypeOK == /\ phase \in {"run", "published", "exchanged"}
            /\ fault \in {"none", "export", "start", "fd", "pipe", "full", "map"}
            /\ stops \in BOOLEAN
            /\ client \in [Workers -> ClientType] /\ server \in [Workers -> ServerType]
            /\ reply \in [Workers -> ReplyType]

(* Before the blocks are exchanged nobody asks, and nobody is asked. *)
Early(w) == /\ client[w].pc = "idle" /\ client[w].got = {} /\ reply[w] = Pending
            /\ server[w].queue = << >> /\ server[w].conn = Nobody /\ server[w].thread # "serve"

(* Why a server does not answer. *)
Excused(o) == \/ fault = "start" /\ server[o] = Down
              \/ stops /\ client[o].pc \in {"join", "done"}
              \/ client[o].pc = "dead"

(* c has a connection to o that is not closed. *)
Connected(c, o) == /\ client[c].pc \in {"connected", "sent"} /\ Asked(c) = o
                   /\ reply[c] = Pending

(* The server has each connection once, and those that ask can be told apart from those
   that were answered. *)
ServerInv(o) ==
  /\ (server[o].thread = "serve") <=> (server[o].conn # Nobody)
  /\ server[o].conn # Nobody => Connected(server[o].conn, o)
  /\ \A i \in DOMAIN server[o].queue :
       Connected(server[o].queue[i], o) /\ server[o].queue[i] # server[o].conn
  /\ \A i, j \in DOMAIN server[o].queue : server[o].queue[i] = server[o].queue[j] => i = j
  /\ phase # "run" => (server[o].running /\ server[o].sock) \/ Excused(o)

(* An answer is about the owner that was asked, and complete or excused. *)
Answered(w) ==
  /\ reply[w].state = "reset" /\ client[w].pc # "dead" => Excused(Asked(w))
  /\ reply[w].state = "sent" =>
       /\ client[w].pc = "sent"
       /\ \/ reply[w].fds = Entries(w, Asked(w))
          \/ reply[w].fds = {} /\ Entries(w, Asked(w)) \cap closed # {}

(* What arrived is the first few of some owners, and every owner that was asked in vain is
   excused. *)
Whole(w) == \A b \in client[w].got :
              /\ b \in Range(peer_block[w])
              /\ \A c \in Entries(w, bufs[b]) : c < b => c \in client[w].got
Explained(w) ==
  client[w].pc \notin {"idle", "dead"} =>
    \A o \in Owners(w) \ client[w].todo :
      \/ Entries(w, o) \subseteq client[w].got
      \/ Entries(w, o) \cap closed # {}
      \/ Excused(o) \/ w \in full

ClientInv(w) ==
  /\ client[w].pc \in {"connected", "sent"} => client[w].todo # {}
  /\ reply[w] # Pending => client[w].pc \in {"connected", "sent", "dead"}
  /\ w \in rebuilt => client[w].pc \in {"join", "done"}
  /\ Answered(w) /\ Whole(w) /\ Explained(w)

FdInv == /\ FdTypeOK
         /\ phase # "exchanged" => \A w \in Workers : Early(w)
         /\ phase = "exchanged" => \A w \in Workers : client[w].pc # "idle"
         /\ \A w \in Workers : ClientInv(w) /\ ServerInv(w)

-----------------------------------------------------------------------------
(* Of the owners that are left the smallest is asked. *)
LEMMA AskedIn ==
  ASSUME NEW w, client[w].todo \in SUBSET Workers, client[w].todo # {}
  PROVE  Asked(w) \in client[w].todo /\ Asked(w) \in Workers
<1>1. client[w].todo \subseteq Nat
  BY DEF Workers
<1>2. PICK x \in client[w].todo : \A y \in client[w].todo : ~(<<y, x>> \in OpToRel(<, Nat))
  BY <1>1, NatLessThanWellFounded, WFMin, Zenon
<1>3. ASSUME NEW y \in client[w].todo PROVE x <= y
  <2>1. ~(<<y, x>> \in Nat \X Nat /\ <<y, x>>[1] < <<y, x>>[2])
    BY <1>2, Zenon DEF OpToRel
  <2> QED BY <1>1, <2>1
<1>4. \E o \in client[w].todo : \A v \in client[w].todo : o <= v
  BY <1>3
<1> QED BY <1>4 DEF Asked

LEMMA AskedSame ==
  ASSUME NEW w, client'[w].todo = client[w].todo
  PROVE  Asked(w)' = Asked(w)
  BY Zenon DEF Asked

(* The steps once the blocks are exchanged. *)
Frame == UNCHANGED <<phase, bufs, peer_block, fault, stops, closed, full>>

LEMMA FrameKeeps ==
  ASSUME Frame, NEW w
  PROVE  /\ Blocks' = Blocks /\ ClientType' = ClientType /\ ReplyType' = ReplyType
         /\ Owners(w)' = Owners(w) /\ \A o : Entries(w, o)' = Entries(w, o)
<1>1. \A v, o : Entries(v, o)' = Entries(v, o)
  BY Zenon DEF Frame, Entries
<1>2. Blocks' = Blocks
  BY Zenon DEF Frame, Blocks
<1>3. Owners(w)' = Owners(w)
  BY <1>1, Zenon DEF Owners
<1> QED BY <1>1, <1>2, <1>3, Zenon DEF ClientType, ReplyType

(* An excuse lasts. *)
Lasting(o) == /\ client[o].pc \in {"join", "done"} => client'[o].pc \in {"join", "done"}
              /\ client[o].pc = "dead" => client'[o].pc = "dead"
              /\ server[o] = Down => server'[o] = Down

LEMMA ExcuseLasts ==
  ASSUME Frame, NEW o, Lasting(o), Excused(o)
  PROVE  Excused(o)'
  BY DEF Frame, Lasting, Excused

(* A client that makes no step: its connection is as it was, or was reset by a server that
   is excused. *)
LEMMA ClientKept ==
  ASSUME Frame, FdTypeOK, NEW w \in Workers, ClientInv(w), \A o \in Workers : Lasting(o),
         client'[w] = client[w], w \in rebuilt' => w \in rebuilt,
         \/ reply'[w] = reply[w]
         \/ /\ client[w].pc \in {"connected", "sent"} /\ reply[w] = Pending /\ reply'[w] = Reset
            /\ Excused(Asked(w))'
         \/ /\ client[w].pc = "sent" /\ \/ reply'[w] = Sent(Entries(w, Asked(w)))
                                        \/ /\ reply'[w] = Sent({})
                                           /\ Entries(w, Asked(w)) \cap closed # {}
  PROVE  ClientInv(w)'
<1>1. /\ \A o : Entries(w, o)' = Entries(w, o) /\ Owners(w)' = Owners(w)
      /\ Asked(w)' = Asked(w) /\ closed' = closed /\ full' = full /\ bufs' = bufs /\ peer_block' = peer_block
  BY FrameKeeps, AskedSame, Zenon DEF Frame
<1>2. Whole(w)'
  BY <1>1, Zenon DEF ClientInv, Whole
<1>3. Explained(w)'
  <2>1. \A o \in Owners(w) : Excused(o) => Excused(o)'
    BY ExcuseLasts, Zenon DEF Owners
  <2> QED BY <1>1, <2>1, Zenon DEF ClientInv, Explained
<1>4. PICK a : a = Asked(w)
  OBVIOUS
<1>5. client[w].pc \in {"connected", "sent"} => a \in Workers
  BY <1>4, AskedIn DEF ClientInv, FdTypeOK, ClientType
<1>6. Answered(w)' /\ (reply'[w] # Pending => client[w].pc \in {"connected", "sent", "dead"})
  <2>1. CASE reply'[w] = reply[w]
    <3>1. reply[w].state = "reset" => reply[w] # Pending
      BY DEF Pending
    <3>2. reply[w].state = "reset" /\ client[w].pc # "dead" => Excused(a)
      BY <1>4, Zenon DEF ClientInv, Answered
    <3>3. reply[w].state = "reset" /\ client[w].pc # "dead" => Excused(a)'
      BY <1>5, <3>1, <3>2, ExcuseLasts, Zenon DEF ClientInv
    <3> QED BY <1>1, <1>4, <2>1, <3>3, Zenon DEF ClientInv, Answered
  <2>2. CASE /\ client[w].pc \in {"connected", "sent"} /\ reply'[w] = Reset
             /\ Excused(Asked(w))'
    BY <1>1, <2>2 DEF Answered, Reset
  <2>3. CASE /\ client[w].pc = "sent" /\ \/ reply'[w] = Sent(Entries(w, Asked(w)))
                                         \/ /\ reply'[w] = Sent({})
                                            /\ Entries(w, Asked(w)) \cap closed # {}
    BY <1>1, <2>3 DEF Answered, Sent
  <2> QED BY <2>1, <2>2, <2>3
<1> QED BY <1>2, <1>3, <1>6 DEF ClientInv

LEMMA StillConnected ==
  ASSUME NEW c, NEW o, client'[c] = client[c], reply'[c] = reply[c], Connected(c, o)
  PROVE  Connected(c, o)'
  BY AskedSame, Zenon DEF Connected

(* A server that makes no step, and whose clients stay connected. *)
LEMMA ServerKept ==
  ASSUME Frame, FdTypeOK, NEW o \in Workers, ServerInv(o), Lasting(o), server'[o] = server[o],
         \A c \in Workers : Connected(c, o) => Connected(c, o)'
  PROVE  ServerInv(o)'
<1>1. phase' = phase /\ (Excused(o) => Excused(o)')
  BY ExcuseLasts DEF Frame
<1>2. /\ server[o].conn # Nobody => server[o].conn \in Workers
      /\ \A i \in DOMAIN server[o].queue : server[o].queue[i] \in Workers
  BY DEF FdTypeOK, ServerType
<1> QED BY <1>1, <1>2, Zenon DEF ServerInv

(* A client's own step before the matching: the clauses that a step with the same owners
   and descriptors cannot break. *)
LEMMA ClientSame ==
  ASSUME Frame, NEW w \in Workers, ClientInv(w), client[w].pc \notin {"idle", "dead"},
         \A o \in Workers : Lasting(o), client'[w].todo = client[w].todo, client'[w].got = client[w].got
  PROVE  Whole(w)' /\ Explained(w)'
<1>1. /\ \A o : Entries(w, o)' = Entries(w, o) /\ Owners(w)' = Owners(w)
      /\ closed' = closed /\ full' = full /\ bufs' = bufs /\ peer_block' = peer_block
  BY FrameKeeps, Zenon DEF Frame
<1>2. \A o \in Owners(w) : Excused(o) => Excused(o)'
  BY ExcuseLasts, Zenon DEF Owners
<1>3. Whole(w)'
  BY <1>1, Zenon DEF ClientInv, Whole
<1>4. ASSUME NEW o \in Owners(w) \ client[w].todo
      PROVE  \/ Entries(w, o) \subseteq client[w].got \/ Entries(w, o) \cap closed # {}
             \/ Excused(o)' \/ w \in full
  BY <1>2, <1>4 DEF ClientInv, Explained
<1>5. Explained(w)'
  BY <1>1, <1>4 DEF Explained
<1> QED BY <1>3, <1>5

(* The owner that is asked is given up, for an excuse or because no descriptor is left. *)
LEMMA LoseInv ==
  ASSUME Frame, FdTypeOK, NEW w \in Workers, ClientInv(w), client[w].pc \notin {"idle", "dead"},
         \A o \in Workers : Lasting(o), NEW a, a = Asked(w), Excused(a) \/ w \in full,
         client'[w].pc = "fetch", client'[w].todo = client[w].todo \ {a}, client'[w].got = client[w].got,
         reply'[w] = Pending, w \notin rebuilt'
  PROVE  ClientInv(w)'
<1>1. /\ \A o : Entries(w, o)' = Entries(w, o) /\ Owners(w)' = Owners(w)
      /\ closed' = closed /\ full' = full /\ bufs' = bufs /\ peer_block' = peer_block
  BY FrameKeeps, Zenon DEF Frame
<1>2. \A o \in Owners(w) : Excused(o) => Excused(o)'
  BY ExcuseLasts, Zenon DEF Owners
<1>3. Whole(w)'
  BY <1>1, Zenon DEF ClientInv, Whole
<1>4. Explained(w)'
  BY <1>1, <1>2, Zenon DEF ClientInv, Explained
<1>5. Answered(w)'
  BY DEF Answered, Pending
<1> QED BY <1>3, <1>4, <1>5, Zenon DEF ClientInv

LEMMA HeldConnected ==
  ASSUME NEW o \in Workers, ServerInv(o), NEW v \in Workers,
         v \in {server[o].conn} \cup Range(server[o].queue)
  PROVE  Connected(v, o)
<1>1. CASE v = server[o].conn
  <2>1. v # Nobody
    BY DEF Workers, Nobody
  <2> QED BY <1>1, <2>1, Zenon DEF ServerInv
<1>2. CASE v \in Range(server[o].queue)
  <2>1. PICK i \in DOMAIN server[o].queue : v = server[o].queue[i]
    BY <1>2, Zenon DEF Range
  <2> QED BY <2>1, Zenon DEF ServerInv
<1> QED BY <1>1, <1>2

(* The fields of a client and of a server after an assignment. *)
LEMMA ClientFields ==
  ASSUME NEW w \in Workers, client \in [Workers -> ClientType]
  PROVE  client[w] \in ClientType /\ client[w].todo \in SUBSET Workers /\ client[w].got \in SUBSET Blocks
  BY DEF ClientType

LEMMA LostRecord ==
  ASSUME NEW w \in Workers, client \in [Workers -> ClientType], NEW a,
         client' = [client EXCEPT ![w].pc = "fetch", ![w].todo = client[w].todo \ {a}]
  PROVE  /\ client' \in [Workers -> ClientType] /\ client'[w].pc = "fetch"
         /\ client'[w].todo = client[w].todo \ {a} /\ client'[w].got = client[w].got
         /\ \A v \in Workers : v # w => client'[v] = client[v]
<1>1. PICK s \in ClientType : s = client[w]
  OBVIOUS
<1>2. client' = [client EXCEPT ![w] = [s EXCEPT !.pc = "fetch", !.todo = s.todo \ {a}]]
  BY <1>1
<1>3. s.todo \ {a} \in SUBSET Workers
  BY <1>1, ClientFields
<1>4. PICK r : r = [s EXCEPT !.pc = "fetch", !.todo = s.todo \ {a}]
  OBVIOUS
<1>5. r \in ClientType /\ r.pc = "fetch" /\ r.todo = s.todo \ {a} /\ r.got = s.got
  BY <1>3, <1>4 DEF ClientType
<1>6. client' = [client EXCEPT ![w] = r]
  BY <1>2, <1>4, Zenon
<1> QED BY <1>1, <1>5, <1>6

LEMMA ServerRecord ==
  ASSUME NEW s \in ServerType, NEW q \in Seq(Workers)
  PROVE  /\ [s EXCEPT !.queue = q] \in ServerType /\ [s EXCEPT !.queue = q].queue = q
         /\ [s EXCEPT !.queue = q].conn = s.conn /\ [s EXCEPT !.queue = q].thread = s.thread
         /\ [s EXCEPT !.queue = q].sock = s.sock /\ [s EXCEPT !.queue = q].running = s.running
  BY DEF ServerType

-----------------------------------------------------------------------------
(* The steps of the importing side. *)
LEMMA ConnectInd ==
  ASSUME FdInv, NEW w \in Workers, Connect(w)
  PROVE  FdInv'
<1>1. /\ client \in [Workers -> ClientType] /\ server \in [Workers -> ServerType] /\ FdTypeOK
      /\ client[w].pc = "fetch" /\ client[w].todo # {} /\ client[w].todo \in SUBSET Workers
      /\ phase = "exchanged" /\ \A v \in Workers : ClientInv(v) /\ ServerInv(v) /\ client[v].pc # "idle"
  BY DEF FdInv, FdTypeOK, Connect, ClientType, Early
<1>2. PICK a \in Workers : a = Asked(w)
  BY <1>1, AskedIn
<1>3. Frame /\ UNCHANGED <<reply, rebuilt>>
  BY Zenon DEF Connect, Frame, vars
<1>4. reply[w] = Pending /\ w \notin rebuilt /\ \A o : ~Connected(w, o)
  BY <1>1 DEF ClientInv, Connected
<1>5. CASE /\ server[a].sock /\ server' = [server EXCEPT ![a].queue = Append(server[a].queue, w)]
           /\ client' = [client EXCEPT ![w].pc = "connected"]
  <2>1. /\ server' = [server EXCEPT ![a].queue = Append(server[a].queue, w)]
        /\ client' = [client EXCEPT ![w].pc = "connected"]
    BY <1>5
  <2>2. /\ client' \in [Workers -> ClientType] /\ client'[w].pc = "connected"
        /\ client'[w].todo = client[w].todo /\ client'[w].got = client[w].got
        /\ \A v \in Workers : v # w => client'[v] = client[v]
    BY <1>1, <2>1 DEF ClientType
  <2>3. /\ server' \in [Workers -> ServerType] /\ \A v \in Workers : v # a => server'[v] = server[v]
        /\ server'[a].queue = Append(server[a].queue, w) /\ server[a].queue \in Seq(Workers)
        /\ server'[a].conn = server[a].conn /\ server'[a].thread = server[a].thread
        /\ server'[a].sock = server[a].sock /\ server'[a].running = server[a].running
    <3>1. PICK s \in ServerType : s = server[a]
      BY <1>1
    <3>2. PICK q \in Seq(Workers) : q = Append(s.queue, w)
      <4>1. s.queue \in Seq(Workers)
        BY DEF ServerType
      <4>2. Append(s.queue, w) \in Seq(Workers)
        BY <4>1
      <4> QED BY <4>2, Zenon
    <3>3. server' = [server EXCEPT ![a] = [s EXCEPT !.queue = q]]
      BY <1>1, <2>1, <3>1, <3>2
    <3>4. server'[a] = [s EXCEPT !.queue = q] /\ \A v \in Workers : v # a => server'[v] = server[v]
      BY <1>1, <3>3
    <3>5. server' \in [Workers -> ServerType]
      BY <1>1, <3>3, ServerRecord
    <3>6. server[a].queue \in Seq(Workers)
      BY <3>1 DEF ServerType
    <3> QED BY <3>1, <3>2, <3>4, <3>5, <3>6, ServerRecord
  <2>4. \A o \in Workers : Lasting(o)
    <3>1. server[a] # Down
      BY <1>5 DEF Down
    <3> QED BY <1>1, <2>2, <2>3, <3>1 DEF Lasting
  <2>5. FdTypeOK'
    BY <1>1, <1>3, <2>2, <2>3, FrameKeeps, Zenon DEF FdTypeOK, Frame
  <2>6. ClientInv(w)'
    <3>1. Whole(w)' /\ Explained(w)'
      BY <1>1, <1>3, <2>2, <2>4, ClientSame
    <3>2. Answered(w)'
      BY <1>3, <1>4 DEF Answered, Pending
    <3> QED BY <1>1, <1>3, <1>4, <2>2, <3>1, <3>2 DEF ClientInv
  <2>7. \A v \in Workers : v # w => ClientInv(v)'
    BY <1>1, <1>3, <2>2, <2>4, ClientKept
  <2>8. \A c, o \in Workers : Connected(c, o) => Connected(c, o)'
    BY <1>3, <1>4, <2>2, StillConnected, Zenon
  <2>9. \A v \in Workers : v # a => ServerInv(v)'
    BY <1>1, <1>3, <2>3, <2>4, <2>8, ServerKept
  <2>10. ServerInv(a)'
    <3>1. Connected(w, a)'
      BY <1>2, <1>3, <1>4, <2>2, AskedSame DEF Connected
    <3>2. /\ server[a].conn # Nobody => server[a].conn \in Workers
          /\ \A i \in DOMAIN server[a].queue : server[a].queue[i] \in Workers
      BY <1>1 DEF ServerType
    <3>3. \A i \in DOMAIN server[a].queue : server[a].queue[i] # w
      BY <1>1, <1>4 DEF ServerInv
    <3>4. server[a].conn # w
      <4>1. w # Nobody
        BY DEF Workers, Nobody
      <4> QED BY <1>1, <1>4, <4>1, Zenon DEF ServerInv
    <3>5. PICK q \in Seq(Workers) : q = server[a].queue
      BY <2>3
    <3>6. PICK r : r = server'[a].queue
      OBVIOUS
    <3>7. /\ DOMAIN r = DOMAIN q \cup {Len(q) + 1} /\ r[Len(q) + 1] = w
          /\ \A i \in DOMAIN q : r[i] = q[i]
      BY <2>3, <3>5, <3>6
    <3>8. \A i \in DOMAIN r : Connected(r[i], a)' /\ r[i] # server[a].conn
      <4>1. \A i \in DOMAIN q : Connected(q[i], a) /\ q[i] # server[a].conn /\ q[i] \in Workers
        BY <1>1, <3>2, <3>5, Zenon DEF ServerInv
      <4> QED BY <2>8, <3>1, <3>4, <3>7, <4>1, Zenon
    <3>9. \A i, j \in DOMAIN r : r[i] = r[j] => i = j
      <4>1. \A i, j \in DOMAIN q : q[i] = q[j] => i = j
        BY <1>1, <3>5, Zenon DEF ServerInv
      <4> QED BY <3>3, <3>5, <3>7, <4>1, Zenon
    <3>10. server'[a].conn # Nobody => Connected(server[a].conn, a)'
      BY <1>1, <2>3, <2>8, <3>2, Zenon DEF ServerInv
    <3>11. phase' # "run" => (server'[a].running /\ server'[a].sock) \/ Excused(a)'
      BY <1>1, <1>3, <1>5, <2>3, <2>4, ExcuseLasts DEF ServerInv, Frame
    <3> QED BY <1>1, <2>3, <3>6, <3>8, <3>9, <3>10, <3>11, Zenon DEF ServerInv
  <2> QED BY <1>1, <1>3, <2>2, <2>5, <2>6, <2>7, <2>9, <2>10 DEF FdInv, Frame
<1>6. CASE /\ ~server[a].sock \/ w \in full
           /\ UNCHANGED server /\ Lose(w)
  <2>1. UNCHANGED server /\ client' = [client EXCEPT ![w].pc = "fetch", ![w].todo = client[w].todo \ {a}]
    BY <1>2, <1>6 DEF Lose
  <2>2. /\ client' \in [Workers -> ClientType] /\ client'[w].pc = "fetch"
        /\ client'[w].todo = client[w].todo \ {a} /\ client'[w].got = client[w].got
        /\ \A v \in Workers : v # w => client'[v] = client[v]
    BY <1>1, <2>1, LostRecord, Zenon
  <2>3. Excused(a) \/ w \in full
    BY <1>1, <1>6 DEF ServerInv
  <2>4. \A o \in Workers : Lasting(o)
    BY <1>1, <2>1, <2>2 DEF Lasting
  <2>5. FdTypeOK'
    BY <1>1, <1>3, <2>1, <2>2, FrameKeeps, Zenon DEF FdTypeOK, Frame
  <2>6. ClientInv(w)'
    BY <1>1, <1>2, <1>3, <1>4, <2>2, <2>3, <2>4, LoseInv
  <2>7. \A v \in Workers : v # w => ClientInv(v)'
    BY <1>1, <1>3, <2>2, <2>4, ClientKept
  <2>8. \A c, o \in Workers : Connected(c, o) => Connected(c, o)'
    BY <1>3, <1>4, <2>2, StillConnected, Zenon
  <2>9. \A v \in Workers : ServerInv(v)'
    BY <1>1, <1>3, <2>1, <2>4, <2>8, ServerKept
  <2> QED BY <1>1, <1>3, <2>2, <2>5, <2>6, <2>7, <2>9 DEF FdInv, Frame
<1> QED BY <1>2, <1>5, <1>6, Zenon DEF Connect

LEMMA SendInd ==
  ASSUME FdInv, NEW w \in Workers, Send(w)
  PROVE  FdInv'
<1>1. /\ client \in [Workers -> ClientType] /\ server \in [Workers -> ServerType] /\ FdTypeOK
      /\ reply \in [Workers -> ReplyType]
      /\ client[w].pc = "connected" /\ client[w].todo # {} /\ client[w].todo \in SUBSET Workers
      /\ phase = "exchanged" /\ \A v \in Workers : ClientInv(v) /\ ServerInv(v) /\ client[v].pc # "idle"
  BY DEF FdInv, FdTypeOK, Send, ClientType, Early, ClientInv
<1>2. PICK a \in Workers : a = Asked(w)
  BY <1>1, AskedIn
<1>3. Frame /\ UNCHANGED rebuilt /\ w \notin rebuilt
  <2>1. Frame /\ UNCHANGED rebuilt
    BY Zenon DEF Send, Frame, vars
  <2> QED BY <1>1, <2>1 DEF ClientInv
<1>4. CASE reply[w] = Pending
  <2>1. client' = [client EXCEPT ![w].pc = "sent"] /\ UNCHANGED <<server, reply>>
    BY <1>4, Zenon DEF Send
  <2>2. /\ client' \in [Workers -> ClientType] /\ client'[w].pc = "sent"
        /\ client'[w].todo = client[w].todo /\ client'[w].got = client[w].got
        /\ \A v \in Workers : v # w => client'[v] = client[v]
    BY <1>1, <2>1 DEF ClientType
  <2>3. \A o \in Workers : Lasting(o)
    BY <1>1, <2>1, <2>2 DEF Lasting
  <2>4. FdTypeOK'
    BY <1>1, <1>3, <2>1, <2>2, FrameKeeps, Zenon DEF FdTypeOK, Frame
  <2>5. ClientInv(w)'
    <3>1. Whole(w)' /\ Explained(w)'
      BY <1>1, <1>3, <2>2, <2>3, ClientSame
    <3>2. Answered(w)'
      BY <1>4, <2>1 DEF Answered, Pending
    <3> QED BY <1>1, <1>3, <1>4, <2>1, <2>2, <3>1, <3>2 DEF ClientInv
  <2>6. \A v \in Workers : v # w => ClientInv(v)'
    BY <1>1, <1>3, <2>1, <2>2, <2>3, ClientKept
  <2>7. \A c, o \in Workers : Connected(c, o) => Connected(c, o)'
    <3>1. \A o \in Workers : Connected(w, o) => Connected(w, o)'
      BY <1>4, <2>1, <2>2, AskedSame DEF Connected
    <3> QED BY <2>1, <2>2, <3>1, StillConnected, Zenon
  <2>8. \A v \in Workers : ServerInv(v)'
    BY <1>1, <1>3, <2>1, <2>3, <2>7, ServerKept
  <2> QED BY <1>1, <1>3, <2>2, <2>4, <2>5, <2>6, <2>8 DEF FdInv, Frame
<1>5. reply[w] # Pending => \A o : ~Connected(w, o)
  BY DEF Connected
<1>6. reply[w] # Pending => reply[w].state = "reset" /\ Excused(a)
  <2>1. reply[w] # Pending => reply[w].state \in {"reset", "sent"}
    BY <1>1 DEF ReplyType, Reset, Sent
  <2> QED BY <1>1, <1>2, <2>1, Zenon DEF ClientInv, Answered
<1>7. CASE reply[w] # Pending /\ fault = "pipe"
  <2>1. /\ client' = [client EXCEPT ![w].pc = "dead"] /\ server' = [server EXCEPT ![w] = Down]
        /\ reply' = [v \in Workers |-> IF v \in {server[w].conn} \cup Range(server[w].queue)
                                       THEN Reset ELSE reply[v]]
    BY <1>7, Zenon DEF Send
  <2>2. /\ client' \in [Workers -> ClientType] /\ client'[w].pc = "dead"
        /\ client'[w].todo = client[w].todo /\ client'[w].got = client[w].got
        /\ \A v \in Workers : v # w => client'[v] = client[v]
    BY <1>1, <2>1 DEF ClientType
  <2>3. /\ server' \in [Workers -> ServerType] /\ server'[w] = Down
        /\ \A v \in Workers : v # w => server'[v] = server[v]
    <3>1. Down \in ServerType
      BY DEF Down, ServerType
    <3> QED BY <1>1, <2>1, <3>1
  <2>4. \A o \in Workers : Lasting(o)
    BY <1>1, <2>2, <2>3 DEF Lasting
  <2>5. \A v \in Workers : \/ reply'[v] = Reset /\ Connected(v, w)
                           \/ reply'[v] = reply[v]
    <3>1. \A v \in Workers : v \in {server[w].conn} \cup Range(server[w].queue) => Connected(v, w)
      BY <1>1, HeldConnected, Zenon
    <3> QED BY <2>1, <3>1
  <2>6. FdTypeOK'
    <3>1. reply' \in [Workers -> ReplyType]
      BY <1>1, <2>1 DEF ReplyType
    <3> QED BY <1>1, <1>3, <2>2, <2>3, <3>1, FrameKeeps, Zenon DEF FdTypeOK, Frame
  <2>7. reply'[w] = reply[w]
    BY <1>5, <1>7, <2>5
  <2>8. ClientInv(w)'
    <3>1. Whole(w)'
      BY <1>1, <1>3, <2>2, <2>4, ClientSame
    <3>2. Answered(w)'
      BY <1>6, <1>7, <2>2, <2>7 DEF Answered
    <3> QED BY <1>3, <2>2, <3>1, <3>2 DEF ClientInv, Explained
  <2>9. Excused(w)'
    BY <2>2 DEF Excused
  <2>10. ASSUME NEW v \in Workers, v # w PROVE ClientInv(v)'
    <3>1. Connected(v, w) => Excused(Asked(v))'
      BY <2>2, <2>9, <2>10, AskedSame, Zenon DEF Connected
    <3>2. \/ reply'[v] = reply[v]
          \/ /\ client[v].pc \in {"connected", "sent"} /\ reply[v] = Pending /\ reply'[v] = Reset
             /\ Excused(Asked(v))'
      BY <2>5, <3>1 DEF Connected
    <3> QED BY <1>1, <1>3, <2>2, <2>4, <2>10, <3>2, ClientKept
  <2>11. \A o \in Workers : o # w => ServerInv(o)'
    <3>1. ASSUME NEW o \in Workers, o # w, NEW c \in Workers, Connected(c, o) PROVE Connected(c, o)'
      <4>1. c # w /\ ~Connected(c, w)
        BY <1>5, <1>7, <3>1 DEF Connected
      <4> QED BY <2>2, <2>5, <3>1, <4>1, StillConnected
    <3> QED BY <1>1, <1>3, <2>3, <2>4, <3>1, ServerKept
  <2>12. ServerInv(w)'
    BY <2>3, <2>9 DEF ServerInv, Down
  <2> QED BY <1>1, <1>3, <2>2, <2>6, <2>8, <2>10, <2>11, <2>12 DEF FdInv, Frame
<1>8. CASE reply[w] # Pending /\ fault # "pipe"
  <2>1. /\ client' = [client EXCEPT ![w].pc = "fetch", ![w].todo = client[w].todo \ {a}]
        /\ reply' = [reply EXCEPT ![w] = Pending] /\ UNCHANGED server
    BY <1>2, <1>8 DEF Send, Lose
  <2>2. /\ client' \in [Workers -> ClientType] /\ client'[w].pc = "fetch"
        /\ client'[w].todo = client[w].todo \ {a} /\ client'[w].got = client[w].got
        /\ \A v \in Workers : v # w => client'[v] = client[v]
    BY <1>1, <2>1, LostRecord, Zenon
  <2>3. \A o \in Workers : Lasting(o)
    BY <1>1, <2>1, <2>2 DEF Lasting
  <2>4. /\ reply' \in [Workers -> ReplyType] /\ reply'[w] = Pending
        /\ \A v \in Workers : v # w => reply'[v] = reply[v]
    BY <1>1, <2>1 DEF ReplyType
  <2>5. FdTypeOK'
    BY <1>1, <1>3, <2>1, <2>2, <2>4, FrameKeeps, Zenon DEF FdTypeOK, Frame
  <2>6. ClientInv(w)'
    BY <1>1, <1>2, <1>3, <1>6, <1>8, <2>2, <2>3, <2>4, LoseInv
  <2>7. \A v \in Workers : v # w => ClientInv(v)'
    BY <1>1, <1>3, <2>2, <2>3, <2>4, ClientKept
  <2>8. \A c, o \in Workers : Connected(c, o) => Connected(c, o)'
    BY <1>5, <1>8, <2>2, <2>4, StillConnected, Zenon
  <2>9. \A v \in Workers : ServerInv(v)'
    BY <1>1, <1>3, <2>1, <2>3, <2>8, ServerKept
  <2> QED BY <1>1, <1>3, <2>2, <2>5, <2>6, <2>7, <2>9 DEF FdInv, Frame
<1> QED BY <1>4, <1>7, <1>8

LEMMA ReceiveInd ==
  ASSUME FdInv, NEW w \in Workers, Receive(w)
  PROVE  FdInv'
<1>1. /\ client \in [Workers -> ClientType] /\ server \in [Workers -> ServerType] /\ FdTypeOK
      /\ reply \in [Workers -> ReplyType] /\ reply[w] # Pending
      /\ client[w].pc = "sent" /\ client[w].todo # {} /\ client[w].todo \in SUBSET Workers
      /\ phase = "exchanged" /\ \A v \in Workers : ClientInv(v) /\ ServerInv(v) /\ client[v].pc # "idle"
  BY DEF FdInv, FdTypeOK, Receive, ClientType, Early, ClientInv
<1>2. PICK a \in Workers : a = Asked(w)
  BY <1>1, AskedIn
<1>3. Frame /\ UNCHANGED <<rebuilt, server>> /\ w \notin rebuilt
  <2>1. Frame /\ UNCHANGED <<rebuilt, server>>
    BY Zenon DEF Receive, Frame, vars
  <2> QED BY <1>1, <2>1 DEF ClientInv
<1>4. PICK f \in recv_fds(w) :
            client' = [client EXCEPT ![w].pc = "fetch", ![w].todo = client[w].todo \ {a},
                                     ![w].got = client[w].got \cup f]
  BY <1>2 DEF Receive
<1>5. /\ f \in SUBSET Blocks /\ f \subseteq Entries(w, a)
      /\ \A b \in f, c \in Entries(w, a) : c < b => c \in f
      /\ \/ Entries(w, a) \subseteq f \/ Entries(w, a) \cap closed # {}
         \/ Excused(a) \/ w \in full
  <2>1. PICK g : g = reply[w].fds
    OBVIOUS
  <2>2. /\ reply[w].state \in {"reset", "sent"} /\ g \in SUBSET Blocks
        /\ reply[w].state = "reset" => g = {}
    BY <1>1, <2>1 DEF ReplyType, Reset, Sent
  <2>3. /\ g = {} \/ g = Entries(w, a)
        /\ g = {} => Entries(w, a) = {} \/ Entries(w, a) \cap closed # {} \/ Excused(a)
    BY <1>1, <1>2, <2>1, <2>2 DEF ClientInv, Answered
  <2>4. /\ f \subseteq g /\ \A b \in f, c \in g : c < b => c \in f
        /\ w \in full \/ f = g
    BY <2>1, Zenon DEF recv_fds
  <2> QED BY <2>2, <2>3, <2>4
<1>6. reply' = [reply EXCEPT ![w] = Pending]
  BY DEF Receive
<1>7. /\ client' \in [Workers -> ClientType] /\ client'[w].pc = "fetch"
      /\ client'[w].todo = client[w].todo \ {a} /\ client'[w].got = client[w].got \cup f
      /\ \A v \in Workers : v # w => client'[v] = client[v]
  <2>1. PICK s \in ClientType : s = client[w]
    BY <1>1
  <2>2. client' = [client EXCEPT ![w] = [s EXCEPT !.pc = "fetch", !.todo = s.todo \ {a},
                                                  !.got = s.got \cup f]]
    BY <1>1, <1>4, <2>1
  <2>3. s.todo \ {a} \in SUBSET Workers /\ s.got \cup f \in SUBSET Blocks
    BY <1>1, <1>5, <2>1, ClientFields
  <2>4. PICK r : r = [s EXCEPT !.pc = "fetch", !.todo = s.todo \ {a}, !.got = s.got \cup f]
    OBVIOUS
  <2>5. r \in ClientType /\ r.pc = "fetch" /\ r.todo = s.todo \ {a} /\ r.got = s.got \cup f
    BY <2>3, <2>4 DEF ClientType
  <2>6. client' = [client EXCEPT ![w] = r]
    BY <2>2, <2>4, Zenon
  <2> QED BY <1>1, <2>1, <2>5, <2>6
<1>8. \A o \in Workers : Lasting(o)
  BY <1>1, <1>3, <1>7 DEF Lasting
<1>9. /\ reply' \in [Workers -> ReplyType] /\ reply'[w] = Pending
      /\ \A v \in Workers : v # w => reply'[v] = reply[v]
  BY <1>1, <1>6 DEF ReplyType
<1>10. FdTypeOK'
  BY <1>1, <1>3, <1>7, <1>9, FrameKeeps, Zenon DEF FdTypeOK, Frame
<1>11. ClientInv(w)'
  <2>1. /\ \A o : Entries(w, o)' = Entries(w, o)
        /\ Owners(w)' = Owners(w)
        /\ closed' = closed /\ full' = full /\ bufs' = bufs /\ peer_block' = peer_block
    BY <1>3, FrameKeeps, Zenon DEF Frame
  <2>2. \A o \in Owners(w) : Excused(o) => Excused(o)'
    BY <1>3, <1>8, ExcuseLasts, Zenon DEF Owners
  <2>3. Whole(w)'
    <3>1. ASSUME NEW b \in client[w].got \cup f
          PROVE  /\ b \in Range(peer_block[w])
                 /\ \A c \in Entries(w, bufs[b]) : c < b => c \in client[w].got \cup f
      <4>1. CASE b \in client[w].got
        BY <1>1, <4>1, Zenon DEF ClientInv, Whole
      <4>2. CASE b \in f
        <5>1. b \in Range(peer_block[w]) /\ bufs[b] = a
          BY <1>5, <4>2 DEF Entries
        <5> QED BY <1>5, <4>2, <5>1, Zenon
      <4> QED BY <4>1, <4>2
    <3>2. \A b : Entries(w, bufs[b])' = Entries(w, bufs[b])
      BY <2>1, Zenon DEF Entries
    <3> QED BY <1>7, <2>1, <3>1, <3>2 DEF Whole
  <2>4. ASSUME NEW o \in Owners(w) \ client'[w].todo
        PROVE  \/ Entries(w, o) \subseteq client'[w].got
               \/ Entries(w, o) \cap closed # {}
               \/ Excused(o)' \/ w \in full
    <3>1. CASE o = a
      BY <1>5, <1>7, <2>2, <2>4, <3>1
    <3>2. CASE o # a
      BY <1>1, <1>7, <2>2, <2>4, <3>2 DEF ClientInv, Explained
    <3> QED BY <3>1, <3>2
  <2>5. Explained(w)'
    BY <2>1, <2>4 DEF Explained
  <2>6. Answered(w)'
    BY <1>9 DEF Answered, Pending
  <2> QED BY <1>3, <1>7, <1>9, <2>3, <2>5, <2>6, Zenon DEF ClientInv
<1>12. \A v \in Workers : v # w => ClientInv(v)'
  BY <1>1, <1>3, <1>7, <1>8, <1>9, ClientKept
<1>13. \A c, o \in Workers : Connected(c, o) => Connected(c, o)'
  <2>1. \A o \in Workers : ~Connected(w, o)
    BY <1>1, Zenon DEF Connected
  <2> QED BY <1>7, <1>9, <2>1, StillConnected, Zenon
<1>14. \A v \in Workers : ServerInv(v)'
  BY <1>1, <1>3, <1>8, <1>13, ServerKept
<1> QED BY <1>1, <1>3, <1>7, <1>10, <1>11, <1>12, <1>14 DEF FdInv, Frame

(* A client that is through: only its pc changes, and it has no connection. *)
LEMMA ThroughInv ==
  ASSUME Frame, NEW w \in Workers, ClientInv(w), client[w].pc \in {"fetch", "join"},
         \A o \in Workers : Lasting(o), client'[w].todo = client[w].todo, client'[w].got = client[w].got,
         client'[w].pc \in {"join", "done"}, reply'[w] = reply[w]
  PROVE  ClientInv(w)'
<1>1. Whole(w)' /\ Explained(w)'
  BY ClientSame
<1>2. reply[w] = Pending
  BY DEF ClientInv
<1>3. Answered(w)'
  BY <1>2 DEF Answered, Pending
<1> QED BY <1>1, <1>2, <1>3 DEF ClientInv

LEMMA JoinInd ==
  ASSUME FdInv, NEW w \in Workers, Join(w)
  PROVE  FdInv'
<1>1. /\ client \in [Workers -> ClientType] /\ server \in [Workers -> ServerType] /\ FdTypeOK
      /\ client[w].pc = "join"
      /\ phase = "exchanged" /\ \A v \in Workers : ClientInv(v) /\ ServerInv(v) /\ client[v].pc # "idle"
  BY DEF FdInv, FdTypeOK, Join, Early
<1>2. Frame /\ UNCHANGED <<rebuilt, server, reply>> /\ client' = [client EXCEPT ![w].pc = "done"]
  BY Zenon DEF Join, Frame, vars
<1>3. /\ client' \in [Workers -> ClientType] /\ client'[w].pc = "done"
      /\ client'[w].todo = client[w].todo /\ client'[w].got = client[w].got
      /\ \A v \in Workers : v # w => client'[v] = client[v]
  BY <1>1, <1>2 DEF ClientType
<1>4. \A o \in Workers : Lasting(o)
  BY <1>1, <1>2, <1>3 DEF Lasting
<1>5. FdTypeOK'
  BY <1>1, <1>2, <1>3, FrameKeeps, Zenon DEF FdTypeOK, Frame
<1>6. ClientInv(w)'
  BY <1>1, <1>2, <1>3, <1>4, ThroughInv
<1>7. \A v \in Workers : v # w => ClientInv(v)'
  BY <1>1, <1>2, <1>3, <1>4, ClientKept
<1>8. \A c, o \in Workers : Connected(c, o) => Connected(c, o)'
  <2>1. \A o \in Workers : ~Connected(w, o)
    BY <1>1 DEF Connected
  <2> QED BY <1>2, <1>3, <2>1, StillConnected, Zenon
<1>9. \A v \in Workers : ServerInv(v)'
  BY <1>1, <1>2, <1>4, <1>8, ServerKept
<1> QED BY <1>1, <1>2, <1>3, <1>5, <1>6, <1>7, <1>9 DEF FdInv, Frame

(* A server whose socket ends resets the connections S that are queued. *)
LEMMA ResetKept ==
  ASSUME Frame, FdTypeOK, NEW o \in Workers, \A v \in Workers : Lasting(v),
         NEW S, S # {} => Excused(o)',
         \A v \in Workers : v \in S => Connected(v, o),
         reply' = [v \in Workers |-> IF v \in S THEN Reset ELSE reply[v]]
  PROVE  /\ reply' \in [Workers -> ReplyType]
         /\ \A v \in Workers : v \notin S => reply'[v] = reply[v]
         /\ \A v \in Workers : /\ ClientInv(v) /\ client'[v] = client[v]
                               /\ v \in rebuilt' => v \in rebuilt
                               => ClientInv(v)'
<1>1. reply' \in [Workers -> ReplyType]
  BY DEF ReplyType, FdTypeOK
<1>2. ASSUME NEW v \in Workers, ClientInv(v), client'[v] = client[v], v \in rebuilt' => v \in rebuilt
      PROVE  ClientInv(v)'
  <2>1. v \in S => Excused(Asked(v))'
    BY <1>2, AskedSame, Zenon DEF Connected
  <2>2. \/ reply'[v] = reply[v]
        \/ /\ client[v].pc \in {"connected", "sent"} /\ reply[v] = Pending /\ reply'[v] = Reset
           /\ Excused(Asked(v))'
    BY <2>1 DEF Connected
  <2> QED BY <1>2, <2>2, ClientKept
<1>3. \A v \in Workers : v \notin S => reply'[v] = reply[v]
  OBVIOUS
<1> QED BY <1>1, <1>2, <1>3, Zenon

LEMMA MatchInd ==
  ASSUME FdInv, NEW w \in Workers, Match(w)
  PROVE  FdInv'
<1>1. /\ client \in [Workers -> ClientType] /\ server \in [Workers -> ServerType] /\ FdTypeOK
      /\ reply \in [Workers -> ReplyType] /\ client[w].pc = "fetch"
      /\ phase = "exchanged" /\ \A v \in Workers : ClientInv(v) /\ ServerInv(v) /\ client[v].pc # "idle"
  BY DEF FdInv, FdTypeOK, Match, Early
<1>2. /\ Frame /\ rebuilt' = rebuilt \cup {w} /\ uds_fd_server_stop(w)
      /\ \A v \in Workers : v # w /\ v \in rebuilt' => v \in rebuilt
  <2>1. Frame /\ rebuilt' = rebuilt \cup {w} /\ uds_fd_server_stop(w)
    BY Zenon DEF Match, Rebuild, Frame
  <2> QED BY <2>1
<1>3. \A o \in Workers : ~Connected(w, o)
  BY <1>1 DEF Connected
<1>4. PICK p \in {"join", "done"} : /\ client' = [client EXCEPT ![w].pc = p]
                                    /\ stops /\ server[w].running => p = "join"
  BY <1>2, Zenon DEF uds_fd_server_stop
<1>5. /\ client' \in [Workers -> ClientType] /\ client'[w].pc = p
      /\ client'[w].todo = client[w].todo /\ client'[w].got = client[w].got
      /\ \A v \in Workers : v # w => client'[v] = client[v]
  <2>1. PICK s \in ClientType : s = client[w]
    BY <1>1
  <2>2. PICK r : r = [s EXCEPT !.pc = p]
    OBVIOUS
  <2>3. r \in ClientType /\ r.pc = p /\ r.todo = s.todo /\ r.got = s.got
    <3>1. CASE p = "join"
      BY <2>2, <3>1 DEF ClientType
    <3>2. CASE p = "done"
      BY <2>2, <3>2 DEF ClientType
    <3> QED BY <3>1, <3>2
  <2>4. client' = [client EXCEPT ![w].pc = p]
    BY <1>4, Zenon
  <2>5. client' = [client EXCEPT ![w] = r]
    BY <1>1, <2>1, <2>2, <2>4
  <2> QED BY <1>1, <2>1, <2>3, <2>5
<1>6. CASE UNCHANGED <<server, reply>>
  <2>1. \A o \in Workers : Lasting(o)
    BY <1>1, <1>5, <1>6 DEF Lasting
  <2>2. FdTypeOK'
    BY <1>1, <1>2, <1>5, <1>6, FrameKeeps, Zenon DEF FdTypeOK, Frame
  <2>3. ClientInv(w)'
    BY <1>1, <1>2, <1>5, <1>6, <2>1, ThroughInv
  <2>4. \A v \in Workers : v # w => ClientInv(v)'
    BY <1>1, <1>2, <1>5, <1>6, <2>1, ClientKept
  <2>5. \A c, o \in Workers : Connected(c, o) => Connected(c, o)'
    BY <1>3, <1>5, <1>6, StillConnected, Zenon
  <2>6. \A v \in Workers : ServerInv(v)'
    BY <1>1, <1>2, <1>6, <2>1, <2>5, ServerKept
  <2> QED BY <1>1, <1>2, <1>5, <2>2, <2>3, <2>4, <2>6 DEF FdInv, Frame
<1>7. CASE stops /\ server[w].running
  <2>1. PICK s \in ServerType : s = server[w]
    BY <1>1
  <2>2. PICK r, S : /\ \/ r = [s EXCEPT !.running = FALSE] /\ S = {}
                       \/ /\ r = [s EXCEPT !.running = FALSE, !.sock = FALSE, !.queue = << >>]
                          /\ S = Range(s.queue)
                    /\ server' = [server EXCEPT ![w] = r]
                    /\ reply' = [v \in Workers |-> IF v \in S THEN Reset ELSE reply[v]]
    <3>1. PICK lingers \in {FALSE, server[w].thread = "accept"} :
            IF lingers
            THEN server' = [server EXCEPT ![w].running = FALSE] /\ UNCHANGED reply
            ELSE /\ server' = [server EXCEPT ![w].running = FALSE, ![w].sock = FALSE,
                                             ![w].queue = << >>]
                 /\ reply' = [v \in Workers |-> IF v \in Range(server[w].queue)
                                                THEN Reset ELSE reply[v]]
      BY <1>2, <1>7, Zenon DEF uds_fd_server_stop
    <3>2. CASE lingers
      <4>1. PICK r : r = [s EXCEPT !.running = FALSE]
        OBVIOUS
      <4>2. PICK S : S = {}
        OBVIOUS
      <4>3. server' = [server EXCEPT ![w] = r]
        BY <1>1, <2>1, <3>1, <3>2, <4>1
      <4>4. reply' = [v \in Workers |-> IF v \in S THEN Reset ELSE reply[v]]
        BY <1>1, <3>1, <3>2, <4>2
      <4> QED BY <4>1, <4>2, <4>3, <4>4, Zenon
    <3>3. CASE ~lingers
      <4>1. server' = [server EXCEPT ![w] = [s EXCEPT !.running = FALSE, !.sock = FALSE, !.queue = << >>]]
        BY <1>1, <2>1, <3>1, <3>3
      <4>2. reply' = [v \in Workers |-> IF v \in Range(s.queue) THEN Reset ELSE reply[v]]
        BY <2>1, <3>1, <3>3, Zenon
      <4> QED BY <4>1, <4>2, Zenon
    <3> QED BY <3>2, <3>3
  <2>3. /\ r \in ServerType /\ r.thread = s.thread /\ r.conn = s.conn
        /\ r.queue = << >> \/ (r.queue = s.queue /\ S = {})
        /\ S \subseteq Range(s.queue)
    <3>1. CASE r = [s EXCEPT !.running = FALSE] /\ S = {}
      BY <3>1 DEF ServerType
    <3>2. CASE /\ r = [s EXCEPT !.running = FALSE, !.sock = FALSE, !.queue = << >>]
               /\ S = Range(s.queue)
      <4>1. r \in ServerType /\ r.thread = s.thread /\ r.conn = s.conn /\ r.queue = << >>
        <5>1. << >> \in Seq(Workers)
          OBVIOUS
        <5> QED BY <3>2, <5>1 DEF ServerType
      <4> QED BY <3>2, <4>1
    <3> QED BY <2>2, <3>1, <3>2
  <2>4. /\ server' \in [Workers -> ServerType] /\ server'[w] = r
        /\ \A v \in Workers : v # w => server'[v] = server[v]
    BY <1>1, <2>2, <2>3
  <2>5. \A o \in Workers : Lasting(o)
    <3>1. server[w] # Down
      BY <1>7 DEF Down
    <3> QED BY <1>1, <1>5, <2>4, <3>1 DEF Lasting
  <2>6. Excused(w)'
    BY <1>2, <1>4, <1>5, <1>7 DEF Excused, Frame
  <2>7. \A v \in Workers : v \in S => Connected(v, w)
    BY <1>1, <2>1, <2>3, HeldConnected, Zenon
  <2>8. /\ reply' \in [Workers -> ReplyType]
        /\ \A v \in Workers : v \notin S => reply'[v] = reply[v]
        /\ \A v \in Workers : v # w => ClientInv(v)'
    BY <1>1, <1>2, <1>5, <2>2, <2>5, <2>6, <2>7, ResetKept, Zenon
  <2>9. FdTypeOK'
    BY <1>1, <1>2, <1>5, <2>4, <2>8, FrameKeeps, Zenon DEF FdTypeOK, Frame
  <2>10. ClientInv(w)'
    <3>1. reply'[w] = reply[w]
      BY <1>3, <2>7, <2>8, Zenon
    <3> QED BY <1>1, <1>2, <1>5, <2>5, <3>1, ThroughInv
  <2>11. \A c, o \in Workers : Connected(c, o) /\ c \notin S => Connected(c, o)'
    BY <1>3, <1>5, <2>8, StillConnected, Zenon
  <2>12. \A o \in Workers : o # w => ServerInv(o)'
    <3>1. ASSUME NEW o \in Workers, o # w PROVE \A c \in Workers : Connected(c, o) => Connected(c, o)'
      BY <2>7, <2>11, <3>1 DEF Connected
    <3> QED BY <1>1, <1>2, <2>4, <2>5, <3>1, ServerKept
  <2>13. ServerInv(w)'
    <3>1. /\ s.conn # Nobody => s.conn \in Workers
          /\ \A i \in DOMAIN s.queue : s.queue[i] \in Workers
      BY DEF ServerType
    <3>2. s.conn # Nobody => Connected(s.conn, w)'
      <4>1. s.conn # Nobody => Connected(s.conn, w)
        BY <1>1, <2>1, Zenon DEF ServerInv
      <4>2. s.conn \notin S
        BY <1>1, <2>1, <2>3, Zenon DEF ServerInv, Range
      <4> QED BY <2>11, <3>1, <4>1, <4>2, Zenon
    <3>3. CASE r.queue = << >>
      <4>1. DOMAIN r.queue = {}
        BY <3>3
      <4> QED BY <1>1, <2>1, <2>3, <2>4, <2>6, <3>2, <4>1, Zenon DEF ServerInv
    <3>4. CASE r.queue = s.queue /\ S = {}
      <4>1. \A i \in DOMAIN s.queue : Connected(s.queue[i], w)'
        BY <1>1, <2>1, <2>11, <3>1, <3>4 DEF ServerInv
      <4>2. server'[w].queue = server[w].queue /\ server'[w].conn = server[w].conn
            /\ server'[w].thread = server[w].thread
        BY <2>1, <2>3, <2>4, <3>4
      <4> QED BY <1>1, <2>1, <2>6, <3>2, <4>1, <4>2, Zenon DEF ServerInv
    <3> QED BY <2>3, <3>3, <3>4
  <2> QED BY <1>1, <1>2, <1>4, <1>5, <2>8, <2>9, <2>10, <2>12, <2>13 DEF FdInv, Frame
<1> QED
  <2>1. UNCHANGED <<server, reply>> \/ (stops /\ server[w].running)
    BY <1>2, Zenon DEF uds_fd_server_stop
  <2> QED BY <1>6, <1>7, <2>1

-----------------------------------------------------------------------------
(* The steps of the server threads. *)
LEMMA AcceptInd ==
  ASSUME FdInv, NEW o \in Workers, Accept(o)
  PROVE  FdInv'
<1>1. /\ client \in [Workers -> ClientType] /\ server \in [Workers -> ServerType] /\ FdTypeOK
      /\ reply \in [Workers -> ReplyType] /\ server[o].thread = "accept" /\ server[o].queue # << >>
      /\ phase = "exchanged" /\ \A v \in Workers : ClientInv(v) /\ ServerInv(v) /\ client[v].pc # "idle"
  BY DEF FdInv, FdTypeOK, Accept, Early
<1>2. Frame /\ UNCHANGED <<rebuilt, client>>
  BY Zenon DEF Accept, Frame, vars
<1>3. PICK s \in ServerType : s = server[o]
  BY <1>1
<1>4. PICK q \in Seq(Workers) : q = s.queue
  <2>1. s.queue \in Seq(Workers)
    BY DEF ServerType
  <2> QED BY <2>1, Zenon
<1>5. PICK h \in Workers, t \in Seq(Workers) :
        /\ h = Head(q) /\ t = Tail(q) /\ 1 \in DOMAIN q /\ h = q[1]
        /\ \A i \in DOMAIN t : i + 1 \in DOMAIN q /\ t[i] = q[i + 1] /\ i # 0 /\ i + 1 # 1
        /\ \A i, j \in DOMAIN t : i + 1 = j + 1 => i = j
  <2>1. q # << >>
    BY <1>1, <1>3, <1>4, Zenon
  <2>2. /\ Head(q) \in Workers /\ Tail(q) \in Seq(Workers) /\ 1 \in DOMAIN q /\ Head(q) = q[1]
    BY <2>1
  <2>3. \A i \in DOMAIN Tail(q) : i \in Nat \ {0} /\ i + 1 \in DOMAIN q /\ Tail(q)[i] = q[i + 1]
    BY <2>1
  <2>4. \A i \in DOMAIN Tail(q) : i # 0 /\ i + 1 # 1
    BY <2>3
  <2>5. \A i, j \in DOMAIN Tail(q) : i + 1 = j + 1 => i = j
    BY <2>3
  <2> QED BY <2>2, <2>3, <2>4, <2>5, Zenon
<1>6. /\ s.conn = Nobody /\ h # Nobody
      /\ \A i \in DOMAIN q : Connected(q[i], o)
      /\ \A i, j \in DOMAIN q : q[i] = q[j] => i = j
      /\ (s.running /\ s.sock) \/ Excused(o)
  <2>1. h # Nobody
    BY DEF Workers, Nobody
  <2> QED BY <1>1, <1>3, <1>4, <2>1 DEF ServerInv
<1>7. /\ \A i \in DOMAIN t : Connected(t[i], o) /\ t[i] # h /\ t[i] \in Workers
      /\ \A i, j \in DOMAIN t : t[i] = t[j] => i = j
  <2>1. \A i \in DOMAIN t : t[i] \in Workers
    OBVIOUS
  <2>2. ASSUME NEW i \in DOMAIN t PROVE Connected(t[i], o) /\ t[i] # h
    <3>1. PICK k \in DOMAIN q : k = i + 1 /\ k # 1 /\ t[i] = q[k]
      BY <1>5, Zenon
    <3>2. q[k] # q[1]
      BY <1>5, <1>6, <3>1, Zenon
    <3> QED BY <1>5, <1>6, <3>1, <3>2, Zenon
  <2>3. ASSUME NEW i \in DOMAIN t, NEW j \in DOMAIN t, t[i] = t[j] PROVE i = j
    <3>1. i + 1 \in DOMAIN q /\ j + 1 \in DOMAIN q /\ q[i + 1] = q[j + 1]
      BY <1>5, <2>3
    <3>2. i + 1 = j + 1
      BY <1>6, <3>1, Zenon
    <3> QED BY <1>5, <2>3, <3>2, Zenon
  <2> QED BY <2>1, <2>2, <2>3
<1>8. PICK r, S : /\ \/ /\ r = [s EXCEPT !.thread = "serve", !.conn = h, !.queue = t]
                        /\ S = {}
                     \/ /\ r = [s EXCEPT !.thread = "serve", !.conn = h, !.queue = << >>, !.sock = FALSE]
                        /\ S = Range(t) /\ ~s.running
                  /\ server' = [server EXCEPT ![o] = r]
                  /\ reply' = [v \in Workers |-> IF v \in S THEN Reset ELSE reply[v]]
  <2>1. CASE s.running
    <3>1. PICK r : r = [s EXCEPT !.thread = "serve", !.conn = h, !.queue = t]
      OBVIOUS
    <3>2. PICK S : S = {}
      OBVIOUS
    <3>3. server' = [server EXCEPT ![o] = r] /\ reply' = reply
      <4>1. /\ server' = [server EXCEPT ![o].thread = "serve", ![o].conn = h, ![o].queue = t]
            /\ reply' = reply
        BY <1>3, <1>4, <1>5, <2>1, Zenon DEF Accept
      <4> QED BY <1>1, <1>3, <3>1, <4>1
    <3>4. reply' = [v \in Workers |-> IF v \in S THEN Reset ELSE reply[v]]
      BY <1>1, <3>2, <3>3
    <3> QED BY <3>1, <3>2, <3>3, <3>4, Zenon
  <2>2. CASE ~s.running
    <3>1. PICK r : r = [s EXCEPT !.thread = "serve", !.conn = h, !.queue = << >>, !.sock = FALSE]
      OBVIOUS
    <3>2. PICK S : S = Range(t)
      OBVIOUS
    <3>3. server' = [server EXCEPT ![o] = r]
      <4>1. server' = [server EXCEPT ![o].thread = "serve", ![o].conn = h, ![o].queue = << >>,
                                     ![o].sock = FALSE]
        BY <1>3, <1>4, <1>5, <2>2, Zenon DEF Accept
      <4> QED BY <1>1, <1>3, <3>1, <4>1
    <3>4. reply' = [v \in Workers |-> IF v \in S THEN Reset ELSE reply[v]]
      BY <1>3, <1>4, <1>5, <2>2, <3>2, Zenon DEF Accept
    <3> QED BY <2>2, <3>1, <3>2, <3>3, <3>4, Zenon
  <2> QED BY <2>1, <2>2
<1>9. /\ r \in ServerType /\ r.thread = "serve" /\ r.conn = h /\ r.running = s.running
      /\ S \subseteq Range(t) /\ (S # {} => ~s.running)
      /\ \/ r.queue = << >> /\ ~s.running
         \/ r.queue = t /\ S = {} /\ r.sock = s.sock
  <2>1. CASE r = [s EXCEPT !.thread = "serve", !.conn = h, !.queue = t] /\ S = {}
    <3>1. /\ r \in ServerType /\ r.thread = "serve" /\ r.conn = h /\ r.running = s.running
          /\ r.queue = t /\ r.sock = s.sock
      BY <2>1 DEF ServerType
    <3> QED BY <2>1, <3>1
  <2>2. CASE /\ r = [s EXCEPT !.thread = "serve", !.conn = h, !.queue = << >>, !.sock = FALSE]
             /\ S = Range(t) /\ ~s.running
    <3>1. << >> \in Seq(Workers)
      OBVIOUS
    <3>2. /\ r \in ServerType /\ r.thread = "serve" /\ r.conn = h /\ r.running = s.running
          /\ r.queue = << >>
      BY <2>2, <3>1 DEF ServerType
    <3> QED BY <2>2, <3>2
  <2> QED BY <1>8, <2>1, <2>2
<1>10. /\ server' \in [Workers -> ServerType] /\ server'[o] = r
       /\ \A v \in Workers : v # o => server'[v] = server[v]
  BY <1>1, <1>8, <1>9
<1>11. \A v \in Workers : Lasting(v)
  <2>1. server[o] # Down
    BY <1>1 DEF Down
  <2> QED BY <1>1, <1>2, <1>10, <2>1 DEF Lasting
<1>12. Excused(o) => Excused(o)'
  BY <1>2, <1>11, ExcuseLasts
<1>13. \A v \in Workers : v \in S => Connected(v, o) /\ v # h
  <2>1. ASSUME NEW v \in Range(t) PROVE Connected(v, o) /\ v # h
    <3>1. PICK i \in DOMAIN t : v = t[i]
      BY <2>1, Zenon DEF Range
    <3> QED BY <1>7, <3>1, Zenon
  <2> QED BY <1>9, <2>1
<1>14. /\ reply' \in [Workers -> ReplyType]
       /\ \A v \in Workers : v \notin S => reply'[v] = reply[v]
       /\ \A v \in Workers : ClientInv(v)'
  <2>1. S # {} => Excused(o)'
    BY <1>6, <1>9, <1>12, Zenon
  <2> QED BY <1>1, <1>2, <1>8, <1>11, <1>13, <2>1, ResetKept, Zenon
<1>15. FdTypeOK'
  BY <1>1, <1>2, <1>10, <1>14, FrameKeeps, Zenon DEF FdTypeOK, Frame
<1>16. \A c, v \in Workers : Connected(c, v) /\ c \notin S => Connected(c, v)'
  BY <1>2, <1>14, StillConnected, Zenon
<1>17. \A v \in Workers : v # o => ServerInv(v)'
  <2>1. ASSUME NEW v \in Workers, v # o PROVE \A c \in Workers : Connected(c, v) => Connected(c, v)'
    BY <1>13, <1>16, <2>1 DEF Connected
  <2> QED BY <1>1, <1>2, <1>10, <1>11, <2>1, ServerKept
<1>18. ServerInv(o)'
  <2>1. Connected(h, o)'
    <3>1. Connected(h, o)
      BY <1>5, <1>6, Zenon
    <3> QED BY <1>13, <1>16, <3>1, Zenon
  <2>2. (server'[o].running /\ server'[o].sock) \/ Excused(o)'
    BY <1>6, <1>9, <1>10, <1>12, Zenon
  <2>3. CASE r.queue = << >>
    <3>1. DOMAIN r.queue = {}
      BY <2>3
    <3> QED BY <1>6, <1>9, <1>10, <2>1, <2>2, <3>1, Zenon DEF ServerInv
  <2>4. CASE r.queue = t /\ S = {}
    <3>1. \A i \in DOMAIN t : Connected(t[i], o)'
      BY <1>7, <1>16, <2>4
    <3>2. server'[o].queue = t /\ server'[o].conn = h /\ server'[o].thread = "serve"
      BY <1>9, <1>10, <2>4
    <3> QED BY <1>6, <1>7, <2>1, <2>2, <3>1, <3>2, Zenon DEF ServerInv
  <2> QED BY <1>9, <2>3, <2>4
<1> QED BY <1>1, <1>2, <1>14, <1>15, <1>17, <1>18 DEF FdInv, Frame

LEMMA AcceptFailsInd ==
  ASSUME FdInv, NEW o \in Workers, AcceptFails(o)
  PROVE  FdInv'
<1>1. /\ client \in [Workers -> ClientType] /\ server \in [Workers -> ServerType] /\ FdTypeOK
      /\ reply \in [Workers -> ReplyType] /\ server[o].thread = "accept" /\ server[o].queue = << >>
      /\ ~server[o].running /\ \A v \in Workers : ClientInv(v) /\ ServerInv(v)
  BY DEF FdInv, FdTypeOK, AcceptFails
<1>2. Frame /\ UNCHANGED <<rebuilt, client, reply>>
  BY Zenon DEF AcceptFails, Frame, vars
<1>3. PICK s \in ServerType : s = server[o]
  BY <1>1
<1>4. PICK r : r = [s EXCEPT !.thread = "gone", !.sock = FALSE]
  OBVIOUS
<1>5. /\ r \in ServerType /\ r.thread = "gone" /\ r.conn = s.conn /\ r.queue = s.queue
      /\ r.running = s.running
  BY <1>4 DEF ServerType
<1>6. server' = [server EXCEPT ![o] = r]
  <2>1. server' = [server EXCEPT ![o].thread = "gone", ![o].sock = FALSE]
    BY DEF AcceptFails
  <2> QED BY <1>1, <1>3, <1>4, <2>1
<1>7. /\ server' \in [Workers -> ServerType] /\ server'[o] = r
      /\ \A v \in Workers : v # o => server'[v] = server[v]
  BY <1>1, <1>5, <1>6
<1>8. \A v \in Workers : Lasting(v)
  <2>1. server[o] # Down
    BY <1>1 DEF Down
  <2> QED BY <1>1, <1>2, <1>7, <2>1 DEF Lasting
<1>9. FdTypeOK'
  BY <1>1, <1>2, <1>7, FrameKeeps, Zenon DEF FdTypeOK, Frame
<1>10. \A v \in Workers : ClientInv(v)'
  BY <1>1, <1>2, <1>8, ClientKept
<1>11. \A c, v \in Workers : Connected(c, v) => Connected(c, v)'
  BY <1>2, StillConnected, Zenon
<1>12. \A v \in Workers : v # o => ServerInv(v)'
  BY <1>1, <1>2, <1>7, <1>8, <1>11, ServerKept
<1>13. ServerInv(o)'
  <2>1. DOMAIN server'[o].queue = {}
    BY <1>1, <1>3, <1>5, <1>7
  <2>2. server'[o].conn = Nobody /\ server'[o].thread = "gone"
    BY <1>1, <1>3, <1>5, <1>7 DEF ServerInv
  <2>3. phase' # "run" => Excused(o)'
    BY <1>1, <1>2, <1>8, ExcuseLasts DEF ServerInv, Frame
  <2> QED BY <2>1, <2>2, <2>3 DEF ServerInv
<1>14. Early(o) => Early(o)'
  BY <1>1, <1>2, <1>3, <1>5, <1>7 DEF Early
<1>15. \A v \in Workers : v # o /\ Early(v) => Early(v)'
  BY <1>2, <1>7, Zenon DEF Early
<1> QED BY <1>2, <1>9, <1>10, <1>12, <1>13, <1>14, <1>15, Zenon DEF FdInv, Frame

LEMMA ServeInd ==
  ASSUME FdInv, NEW o \in Workers, Serve(o)
  PROVE  FdInv'
<1>1. /\ client \in [Workers -> ClientType] /\ server \in [Workers -> ServerType] /\ FdTypeOK
      /\ reply \in [Workers -> ReplyType] /\ server[o].thread = "serve" /\ phase = "exchanged"
      /\ \A v \in Workers : ClientInv(v) /\ ServerInv(v) /\ client[v].pc # "idle"
  BY DEF FdInv, FdTypeOK, Serve, Early
<1>2. Frame /\ UNCHANGED <<rebuilt, client>>
  BY Zenon DEF Serve, Frame, vars
<1>3. PICK s \in ServerType : s = server[o]
  BY <1>1
<1>4. PICK c \in Workers : c = s.conn /\ Connected(c, o)
  <2>1. s.conn \in Workers /\ Connected(server[o].conn, o)
    BY <1>1, <1>3 DEF ServerInv, ServerType
  <2> QED BY <1>3, <2>1, Zenon
<1>5. PICK n \in {"accept", "gone"} : n = IF server[o].running THEN "accept" ELSE "gone"
  OBVIOUS
<1>6. PICK r : r = [s EXCEPT !.thread = n, !.conn = Nobody]
  OBVIOUS
<1>7. /\ r \in ServerType /\ r.thread = n /\ r.conn = Nobody /\ r.queue = s.queue
      /\ r.running = s.running /\ r.sock = s.sock
  <2>1. CASE n = "accept"
    BY <1>6, <2>1 DEF ServerType
  <2>2. CASE n = "gone"
    BY <1>6, <2>2 DEF ServerType
  <2> QED BY <2>1, <2>2
<1>8. PICK f : f = Entries(c, o)
  OBVIOUS
<1>9. /\ server' = [server EXCEPT ![o] = r] /\ client[c].pc = "sent"
      /\ reply' = [reply EXCEPT ![c] = Answer(f)]
  BY <1>3, <1>4, <1>5, <1>6, <1>8, Zenon DEF Serve
<1>10. /\ server' \in [Workers -> ServerType] /\ server'[o] = r
       /\ \A v \in Workers : v # o => server'[v] = server[v]
  BY <1>1, <1>7, <1>9
<1>11. f \in SUBSET Blocks
  BY <1>8 DEF Entries, Blocks
<1>12. \/ Answer(f) = Sent(f)
       \/ Answer(f) = Sent({}) /\ f \cap closed # {}
  BY Zenon DEF Answer
<1>13. /\ reply' \in [Workers -> ReplyType] /\ reply'[c] = Answer(f)
       /\ \A v \in Workers : v # c => reply'[v] = reply[v]
  <2>1. Answer(f) \in ReplyType
    BY <1>11, <1>12 DEF ReplyType
  <2> QED BY <1>1, <1>9, <2>1
<1>14. \A v \in Workers : Lasting(v)
  <2>1. server[o] # Down
    BY <1>1 DEF Down
  <2> QED BY <1>1, <1>2, <1>10, <2>1 DEF Lasting
<1>15. FdTypeOK'
  BY <1>1, <1>2, <1>10, <1>13, FrameKeeps, Zenon DEF FdTypeOK, Frame
<1>16. ClientInv(c)'
  <2>1. Asked(c) = o
    BY <1>4, Zenon DEF Connected
  <2>2. \/ reply'[c] = Sent(Entries(c, Asked(c)))
        \/ reply'[c] = Sent({}) /\ Entries(c, Asked(c)) \cap closed # {}
    BY <1>8, <1>12, <1>13, <2>1, Zenon
  <2> QED BY <1>1, <1>2, <1>9, <1>14, <2>2, ClientKept
<1>17. \A v \in Workers : v # c => ClientInv(v)'
  BY <1>1, <1>2, <1>13, <1>14, ClientKept
<1>18. \A d, v \in Workers : d # c /\ Connected(d, v) => Connected(d, v)'
  BY <1>2, <1>13, StillConnected, Zenon
<1>19. \A v \in Workers : v # o => ServerInv(v)'
  <2>1. ASSUME NEW v \in Workers, v # o PROVE \A d \in Workers : Connected(d, v) => Connected(d, v)'
    BY <1>4, <1>18, <2>1, Zenon DEF Connected
  <2> QED BY <1>1, <1>2, <1>10, <1>14, <2>1, ServerKept
<1>20. ServerInv(o)'
  <2>1. \A i \in DOMAIN s.queue : s.queue[i] \in Workers
    BY DEF ServerType
  <2>2. /\ \A i \in DOMAIN s.queue : Connected(s.queue[i], o) /\ s.queue[i] # c
        /\ \A i, j \in DOMAIN s.queue : s.queue[i] = s.queue[j] => i = j
        /\ (s.running /\ s.sock) \/ Excused(o)
    BY <1>1, <1>3, <1>4 DEF ServerInv
  <2>3. \A i \in DOMAIN s.queue : Connected(s.queue[i], o)' /\ s.queue[i] # Nobody
    <3>1. Nobody \notin Workers
      BY DEF Workers, Nobody
    <3> QED BY <1>18, <2>1, <2>2, <3>1, Zenon
  <2>4. Excused(o) => Excused(o)'
    BY <1>2, <1>14, ExcuseLasts
  <2>5. /\ server'[o].queue = s.queue /\ server'[o].conn = Nobody /\ server'[o].thread # "serve"
        /\ server'[o].running = s.running /\ server'[o].sock = s.sock
    BY <1>7, <1>10
  <2> QED BY <2>2, <2>3, <2>4, <2>5, Zenon DEF ServerInv
<1> QED BY <1>1, <1>2, <1>15, <1>16, <1>17, <1>19, <1>20 DEF FdInv, Frame

-----------------------------------------------------------------------------
(* The steps before the blocks are exchanged. *)
LEMMA EarlyClient ==
  ASSUME NEW w, Early(w)', w \notin rebuilt'
  PROVE  ClientInv(w)'
  BY DEF Early, ClientInv, Answered, Whole, Explained, Pending

LEMMA EarlyServer ==
  ASSUME NEW w, server'[w].queue = << >>, server'[w].conn = Nobody, server'[w].thread # "serve",
         phase' # "run" => (server'[w].running /\ server'[w].sock) \/ Excused(w)'
  PROVE  ServerInv(w)'
<1>1. DOMAIN server'[w].queue = {}
  OBVIOUS
<1> QED BY <1>1, Zenon DEF ServerInv

LEMMA EarlyFacts ==
  ASSUME FdInv, phase # "exchanged"
  PROVE  FdTypeOK /\ \A w \in Workers : Early(w) /\ ServerInv(w) /\ w \notin rebuilt
  BY DEF FdInv, ClientInv, Early

LEMMA SharingInd ==
  ASSUME FdInv, Sharing
  PROVE  FdInv'
<1>1. /\ phase = "run" /\ UNCHANGED fdvars
      /\ phase' = phase /\ peer_block' = peer_block /\ rebuilt' = rebuilt
  BY Zenon DEF Sharing, Share
<1>2. FdTypeOK /\ \A w \in Workers : Early(w) /\ ServerInv(w) /\ w \notin rebuilt
  BY <1>1, EarlyFacts
<1>3. Blocks' = Blocks
  BY <1>1, Zenon DEF Blocks
<1>4. FdTypeOK'
  BY <1>1, <1>2, <1>3, Zenon DEF FdTypeOK, ClientType, ReplyType, fdvars
<1>5. \A w \in Workers : Early(w)'
  BY <1>1, <1>2, Zenon DEF Early, fdvars
<1>6. \A w \in Workers : ClientInv(w)'
  BY <1>1, <1>2, <1>5, EarlyClient, Zenon
<1>7. \A w \in Workers : ServerInv(w)'
  <2>1. phase' = "run"
    BY <1>1
  <2> QED BY <1>5, <2>1, EarlyServer, Zenon DEF Early
<1> QED BY <1>1, <1>4, <1>5, <1>6, <1>7 DEF FdInv

LEMMA StartInd ==
  ASSUME FdInv, uds_fd_server_start
  PROVE  FdInv'
<1>1. /\ phase = "run" /\ phase' = "published" /\ peer_block' = peer_block /\ rebuilt' = rebuilt
      /\ UNCHANGED <<fault, stops, client, reply>>
  BY Zenon DEF uds_fd_server_start, Publish
<1>2. FdTypeOK /\ \A w \in Workers : Early(w) /\ ServerInv(w) /\ w \notin rebuilt
  BY <1>1, EarlyFacts
<1>3. Blocks' = Blocks
  BY <1>1, Zenon DEF Blocks
<1>4. PICK failed : /\ failed # {} => fault = "start"
                    /\ server' = [w \in Workers |-> IF w \in failed THEN Down ELSE Up]
  BY DEF uds_fd_server_start
<1>5. server' \in [Workers -> ServerType]
  <2>1. Down \in ServerType /\ Up \in ServerType
    BY DEF Down, Up, ServerType
  <2> QED BY <1>4, <2>1
<1>6. FdTypeOK'
  BY <1>1, <1>2, <1>3, <1>5, Zenon DEF FdTypeOK, ClientType, ReplyType
<1>7. ASSUME NEW w \in Workers
      PROVE  /\ server'[w].queue = << >> /\ server'[w].conn = Nobody /\ server'[w].thread # "serve"
             /\ (server'[w].running /\ server'[w].sock) \/ Excused(w)'
  <2>1. CASE server'[w] = Up
    BY <2>1 DEF Up
  <2>2. CASE server'[w] = Down /\ fault = "start"
    BY <1>1, <2>2 DEF Down, Excused
  <2> QED BY <1>4, <2>1, <2>2
<1>8. \A w \in Workers : Early(w)'
  BY <1>1, <1>2, <1>7, Zenon DEF Early
<1>9. \A w \in Workers : ClientInv(w)'
  BY <1>1, <1>2, <1>8, EarlyClient, Zenon
<1>10. \A w \in Workers : ServerInv(w)'
  BY <1>7, EarlyServer, Zenon
<1> QED BY <1>1, <1>6, <1>8, <1>9, <1>10 DEF FdInv

LEMMA BeginInd ==
  ASSUME FdInv, Begin
  PROVE  FdInv'
<1>1. /\ phase = "published" /\ phase' = "exchanged" /\ rebuilt' = rebuilt
      /\ UNCHANGED <<fault, stops, closed, full, server, reply>>
  BY Zenon DEF Begin, exchange_ipc_export_info
<1>2. FdTypeOK /\ \A w \in Workers : Early(w) /\ ServerInv(w) /\ w \notin rebuilt
  BY <1>1, EarlyFacts
<1>3. client' = [w \in Workers |-> [pc |-> "fetch", todo |-> Owners(w)', got |-> {}]]
  BY Zenon DEF Begin
<1>4. \A w \in Workers : client'[w].pc = "fetch" /\ client'[w].todo = Owners(w)' /\ client'[w].got = {}
  BY <1>3
<1>5. client' \in [Workers -> ClientType']
  <2>1. \A w \in Workers : Owners(w)' \in SUBSET Workers
    BY DEF Owners
  <2>2. \A w \in Workers : [pc |-> "fetch", todo |-> Owners(w)', got |-> {}] \in ClientType'
    BY <2>1 DEF ClientType
  <2> QED BY <1>3, <2>2
<1>6. reply' \in [Workers -> ReplyType']
  <2>1. \A w \in Workers : reply'[w] \in ReplyType'
    BY <1>1, <1>2 DEF Early, ReplyType
  <2> QED BY <1>1, <1>2, <2>1 DEF FdTypeOK
<1>7. FdTypeOK'
  BY <1>1, <1>2, <1>5, <1>6, Zenon DEF FdTypeOK
<1>8. ASSUME NEW w \in Workers PROVE ClientInv(w)'
  <2>1. reply'[w] = Pending
    BY <1>1, <1>2, Zenon DEF Early
  <2>2. Answered(w)'
    BY <2>1 DEF Answered, Pending
  <2>3. Whole(w)' /\ Explained(w)'
    BY <1>4 DEF Whole, Explained
  <2> QED BY <1>1, <1>2, <1>4, <2>1, <2>2, <2>3 DEF ClientInv
<1>9. ASSUME NEW w \in Workers PROVE ServerInv(w)'
  <2>1. (server[w].running /\ server[w].sock) \/ (fault = "start" /\ server[w] = Down)
    BY <1>1, <1>2 DEF Early, ServerInv, Excused
  <2>2. (server'[w].running /\ server'[w].sock) \/ Excused(w)'
    BY <1>1, <2>1 DEF Excused
  <2> QED BY <1>1, <1>2, <2>2, EarlyServer, Zenon DEF Early
<1> QED BY <1>1, <1>4, <1>7, <1>8, <1>9 DEF FdInv

LEMMA FdInitInd ==
  ASSUME FdInit
  PROVE  FdInv
<1>1. /\ phase = "run" /\ rebuilt = {}
      /\ client = [w \in Workers |-> [pc |-> "idle", todo |-> {}, got |-> {}]]
      /\ server = [w \in Workers |-> Down] /\ reply = [w \in Workers |-> Pending]
  BY DEF FdInit, Init
<1>2. fault \in {"none", "export", "start", "fd", "pipe", "full", "map"} /\ stops \in BOOLEAN
  BY FdExchangeAssumption DEF FdInit
<1>3. /\ client \in [Workers -> ClientType] /\ server \in [Workers -> ServerType]
      /\ reply \in [Workers -> ReplyType]
  BY <1>1 DEF ClientType, ServerType, ReplyType, Down
<1>4. \A w \in Workers : Early(w)
  BY <1>1 DEF Early, Down
<1>5. \A w \in Workers : ClientInv(w)
  BY <1>1, <1>4 DEF ClientInv, Early, Answered, Whole, Explained, Pending
<1>6. ASSUME NEW w \in Workers PROVE ServerInv(w)
  <2>1. /\ server[w].queue = << >> /\ server[w].conn = Nobody /\ server[w].thread # "serve"
    BY <1>4, Zenon DEF Early
  <2>2. DOMAIN server[w].queue = {}
    BY <2>1
  <2> QED BY <1>1, <2>1, <2>2, Zenon DEF ServerInv
<1> QED BY <1>1, <1>2, <1>3, <1>4, <1>5, <1>6 DEF FdInv, FdTypeOK

LEMMA FdNextInd ==
  ASSUME FdInv, [FdNext]_<<vars, fdvars>>
  PROVE  FdInv'
<1>1. CASE UNCHANGED <<vars, fdvars>>
  <2>1. /\ Frame /\ UNCHANGED <<client, server, reply, rebuilt>>
    BY <1>1, Zenon DEF vars, fdvars, Frame
  <2>2. \A w \in Workers : Lasting(w)
    BY <2>1 DEF Lasting
  <2>3. FdTypeOK'
    BY <2>1, FrameKeeps, Zenon DEF FdInv, FdTypeOK, Frame
  <2>4. \A w \in Workers : ClientInv(w)'
    BY <2>1, <2>2, ClientKept DEF FdInv
  <2>5. \A w \in Workers : ServerInv(w)'
    BY <2>1, <2>2, ServerKept, StillConnected DEF FdInv
  <2> QED BY <2>1, <2>3, <2>4, <2>5, Zenon DEF FdInv, Frame, Early
<1>2. CASE FdNext
  <2>1. ASSUME NEW w \in Workers, Handler(w) PROVE FdInv'
    BY <2>1, ConnectInd, SendInd, ReceiveInd, MatchInd, JoinInd, Zenon DEF Handler
  <2>2. ASSUME NEW w \in Workers, Thread(w) PROVE FdInv'
    BY <2>2, AcceptInd, AcceptFailsInd, ServeInd, Zenon DEF Thread
  <2> QED BY <1>2, <2>1, <2>2, SharingInd, StartInd, BeginInd, Zenon DEF FdNext
<1> QED BY <1>1, <1>2

-----------------------------------------------------------------------------
(* The invariant holds in every reachable state. *)
THEOREM FdInvariant == FdSpec => []FdInv
<1>1. FdInit => FdInv
  BY FdInitInd
<1>2. FdInv /\ [FdNext]_<<vars, fdvars>> => FdInv'
  BY FdNextInd
<1> QED BY <1>1, <1>2, PTL DEF FdSpec

(* What uds_fd_fetch and the server thread lose has a reason, whoever asks whom and when. *)
THEOREM LossesExplained == FdSpec => []LossExplained
<1>1. FdInv => LossExplained
  <2> SUFFICES ASSUME FdInv, NEW w \in Workers, client[w].pc \notin {"idle", "dead"},
                      NEW o \in Owners(w) \ client[w].todo
               PROVE  \/ Entries(w, o) \subseteq client[w].got
                      \/ fault = "start" /\ server[o] = Down
                      \/ Entries(w, o) \cap closed # {} \/ w \in full
                      \/ stops /\ client[o].pc \in {"join", "done"}
                      \/ client[o].pc = "dead"
    BY Zenon DEF LossExplained
  <2>1. Explained(w)
    BY DEF FdInv, ClientInv
  <2> QED BY <2>1 DEF Explained, Excused
<1> QED BY <1>1, FdInvariant, PTL

(* The matching with what arrived is the matching with the first few descriptors of some
   owners. *)
LEMMA MatchImports ==
  ASSUME FdInv, NEW w \in Workers, Match(w)
  PROVE  \E arrived \in SUBSET Range(peer_block[w]) : \E failed \in SUBSET DOMAIN now[w] :
           ipc_import_from_shm_block(w, arrived, failed)
<1>1. /\ phase = "exchanged" /\ w \notin rebuilt /\ Whole(w)
  BY DEF FdInv, Match, Early, ClientInv
<1>2. client[w].got \in SUBSET Range(peer_block[w]) /\ FirstOfEach(w, client[w].got)
  BY <1>1 DEF Whole, FirstOfEach
<1>3. PICK failed \in SUBSET DOMAIN now[w] : Rebuild(w, client[w].got, failed)
  <2>1. PICK failed \in {{}} \cup (IF fault = "map" THEN {{k} : k \in DOMAIN now[w]} ELSE {}) :
          Rebuild(w, client[w].got, failed)
    BY Zenon DEF Match
  <2>2. failed \in SUBSET DOMAIN now[w]
    OBVIOUS
  <2> QED BY <2>1, <2>2, Zenon
<1> QED BY <1>1, <1>2, <1>3, Zenon DEF ipc_import_from_shm_block

(* The exchange with its sockets implements the import that takes the first few descriptors of
   every owner, once. *)
THEOREM ExchangeImplements == FdSpec => NoGap
<1>1. FdInit => Init
  BY DEF FdInit
<1>2. FdInv /\ [FdNext]_<<vars, fdvars>> => [Next]_vars
  <2> SUFFICES ASSUME FdInv, [FdNext]_<<vars, fdvars>> PROVE [Next]_vars
    OBVIOUS
  <2>1. CASE UNCHANGED <<vars, fdvars>>
    BY <2>1, Zenon
  <2>2. CASE Sharing
    <3>1. PICK w \in Exporters : Share(w, Workers \ {w})
      BY <2>2, Zenon DEF Sharing
    <3>2. w \in Workers /\ Workers \ {w} \in SUBSET (Workers \ {w})
      BY FdExchangeAssumption
    <3> QED BY <3>1, <3>2, Zenon DEF Next
  <2>3. CASE uds_fd_server_start
    <3>1. PICK lost \in {{}} \cup (IF fault = "export" THEN {{b} : b \in DOMAIN bufs} ELSE {}) :
            Publish(lost)
      BY <2>3, Zenon DEF uds_fd_server_start
    <3>2. lost \in SUBSET DOMAIN bufs
      OBVIOUS
    <3> QED BY <3>1, <3>2, Zenon DEF Next
  <2>4. CASE Begin
    BY <2>4, Zenon DEF Begin, Next
  <2>5. ASSUME NEW w \in Workers, Handler(w) PROVE [Next]_vars
    <3>1. CASE Match(w)
      BY <3>1, MatchImports, Zenon DEF Next
    <3>2. CASE Connect(w) \/ Send(w) \/ Receive(w) \/ Join(w)
      BY <3>2, Zenon DEF Connect, Send, Receive, Join
    <3> QED BY <2>5, <3>1, <3>2 DEF Handler
  <2>6. ASSUME NEW w \in Workers, Thread(w) PROVE [Next]_vars
    BY <2>6, Zenon DEF Thread, Accept, AcceptFails, Serve
  <2> QED BY <2>1, <2>2, <2>3, <2>4, <2>5, <2>6 DEF FdNext
<1> QED BY <1>1, <1>2, FdInvariant, PTL DEF FdSpec, Spec, NoGap
=============================================================================
