--------------------------- MODULE EpollEchoProofs ---------------------------
(***************************************************************************)
(* Proofs about EpollEcho, for either program and every number of          *)
(* descriptors, bytes and peers: an event stays true until it is handled,  *)
(* what a peer gets back is what it sent, in order, and no step loses any  *)
(* of it but one whose write does not fit into the queue.                  *)
(***************************************************************************)
EXTENDS EpollEcho, ByteStreamProofs

EchoSocket == [sent: 0 .. MaxBytes, nl: SUBSET (1 .. MaxBytes), nread: 0 .. MaxBytes,
               fin: BOOLEAN, err: {"none", "ECONNRESET", "EPIPE"},
               out: Seq(Bytes), queued: 0 .. SndBuf]

Control ==
    /\ program \in Programs /\ keep_running \in BOOLEAN
    /\ pc \in {"loop", "epoll_wait", "dispatch", "read", "write"} \/ Stopped
    /\ batch \subseteq Fds \cup {Listen} /\ cur \in Fds \cup {NoFd}
    /\ backlog \in Nat /\ connects \in 0 .. MaxConnects /\ sends \in 0 .. MaxSends

\* A descriptor is being handled, and something is left to write, only between
\* its read and its last write.
Handling ==
    /\ writes \in Seq(Seq(Bytes)) /\ Len(writes) <= 2 /\ (pc = "write" => writes # << >>)
    /\ pc \notin {"write", "SIGPIPE"} => writes = << >>
    /\ IF pc \in {"read", "write", "SIGPIPE"} THEN cur \in open ELSE cur = NoFd

Kernel ==
    /\ open \subseteq Fds /\ leaked \subseteq Fds \ open /\ sock \in [Fds -> EchoSocket]
    /\ nul \in [Fds -> SUBSET (1 .. MaxBytes)]

\* What a peer got back and will get back are its bytes, in their order.
Echo(f) == sock[f].out \o Pending(f)
Faithful(f) == InOrder(Echo(f)) /\ Own(Echo(f)) \subseteq 1 .. sock[f].nread
Flow == \A f \in open : Faithful(f)

Types == Control /\ Handling /\ Kernel
Inv == Types /\ EventsStayTrue /\ Flow

\* What each step has to show.
GoodStep == Inv' /\ \A f \in Fds : LosesNothing(f)

-------------------------------------------------------------------------------
(* Types of what a step makes. *)

LEMMA Constants ==
  /\ SndBuf \in Nat \ {0} /\ MaxBytes \in Nat /\ BUF_SIZE \in Nat /\ MaxStale \in Nat
  /\ \A f \in Fds : f # NoFd /\ f # Listen
  /\ Bytes \subseteq Int /\ Inserted \in Bytes /\ Stale \in Bytes
  /\ \A b \in Bytes : b > 0 <=> b \in 1 .. MaxBytes
  BY SocketAssumption, EpollEchoAssumption
     DEF SocketAssumption, EpollEchoAssumption, NoFd, Bytes, Inserted, Stale

LEMMA SocketTypes ==
  ASSUME NEW t \in EchoSocket
  PROVE  /\ t.sent \in Nat /\ t.nread \in Nat /\ t.queued \in Nat /\ t.queued <= SndBuf
         /\ t.out \in Seq(Bytes) /\ Len(t.out) \in Nat
  BY Constants DEF EchoSocket

LEMMA PeerSteps ==
  ASSUME NEW t \in EchoSocket, NEW u, NEW newline \in BOOLEAN,
         \/ CanSend(t) /\ u = AfterSend(t, newline)
         \/ CanFin(t) /\ u = AfterFin(t)
         \/ CanReset(t) /\ u = AfterReset(t)
         \/ CanTake(t) /\ u = AfterTake(t)
  PROVE  /\ u \in EchoSocket
         /\ u.out = t.out /\ u.nread = t.nread
         /\ Readable(t) => Readable(u)
  <1> USE Constants
  <1>1. CASE CanSend(t) /\ u = AfterSend(t, newline)
    <2> DEFINE sent == t.sent + 1
               nl == IF newline THEN t.nl \cup {sent} ELSE t.nl
    <2>1. sent \in 0 .. MaxBytes /\ sent \in 1 .. MaxBytes
      BY <1>1 DEF CanSend, EchoSocket
    <2>2. nl \in SUBSET (1 .. MaxBytes)
      BY <2>1 DEF EchoSocket
    <2>3. u = [t EXCEPT !.sent = sent, !.nl = nl]
      BY <1>1 DEF AfterSend, EchoSocket
    <2>4. Unread(t) > 0 => sent - t.nread > 0
      BY <2>1, SocketTypes DEF Unread
    <2> HIDE DEF nl
    <2>5. u \in EchoSocket /\ u.out = t.out /\ u.nread = t.nread /\ u.queued = t.queued
          /\ u.err = t.err /\ u.fin = t.fin /\ u.sent = sent
      <3> HIDE DEF sent
      <3> QED BY <2>1, <2>2, <2>3 DEF EchoSocket
    <2> QED BY <2>4, <2>5, SocketTypes DEF Readable, Unread
  <1>2. CASE u = AfterFin(t)
    <2>1. u \in EchoSocket /\ u.out = t.out /\ u.nread = t.nread /\ u.queued = t.queued
          /\ u.err = t.err /\ u.fin
      BY <1>2 DEF AfterFin, EchoSocket
    <2> QED BY <2>1, SocketTypes DEF Readable
  <1>3. CASE u = AfterReset(t)
    <2> DEFINE err == IF t.fin THEN "EPIPE" ELSE "ECONNRESET"
    <2>1. u = [t EXCEPT !.err = err, !.queued = 0] /\ 0 \in 0 .. SndBuf
          /\ err \in {"none", "ECONNRESET", "EPIPE"} /\ err # "none"
      BY <1>3 DEF AfterReset
    <2> HIDE DEF err
    <2>2. u \in EchoSocket /\ u.out = t.out /\ u.nread = t.nread /\ u.queued = 0
          /\ u.err # "none"
      BY <2>1 DEF EchoSocket
    <2> QED BY <2>2, SocketTypes DEF Readable
  <1>4. CASE CanTake(t) /\ u = AfterTake(t)
    <2> DEFINE left == t.queued - 1
    <2>1. left \in 0 .. SndBuf /\ left <= t.queued
      BY <1>4, SocketTypes DEF CanTake
    <2>2. u = [t EXCEPT !.queued = left]
      BY <1>4 DEF AfterTake
    <2> HIDE DEF left
    <2> QED BY <2>1, <2>2 DEF EchoSocket, Readable, Unread
  <1> QED BY <1>1, <1>2, <1>3, <1>4

LEMMA ReadKeeps ==
  ASSUME NEW t \in EchoSocket, NEW n \in Nat, CanRead(t, n)
  PROVE  /\ AfterRead(t, n) \in EchoSocket
         /\ AfterRead(t, n).nread = t.nread + n /\ t.nread + n <= MaxBytes
         /\ AfterRead(t, n).out = t.out /\ AfterRead(t, n).queued = t.queued
         /\ AfterRead(t, n).err = t.err
  <1> DEFINE read == t.nread + n
  <1>1. read \in 0 .. MaxBytes /\ read <= MaxBytes
    BY Constants DEF EchoSocket, CanRead, Unread
  <1>2. AfterRead(t, n) = [t EXCEPT !.nread = read]
    BY DEF AfterRead
  <1> HIDE DEF read
  <1> QED BY <1>1, <1>2 DEF EchoSocket, read

LEMMA WriteKeeps ==
  ASSUME NEW t \in EchoSocket, NEW bytes \in Seq(Bytes), Len(bytes) <= Room(t)
  PROVE  LET u == AfterWrite(t, bytes)
         IN  /\ u \in EchoSocket /\ u.out = t.out \o bytes /\ u.nread = t.nread /\ u.err = t.err
             /\ u.queued = t.queued + Len(bytes)
  <1> DEFINE out == t.out \o bytes
             q == t.queued + Len(bytes)
  <1>1. out \in Seq(Bytes)
    BY DEF EchoSocket
  <1>2. q \in 0 .. SndBuf
    BY Constants DEF EchoSocket, Room
  <1>3. AfterWrite(t, bytes) = [t EXCEPT !.out = out, !.queued = q]
    BY DEF AfterWrite
  <1> HIDE DEF out, q
  <1>4. AfterWrite(t, bytes) \in EchoSocket /\ AfterWrite(t, bytes).out = out
        /\ AfterWrite(t, bytes).queued = q /\ AfterWrite(t, bytes).nread = t.nread
        /\ AfterWrite(t, bytes).err = t.err
    BY <1>1, <1>2, <1>3 DEF EchoSocket
  <1> QED BY <1>4 DEF out, q

LEMMA NewSocketType ==
  NewSocket \in EchoSocket /\ NewSocket.out = << >> /\ NewSocket.nread = 0 /\ NewSocket.queued = 0
  BY Constants DEF NewSocket, EchoSocket

LEMMA NothingPending ==
  ASSUME NEW f, f # cur \/ writes = << >>
  PROVE  Pending(f) = << >>
  BY DEF Pending

LEMMA InvInit == Init => Inv
  <1> SUFFICES ASSUME Init PROVE Inv
    OBVIOUS
  <1>1. Control
    BY EpollEchoAssumption DEF EpollEchoAssumption, Init, Control
  <1>2. Handling
    BY DEF Init, Handling
  <1>3. Kernel
    BY NewSocketType DEF Init, Kernel
  <1>4. EventsStayTrue /\ Flow
    BY DEF Init, EventsStayTrue, Flow
  <1> QED BY <1>1, <1>2, <1>3, <1>4 DEF Inv, Types

-------------------------------------------------------------------------------
(* Steps that neither read nor write. *)

LEMMA FlowKept ==
  ASSUME NEW f, Pending(f)' = Pending(f),
         sock'[f].out = sock[f].out, sock'[f].nread = sock[f].nread
  PROVE  (Faithful(f) => Faithful(f)') /\ LosesNothing(f)
  <1>1. Echo(f)' = Echo(f)
    BY DEF Echo
  <1>2. Lost(f)' = Lost(f)
    BY DEF Lost
  <1> QED BY <1>1, <1>2 DEF Faithful, LosesNothing

LEMMA QuietStep ==
  ASSUME Inv, Types', EventsStayTrue', UNCHANGED open,
         UNCHANGED <<cur, writes>> \/ (writes = << >> /\ writes' = << >>),
         \A f \in Fds : sock'[f].out = sock[f].out /\ sock'[f].nread = sock[f].nread
  PROVE  GoodStep
  <1>1. \A f \in Fds : Pending(f)' = Pending(f)
    BY NothingPending DEF Pending
  <1>2. \A f \in Fds : (Faithful(f) => Faithful(f)') /\ LosesNothing(f)
    BY <1>1, FlowKept
  <1>3. Flow'
    BY <1>2 DEF Inv, Flow, Types, Kernel
  <1> QED BY <1>2, <1>3 DEF Inv, GoodStep

LEMMA LoopStep ==
  ASSUME Inv,
         \/ LoopTest \/ EpollTimeout \/ BatchDone \/ Sigint \/ AcceptFails \/ WriteKilled
         \/ PeerConnects \/ UNCHANGED vars
         \/ \E b \in SUBSET ReadyEvents : EpollReturns(b)
         \/ \E f \in Fds : AcceptUnregistered(f) \/ HandleClient(f)
  PROVE  GoodStep
  <1> USE DEF control, kernel, bounds
  <1>1. UNCHANGED <<program, writes, open, sock, nul>>
    BY DEF LoopTest, EpollTimeout, BatchDone, Sigint, AcceptFails, HandleListen, WriteKilled,
           PeerConnects, vars, EpollReturns, HandleClient, AcceptUnregistered, Returned
  <1>2. Types'
    <2>1. Kernel'
      <3>1. leaked' = leaked \/ \E f \in Fds \ open : leaked' = leaked \cup {f}
        BY DEF LoopTest, EpollTimeout, BatchDone, Sigint, AcceptFails, HandleListen, WriteKilled,
               PeerConnects, vars, EpollReturns, HandleClient, AcceptUnregistered, Returned
      <3> QED BY <1>1, <3>1 DEF Inv, Types, Kernel
    <2>2. Control'
      <3>1. CASE PeerConnects
        <4>1. connects' \in 0 .. MaxConnects /\ backlog' \in Nat
          BY <3>1, EpollEchoAssumption
             DEF EpollEchoAssumption, PeerConnects, Inv, Types, Control
        <4> QED BY <3>1, <4>1 DEF PeerConnects, Inv, Types, Control, Stopped
      <3>2. ASSUME NEW b \in SUBSET ReadyEvents, EpollReturns(b) PROVE Control'
        <4>1. b \subseteq Fds \cup {Listen}
          BY DEF ReadyEvents, Inv, Types, Kernel
        <4> QED BY <3>2, <4>1 DEF EpollReturns, Inv, Types, Control
      <3>3. ASSUME NEW f \in Fds, AcceptUnregistered(f) PROVE Control'
        <4>1. backlog' \in Nat
          BY <3>3 DEF AcceptUnregistered, Returned, Inv, Types, Control
        <4> QED BY <3>3, <4>1
                DEF AcceptUnregistered, Returned, HandleListen, Inv, Types, Control, Stopped
      <3>4. CASE /\ ~PeerConnects /\ ~\E f \in Fds : AcceptUnregistered(f)
                 /\ ~\E b \in SUBSET ReadyEvents : EpollReturns(b)
        <4>1. UNCHANGED <<backlog, connects, sends>> /\ batch' \subseteq batch
              /\ cur' \in Fds \cup {NoFd} /\ keep_running' \in BOOLEAN
              /\ (pc' \in {"loop", "epoll_wait", "dispatch", "read", "exit", "SIGPIPE"} \/ pc' = pc)
          BY <3>4
             DEF LoopTest, EpollTimeout, BatchDone, Sigint, AcceptFails, HandleListen, WriteKilled,
                 vars, HandleClient, Inv, Types, Control
        <4>2. pc' \in {"loop", "epoll_wait", "dispatch", "read", "write"} \/ Stopped'
          BY <4>1 DEF Inv, Types, Control, Stopped
        <4>3. /\ program \in Programs /\ batch \subseteq Fds \cup {Listen}
              /\ backlog \in Nat /\ connects \in 0 .. MaxConnects /\ sends \in 0 .. MaxSends
          BY DEF Inv, Types, Control
        <4> QED BY <1>1, <4>1, <4>2, <4>3 DEF Control
      <3> QED BY <3>1, <3>2, <3>3, <3>4
    <2>3. Handling'
      BY Constants
         DEF LoopTest, EpollTimeout, BatchDone, Sigint, AcceptFails, HandleListen, WriteKilled,
             PeerConnects, vars, EpollReturns, HandleClient, AcceptUnregistered, Returned,
             Inv, Types, Handling, Stopped, EventsStayTrue
    <2> QED BY <2>1, <2>2, <2>3 DEF Types
  <1>3. EventsStayTrue'
    <2>1. CASE \E b \in SUBSET ReadyEvents : EpollReturns(b)
      BY <2>1 DEF EpollReturns, ReadyEvents, Polled, Readable, EventsStayTrue
    <2>2. CASE \E f \in Fds : HandleClient(f)
      BY <2>2, Constants DEF HandleClient, Inv, EventsStayTrue, socket
    <2>5. CASE \E f \in Fds : AcceptUnregistered(f)
      BY <2>5 DEF AcceptUnregistered, Returned, HandleListen, Inv, EventsStayTrue, socket
    <2>3. CASE AcceptFails \/ PeerConnects \/ UNCHANGED vars \/ WriteKilled
      BY <2>3 DEF AcceptFails, HandleListen, PeerConnects, vars, WriteKilled, Inv, EventsStayTrue,
                  socket
    <2>4. CASE LoopTest \/ EpollTimeout \/ BatchDone \/ Sigint
      BY <2>4 DEF LoopTest, EpollTimeout, BatchDone, Sigint, Inv, EventsStayTrue, socket
    <2> QED BY <2>1, <2>2, <2>3, <2>4, <2>5
  <1>4. UNCHANGED <<cur, writes>> \/ (writes = << >> /\ writes' = << >>)
    BY <1>1 DEF LoopTest, EpollTimeout, BatchDone, Sigint, AcceptFails, HandleListen, WriteKilled,
           PeerConnects, vars, EpollReturns, HandleClient, AcceptUnregistered, Returned,
           Inv, Types, Handling
  <1> QED BY <1>1, <1>2, <1>3, <1>4, QuietStep

LEMMA PeerStep ==
  ASSUME Inv, NEW f \in open,
         \/ \E kind \in {"text", "newline", "zero"} : PeerSends(f, kind)
         \/ PeerFins(f) \/ PeerResets(f) \/ PeerTakes(f)
  PROVE  GoodStep
  <1> USE DEF control, kernel, bounds
  <1>1. /\ sock \in [Fds -> EchoSocket] /\ f \in Fds /\ sock[f] \in EchoSocket
        /\ open \subseteq Fds /\ leaked \subseteq Fds \ open /\ nul \in [Fds -> SUBSET (1 .. MaxBytes)]
    BY DEF Inv, Types, Kernel
  <1>2. PICK u : /\ sock' = [sock EXCEPT ![f] = u]
                 /\ u \in EchoSocket
                 /\ u.out = sock[f].out /\ u.nread = sock[f].nread
                 /\ Readable(sock[f]) => Readable(u)
    BY <1>1, PeerSteps DEF PeerSends, PeerFins, PeerResets, PeerTakes, PeerActs
  <1>3. \A g \in Fds : /\ sock'[g].out = sock[g].out /\ sock'[g].nread = sock[g].nread
                       /\ Readable(sock[g]) => Readable(sock'[g])
    BY <1>1, <1>2
  <1>4. /\ UNCHANGED <<program, pc, batch, cur, writes, open, leaked, keep_running, backlog, connects>>
        /\ ~Stopped
    BY DEF PeerSends, PeerFins, PeerResets, PeerTakes, PeerActs
  <1>5. /\ nul' \in [Fds -> SUBSET (1 .. MaxBytes)]
        /\ sends' \in 0 .. MaxSends
    <2>1. CASE PeerFins(f) \/ PeerResets(f) \/ PeerTakes(f)
      BY <1>1, <2>1 DEF PeerFins, PeerResets, PeerTakes, Inv, Types, Control
    <2>2. ASSUME NEW kind \in {"text", "newline", "zero"}, PeerSends(f, kind)
          PROVE  /\ nul' \in [Fds -> SUBSET (1 .. MaxBytes)]
                 /\ sends' \in 0 .. MaxSends
      <3>1. sock[f].sent + 1 \in 1 .. MaxBytes
        BY <1>1, <2>2, Constants, SocketTypes DEF PeerSends, CanSend
      <3>2. sends' \in 0 .. MaxSends
        BY <2>2, EpollEchoAssumption DEF EpollEchoAssumption, PeerSends, Inv, Types, Control
      <3> QED BY <1>1, <2>2, <3>1, <3>2 DEF PeerSends
    <2> QED BY <2>1, <2>2
  <1>6. Types'
    BY <1>1, <1>2, <1>4, <1>5 DEF Inv, Types, Control, Handling, Kernel, Stopped
  <1>7. EventsStayTrue'
    BY <1>1, <1>3, <1>4 DEF Inv, EventsStayTrue, socket, Types, Control
  <1> QED BY <1>3, <1>4, <1>5, <1>6, <1>7, QuietStep

-------------------------------------------------------------------------------
(* A descriptor is opened or closed. *)

LEMMA AcceptStep ==
  ASSUME Inv, NEW f \in Fds, AcceptClient(f)
  PROVE  GoodStep
  <1> USE DEF control, kernel, bounds
  <1>1. /\ f \notin open \cup leaked /\ pc = "dispatch" /\ writes = << >> /\ cur = NoFd
        /\ open \subseteq Fds /\ sock \in [Fds -> EchoSocket]
    BY DEF AcceptClient, Accepted, Returned, HandleListen, Inv, Types, Handling, Kernel
  <1>2. /\ UNCHANGED <<program, pc, cur, writes, keep_running, leaked, nul, connects, sends>>
        /\ open' = open \cup {f} /\ batch' \subseteq batch \ {Listen}
        /\ sock' = [sock EXCEPT ![f] = NewSocket] /\ backlog' = backlog - 1 /\ backlog > 0
    BY DEF AcceptClient, Accepted, Returned, HandleListen
  <1>3. Types'
    <2>1. Control' /\ Handling'
      <3>1. backlog' \in Nat
        BY <1>2 DEF Inv, Types, Control
      <3> QED BY <1>1, <1>2, <3>1 DEF Inv, Types, Control, Handling, Stopped
    <2>2. Kernel'
      BY <1>1, <1>2, NewSocketType DEF Inv, Types, Kernel
    <2> QED BY <2>1, <2>2 DEF Types
  <1>4. EventsStayTrue'
    BY <1>1, <1>2 DEF Inv, EventsStayTrue, socket, Types, Control
  <1>5. ASSUME NEW g \in Fds, g # f PROVE (Faithful(g) => Faithful(g)') /\ LosesNothing(g)
    <2>1. sock'[g] = sock[g] /\ Pending(g)' = Pending(g)
      BY <1>1, <1>2, <1>5 DEF Pending
    <2> QED BY <2>1, FlowKept
  <1>6. Faithful(f)' /\ LosesNothing(f)
    <2>1. Pending(f)' = << >> /\ sock'[f] = NewSocket
      BY <1>1, <1>2, NothingPending DEF Pending
    <2>2. Echo(f)' = << >>
      BY <2>1, NewSocketType DEF Echo
    <2>3. 1 .. sock'[f].nread = {}
      BY <2>1, NewSocketType
    <2> QED BY <2>2, <2>3, EmptyStream DEF Faithful, Lost, LosesNothing
  <1>7. Flow'
    BY <1>1, <1>2, <1>5, <1>6 DEF Inv, Flow
  <1> QED BY <1>3, <1>4, <1>5, <1>6, <1>7 DEF Inv, GoodStep

LEMMA DisconnectStep ==
  ASSUME Inv, pc \in {"read", "write"}, Disconnect
  PROVE  GoodStep
  <1>1. /\ cur \in open /\ cur \in Fds /\ cur \notin batch \ {Listen}
        /\ open \subseteq Fds /\ leaked \subseteq Fds \ open /\ sock \in [Fds -> EchoSocket]
        /\ nul \in [Fds -> SUBSET (1 .. MaxBytes)]
    BY Constants DEF Inv, Types, Handling, Kernel, EventsStayTrue
  <1>2. /\ UNCHANGED <<program, batch, keep_running, leaked, backlog, bounds>>
        /\ pc' = "dispatch" /\ cur' = NoFd /\ writes' = << >>
        /\ open' = open \ {cur}
        /\ sock' = [sock EXCEPT ![cur] = NewSocket] /\ nul' = [nul EXCEPT ![cur] = {}]
    BY DEF Disconnect, BackToLoop
  <1>3. Types'
    <2>1. Control' /\ Handling'
      BY <1>2 DEF Inv, Types, Control, Handling, Stopped, bounds
    <2>2. Kernel'
      BY <1>1, <1>2, NewSocketType DEF Inv, Types, Kernel
    <2> QED BY <2>1, <2>2 DEF Types
  <1>4. EventsStayTrue'
    BY <1>1, <1>2 DEF Inv, EventsStayTrue, socket, Types, Control
  <1>5. ASSUME NEW g \in Fds, g # cur PROVE (Faithful(g) => Faithful(g)') /\ LosesNothing(g)
    <2>1. sock'[g] = sock[g] /\ Pending(g)' = << >> /\ Pending(g) = << >>
      BY <1>1, <1>2, <1>5, NothingPending DEF Pending
    <2> QED BY <2>1, FlowKept
  <1>6. \A f : f = cur => LosesNothing(f)
    <2>1. 1 .. sock'[cur].nread = {}
      BY <1>1, <1>2, NewSocketType
    <2>2. \A f : f = cur => Lost(f)' = {}
      BY <2>1 DEF Lost
    <2> QED BY <2>2 DEF LosesNothing
  <1>7. Flow'
    BY <1>1, <1>2, <1>5 DEF Inv, Flow
  <1> QED BY <1>3, <1>4, <1>5, <1>6, <1>7 DEF Inv, GoodStep

LEMMA ReadNothingStep ==
  ASSUME Inv, ReadNothing
  PROVE  GoodStep
  <1>1. CASE Disconnect
    BY <1>1, DisconnectStep DEF ReadNothing
  <1>2. CASE BackToLoop /\ UNCHANGED <<open, sock, nul>>
    <2>1. /\ UNCHANGED <<program, batch, keep_running, backlog, leaked, bounds, open, sock, nul>>
          /\ pc' = "dispatch" /\ cur' = NoFd /\ writes' = << >> /\ writes = << >>
      BY <1>2 DEF BackToLoop, ReadNothing, Inv, Types, Handling
    <2>2. Types'
      BY <2>1 DEF Inv, Types, Control, Handling, Kernel, Stopped, bounds
    <2>3. EventsStayTrue'
      BY <2>1 DEF Inv, EventsStayTrue, socket
    <2> QED BY <2>1, <2>2, <2>3, QuietStep
  <1> QED BY <1>1, <1>2 DEF ReadNothing

-------------------------------------------------------------------------------
(* The answer to a chunk. *)

\* All writes of an answer together.
Whole(ws) == IF Len(ws) = 1 THEN ws[1] ELSE ws[1] \o ws[2]

LEMMA ChunkIs ==
  ASSUME NEW m \in Nat, NEW n \in Nat, m + n <= MaxBytes
  PROVE  LET chunk == [i \in 1 .. n |-> m + i]
         IN  /\ chunk \in Seq(Bytes) /\ Len(chunk) = n
             /\ Own(chunk) = m + 1 .. m + n /\ InOrder(chunk)
  <1>1. \A i \in 1 .. n : m + i \in 1 .. MaxBytes
    BY Constants
  <1>2. [i \in 1 .. n |-> m + i] \in Seq(Bytes)
    BY <1>1 DEF Bytes
  <1> QED BY <1>2, Consecutive

\* Bytes that are no peer's do not count.
LEMMA Padded ==
  ASSUME NEW a \in Seq(Bytes), NEW b \in Seq(Bytes), \A i \in 1 .. Len(b) : b[i] \in {Inserted, Stale}
  PROVE  a \o b \in Seq(Bytes) /\ Own(a \o b) = Own(a) /\ (InOrder(a) => InOrder(a \o b))
  <1>1. Own(b) = {} /\ InOrder(b) /\ DOMAIN b = 1 .. Len(b)
    BY DEF Own, Range, InOrder, Inserted, Stale
  <1>2. Before(a, b)
    BY <1>1 DEF Before
  <1>3. a \o b \in Seq(Bytes) /\ Own(a \o b) = Own(a) \cup Own(b)
    BY Constants, OwnConcat
  <1>4. InOrder(a \o b) <=> InOrder(a) /\ InOrder(b) /\ Before(a, b)
    BY Constants, InOrderConcat
  <1> QED BY <1>1, <1>2, <1>3, <1>4

LEMMA WholeType ==
  ASSUME NEW ws \in Seq(Seq(Bytes)), Len(ws) \in {1, 2}
  PROVE  /\ ws # << >> /\ Whole(ws) \in Seq(Bytes) /\ ws[1] \in Seq(Bytes)
         /\ Len(ws) = 2 => ws[2] \in Seq(Bytes)
  <1> DEFINE S == Seq(Bytes)
  <1>1. ws \in Seq(S)
    OBVIOUS
  <1> HIDE DEF S
  <1>2. ws # << >> /\ 1 \in 1 .. Len(ws) /\ (Len(ws) = 2 => 2 \in 1 .. Len(ws))
    <2>1. Len(<< >>) = 0 /\ (Len(ws) = 1 \/ Len(ws) = 2)
      OBVIOUS
    <2>2. ws # << >>
      BY <1>1, <2>1, EmptySeq
    <2>3. \A l : l = 1 \/ l = 2 => 1 \in 1 .. l /\ (l = 2 => 2 \in 1 .. l)
      OBVIOUS
    <2> QED BY <2>1, <2>2, <2>3
  <1>3. ws[1] \in S /\ (Len(ws) = 2 => ws[2] \in S)
    BY <1>1, <1>2, ElementOfSeq
  <1>4. Len(ws) = 2 => ws[1] \o ws[2] \in Seq(Bytes)
    BY <1>3, ConcatProperties DEF S
  <1> QED BY <1>2, <1>3, <1>4 DEF Whole, S

LEMMA TwoWrites ==
  ASSUME NEW a \in Seq(Bytes), NEW b \in Seq(Bytes)
  PROVE  <<a, b>> \in Seq(Seq(Bytes)) /\ Len(<<a, b>>) = 2 /\ Whole(<<a, b>>) = a \o b
  BY Two DEF Whole

LEMMA LineAnswer ==
  ASSUME NEW chunk \in Seq(Bytes), Len(chunk) > 0, InOrder(chunk)
  PROVE  LET ws == LineThenNewline(chunk)
         IN  /\ ws \in Seq(Seq(Bytes)) /\ Len(ws) = 2
             /\ Own(Whole(ws)) = Own(chunk) /\ InOrder(Whole(ws))
  <1> DEFINE n == Len(chunk)
             ws == LineThenNewline(chunk)
  <1>1. n \in Nat /\ n >= 1
    OBVIOUS
  <1>2. CASE Last(chunk) \in socket.nl
    <2>1. /\ chunk[n] \in Bytes /\ SubSeq(chunk, 1, n - 1) \in Seq(Bytes)
          /\ chunk = SubSeq(chunk, 1, n - 1) \o <<chunk[n]>>
      BY <1>1, LastByte
    <2>2. <<chunk[n]>> \in Seq(Bytes)
      BY <2>1, One
    <2>3. ws = <<SubSeq(chunk, 1, n - 1), <<chunk[n]>>>>
      BY <1>2 DEF LineThenNewline, Front, Last
    <2> HIDE DEF ws
    <2>4. ws \in Seq(Seq(Bytes)) /\ Len(ws) = 2 /\ Whole(ws) = chunk
      BY <2>1, <2>2, <2>3, TwoWrites
    <2> QED BY <2>4 DEF ws
  <1>3. CASE Last(chunk) \notin socket.nl
    <2>1. ws = <<chunk, <<Inserted>>>>
      BY <1>3 DEF LineThenNewline
    <2> HIDE DEF ws
    <2>2. <<Inserted>> \in Seq(Bytes)
      BY Constants
    <2>3. ws \in Seq(Seq(Bytes)) /\ Len(ws) = 2 /\ Whole(ws) = chunk \o <<Inserted>>
      BY <2>1, <2>2, TwoWrites
    <2> DEFINE nl == <<Inserted>>
    <2>4. nl \in Seq(Bytes) /\ \A i \in 1 .. Len(nl) : nl[i] \in {Inserted, Stale}
      BY <2>2
    <2>5. Own(chunk \o nl) = Own(chunk) /\ InOrder(chunk \o nl)
      BY <2>4, Padded
    <2> QED BY <2>3, <2>5 DEF ws
  <1> QED BY <1>2, <1>3

\* strlen()'s answer keeps the order and takes nothing from elsewhere; without
\* a zero among the bytes of the chunk it has them all.
LEMMA StrlenAnswer ==
  ASSUME NEW chunk \in Seq(Bytes), Len(chunk) > 0, InOrder(chunk), NEW answer \in UpToStrlen(chunk),
         nul[cur] \subseteq 1 .. MaxBytes
  PROVE  /\ answer \in Seq(Bytes) /\ InOrder(answer) /\ Own(answer) \subseteq Own(chunk)
         /\ nul[cur] \cap Own(chunk) = {} => Own(answer) = Own(chunk)
  <1> DEFINE n == Len(chunk)
             zeros == {i \in 1 .. n : chunk[i] \in nul[cur] \/ (i = n /\ chunk[i] \in socket.nl)}
             ThereOrPast(S) == IF S = {} THEN n + 1 ELSE CHOOSE i \in S : \A j \in S : i <= j
             first == ThereOrPast(zeros)
             second == ThereOrPast(zeros \ {first})
             newline == IF first <= n /\ chunk[first] \in socket.nl THEN chunk[first] ELSE Inserted
  <1>1. n \in Nat /\ n >= 1
    OBVIOUS
  <1>2. ASSUME NEW S \in SUBSET (1 .. n)
        PROVE  /\ ThereOrPast(S) \in 1 .. n + 1
               /\ IF S = {} THEN ThereOrPast(S) = n + 1 ELSE ThereOrPast(S) \in S
    <2>1. CASE S = {}
      BY <1>1, <2>1
    <2>2. CASE S # {}
      <3>1. S \in SUBSET Nat
        BY <1>1
      <3>2. \E i \in S : \A j \in S : i <= j
        BY <2>2, <3>1, Minimum
      <3>3. ThereOrPast(S) \in S
        BY <2>2, <3>2
      <3> HIDE DEF ThereOrPast
      <3>4. ThereOrPast(S) \in 1 .. n
        BY <3>3
      <3> QED BY <1>1, <2>2, <3>3, <3>4
    <2> QED BY <2>1, <2>2
  <1>3. zeros \in SUBSET (1 .. n) /\ zeros \ {first} \in SUBSET (1 .. n)
    OBVIOUS
  <1>4. answer \in IF first > n
                   THEN {Append(chunk, Inserted) \o [i \in 1 .. k |-> Stale] : k \in 0 .. MaxStale}
                   ELSE {SubSeq([chunk EXCEPT ![first] = newline], 1, second - 1)}
    BY DEF UpToStrlen
  <1> HIDE DEF ThereOrPast, newline
  <1>5. /\ first \in 1 .. n + 1 /\ second \in 1 .. n + 1
        /\ IF zeros = {} THEN first = n + 1 ELSE first \in zeros
        /\ zeros \ {first} = {} => second = n + 1
    BY <1>2, <1>3
  <1> HIDE DEF first, second
  <1>6. CASE first > n
    <2>1. PICK k \in 0 .. MaxStale : answer = Append(chunk, Inserted) \o [i \in 1 .. k |-> Stale]
      BY <1>4, <1>6
    <2> DEFINE line == chunk \o <<Inserted>>
               stale == [i \in 1 .. k |-> Stale]
    <2>2. <<Inserted>> \in Seq(Bytes) /\ k \in Nat
      BY Constants
    <2>3. line \in Seq(Bytes) /\ Own(line) = Own(chunk) /\ InOrder(line)
      <3> DEFINE nl == <<Inserted>>
      <3>1. nl \in Seq(Bytes) /\ \A i \in 1 .. Len(nl) : nl[i] \in {Inserted, Stale}
        BY <2>2
      <3> QED BY <3>1, Padded
    <2>4. stale \in Seq(Bytes) /\ Len(stale) = k /\ \A i \in 1 .. k : stale[i] = Stale
      BY <2>2, Constants
    <2>5. answer = line \o stale
      BY <2>1, AppendIsConcat, Constants
    <2> HIDE DEF line, stale
    <2> QED BY <2>3, <2>4, <2>5, Padded
  <1>7. CASE first <= n
    <2> DEFINE string == [chunk EXCEPT ![first] = newline]
    <2>1. answer = SubSeq(string, 1, second - 1) /\ first \in 1 .. n /\ second - 1 \in 0 .. n
      BY <1>1, <1>4, <1>5, <1>7
    <2>2. newline \in {chunk[first], Inserted}
      BY DEF newline
    <2>3. /\ string \in Seq(Bytes) /\ Len(string) = n /\ DOMAIN string = 1 .. n /\ DOMAIN chunk = 1 .. n
          /\ \A i \in 1 .. n : string[i] = chunk[i] \/ string[i] = Inserted
      BY <2>1, <2>2, Constants
    <2>4. Own(string) \subseteq Own(chunk) /\ InOrder(string)
      BY <2>3 DEF Own, Range, InOrder, Inserted
    <2>5. answer \in Seq(Bytes) /\ InOrder(answer) /\ Own(answer) \subseteq Own(string)
      BY <2>1, <2>3, <2>4, PrefixInOrder, Constants
    <2>6. ASSUME nul[cur] \cap Own(chunk) = {} PROVE Own(answer) = Own(chunk)
      <3>4. \A i \in 1 .. n : chunk[i] \notin nul[cur]
        BY <2>3, <2>6 DEF Own, Range
      <3>1. zeros \subseteq {n} /\ first \in zeros /\ chunk[first] \in socket.nl
        BY <1>5, <1>7, <2>1, <3>4
      <3>2. second = n + 1 /\ newline = chunk[first]
        BY <1>5, <1>7, <3>1 DEF newline
      <3>3. string = chunk /\ second - 1 = n
        BY <1>1, <2>1, <3>2
      <3> QED BY <2>1, <3>3, SubSeqFull
    <2> QED BY <2>4, <2>5, <2>6
  <1> QED BY <1>1, <1>5, <1>6, <1>7

LEMMA AnswersAre ==
  ASSUME NEW chunk \in Seq(Bytes), Len(chunk) > 0, InOrder(chunk), NEW ws \in Answers(chunk),
         program \in Programs, nul[cur] \subseteq 1 .. MaxBytes
  PROVE  /\ ws \in Seq(Seq(Bytes)) /\ Len(ws) \in {1, 2} /\ ws # << >>
         /\ Whole(ws) \in Seq(Bytes) /\ InOrder(Whole(ws)) /\ Own(Whole(ws)) \subseteq Own(chunk)
         /\ Own(Whole(ws)) = Own(chunk) \/ (program = "epoll-server" /\ nul[cur] \cap Own(chunk) # {})
  <1>1. CASE program = "epoll-echo"
    <2>1. ws = LineThenNewline(chunk)
      BY <1>1 DEF Answers
    <2>2. /\ ws \in Seq(Seq(Bytes)) /\ Len(ws) = 2
          /\ Own(Whole(ws)) = Own(chunk) /\ InOrder(Whole(ws))
      BY <2>1, LineAnswer
    <2>3. ws # << >> /\ Whole(ws) \in Seq(Bytes)
      BY <2>2, WholeType
    <2> QED BY <2>2, <2>3
  <1>2. CASE program # "epoll-echo"
    <2>1. PICK answer \in UpToStrlen(chunk) : ws = <<answer>>
      BY <1>2 DEF Answers
    <2>2. answer \in Seq(Bytes)
      BY StrlenAnswer
    <2>3. ws \in Seq(Seq(Bytes)) /\ Len(ws) = 1 /\ Whole(ws) = answer /\ ws # << >>
      BY <2>1, <2>2, One DEF Whole
    <2>4. program = "epoll-server"
      BY <1>2, EpollEchoAssumption DEF EpollEchoAssumption
    <2>5. /\ InOrder(answer) /\ Own(answer) \subseteq Own(chunk)
          /\ nul[cur] \cap Own(chunk) = {} => Own(answer) = Own(chunk)
      BY StrlenAnswer
    <2> QED BY <2>2, <2>3, <2>4, <2>5
  <1> QED BY <1>1, <1>2

-------------------------------------------------------------------------------
(* One read and the writes of its answer. *)

LEMMA CurIs ==
  ASSUME Inv, pc \in {"read", "write"}
  PROVE  /\ cur \in open /\ cur \in Fds /\ cur \notin batch \ {Listen} /\ socket \in EchoSocket
         /\ open \subseteq Fds /\ sock \in [Fds -> EchoSocket]
  BY Constants DEF Inv, Types, Handling, Kernel, EventsStayTrue, socket

\* Nothing else changes when the socket of cur does.
LEMMA OthersKept ==
  ASSUME Inv, pc \in {"read", "write"}, NEW t, sock' = [sock EXCEPT ![cur] = t],
         cur' \in {cur, NoFd}
  PROVE  \A f \in Fds : f # cur => (Faithful(f) => Faithful(f)') /\ LosesNothing(f)
  <1> SUFFICES ASSUME NEW f \in Fds, f # cur
               PROVE  (Faithful(f) => Faithful(f)') /\ LosesNothing(f)
    OBVIOUS
  <1>1. f # NoFd /\ sock'[f] = sock[f]
    BY CurIs, Constants
  <1>2. Pending(f) = << >> /\ Pending(f)' = << >>
    BY <1>1 DEF Pending
  <1> QED BY <1>1, <1>2, FlowKept

\* One socket's stream stays faithful, and the step loses nothing that it may not.
LEMMA OneSocketStep ==
  ASSUME Inv, pc \in {"read", "write"}, Types', EventsStayTrue', UNCHANGED open,
         NEW t, sock' = [sock EXCEPT ![cur] = t], cur' \in {cur, NoFd},
         Faithful(cur) => \A f : f = cur => Faithful(f)' /\ LosesNothing(f)
  PROVE  GoodStep
  <1>1. \A f \in Fds : f # cur => (Faithful(f) => Faithful(f)') /\ LosesNothing(f)
    BY OthersKept
  <1>2. Flow /\ cur \in open /\ open \subseteq Fds
    BY CurIs DEF Inv
  <1>3. \A f \in Fds : LosesNothing(f)
    BY <1>1, <1>2 DEF Flow
  <1>4. Flow'
    BY <1>1, <1>2 DEF Flow
  <1> QED BY <1>3, <1>4 DEF Inv, GoodStep

LEMMA ReadChunkStep ==
  ASSUME Inv, NEW n \in 1 .. BUF_SIZE, ReadChunk(n)
  PROVE  GoodStep
  <1> DEFINE m == socket.nread
             chunk == [i \in 1 .. n |-> m + i]
             t == AfterRead(socket, n)
  <1>1. /\ pc = "read" /\ cur \in open /\ cur \in Fds /\ cur \notin batch \ {Listen}
        /\ open \subseteq Fds /\ sock \in [Fds -> EchoSocket] /\ socket \in EchoSocket
        /\ n \in Nat /\ n > 0 /\ CanRead(socket, n) /\ writes = << >>
    BY CurIs, Constants DEF ReadChunk, Inv, Types, Handling
  <1>2. /\ UNCHANGED <<program, batch, cur, keep_running, open, leaked, nul, backlog, bounds>>
        /\ pc' = "write" /\ sock' = [sock EXCEPT ![cur] = t] /\ writes' \in Answers(chunk)
    BY <1>1 DEF ReadChunk, socket
  <1>3. /\ t \in EchoSocket /\ t.nread = m + n /\ m + n <= MaxBytes /\ m \in Nat
        /\ t.out = socket.out /\ socket.out \in Seq(Bytes)
    BY <1>1, ReadKeeps, SocketTypes
  <1>4. /\ chunk \in Seq(Bytes) /\ Len(chunk) = n /\ InOrder(chunk) /\ Own(chunk) = m + 1 .. m + n
    BY <1>1, <1>3, ChunkIs
  <1> HIDE DEF chunk, m, t
  <1>5. PICK ws : /\ writes' = ws /\ ws \in Seq(Seq(Bytes)) /\ Len(ws) \in {1, 2} /\ ws # << >>
                  /\ Whole(ws) \in Seq(Bytes) /\ InOrder(Whole(ws))
                  /\ Own(Whole(ws)) \subseteq m + 1 .. m + n
                  /\ \/ Own(Whole(ws)) = m + 1 .. m + n
                     \/ program = "epoll-server" /\ nul[cur] \cap (m + 1 .. m + n) # {}
    <2>1. program \in Programs /\ Len(chunk) > 0 /\ nul[cur] \subseteq 1 .. MaxBytes
      BY <1>1, <1>4 DEF Inv, Types, Control, Kernel
    <2> QED BY <1>2, <1>4, <2>1, AnswersAre
  <1>6. Types'
    <2>1. Control'
      BY <1>2 DEF Inv, Types, Control, Stopped, bounds
    <2>2. Handling'
      <3>1. Len(ws) <= 2
        <4>1. \A l \in {1, 2} : l <= 2
          OBVIOUS
        <4> QED BY <1>5, <4>1
      <3> HIDE DEF Inv
      <3> QED BY <1>1, <1>2, <1>5, <3>1 DEF Handling
    <2>3. Kernel'
      BY <1>1, <1>2, <1>3 DEF Inv, Types, Kernel
    <2> QED BY <2>1, <2>2, <2>3 DEF Types
  <1>7. EventsStayTrue'
    BY <1>1, <1>2 DEF Inv, EventsStayTrue, Types, Control, socket
  <1>8. ASSUME Faithful(cur), NEW f, f = cur PROVE Faithful(f)' /\ LosesNothing(f)
    <2>1. /\ Faithful(f) /\ f \in Fds /\ sock[f] = socket /\ sock'[f] = t
      BY <1>1, <1>2, <1>8 DEF socket
    <2>2. Echo(f) = socket.out
      BY <1>1, <1>3, <2>1, NothingPending, ConcatEmptySeq DEF Echo
    <2>3. Pending(f)' = Whole(ws)
      BY <1>2, <1>5, <1>8 DEF Pending, Whole
    <2>4. Echo(f)' = socket.out \o Whole(ws)
      BY <1>3, <2>1, <2>3 DEF Echo
    <2>5. /\ InOrder(socket.out) /\ Own(socket.out) \subseteq 1 .. m
          /\ sock[f].nread = m /\ sock'[f].nread = m + n
      BY <1>3, <2>1, <2>2 DEF Faithful, m
    <2>6. Before(socket.out, Whole(ws))
      <3> SUFFICES ASSUME NEW x \in 1 .. m, NEW y \in m + 1 .. m + n PROVE x < y
        BY <1>5, <2>5 DEF Before
      <3> QED BY <1>1, <1>3
    <2>7. /\ InOrder(Echo(f)') /\ Own(Echo(f)') = Own(socket.out) \cup Own(Whole(ws))
      BY <1>3, <1>5, <2>4, <2>5, <2>6, Constants, OwnConcat, InOrderConcat
    <2>8. 1 .. m + n = (1 .. m) \cup (m + 1 .. m + n)
      BY <1>1, <1>3
    <2>9. Faithful(f)'
      <3>1. Own(Echo(f)') \subseteq 1 .. m + n
        BY <1>5, <2>5, <2>7, <2>8
      <3> HIDE DEF Echo
      <3> QED BY <2>5, <2>7, <3>1 DEF Faithful
    <2>10. Lost(f) = (1 .. m) \ Own(socket.out) /\ Lost(f)' = (1 .. m + n) \ Own(Echo(f)')
      BY <2>2, <2>5 DEF Lost, Echo
    <2>11. Own(Whole(ws)) = m + 1 .. m + n => LosesNothing(f)
      <3>1. Own(Whole(ws)) = m + 1 .. m + n => Lost(f)' \subseteq Lost(f)
        BY <2>7, <2>8, <2>10
      <3> QED BY <3>1 DEF LosesNothing
    <2>12. program = "epoll-server" /\ nul[cur] \cap (m + 1 .. m + n) # {} => LosesNothing(f)
      BY <1>8, <2>5 DEF LosesNothing, ReadZero
    <2> QED BY <1>5, <2>9, <2>11, <2>12
  <1> QED BY <1>1, <1>2, <1>6, <1>7, <1>8, OneSocketStep

\* A write that takes n bytes of its buffer, and perhaps drops the others.
LEMMA WrittenStream ==
  ASSUME NEW out \in Seq(Bytes), NEW w \in Seq(Bytes), NEW rest \in Seq(Bytes),
         NEW n \in 0 .. Len(w), InOrder(out \o (w \o rest))
  PROVE  LET old == out \o (w \o rest)
             new == (out \o SubSeq(w, 1, n)) \o rest
         IN  InOrder(new) /\ Own(new) \subseteq Own(old) /\ (n = Len(w) => new = old)
  <1> DEFINE part == SubSeq(w, 1, n)
  <1>1. part \in Seq(Bytes) /\ Own(part) \subseteq Own(w) /\ (InOrder(w) => InOrder(part))
    BY Constants, PrefixInOrder
  <1>2. n = Len(w) => part = w
    BY SubSeqFull
  <1> HIDE DEF part
  <1>3. InOrder((out \o part) \o rest) /\ Own((out \o part) \o rest) \subseteq Own(out \o (w \o rest))
    BY <1>1, Constants, Replaced
  <1>4. n = Len(w) => (out \o part) \o rest = out \o (w \o rest)
    BY <1>2, ConcatAssociative
  <1> QED BY <1>3, <1>4 DEF part

\* What is left to write after the buffer at hand.
Rest == IF Len(writes) = 1 THEN << >> ELSE writes[2]

LEMMA WritesAre ==
  ASSUME Inv, pc = "write"
  PROVE  /\ Head(writes) = writes[1] /\ writes[1] \in Seq(Bytes) /\ Rest \in Seq(Bytes)
         /\ Tail(writes) \in Seq(Seq(Bytes)) /\ Len(Tail(writes)) <= 2
         /\ Len(writes) = 1 \/ Len(writes) = 2
         /\ Len(writes) = 1 => Tail(writes) = << >>
         /\ Len(writes) = 2 => Len(Tail(writes)) = 1 /\ Tail(writes)[1] = writes[2]
                               /\ Tail(writes) # << >>
  <1> DEFINE S == Seq(Bytes)
  <1>1. writes \in Seq(S) /\ writes # << >> /\ Len(writes) <= 2 /\ Len(writes) \in Nat
    BY DEF Inv, Types, Handling
  <1>2. << >> \in S
    OBVIOUS
  <1>3. Len(writes) # 0
    BY <1>1, EmptySeq
  <1>4. ASSUME NEW l \in Nat, l <= 2, l # 0
        PROVE  /\ l = 1 \/ l = 2
               /\ 1 \in 1 .. l /\ l - 1 <= 2
               /\ l = 2 => 2 \in 1 .. l /\ 1 \in 1 .. l - 1
    BY <1>4
  <1> HIDE DEF S
  <1>5. /\ Head(writes) = writes[1] /\ writes[1] \in S
        /\ Tail(writes) \in Seq(S) /\ Len(Tail(writes)) = Len(writes) - 1
        /\ \A i \in 1 .. Len(Tail(writes)) : Tail(writes)[i] = writes[i + 1]
    BY <1>1, HeadTailProperties
  <1>6. /\ Len(writes) = 1 \/ Len(writes) = 2
        /\ Len(Tail(writes)) <= 2
        /\ Len(writes) = 2 => writes[2] \in S
    BY <1>1, <1>3, <1>4, <1>5, ElementOfSeq
  <1>7. CASE Len(writes) = 1
    <2>1. Len(Tail(writes)) = 0
      BY <1>5, <1>7
    <2>2. Tail(writes) = << >>
      BY <1>5, <2>1, EmptySeq
    <2> QED BY <1>2, <1>5, <1>6, <1>7, <2>2 DEF Rest, S
  <1>8. CASE Len(writes) = 2
    <2>1. Len(Tail(writes)) = 1
      BY <1>5, <1>8
    <2>2. Tail(writes)[1] = writes[2]
      <3>1. 1 \in 1 .. 1 /\ 1 + 1 = 2
        OBVIOUS
      <3> QED BY <1>5, <2>1, <3>1
    <2>3. Tail(writes) # << >>
      <3>1. Len(<< >>) # 1
        OBVIOUS
      <3> HIDE DEF S
      <3>2. ASSUME NEW e, Len(e) = 1, Len(<< >>) # 1 PROVE e # << >>
        BY <3>2
      <3> QED BY <2>1, <3>1, <3>2
    <2> QED BY <1>5, <1>6, <1>8, <2>1, <2>2, <2>3 DEF Rest, S
  <1> QED BY <1>6, <1>7, <1>8

LEMMA PendingType ==
  ASSUME Inv, NEW f
  PROVE  Pending(f) \in Seq(Bytes)
  <1> DEFINE S == Seq(Bytes)
  <1>1. writes \in Seq(S) /\ Len(writes) <= 2 /\ << >> \in S /\ Len(writes) \in Nat
    BY DEF Inv, Types, Handling
  <1>2. CASE f # cur \/ writes = << >>
    BY <1>1, <1>2, NothingPending
  <1>3. CASE f = cur /\ writes # << >>
    <2>1. Len(writes) # 0
      BY <1>1, <1>3, EmptySeq
    <2>2. Len(writes) \in {1, 2}
      <3>1. \A l \in Nat : l <= 2 /\ l # 0 => l \in {1, 2}
        OBVIOUS
      <3> QED BY <1>1, <2>1, <3>1
    <2>3. Whole(writes) \in S
      BY <1>1, <2>2, WholeType
    <2> QED BY <1>3, <2>3 DEF Pending, Whole
  <1> QED BY <1>2, <1>3

\* A write() returned: n of its bytes were queued.
LEMMA AnsweringStep ==
  ASSUME Inv, pc = "write", AfterWriting, NEW t \in EchoSocket, NEW n \in 0 .. Len(writes[1]),
         sock' = [sock EXCEPT ![cur] = t],
         t.out = socket.out \o SubSeq(writes[1], 1, n), t.nread = socket.nread,
         n = Len(writes[1]) \/ \A f : f = cur => WriteFellShort(f)
  PROVE  GoodStep
  <1>1. /\ cur \in open /\ cur \in Fds /\ cur \notin batch \ {Listen} /\ open \subseteq Fds
        /\ sock \in [Fds -> EchoSocket] /\ socket \in EchoSocket
    BY CurIs
  <1>2. /\ UNCHANGED <<program, batch, keep_running, open, leaked, nul, backlog, bounds>>
        /\ writes' = Tail(writes)
        /\ Len(writes) = 1 => pc' = "dispatch" /\ cur' = NoFd
        /\ Len(writes) = 2 => pc' = pc /\ cur' = cur
    <2>1. \A l : (l = 1 => ~(l > 1)) /\ (l = 2 => l > 1)
      OBVIOUS
    <2> QED BY <2>1 DEF AfterWriting
  <1>3. Types'
    <2>1. Control'
      BY <1>2, WritesAre DEF Inv, Types, Control, Stopped, bounds
    <2>2. Handling'
      BY <1>1, <1>2, WritesAre DEF Handling
    <2>3. Kernel'
      BY <1>1, <1>2 DEF Inv, Types, Kernel
    <2> QED BY <2>1, <2>2, <2>3 DEF Types
  <1>4. EventsStayTrue'
    BY <1>1, <1>2, WritesAre DEF Inv, EventsStayTrue, Types, Control, socket
  <1>5. ASSUME Faithful(cur), NEW f, f = cur PROVE Faithful(f)' /\ LosesNothing(f)
    <2> DEFINE w == writes[1]
               old == socket.out \o (w \o Rest)
               new == (socket.out \o SubSeq(w, 1, n)) \o Rest
    <2>1. /\ Faithful(f) /\ f \in Fds /\ sock[f] = socket /\ sock'[f] = t
      BY <1>1, <1>5 DEF socket
    <2>2. socket.out \in Seq(Bytes) /\ w \in Seq(Bytes) /\ Rest \in Seq(Bytes)
      BY <1>1, SocketTypes, WritesAre
    <2>3. Pending(f) = w \o Rest
      <3>1. CASE Len(writes) = 1
        <4>1. Pending(f) = w
          BY <1>5, <3>1, EmptySeq DEF Pending, Inv, Types, Handling
        <4> QED BY <2>2, <3>1, <4>1, ConcatEmptySeq DEF Rest
      <3>2. CASE Len(writes) = 2
        BY <1>5, <3>2, EmptySeq DEF Pending, Rest, Inv, Types, Handling
      <3> QED BY <3>1, <3>2, WritesAre
    <2>4. Pending(f)' = Rest
      <3>1. CASE Len(writes) = 1
        BY <1>2, <3>1, WritesAre DEF Pending, Rest
      <3>2. CASE Len(writes) = 2
        BY <1>2, <1>5, <3>2, WritesAre DEF Pending, Rest
      <3> QED BY <3>1, <3>2, WritesAre
    <2>5. Echo(f) = old
      BY <2>1, <2>3 DEF Echo
    <2>6. \A e : e = new => Echo(f)' = e
      BY <2>1, <2>4 DEF Echo
    <2>7. /\ InOrder(old) /\ Own(old) \subseteq 1 .. socket.nread
      BY <2>1, <2>5 DEF Faithful
    <2>8. InOrder(new) /\ Own(new) \subseteq Own(old) /\ (n = Len(w) => new = old)
      <3> HIDE DEF w
      <3> QED BY <2>2, <2>7, WrittenStream DEF w
    <2>9. PICK e : e = new /\ Echo(f)' = e
      BY <2>6
    <2>10. /\ InOrder(e) /\ Own(e) \subseteq 1 .. sock'[f].nread
           /\ n = Len(w) => e = Echo(f)
           /\ sock'[f].nread = sock[f].nread
      BY <2>1, <2>5, <2>7, <2>8, <2>9
    <2> HIDE DEF w, old, new
    <2>11. CASE n = Len(w)
      <3>1. Lost(f)' = Lost(f)
        BY <2>9, <2>10, <2>11 DEF Lost, Echo
      <3> HIDE DEF Echo
      <3> QED BY <2>9, <2>10, <3>1 DEF Faithful, LosesNothing
    <2>12. CASE n # Len(w)
      <3>1. WriteFellShort(f)
        BY <1>5, <2>12 DEF w
      <3> HIDE DEF Echo
      <3> QED BY <2>9, <2>10, <3>1 DEF Faithful, LosesNothing
    <2> QED BY <2>11, <2>12
  <1>6. cur' \in {cur, NoFd}
    BY <1>2, WritesAre
  <1> QED BY <1>1, <1>2, <1>3, <1>4, <1>5, <1>6, OneSocketStep

LEMMA WriteStep ==
  ASSUME Inv, Write
  PROVE  GoodStep
  <1> DEFINE w == writes[1]
             n == Smaller(Len(w), Room(socket))
             part == SubSeq(w, 1, n)
             t == AfterWrite(socket, part)
  <1>1. /\ pc = "write" /\ AfterWriting /\ Head(writes) = w /\ w \in Seq(Bytes)
        /\ socket \in EchoSocket /\ cur \in Fds /\ sock \in [Fds -> EchoSocket]
    BY CurIs, WritesAre DEF Write
  <1>2. sock' = [sock EXCEPT ![cur] = t]
    BY <1>1 DEF Write, Taken, socket
  <1>3. /\ Room(socket) \in Nat /\ SndBuf = socket.queued + Room(socket)
        /\ socket.queued \in Nat /\ socket.out \in Seq(Bytes) /\ SndBuf \in Nat
    BY <1>1, SocketTypes, Constants DEF Room
  <1>4. Len(w) \in Nat
    BY <1>1
  <1>5. n \in 0 .. Len(w) /\ n <= Room(socket) /\ (n = Len(w) \/ n = Room(socket))
    <2>1. \A l, r \in Nat : /\ Smaller(l, r) \in 0 .. l /\ Smaller(l, r) <= r
                            /\ Smaller(l, r) = l \/ Smaller(l, r) = r
      BY DEF Smaller
    <2> QED BY <1>3, <1>4, <2>1
  <1> HIDE DEF n
  <1>6. part \in Seq(Bytes) /\ Len(part) = n
    <2> HIDE DEF w
    <2> QED BY <1>1, <1>5, Split
  <1> HIDE DEF part
  <1>7. /\ t \in EchoSocket /\ t.out = socket.out \o part /\ t.nread = socket.nread
        /\ t.err = socket.err /\ t.queued = socket.queued + n
    BY <1>1, <1>5, <1>6, WriteKeeps
  <1> HIDE DEF t
  <1>8. t.out = socket.out \o SubSeq(writes[1], 1, n)
    BY <1>7 DEF part
  <1>9. n # Len(w) => Len(w) > Room(socket) /\ t.queued = SndBuf
    BY <1>3, <1>4, <1>5, <1>7
  <1>10. n # Len(w) => \A f : f = cur => WriteFellShort(f)
    BY <1>1, <1>2, <1>9 DEF WriteFellShort, socket
  <1> HIDE DEF w
  <1>11. n \in 0 .. Len(writes[1]) /\ (n = Len(writes[1]) \/ \A f : f = cur => WriteFellShort(f))
    BY <1>5, <1>10 DEF w
  <1> HIDE DEF Inv
  <1> QED BY <1>1, <1>2, <1>7, <1>8, <1>11, AnsweringStep

\* A write() that queues nothing, because the queue is full or for an error.
LEMMA NothingWritten ==
  ASSUME Inv, pc = "write", AfterWriting, NEW t \in EchoSocket, sock' = [sock EXCEPT ![cur] = t],
         t.out = socket.out, t.nread = socket.nread, \A f : f = cur => WriteFellShort(f)
  PROVE  GoodStep
  <1>1. /\ writes[1] \in Seq(Bytes) /\ socket \in EchoSocket /\ socket.out \in Seq(Bytes)
        /\ cur \in Fds
    BY CurIs, WritesAre, SocketTypes
  <1>2. 0 \in 0 .. Len(writes[1]) /\ SubSeq(writes[1], 1, 0) = << >>
    <2>1. Len(writes[1]) \in Nat
      BY <1>1
    <2> QED BY <1>1, <2>1, SubSeqEmpty
  <1>3. t.out = socket.out \o SubSeq(writes[1], 1, 0)
    BY <1>1, <1>2, ConcatEmptySeq
  <1> HIDE DEF Inv
  <1> QED BY <1>2, <1>3, AnsweringStep

LEMMA WriteFailsStep ==
  ASSUME Inv, WriteWouldBlock \/ WriteReset
  PROVE  GoodStep
  <1>1. /\ pc = "write" /\ socket \in EchoSocket /\ cur \in Fds /\ sock \in [Fds -> EchoSocket]
    BY CurIs DEF WriteWouldBlock, WriteReset
  <1>2. CASE Disconnect
    BY <1>1, <1>2, DisconnectStep
  <1>3. CASE WriteWouldBlock /\ ~Disconnect
    <2>1. /\ AfterWriting /\ sock' = [sock EXCEPT ![cur] = socket]
          /\ WriteAgain(socket) /\ Head(writes) # << >>
      BY <1>1, <1>3 DEF WriteWouldBlock, socket
    <2>2. Room(socket) = 0 /\ socket.queued = SndBuf
      BY <1>1, <2>1, Constants, SocketTypes DEF WriteAgain, Writable, Room
    <2>3. Len(Head(writes)) > 0
      <3>1. Head(writes) \in Seq(Bytes)
        BY <1>1, WritesAre
      <3>2. Len(Head(writes)) \in Nat /\ Len(Head(writes)) # 0
        BY <2>1, <3>1, EmptySeq
      <3> QED BY <3>2
    <2>4. \A f : f = cur => WriteFellShort(f)
      BY <1>1, <2>1, <2>2, <2>3 DEF WriteFellShort, socket
    <2> QED BY <1>1, <2>1, <2>4, NothingWritten
  <1>4. CASE WriteReset /\ ~Disconnect
    <2> DEFINE t == [socket EXCEPT !.err = "EPIPE"]
    <2>1. AfterWriting /\ sock' = [sock EXCEPT ![cur] = t] /\ socket.err = "ECONNRESET"
      BY <1>1, <1>4 DEF WriteReset, socket
    <2>2. t \in EchoSocket /\ t.out = socket.out /\ t.nread = socket.nread
      BY <1>1 DEF EchoSocket
    <2>3. \A f : f = cur => WriteFellShort(f)
      BY <1>1, <2>1 DEF WriteFellShort, socket
    <2> HIDE DEF t
    <2> QED BY <1>1, <2>1, <2>2, <2>3, NothingWritten
  <1> QED BY <1>2, <1>3, <1>4 DEF WriteWouldBlock, WriteReset

-------------------------------------------------------------------------------
(* The theorems. *)

\* Every step keeps the invariant and loses nothing that it may not.
LEMMA NextStep ==
  ASSUME Inv, [Next]_vars
  PROVE  GoodStep
  <1>1. CASE Server
    <2>1. CASE \/ LoopTest \/ EpollTimeout \/ BatchDone \/ AcceptFails
               \/ \E b \in SUBSET ReadyEvents : EpollReturns(b)
      BY <2>1, LoopStep
    <2>2. CASE \E f \in Fds : AcceptClient(f) \/ AcceptUnregistered(f) \/ HandleClient(f)
      BY <2>2, AcceptStep, LoopStep
    <2>3. CASE Handle
      <3>1. CASE ReadNothing
        BY <3>1, ReadNothingStep
      <3>2. CASE \E n \in 1 .. BUF_SIZE : ReadChunk(n)
        BY <3>2, ReadChunkStep
      <3>3. CASE Write
        BY <3>3, WriteStep
      <3>4. CASE WriteWouldBlock \/ WriteReset
        BY <3>4, WriteFailsStep
      <3>5. CASE WriteKilled
        BY <3>5, LoopStep
      <3> QED BY <2>3, <3>1, <3>2, <3>3, <3>4, <3>5 DEF Handle
    <2> QED BY <1>1, <2>1, <2>2, <2>3 DEF Server
  <1>2. CASE Peers
    <2>1. CASE PeerConnects
      BY <2>1, LoopStep
    <2>2. CASE ~PeerConnects
      BY <1>2, <2>2, PeerStep DEF Peers
    <2> QED BY <2>1, <2>2
  <1>3. CASE Sigint \/ Halted \/ UNCHANGED vars
    BY <1>3, LoopStep DEF Halted
  <1> QED BY <1>1, <1>2, <1>3 DEF Next

\* The invariant behind the others, of both programs: registered descriptors are
\* what the kernel says they are, and each peer's echo, with what is still to be
\* written, is faithful to what was read from it.
THEOREM EchoInvariance == Spec => []Inv
  <1>1. Inv /\ [Next]_vars => Inv'
    BY NextStep DEF GoodStep
  <1> QED BY InvInit, <1>1, PTL DEF Spec

\* Every variable of the loop keeps its type, and a write never has more than
\* the two buffers of one answer to go.
THEOREM EchoTypeCorrect == Spec => []TypeOK
  <1>1. Inv => TypeOK
    <2> SUFFICES ASSUME Inv PROVE TypeOK
      OBVIOUS
    <2>1. \A f \in Fds : /\ [sock[f] EXCEPT !.out = << >>] \in Socket
                         /\ sock[f].out \in Seq(Bytes)
      <3> TAKE f \in Fds
      <3>1. sock[f] \in EchoSocket
        BY DEF Inv, Types, Kernel
      <3>2. << >> \in Seq(1 .. MaxBytes)
        OBVIOUS
      <3> QED BY <3>1, <3>2 DEF EchoSocket, Socket
    <2> QED BY <2>1 DEF Inv, Types, Control, Handling, Kernel, TypeOK
  <1> QED BY EchoInvariance, <1>1, PTL

\* Nothing accepted or closed earlier in a batch makes a later event of it false:
\* its descriptor is the same open connection, with something to read.
THEOREM EchoEventsStayTrue == Spec => []EventsStayTrue
  <1>1. Inv => EventsStayTrue
    BY DEF Inv
  <1> QED BY EchoInvariance, <1>1, PTL

\* A peer gets its own bytes back in order and never twice, whatever partial
\* writes, a full queue or strlen() dropped in between.
THEOREM EchoesInOrder == Spec => []EchoInOrder
  <1>1. Inv => EchoInOrder
    <2> SUFFICES ASSUME Inv, NEW f \in open
                 PROVE  InOrder(sock[f].out) /\ Own(sock[f].out) \subseteq 1 .. sock[f].nread
      BY DEF EchoInOrder
    <2>1. InOrder(Echo(f)) /\ Own(Echo(f)) \subseteq 1 .. sock[f].nread
      BY DEF Inv, Flow, Faithful
    <2>2. sock[f].out \in Seq(Bytes) /\ Pending(f) \in Seq(Bytes)
      BY PendingType DEF Inv, Types, Kernel, EchoSocket
    <2> HIDE DEF Inv
    <2> QED BY <2>1, <2>2, Constants, OwnConcat, InOrderConcat DEF Echo
  <1> QED BY EchoInvariance, <1>1, PTL

\* What a peer sent on an open connection is lost only by a write that meets
\* its reset or does not fit into its queue, or, in epoll-server, by the read of
\* a zero byte: at any length of the stream, not only before the first full queue.
THEOREM EchoLosesNothingUnlessFull == Spec => NothingLostUnlessFull
  <1>1. Inv /\ [Next]_vars => [\A f \in Fds : LosesNothing(f)]_vars
    BY NextStep DEF GoodStep
  <1> QED BY EchoInvariance, <1>1, PTL DEF Spec, NothingLostUnlessFull
=============================================================================
