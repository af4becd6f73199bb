------------------------ MODULE EpollStatefulProofs ------------------------
(***************************************************************************)
(* Proofs about EpollStateful, for every number of heap slots, descriptors *)
(* and bytes and every buffer size.                                        *)
(***************************************************************************)
EXTENDS EpollStateful, SequenceTheorems, TLAPS

(***************************************************************************)
(* The structural half of the inductive invariant: types, except that the  *)
(* bytes of a socket's output are not yet known to be positions, and who   *)
(* points to whom.                                                         *)
(***************************************************************************)
LooseSocket == [sent: 0 .. MaxBytes, nl: SUBSET (1 .. MaxBytes), nread: 0 .. MaxBytes,
                fin: BOOLEAN, err: {"none", "ECONNRESET", "EPIPE"},
                out: Seq(Nat), queued: 0 .. SndBuf]

Typing ==
    /\ pc \in Control /\ keep_running \in BOOLEAN
    /\ batch \subseteq Ptrs \cup {Listen} /\ cur \in Ptrs \cup {NULL}
    /\ heap \subseteq Ptrs /\ conn \in [Ptrs -> Conn]
    /\ g_conns \in [Slots -> Ptrs \cup {NULL}]
    /\ open \subseteq Fds /\ sock \in [Fds -> LooseSocket]
    /\ interest \in [Fds -> SUBSET {"IN", "OUT"}]
    /\ data_ptr \in [Fds -> Ptrs \cup {NULL}]
    /\ backlog \in Nat /\ connects \in 0 .. MaxConnects

Owners ==
    /\ \A f \in open : data_ptr[f] \in heap /\ conn[data_ptr[f]].fd = f
    /\ \A p \in heap : conn[p].fd \in open /\ data_ptr[conn[p].fd] = p
    /\ batch \ {Listen} \subseteq heap
    /\ Handling => cur \in heap \ batch

\* An entry of g_conns belongs to a live connection with that slot, and, when
\* descriptors do not collide, each live connection has its entry.
Table ==
    /\ \A i \in Slots : g_conns[i] # NULL =>
         g_conns[i] \in heap /\ conn[g_conns[i]].fd % MAX_CLIENTS = i
    /\ (\A f, g \in Fds : f % MAX_CLIENTS = g % MAX_CLIENTS => f = g)
         => \A p \in heap : g_conns[conn[p].fd % MAX_CLIENTS] = p

Structure == Typing /\ Owners /\ Table

LEMMA SlotInTable == \A f \in Fds : f % MAX_CLIENTS \in Slots
  BY SocketAssumption, ServerAssumption DEF ServerAssumption, Slots

LEMMA StructureInit == Init => Structure
  <1> SUFFICES ASSUME Init PROVE Structure
    OBVIOUS
  <1>1. Zeroed \in Conn
    BY SocketAssumption, ServerAssumption DEF Zeroed, Conn, Buffer, Index, ServerAssumption
  <1>2. NewSocket \in LooseSocket
    BY SocketAssumption, ServerAssumption DEF NewSocket, LooseSocket, SocketAssumption
  <1>3. Typing
    BY <1>1, <1>2, SocketAssumption, ServerAssumption DEF Typing, Init, Control, ServerAssumption
  <1>4. Owners /\ Table
    BY DEF Owners, Table, Init, Handling, Slots
  <1> QED BY <1>3, <1>4 DEF Structure

-----------------------------------------------------------------------------
(* A step that touches neither connections, sockets nor tables. *)

LEMMA ControlStep ==
  ASSUME Structure, UNCHANGED <<memory, epoll, open, sock>>,
         pc' \in Control, keep_running' \in BOOLEAN,
         batch' \subseteq Ptrs \cup {Listen}, cur' \in Ptrs \cup {NULL},
         batch' \ {Listen} \subseteq heap, Handling' => cur' \in heap \ batch',
         backlog' \in Nat, connects' \in 0 .. MaxConnects
  PROVE  Structure'
  <1>1. Typing'
    BY DEF Structure, Typing, memory, epoll
  <1>2. Owners'
    BY DEF Structure, Owners, memory, epoll, Handling
  <1>3. Table'
    BY DEF Structure, Table, memory, epoll
  <1> QED BY <1>1, <1>2, <1>3 DEF Structure

\* A step on the connection being handled: its buffers, its state, its socket.
LEMMA ConnStep ==
  ASSUME Structure, Handling, UNCHANGED <<batch, cur, heap, g_conns, data_ptr, open>>,
         pc' \in Control, keep_running' = keep_running,
         backlog' = backlog, connects' = connects,
         conn' \in [Ptrs -> Conn], \A p \in Ptrs : conn'[p].fd = conn[p].fd,
         sock' \in [Fds -> LooseSocket],
         interest' \in [Fds -> SUBSET {"IN", "OUT"}]
  PROVE  Structure'
  <1>1. Typing'
    BY DEF Structure, Typing
  <1>2. Owners'
    BY DEF Structure, Owners, Handling, Typing
  <1>3. Table'
    BY DEF Structure, Table, Owners, Handling, Typing
  <1> QED BY <1>1, <1>2, <1>3 DEF Structure

LEMMA Current ==
  ASSUME Structure, Handling
  PROVE  /\ cur \in Ptrs /\ cur \in heap /\ cur \notin batch
         /\ c \in Conn /\ c.fd \in open /\ c.fd \in Fds
         /\ socket \in LooseSocket /\ data_ptr[c.fd] = cur
  BY DEF Structure, Typing, Owners, c, socket

LEMMA PrepareSendType ==
  ASSUME NEW k \in Conn
  PROVE  PrepareSend(k) \in Conn /\ PrepareSend(k).fd = k.fd
                                 /\ PrepareSend(k).state = k.state
  BY DEF Conn, PrepareSend, Buffer

LEMMA ReceivedType ==
  ASSUME NEW k \in Conn, NEW n \in Nat, sock[k.fd] \in LooseSocket
  PROVE  Received(k, n) \in Conn /\ Received(k, n).fd = k.fd
  <1> DEFINE new == [i \in Index |-> IF i >= k.recv_len /\ i < k.recv_len + n
                                     THEN sock[k.fd].nread + (i - k.recv_len) + 1
                                     ELSE k.recv_buf[i]]
  <1>1. sock[k.fd].nread \in Nat
    BY SocketAssumption DEF LooseSocket
  <1>2. k.recv_len \in Nat /\ k.recv_buf \in [Index -> Nat]
    BY DEF Conn, Buffer
  <1>3. Index \subseteq Int
    BY ServerAssumption DEF Index
  <1>4. new \in [Index -> Nat]
    BY <1>1, <1>2, <1>3
  <1> DEFINE len == k.recv_len + n
  <1>5. Received(k, n) = [k EXCEPT !.recv_buf = new, !.recv_len = len]
    BY DEF Received
  <1>6. new \in Buffer /\ len \in Nat
    BY <1>2, <1>4 DEF Buffer
  <1> HIDE DEF new, len
  <1> QED BY <1>5, <1>6 DEF Conn

LEMMA SocketSteps ==
  ASSUME NEW t \in LooseSocket
  PROVE  /\ \A n \in Nat : CanRead(t, n) => AfterRead(t, n) \in LooseSocket
         /\ \A newline \in BOOLEAN : CanSend(t) => AfterSend(t, newline) \in LooseSocket
         /\ AfterFin(t) \in LooseSocket
         /\ AfterReset(t) \in LooseSocket
         /\ CanTake(t) => AfterTake(t) \in LooseSocket
  <1>1. ASSUME NEW n \in Nat, CanRead(t, n) PROVE AfterRead(t, n) \in LooseSocket
    <2> DEFINE read == t.nread + n
    <2>1. read \in 0 .. MaxBytes
      BY <1>1, SocketAssumption DEF LooseSocket, CanRead, Unread
    <2>2. AfterRead(t, n) = [t EXCEPT !.nread = read]
      BY DEF AfterRead
    <2> HIDE DEF read
    <2> QED BY <2>1, <2>2 DEF LooseSocket
  <1>2. ASSUME NEW newline \in BOOLEAN, CanSend(t) PROVE AfterSend(t, newline) \in LooseSocket
    <2> DEFINE sent == t.sent + 1
               nl == IF newline THEN t.nl \cup {sent} ELSE t.nl
    <2>1. sent \in 0 .. MaxBytes /\ nl \in SUBSET (1 .. MaxBytes)
      BY <1>2, SocketAssumption DEF LooseSocket, CanSend
    <2>2. AfterSend(t, newline) = [t EXCEPT !.sent = sent, !.nl = nl]
      BY DEF AfterSend
    <2> HIDE DEF sent, nl
    <2> QED BY <2>1, <2>2 DEF LooseSocket
  <1>3. AfterFin(t) \in LooseSocket
    BY DEF LooseSocket, AfterFin
  <1>4. AfterReset(t) \in LooseSocket
    <2> DEFINE err == IF t.fin THEN "EPIPE" ELSE "ECONNRESET"
    <2>1. err \in {"none", "ECONNRESET", "EPIPE"} /\ 0 \in 0 .. SndBuf
      BY SocketAssumption
    <2>2. AfterReset(t) = [t EXCEPT !.err = err, !.queued = 0]
      BY DEF AfterReset
    <2> HIDE DEF err
    <2> QED BY <2>1, <2>2 DEF LooseSocket
  <1>5. ASSUME CanTake(t) PROVE AfterTake(t) \in LooseSocket
    <2> DEFINE left == t.queued - 1
    <2>1. left \in 0 .. SndBuf
      BY <1>5, SocketAssumption DEF LooseSocket, CanTake
    <2>2. AfterTake(t) = [t EXCEPT !.queued = left]
      BY DEF AfterTake
    <2> HIDE DEF left
    <2> QED BY <2>1, <2>2 DEF LooseSocket
  <1> QED BY <1>1, <1>2, <1>3, <1>4, <1>5

LEMMA SocketWrite ==
  ASSUME NEW t \in LooseSocket, NEW bytes \in Seq(Nat), CanWrite(t, Len(bytes))
  PROVE  AfterWrite(t, bytes) \in LooseSocket
  <1> DEFINE queued == t.queued + Len(bytes)
             out == t.out \o bytes
  <1>1. queued \in 0 .. SndBuf
    BY SocketAssumption DEF LooseSocket, CanWrite, Room
  <1>2. out \in Seq(Nat)
    BY DEF LooseSocket
  <1>3. AfterWrite(t, bytes) = [t EXCEPT !.out = out, !.queued = queued]
    BY DEF AfterWrite
  <1> HIDE DEF queued, out
  <1> QED BY <1>1, <1>2, <1>3 DEF LooseSocket

LEMMA AcceptStep == Structure /\ AcceptClient => Structure'
  <1> SUFFICES ASSUME Structure, NEW f \in Fds, NEW p \in Ptrs \ heap,
                      Accepted(f),
                      heap' = heap \cup {p},
                      conn' = [conn EXCEPT ![p] = [Zeroed EXCEPT !.fd = f, !.state = "READ"]],
                      g_conns' = [g_conns EXCEPT ![f % MAX_CLIENTS] = p],
                      interest' = [interest EXCEPT ![f] = {"IN"}],
                      data_ptr' = [data_ptr EXCEPT ![f] = p],
                      UNCHANGED <<pc, cur, keep_running, connects>>
               PROVE  Structure'
    BY DEF AcceptClient
  <1> DEFINE new == [Zeroed EXCEPT !.fd = f, !.state = "READ"]
  <1>1. new \in Conn /\ new.fd = f
    BY ServerAssumption DEF Zeroed, Conn, Buffer, Index
  <1>2. NewSocket \in LooseSocket
    BY SocketAssumption DEF NewSocket, LooseSocket
  <1>3. /\ pc = "dispatch" /\ f \notin open
        /\ batch' = batch \ {Listen} /\ open' = open \cup {f}
        /\ sock' = [sock EXCEPT ![f] = NewSocket] /\ backlog' \in Nat
    BY DEF Accepted, HandleListen, Structure, Typing
  <1>4. f % MAX_CLIENTS \in Slots
    BY SlotInTable
  <1>5. conn' = [conn EXCEPT ![p] = new]
    OBVIOUS
  <1> HIDE DEF new
  <1>6. Typing'
    BY <1>1, <1>2, <1>3, <1>4, <1>5 DEF Structure, Typing
  <1>7. Owners'
    BY <1>1, <1>3, <1>5, ServerAssumption DEF Structure, Typing, Owners, Handling
  <1>8. Table'
    BY <1>1, <1>3, <1>4, <1>5, SlotInTable DEF Structure, Typing, Owners, Table
  <1> QED BY <1>6, <1>7, <1>8 DEF Structure

LEMMA CleanupStep == Structure /\ Cleanup => Structure'
  <1> SUFFICES ASSUME Structure, Cleanup PROVE Structure'
    OBVIOUS
  <1> DEFINE fd == c.fd
  <1>1. /\ cur \in Ptrs /\ cur \in heap /\ cur \notin batch
        /\ fd \in open /\ fd \in Fds /\ fd = conn[cur].fd /\ data_ptr[fd] = cur
    BY Current DEF Cleanup, Handling, c
  <1>2. /\ interest' = [interest EXCEPT ![fd] = {}]
        /\ data_ptr' = [data_ptr EXCEPT ![fd] = NULL]
        /\ open' = open \ {fd} /\ sock' = [sock EXCEPT ![fd] = NewSocket]
        /\ g_conns' = [g_conns EXCEPT ![fd % MAX_CLIENTS] = NULL]
        /\ heap' = heap \ {cur} /\ conn' = [conn EXCEPT ![cur] = Zeroed]
        /\ cur' = NULL /\ pc' = "dispatch"
        /\ UNCHANGED <<batch, keep_running, backlog, connects>>
    BY DEF Cleanup
  <1> HIDE DEF fd
  <1>3. Zeroed \in Conn /\ NewSocket \in LooseSocket
    BY SocketAssumption, ServerAssumption
       DEF Zeroed, Conn, Buffer, Index, NewSocket, LooseSocket
  <1>4. fd % MAX_CLIENTS \in Slots
    BY <1>1, SlotInTable
  <1>5. Typing'
    BY <1>1, <1>2, <1>3, <1>4 DEF Structure, Typing, Control
  <1>6. Owners'
    BY <1>1, <1>2 DEF Structure, Typing, Owners, Handling
  <1>7. Table'
    <2>1. /\ conn \in [Ptrs -> Conn] /\ g_conns \in [Slots -> Ptrs \cup {NULL}] /\ heap \subseteq Ptrs
          /\ \A p \in heap : conn[p].fd \in Fds /\ (p # cur => conn[p].fd # fd)
      BY <1>1 DEF Structure, Typing, Owners
    <2>2. \A p \in heap \ {cur} : p \in Ptrs /\ conn'[p] = conn[p]
      BY <1>2, <2>1
    <2>3. \A i \in Slots : g_conns'[i] = IF i = fd % MAX_CLIENTS THEN NULL ELSE g_conns[i]
      BY <1>2, <2>1
    <2>4. ASSUME NEW i \in Slots, g_conns'[i] # NULL
          PROVE  g_conns'[i] \in heap' /\ conn'[g_conns'[i]].fd % MAX_CLIENTS = i
      <3>1. /\ g_conns'[i] = g_conns[i] /\ i # fd % MAX_CLIENTS
            /\ g_conns[i] \in heap /\ conn[g_conns[i]].fd % MAX_CLIENTS = i
        BY <2>3, <2>4 DEF Structure, Table
      <3> QED BY <1>1, <1>2, <2>2, <3>1
    <2>5. ASSUME \A f, g \in Fds : f % MAX_CLIENTS = g % MAX_CLIENTS => f = g, NEW p \in heap'
          PROVE  g_conns'[conn'[p].fd % MAX_CLIENTS] = p
      <3>1. p \in heap /\ p # cur /\ conn'[p] = conn[p]
        BY <1>2, <2>2
      <3>2. conn[p].fd \in Fds /\ conn[p].fd # fd /\ g_conns[conn[p].fd % MAX_CLIENTS] = p
        BY <2>1, <2>5, <3>1 DEF Structure, Table
      <3>3. conn[p].fd % MAX_CLIENTS # fd % MAX_CLIENTS /\ conn[p].fd % MAX_CLIENTS \in Slots
        BY <1>1, <2>5, <3>2, SlotInTable
      <3> QED BY <2>3, <3>1, <3>2, <3>3
    <2> QED BY <2>4, <2>5 DEF Table
  <1> QED BY <1>5, <1>6, <1>7 DEF Structure

LEMMA EventsForType == \A state \in {"READ", "WRITE", "CLOSE"} : EventsFor(state) \in SUBSET {"IN", "OUT"}
  BY DEF EventsFor

LEMMA StartWriteStep ==
  ASSUME Structure, Handling, NEW k \in Conn, k.fd = c.fd, StartWrite(k),
         sock' \in [Fds -> LooseSocket],
         UNCHANGED <<batch, cur, heap, g_conns, data_ptr, keep_running, open, backlog, connects>>
  PROVE  Structure'
  <1> DEFINE kw == [k EXCEPT !.state = "WRITE"]
             kp == PrepareSend(kw)
  <1>1. kw \in Conn /\ kw.fd = k.fd
    BY DEF Conn
  <1>2. kp \in Conn /\ kp.fd = k.fd
    BY <1>1, PrepareSendType
  <1>3. /\ pc' = "do_write" /\ conn' = [conn EXCEPT ![cur] = kp]
        /\ interest' = [interest EXCEPT ![k.fd] = EventsFor("WRITE")]
    BY DEF StartWrite
  <1> HIDE DEF kw, kp
  <1>4. conn' \in [Ptrs -> Conn] /\ \A p \in Ptrs : conn'[p].fd = conn[p].fd
    BY <1>2, <1>3 DEF c, Structure, Typing
  <1>5. interest' \in [Fds -> SUBSET {"IN", "OUT"}]
    BY <1>3, EventsForType DEF Structure, Typing
  <1> QED BY <1>3, <1>4, <1>5, ConnStep DEF Control

LEMMA DoReadStep == Structure /\ DoRead => Structure'
  <1> SUFFICES ASSUME Structure, DoRead PROVE Structure'
    OBVIOUS
  <1>0. Handling
    BY DEF DoRead, ReadFull, ReadData, ReadWouldBlock, ReadEnd, Handling
  <1>1. /\ cur \in Ptrs /\ c \in Conn /\ c.fd \in Fds /\ c = conn[cur]
        /\ sock \in [Fds -> LooseSocket] /\ conn \in [Ptrs -> Conn]
    BY <1>0, Current DEF Structure, Typing, c
  <1>2. CASE ReadFull
    BY <1>0, <1>1, <1>2, StartWriteStep DEF ReadFull, world
  <1>3. ASSUME NEW n \in 1 .. BUF_SIZE, ReadData(n) PROVE Structure'
    <2>1. sock' = [sock EXCEPT ![c.fd] = AfterRead(sock[c.fd], n)]
      BY <1>3 DEF ReadData
    <2>2. n \in Nat /\ CanRead(sock[c.fd], n)
      BY <1>3 DEF ReadData, socket
    <2>3. sock' \in [Fds -> LooseSocket]
      BY <1>1, <2>1, <2>2, SocketSteps
    <2>4. Received(c, n) \in Conn /\ Received(c, n).fd = c.fd
      BY <1>1, <2>2, ReceivedType
    <2>5. CASE HasNewline(Received(c, n))
      <3>1. StartWrite(Received(c, n))
        BY <1>3, <2>5 DEF ReadData
      <3> QED BY <1>0, <1>3, <2>3, <2>4, <3>1, StartWriteStep DEF ReadData
    <2>6. CASE ~HasNewline(Received(c, n))
      <3>1. conn' = [conn EXCEPT ![cur] = Received(c, n)] /\ UNCHANGED <<pc, interest>>
        BY <1>3, <2>6 DEF ReadData
      <3>2. conn' \in [Ptrs -> Conn] /\ \A p \in Ptrs : conn'[p].fd = conn[p].fd
        BY <1>1, <2>4, <3>1
      <3> QED BY <1>0, <1>3, <2>3, <3>1, <3>2, ConnStep DEF ReadData, Structure, Typing
    <2> QED BY <2>5, <2>6
  <1>4. CASE ReadWouldBlock
    BY <1>4, ControlStep DEF ReadWouldBlock, Structure, Typing, Owners, world, Control, Handling
  <1>5. CASE ReadEnd
    <2>1. conn' = [conn EXCEPT ![cur].state = "CLOSE"]
      BY <1>5 DEF ReadEnd
    <2>2. conn' \in [Ptrs -> Conn] /\ \A p \in Ptrs : conn'[p].fd = conn[p].fd
      BY <1>1, <2>1 DEF Conn
    <2> QED BY <1>0, <1>5, <2>2, ConnStep DEF ReadEnd, Structure, Typing, world, epoll, Control
  <1> QED BY <1>2, <1>3, <1>4, <1>5 DEF DoRead

LEMMA DoWriteStep == Structure /\ BuffersInBounds /\ DoWrite => Structure'
  <1> SUFFICES ASSUME Structure, BuffersInBounds, DoWrite PROVE Structure'
    OBVIOUS
  <1>0. Handling
    BY DEF DoWrite, WriteWouldBlock, WriteError, WriteKilled, WriteDone, WriteData, Handling
  <1>1. /\ cur \in Ptrs /\ c \in Conn /\ c.fd \in Fds /\ c = conn[cur]
        /\ sock \in [Fds -> LooseSocket] /\ conn \in [Ptrs -> Conn]
        /\ interest \in [Fds -> SUBSET {"IN", "OUT"}]
    BY <1>0, Current DEF Structure, Typing, c
  <1>2. CASE WriteWouldBlock
    <2>1. interest' \in [Fds -> SUBSET {"IN", "OUT"}]
      BY <1>1, <1>2, EventsForType DEF WriteWouldBlock, Conn
    <2>2. Typing'
      BY <1>2, <2>1 DEF WriteWouldBlock, memory, world, Structure, Typing, Control
    <2> QED BY <1>2, <2>2 DEF WriteWouldBlock, memory, world, Structure, Owners, Table, Handling
  <1>3. CASE WriteError
    <2>1. /\ conn' = [conn EXCEPT ![cur].state = "CLOSE"]
          /\ interest' = [interest EXCEPT ![c.fd] = EventsFor("CLOSE")]
      BY <1>3 DEF WriteError
    <2>2. conn' \in [Ptrs -> Conn] /\ \A p \in Ptrs : conn'[p].fd = conn[p].fd
      BY <1>1, <2>1 DEF Conn
    <2>3. interest' \in [Fds -> SUBSET {"IN", "OUT"}]
      BY <1>1, <2>1, EventsForType
    <2> QED BY <1>0, <1>3, <2>2, <2>3, ConnStep DEF WriteError, Structure, Typing, world, Control
  <1>4. CASE WriteKilled
    BY <1>4, ControlStep DEF WriteKilled, Structure, Typing, Owners, world, Control, Handling
  <1>5. CASE WriteDone
    <2> DEFINE reset == [c EXCEPT !.recv_len = 0, !.send_len = 0, !.send_done = 0, !.state = "READ"]
    <2>1. /\ conn' = [conn EXCEPT ![cur] = reset]
          /\ interest' = [interest EXCEPT ![c.fd] = EventsFor("READ")]
          /\ pc' = "dispatch" /\ UNCHANGED <<batch, cur, heap, g_conns, data_ptr, world>>
      BY <1>1, <1>5 DEF WriteDone
    <2>2. reset \in Conn /\ reset.fd = c.fd
      BY <1>1 DEF Conn
    <2> HIDE DEF reset
    <2>3. conn' \in [Ptrs -> Conn] /\ \A p \in Ptrs : conn'[p].fd = conn[p].fd
      BY <1>1, <2>1, <2>2
    <2>4. interest' \in [Fds -> SUBSET {"IN", "OUT"}]
      BY <1>1, <2>1, EventsForType
    <2> QED BY <1>0, <2>1, <2>3, <2>4, ConnStep DEF Structure, Typing, world, Control
  <1>6. ASSUME NEW n \in 1 .. BUF_SIZE, WriteData(n) PROVE Structure'
    <2> DEFINE bytes == [i \in 1 .. n |-> c.send_buf[c.send_done + i - 1]]
    <2>1. sock' = [sock EXCEPT ![c.fd] = AfterWrite(sock[c.fd], bytes)]
      BY <1>6 DEF WriteData
    <2>2. CanWrite(sock[c.fd], n) /\ n \in Nat
      BY <1>6 DEF WriteData, socket
    <2>3. bytes \in Seq(Nat) /\ Len(bytes) = n
      <3>1. c.recv_len <= BUF_SIZE - 1 /\ c.send_len <= c.recv_len
        BY <1>0, <1>1, Current DEF BuffersInBounds
      <3>2. n <= c.send_len - c.send_done
        BY <1>6 DEF WriteData, Unsent
      <3>3. n <= c.send_len - c.send_done /\ c.send_len <= BUF_SIZE - 1
        BY <1>1, <3>1, <3>2, ServerAssumption DEF Conn
      <3>4. \A i \in 1 .. n : c.send_done + i - 1 \in Index
        BY <1>1, <2>2, <3>3, ServerAssumption DEF Conn, Index
      <3>5. bytes \in [1 .. n -> Nat]
        BY <1>1, <3>4 DEF Conn, Buffer
      <3> QED BY <2>2, <3>5
    <2> HIDE DEF bytes
    <2>4. sock' \in [Fds -> LooseSocket]
      BY <1>1, <2>1, <2>2, <2>3, SocketWrite
    <2>5. conn' = [conn EXCEPT ![cur].send_done = c.send_done + n]
      BY <1>1, <1>6 DEF WriteData
    <2>6. conn' \in [Ptrs -> Conn] /\ \A p \in Ptrs : conn'[p].fd = conn[p].fd
      BY <1>1, <2>2, <2>5 DEF Conn
    <2> QED BY <1>0, <1>6, <2>4, <2>6, ConnStep DEF WriteData, Structure, Typing, epoll
  <1> QED BY <1>2, <1>3, <1>4, <1>5, <1>6 DEF DoWrite

LEMMA DispatchStep == Structure /\ Dispatch => Structure'
  <1> SUFFICES ASSUME Structure, Dispatch PROVE Structure'
    OBVIOUS
  <1>1. CASE BatchDone
    BY <1>1, ControlStep DEF BatchDone, Structure, Typing, Owners, world, Control, Handling
  <1>2. CASE AcceptFails
    BY <1>2, ControlStep
       DEF AcceptFails, HandleListen, Structure, Typing, Owners, world, Control, Handling
  <1>3. CASE AcceptClient
    BY <1>3, AcceptStep
  <1>4. CASE AcceptWithoutMemory
    BY <1>4, ControlStep
       DEF AcceptWithoutMemory, HandleListen, Structure, Typing, Owners, world, Control, Handling
  <1>5. ASSUME NEW p \in Ptrs, HandleConn(p) PROVE Structure'
    <2>1. /\ p \in batch \ {Listen} /\ batch' = batch \ {p} /\ cur' = p
          /\ UNCHANGED <<heap, g_conns, epoll, world>>
          /\ p \in heap /\ conn[p] \in Conn
      BY <1>5 DEF HandleConn, Structure, Typing, Owners
    <2>2. PrepareSend(conn[p]) \in Conn /\ PrepareSend(conn[p]).fd = conn[p].fd
      BY <2>1, PrepareSendType
    <2>3. /\ pc' \in {"do_read", "do_write", "cleanup"}
          /\ conn' = conn \/ conn' = [conn EXCEPT ![p] = PrepareSend(conn[p])]
      BY <1>5, <2>1 DEF HandleConn, Conn
    <2>4. conn' \in [Ptrs -> Conn] /\ \A q \in Ptrs : conn'[q].fd = conn[q].fd
      BY <2>2, <2>3 DEF Structure, Typing
    <2>5. Typing'
      BY <2>1, <2>3, <2>4 DEF Structure, Typing, epoll, world, Control
    <2>6. Owners'
      BY <2>1, <2>3, <2>4 DEF Structure, Typing, Owners, epoll, world, Handling
    <2>7. Table'
      BY <2>1, <2>4 DEF Structure, Typing, Table, epoll, world
    <2> QED BY <2>5, <2>6, <2>7 DEF Structure
  <1> QED BY <1>1, <1>2, <1>3, <1>4, <1>5 DEF Dispatch

LEMMA LoopStep ==
  ASSUME Structure,
         LoopTest \/ EpollTimeout \/ (\E b \in SUBSET ReadyEvents : EpollReturns(b)) \/ Sigint
  PROVE  Structure'
  <1>1. CASE LoopTest
    BY <1>1, ControlStep DEF LoopTest, Structure, Typing, Owners, world, Control, Handling
  <1>2. CASE EpollTimeout
    BY <1>2, ControlStep DEF EpollTimeout, Structure, Typing, Owners, world, Control, Handling
  <1>3. ASSUME NEW b \in SUBSET ReadyEvents, EpollReturns(b) PROVE Structure'
    <2>1. b \subseteq heap \cup {Listen}
      BY DEF ReadyEvents, ReadyFds, Structure, Owners
    <2> QED BY <1>3, <2>1, ControlStep
            DEF EpollReturns, Structure, Typing, Owners, world, Control, Handling
  <1>4. CASE Sigint
    BY <1>4, ControlStep DEF Sigint, Structure, Typing, Owners, Control, Handling
  <1> QED BY <1>1, <1>2, <1>3, <1>4

LEMMA PeersStep == Structure /\ Peers => Structure'
  <1> SUFFICES ASSUME Structure, Peers PROVE Structure'
    OBVIOUS
  <1>1. CASE PeerConnects
    BY <1>1, ControlStep, ServerAssumption
       DEF PeerConnects, Structure, Typing, Owners, server, memory, epoll, Control, Handling
  <1>2. ASSUME NEW f \in open, NEW after \in LooseSocket, PeerActs(f, after) PROVE Structure'
    <2>1. sock' \in [Fds -> LooseSocket]
      BY <1>2 DEF PeerActs, Structure, Typing
    <2>2. Typing'
      BY <1>2, <2>1 DEF PeerActs, server, memory, epoll, Structure, Typing
    <2> QED BY <1>2, <2>2 DEF PeerActs, server, memory, epoll, Structure, Owners, Table, Handling
  <1>3. ASSUME NEW f \in open,
               \/ \E newline \in BOOLEAN : PeerSends(f, newline)
               \/ PeerFins(f) \/ PeerResets(f) \/ PeerTakes(f)
        PROVE  \E after \in LooseSocket : PeerActs(f, after)
    <2>1. sock[f] \in LooseSocket
      BY DEF Structure, Typing
    <2> QED BY <1>3, <2>1, SocketSteps DEF PeerSends, PeerFins, PeerResets, PeerTakes
  <1> QED BY <1>1, <1>2, <1>3 DEF Peers

LEMMA StructureStep == Structure /\ BuffersInBounds /\ [Next]_vars => Structure'
  <1> SUFFICES ASSUME Structure, BuffersInBounds, [Next]_vars PROVE Structure'
    OBVIOUS
  <1>1. CASE Server
    BY <1>1, LoopStep, DispatchStep, DoReadStep, DoWriteStep, CleanupStep DEF Server
  <1>2. CASE Peers
    BY <1>2, PeersStep
  <1>3. CASE Sigint
    BY <1>3, LoopStep
  <1>4. CASE UNCHANGED vars
    BY <1>4, ControlStep
       DEF vars, server, world, epoll, memory, Structure, Typing, Owners, Handling
  <1> QED BY <1>1, <1>2, <1>3, <1>4 DEF Next, Halted

-----------------------------------------------------------------------------
(***************************************************************************)
(* The data half: where the bytes of a connection are.  The last recv_len  *)
(* bytes read are in recv_buf, send_buf is a copy of them, and the output  *)
(* is the first bytes of the stream.                                       *)
(***************************************************************************)
Data(k, t) ==
    /\ k.recv_len <= BUF_SIZE - 1
    /\ k.send_len \in {0, k.recv_len} /\ k.send_done <= k.send_len
    /\ k.state = "READ" => k.send_len = 0
    /\ t.nread = Len(t.out) + Pending(k)
    /\ \A i \in Index : i < k.recv_len => k.recv_buf[i] = t.nread - k.recv_len + i + 1
    /\ \A i \in Index : i < k.send_len => k.send_buf[i] = k.recv_buf[i]
    /\ \A i \in 1 .. Len(t.out) : t.out[i] = i

DataInv ==
    /\ \A p \in heap : Data(conn[p], sock[conn[p].fd])
    /\ \A f \in Fds \ open : sock[f] = NewSocket
    /\ pc = "do_read" => c.state = "READ"
    /\ pc = "do_write" => c.send_len = c.recv_len

LEMMA NewData ==
  ASSUME NEW f \in Fds
  PROVE  Data([Zeroed EXCEPT !.fd = f, !.state = "READ"], NewSocket)
  BY ServerAssumption DEF Data, Zeroed, NewSocket, Pending, Index

\* The socket fields a peer changes do not matter, nor does leaving READ.
LEMMA DataFrame ==
  ASSUME NEW k, NEW t, Data(k, t), NEW t2, t2.nread = t.nread, t2.out = t.out,
         NEW k2, k2.recv_len = k.recv_len, k2.send_len = k.send_len,
         k2.send_done = k.send_done, k2.recv_buf = k.recv_buf, k2.send_buf = k.send_buf,
         k2.state # "READ" \/ k2.state = k.state
  PROVE  Data(k2, t2)
  BY DEF Data, Pending, Unsent

LEMMA PrepareSendData ==
  ASSUME NEW k \in Conn, NEW t \in LooseSocket, Data(k, t), k.state = "WRITE"
  PROVE  /\ Data(PrepareSend(k), t)
         /\ PrepareSend(k).send_len = PrepareSend(k).recv_len
  <1>1. CASE k.send_len = 0
    <2> DEFINE copy == [i \in Index |-> IF i < k.recv_len THEN k.recv_buf[i] ELSE k.send_buf[i]]
               new == PrepareSend(k)
    <2>1. new = [k EXCEPT !.send_buf = copy, !.send_len = k.recv_len, !.send_done = 0]
      BY <1>1 DEF PrepareSend
    <2>2. \A i \in Index : i < k.recv_len => copy[i] = k.recv_buf[i]
      OBVIOUS
    <2> HIDE DEF copy
    <2>3. /\ new.recv_len = k.recv_len /\ new.send_len = k.recv_len /\ new.send_done = 0
          /\ new.recv_buf = k.recv_buf /\ new.send_buf = copy /\ new.state = "WRITE"
      BY <2>1 DEF Conn
    <2>4. k.recv_len \in Nat
      BY DEF Conn
    <2> HIDE DEF new
    <2> QED BY <1>1, <2>2, <2>3, <2>4 DEF Data, Pending, Unsent, new
  <1>2. CASE k.send_len # 0
    BY <1>2 DEF PrepareSend, Data
  <1> QED BY <1>1, <1>2

LEMMA ReceivedData ==
  ASSUME NEW k \in Conn, NEW n \in Nat \ {0}, sock[k.fd] \in LooseSocket,
         Data(k, sock[k.fd]), k.state = "READ", n <= ReadRoom(k)
  PROVE  /\ Data(Received(k, n), AfterRead(sock[k.fd], n))
         /\ Received(k, n).state = "READ"
  <1> DEFINE t == sock[k.fd]
             filled == [i \in Index |-> IF i >= k.recv_len /\ i < k.recv_len + n
                                        THEN t.nread + (i - k.recv_len) + 1
                                        ELSE k.recv_buf[i]]
             len == k.recv_len + n
             nread == t.nread + n
             k2 == Received(k, n)
             t2 == AfterRead(t, n)
  <1>1. /\ k2 = [k EXCEPT !.recv_buf = filled, !.recv_len = len]
        /\ t2 = [t EXCEPT !.nread = nread]
    BY DEF Received, AfterRead
  <1>2. /\ t.nread \in Nat /\ k.recv_len \in Nat /\ Len(t.out) \in Nat
        /\ k.send_len = 0 /\ k.send_done = 0 /\ t.nread = Len(t.out) + k.recv_len
    BY SocketAssumption DEF LooseSocket, Conn, Data, Pending
  <1>3. len \in Nat /\ len <= BUF_SIZE - 1 /\ nread = Len(t.out) + len /\ nread \in Nat
    <2> DEFINE written == Len(t.out)
    <2>1. written \in Nat /\ t.nread = written + k.recv_len
      BY <1>2
    <2>2. n <= BUF_SIZE - 1 - k.recv_len
      BY DEF ReadRoom
    <2> HIDE DEF written, t
    <2>3. len \in Nat /\ len <= BUF_SIZE - 1
      BY <1>2, <2>2, ServerAssumption
    <2>4. nread = written + len /\ nread \in Nat
      BY <1>2, <2>1
    <2> QED BY <2>3, <2>4 DEF written
  <1>4. \A i \in Index : i < len => filled[i] = nread - len + i + 1
    <2> SUFFICES ASSUME NEW i \in Index, i < len PROVE filled[i] = nread - len + i + 1
      OBVIOUS
    <2>1. i \in Nat /\ nread - len = t.nread - k.recv_len
      BY <1>2, ServerAssumption DEF Index
    <2>2. CASE i >= k.recv_len
      BY <1>2, <2>1, <2>2
    <2>3. CASE i < k.recv_len
      BY <1>2, <2>1, <2>3 DEF Data
    <2> QED BY <1>2, <2>1, <2>2, <2>3
  <1> HIDE DEF filled, len, nread
  <1>5. /\ k2.recv_len = len /\ k2.recv_buf = filled /\ k2.send_len = 0 /\ k2.send_done = 0
        /\ k2.state = "READ" /\ k2.send_buf = k.send_buf
        /\ t2.nread = nread /\ t2.out = t.out
    BY <1>1, <1>2 DEF Conn, LooseSocket
  <1>6. \A i \in 1 .. Len(t.out) : t.out[i] = i
    BY DEF Data
  <1>7. \A i \in Index : ~(i < 0)
    BY ServerAssumption DEF Index
  <1> HIDE DEF k2, t2
  <1>8. Data(k2, t2)
    BY <1>3, <1>4, <1>5, <1>6, <1>7 DEF Data, Pending
  <1> QED BY <1>5, <1>8 DEF k2, t2

LEMMA Concat ==
  ASSUME NEW a \in Seq(Nat), NEW b \in Seq(Nat)
  PROVE  /\ Len(a \o b) = Len(a) + Len(b)
         /\ \A i \in 1 .. Len(a) : (a \o b)[i] = a[i]
         /\ \A i \in 1 .. Len(b) : (a \o b)[Len(a) + i] = b[i]
  OBVIOUS

\* The byte at the place do_write has come to is the next of the stream.
LEMMA NextUnsent ==
  ASSUME NEW written \in Nat, NEW len \in Nat, NEW done \in Nat, NEW nread \in Nat,
         nread = written + (len - done), NEW i \in Nat
  PROVE  nread - len + (done + i - 1) + 1 = written + i
  OBVIOUS

\* What is written is no longer unsent.
LEMMA MoreSent ==
  ASSUME NEW written \in Nat, NEW len \in Nat, NEW done \in Nat, NEW n \in Nat,
         NEW nread \in Nat, nread = written + (len - done)
  PROVE  nread = (written + n) + (len - (done + n))
  OBVIOUS

LEMMA WriteDataKept ==
  ASSUME NEW k \in Conn, NEW t \in LooseSocket, Data(k, t), k.send_len = k.recv_len,
         k.send_done < k.send_len, NEW n \in Nat \ {0}, n <= Unsent(k),
         NEW bytes \in Seq(Nat), Len(bytes) = n,
         \A i \in 1 .. n : bytes[i] = k.send_buf[k.send_done + i - 1]
  PROVE  Data([k EXCEPT !.send_done = @ + n], AfterWrite(t, bytes))
  <1> DEFINE done == k.send_done + n
             out == t.out \o bytes
             k2 == [k EXCEPT !.send_done = done]
             t2 == AfterWrite(t, bytes)
             written == Len(t.out)
  <1>1. /\ written \in Nat /\ k.recv_len \in Nat /\ k.send_len \in Nat /\ k.send_done \in Nat
        /\ t.nread \in Nat /\ t.out \in Seq(Nat)
    BY SocketAssumption DEF LooseSocket, Conn
  <1>2. /\ t.nread = written + (k.recv_len - k.send_done)
        /\ k.recv_len <= BUF_SIZE - 1 /\ done <= k.send_len /\ done \in Nat
    BY <1>1, ServerAssumption DEF Data, Pending, Unsent
  <1>3. /\ Len(out) = written + n
        /\ \A i \in 1 .. written : out[i] = t.out[i]
        /\ \A i \in 1 .. n : out[written + i] = bytes[i]
    BY <1>1, Concat
  <1>4. done = k.send_done + n /\ n <= k.send_len - k.send_done
    BY DEF Unsent
  <1>5. \A i \in 1 .. written : t.out[i] = i
    BY DEF Data
  <1> HIDE DEF written, done, out
  <1>6. \A i \in 1 .. n : bytes[i] = written + i
    <2> SUFFICES ASSUME NEW i \in 1 .. n PROVE bytes[i] = written + i
      OBVIOUS
    <2> DEFINE at == k.send_done + i - 1
    <2>1. at \in Index /\ at < k.send_len /\ at < k.recv_len
      <3>1. at \in Nat /\ at < k.send_len
        BY <1>1, <1>4
      <3> HIDE DEF at
      <3> QED BY <1>1, <1>2, <3>1, ServerAssumption DEF Index
    <2>2. bytes[i] = k.send_buf[at]
      OBVIOUS
    <2>3. k.send_buf[at] = t.nread - k.recv_len + at + 1
      <3> HIDE DEF at
      <3> QED BY <2>1 DEF Data
    <2>4. t.nread - k.recv_len + at + 1 = written + i
      <3>1. PICK before \in Nat, read \in Nat, len \in Nat, from \in Nat :
              before = written /\ read = t.nread /\ len = k.recv_len /\ from = k.send_done
        BY <1>1
      <3>2. read = before + (len - from)
        BY <1>2, <3>1
      <3>3. i \in Nat
        OBVIOUS
      <3>4. read - len + (from + i - 1) + 1 = before + i
        BY <3>2, <3>3, NextUnsent
      <3> QED BY <3>1, <3>4
    <2> QED BY <2>2, <2>3, <2>4
  <1>7. \A i \in 1 .. Len(out) : out[i] = i
    <2> SUFFICES ASSUME NEW i \in 1 .. written + n PROVE out[i] = i
      BY <1>3
    <2>1. CASE i <= written
      <3>1. i \in 1 .. written
        BY <1>1, <2>1
      <3> QED BY <1>3, <1>5, <3>1
    <2>2. CASE i > written
      <3> DEFINE j == i - written
      <3>1. j \in 1 .. n /\ i = written + j
        BY <1>1, <2>2
      <3> HIDE DEF j, out
      <3> QED BY <1>3, <1>6, <3>1
    <2> QED BY <1>1, <2>1, <2>2
  <1>8. t2.nread = t.nread /\ t2.out = out
    BY DEF AfterWrite, out, LooseSocket
  <1>9. /\ k2.recv_len = k.recv_len /\ k2.send_len = k.send_len /\ k2.send_done = done
        /\ k2.recv_buf = k.recv_buf /\ k2.send_buf = k.send_buf /\ k2.state = k.state
    BY DEF Conn
  <1>10. t.nread = Len(out) + (k.send_len - done)
    <2>1. Len(out) \in Nat /\ Len(out) = written + n
      BY <1>1, <1>3
    <2>2. t.nread = written + (k.send_len - k.send_done)
      BY <1>2
    <2> QED BY <1>1, <1>4, <2>1, <2>2, MoreSent
  <1> HIDE DEF k2, t2
  <1>11. k2.recv_len <= BUF_SIZE - 1 /\ k2.send_len > 0 /\ k2.send_done <= k2.send_len
    BY <1>1, <1>2, <1>9
  <1>12. t2.nread = Len(t2.out) + Pending(k2)
    BY <1>8, <1>9, <1>10, <1>11 DEF Pending, Unsent
  <1>13. /\ \A i \in Index : i < k2.recv_len => k2.recv_buf[i] = t2.nread - k2.recv_len + i + 1
         /\ \A i \in Index : i < k2.send_len => k2.send_buf[i] = k2.recv_buf[i]
         /\ k2.state # "READ" /\ k2.send_len = k2.recv_len
    BY <1>1, <1>8, <1>9, <1>11 DEF Data
  <1>14. \A i \in 1 .. Len(t2.out) : t2.out[i] = i
    BY <1>7, <1>8
  <1>15. Data(k2, t2)
    BY <1>11, <1>12, <1>13, <1>14 DEF Data
  <1> QED BY <1>15 DEF k2, t2, done

LEMMA DataInit == Init => DataInv
  BY DEF Init, DataInv

LEMMA DataControl ==
  ASSUME DataInv, UNCHANGED <<heap, conn, open, sock>>,
         pc' \notin {"do_read", "do_write"} \/ (pc' = pc /\ cur' = cur)
  PROVE  DataInv'
  BY DEF DataInv, c

\* One connection q changes, with its socket; the others have other sockets.
LEMMA DataOfOne ==
  ASSUME Structure, DataInv, NEW q \in heap, cur' = q, UNCHANGED <<heap, open>>,
         NEW k, conn' = [conn EXCEPT ![q] = k], k.fd = conn[q].fd,
         NEW t, sock' = [sock EXCEPT ![conn[q].fd] = t], Data(k, t),
         pc' = "do_read" => k.state = "READ",
         pc' = "do_write" => k.send_len = k.recv_len
  PROVE  DataInv'
  <1>1. conn \in [Ptrs -> Conn] /\ q \in Ptrs /\ conn'[q] = k /\ heap \subseteq Ptrs
    BY DEF Structure, Typing
  <1>2. conn[q].fd \in Fds /\ sock'[k.fd] = t
    BY DEF Structure, Typing, Owners
  <1>3. ASSUME NEW p \in heap, p # q PROVE Data(conn'[p], sock'[conn'[p].fd])
    <2>1. conn[p].fd # conn[q].fd
      BY <1>3 DEF Structure, Owners
    <2> QED BY <1>1, <1>2, <1>3, <2>1 DEF DataInv, Structure, Typing, Owners
  <1>4. \A f \in Fds \ open' : sock'[f] = NewSocket
    BY DEF DataInv, Structure, Owners
  <1> QED BY <1>1, <1>2, <1>3, <1>4 DEF DataInv, c

LEMMA StartWriteData ==
  ASSUME Structure, DataInv, Handling, NEW k \in Conn, k.fd = c.fd, StartWrite(k),
         UNCHANGED <<cur, heap, open>>, NEW t \in LooseSocket, Data(k, t),
         sock' = [sock EXCEPT ![c.fd] = t]
  PROVE  DataInv'
  <1> DEFINE kw == [k EXCEPT !.state = "WRITE"]
             kp == PrepareSend(kw)
  <1>1. /\ kw \in Conn /\ kw.state = "WRITE" /\ kw.fd = k.fd
        /\ kw.recv_len = k.recv_len /\ kw.send_len = k.send_len
        /\ kw.send_done = k.send_done /\ kw.recv_buf = k.recv_buf /\ kw.send_buf = k.send_buf
    BY DEF Conn
  <1>2. pc' = "do_write" /\ conn' = [conn EXCEPT ![cur] = kp]
    BY DEF StartWrite
  <1> HIDE DEF kw
  <1>3. Data(kw, t)
    BY <1>1, DataFrame
  <1>4. kp.fd = k.fd /\ Data(kp, t) /\ kp.send_len = kp.recv_len
    BY <1>1, <1>3, PrepareSendType, PrepareSendData
  <1> HIDE DEF kp
  <1> QED BY <1>2, <1>4, Current, DataOfOne DEF c

LEMMA DataDoRead == Structure /\ DataInv /\ DoRead => DataInv'
  <1> SUFFICES ASSUME Structure, DataInv, DoRead PROVE DataInv'
    OBVIOUS
  <1>0. Handling /\ pc = "do_read"
    BY DEF DoRead, ReadFull, ReadData, ReadWouldBlock, ReadEnd, Handling
  <1>1. /\ cur \in Ptrs /\ cur \in heap /\ c \in Conn /\ c.fd \in Fds /\ c = conn[cur]
        /\ sock \in [Fds -> LooseSocket] /\ conn \in [Ptrs -> Conn]
        /\ sock[c.fd] \in LooseSocket
    BY <1>0, Current DEF Structure, Typing, c
  <1>2. Data(c, sock[c.fd]) /\ c.state = "READ"
    BY <1>0, <1>1 DEF DataInv
  <1>3. sock = [sock EXCEPT ![c.fd] = sock[c.fd]]
    BY <1>1
  <1>4. CASE ReadFull
    <2>1. StartWrite(c) /\ UNCHANGED <<cur, heap, open, sock>>
      BY <1>4 DEF ReadFull, world
    <2> QED BY <1>0, <1>1, <1>2, <1>3, <2>1, StartWriteData
  <1>5. ASSUME NEW n \in 1 .. BUF_SIZE, ReadData(n) PROVE DataInv'
    <2> DEFINE k == Received(c, n)
               t == AfterRead(sock[c.fd], n)
    <2>1. sock' = [sock EXCEPT ![c.fd] = t] /\ UNCHANGED <<cur, heap, open>>
      BY <1>5 DEF ReadData
    <2>2. n \in Nat \ {0} /\ n <= ReadRoom(c) /\ CanRead(sock[c.fd], n)
      BY <1>5 DEF ReadData, socket
    <2>3. k \in Conn /\ k.fd = c.fd /\ t \in LooseSocket
      BY <1>1, <2>2, ReceivedType, SocketSteps
    <2>4. Data(k, t) /\ k.state = "READ"
      BY <1>1, <1>2, <2>2, ReceivedData
    <2>5. CASE HasNewline(k)
      <3>1. StartWrite(k)
        BY <1>5, <2>5 DEF ReadData
      <3> HIDE DEF k, t
      <3> QED BY <1>0, <2>1, <2>3, <2>4, <3>1, StartWriteData
    <2>6. CASE ~HasNewline(k)
      <3>1. conn' = [conn EXCEPT ![cur] = k] /\ pc' = pc
        BY <1>5, <2>6 DEF ReadData
      <3> HIDE DEF k, t
      <3> QED BY <1>0, <1>1, <2>1, <2>3, <2>4, <3>1, DataOfOne
    <2> QED BY <2>5, <2>6
  <1>6. CASE ReadWouldBlock
    BY <1>6, DataControl DEF ReadWouldBlock, memory, world
  <1>7. CASE ReadEnd
    <2> DEFINE k == [c EXCEPT !.state = "CLOSE"]
    <2>1. conn' = [conn EXCEPT ![cur] = k] /\ UNCHANGED <<cur, heap, open, sock>> /\ pc' = "cleanup"
      BY <1>1, <1>7 DEF ReadEnd, world
    <2>2. /\ k.fd = c.fd /\ k.recv_len = c.recv_len /\ k.send_len = c.send_len
          /\ k.send_done = c.send_done /\ k.recv_buf = c.recv_buf /\ k.send_buf = c.send_buf
          /\ k.state = "CLOSE"
      BY <1>1 DEF Conn
    <2> HIDE DEF k
    <2>3. Data(k, sock[c.fd])
      BY <1>2, <2>2, DataFrame
    <2> QED BY <1>1, <1>3, <2>1, <2>2, <2>3, DataOfOne
  <1> QED BY <1>4, <1>5, <1>6, <1>7 DEF DoRead

LEMMA DataDoWrite == Structure /\ DataInv /\ DoWrite => DataInv'
  <1> SUFFICES ASSUME Structure, DataInv, DoWrite PROVE DataInv'
    OBVIOUS
  <1>0. Handling /\ pc = "do_write"
    BY DEF DoWrite, WriteWouldBlock, WriteError, WriteKilled, WriteDone, WriteData, Handling
  <1>1. /\ cur \in Ptrs /\ cur \in heap /\ c \in Conn /\ c.fd \in Fds /\ c = conn[cur]
        /\ sock \in [Fds -> LooseSocket] /\ conn \in [Ptrs -> Conn]
        /\ sock[c.fd] \in LooseSocket
    BY <1>0, Current DEF Structure, Typing, c
  <1>2. Data(c, sock[c.fd]) /\ c.send_len = c.recv_len
    BY <1>0, <1>1 DEF DataInv
  <1>3. sock = [sock EXCEPT ![c.fd] = sock[c.fd]]
    BY <1>1
  <1>4. CASE WriteWouldBlock \/ WriteKilled
    BY <1>4, DataControl DEF WriteWouldBlock, WriteKilled, memory, world
  <1>5. CASE WriteError
    <2> DEFINE k == [c EXCEPT !.state = "CLOSE"]
    <2>1. conn' = [conn EXCEPT ![cur] = k] /\ UNCHANGED <<cur, heap, open, sock>> /\ pc' = "cleanup"
      BY <1>1, <1>5 DEF WriteError, world
    <2>2. /\ k.fd = c.fd /\ k.recv_len = c.recv_len /\ k.send_len = c.send_len
          /\ k.send_done = c.send_done /\ k.recv_buf = c.recv_buf /\ k.send_buf = c.send_buf
          /\ k.state = "CLOSE"
      BY <1>1 DEF Conn
    <2> HIDE DEF k
    <2>3. Data(k, sock[c.fd])
      BY <1>2, <2>2, DataFrame
    <2> QED BY <1>1, <1>3, <2>1, <2>2, <2>3, DataOfOne
  <1>6. CASE WriteDone
    <2> DEFINE k == [c EXCEPT !.recv_len = 0, !.send_len = 0, !.send_done = 0, !.state = "READ"]
    <2>1. /\ conn' = [conn EXCEPT ![cur] = k] /\ UNCHANGED <<cur, heap, open, sock>>
          /\ pc' = "dispatch" /\ c.send_done >= c.send_len
      BY <1>1, <1>6 DEF WriteDone, world
    <2>2. /\ k.fd = c.fd /\ k.recv_len = 0 /\ k.send_len = 0 /\ k.send_done = 0
      BY <1>1 DEF Conn
    <2>3. sock[c.fd].nread = Len(sock[c.fd].out)
      <3>1. c.send_len \in Nat /\ c.send_done \in Nat /\ Len(sock[c.fd].out) \in Nat
        BY <1>1 DEF Conn, LooseSocket
      <3> QED BY <1>2, <2>1, <3>1 DEF Data, Pending, Unsent
    <2> HIDE DEF k
    <2>4. Data(k, sock[c.fd])
      <3>1. Len(sock[c.fd].out) \in Nat /\ \A i \in Index : ~(i < 0)
        BY <1>1, ServerAssumption DEF LooseSocket, Index
      <3> QED BY <1>2, <2>2, <2>3, <3>1, ServerAssumption DEF Data, Pending
    <2> QED BY <1>1, <1>3, <2>1, <2>2, <2>4, DataOfOne
  <1>7. ASSUME NEW n \in 1 .. BUF_SIZE, WriteData(n) PROVE DataInv'
    <2> DEFINE bytes == [i \in 1 .. n |-> c.send_buf[c.send_done + i - 1]]
               k == [c EXCEPT !.send_done = @ + n]
               t == AfterWrite(sock[c.fd], bytes)
    <2>1. /\ sock' = [sock EXCEPT ![c.fd] = t] /\ conn' = [conn EXCEPT ![cur] = k]
          /\ UNCHANGED <<pc, cur, heap, open>>
      BY <1>1, <1>7 DEF WriteData
    <2>2. n \in Nat \ {0} /\ n <= Unsent(c) /\ c.send_done < c.send_len
      BY <1>7 DEF WriteData
    <2>3. bytes \in Seq(Nat) /\ Len(bytes) = n
      <3>1. c.recv_len <= BUF_SIZE - 1 /\ c.send_len = c.recv_len /\ n <= c.send_len - c.send_done
        BY <1>2, <2>2 DEF Data, Unsent
      <3>2. \A i \in 1 .. n : c.send_done + i - 1 \in Index
        BY <1>1, <2>2, <3>1, ServerAssumption DEF Conn, Index
      <3>3. bytes \in [1 .. n -> Nat]
        BY <1>1, <3>2 DEF Conn, Buffer
      <3> QED BY <2>2, <3>3
    <2>4. \A i \in 1 .. n : bytes[i] = c.send_buf[c.send_done + i - 1]
      OBVIOUS
    <2> HIDE DEF bytes
    <2>5. Data(k, t)
      BY <1>1, <1>2, <2>2, <2>3, <2>4, WriteDataKept
    <2>6. k.fd = c.fd /\ k.send_len = k.recv_len
      BY <1>1, <1>2 DEF Conn
    <2> HIDE DEF k, t
    <2> QED BY <1>0, <1>1, <2>1, <2>5, <2>6, DataOfOne
  <1> QED BY <1>4, <1>5, <1>6, <1>7 DEF DoWrite

LEMMA DataDispatch == Structure /\ DataInv /\ Dispatch => DataInv'
  <1> SUFFICES ASSUME Structure, DataInv, Dispatch PROVE DataInv'
    OBVIOUS
  <1>1. CASE BatchDone \/ AcceptFails \/ AcceptWithoutMemory
    BY <1>1, DataControl
       DEF BatchDone, AcceptFails, AcceptWithoutMemory, HandleListen, memory, world
  <1>2. ASSUME NEW f \in Fds, NEW p \in Ptrs \ heap, Accepted(f), heap' = heap \cup {p},
               conn' = [conn EXCEPT ![p] = [Zeroed EXCEPT !.fd = f, !.state = "READ"]],
               UNCHANGED <<pc, cur>>
        PROVE  DataInv'
    <2> DEFINE new == [Zeroed EXCEPT !.fd = f, !.state = "READ"]
    <2>1. new.fd = f /\ Data(new, NewSocket)
      BY NewData DEF Zeroed
    <2>2. /\ f \notin open /\ open' = open \cup {f}
          /\ sock' = [sock EXCEPT ![f] = NewSocket] /\ pc = "dispatch"
      BY <1>2 DEF Accepted, HandleListen
    <2>3. conn' = [conn EXCEPT ![p] = new]
      BY <1>2
    <2> HIDE DEF new
    <2> QED BY <1>2, <2>1, <2>2, <2>3 DEF DataInv, Structure, Typing, Owners
  <1>3. CASE AcceptClient
    BY <1>2, <1>3 DEF AcceptClient
  <1>4. ASSUME NEW p \in Ptrs, HandleConn(p) PROVE DataInv'
    <2>1. /\ p \in heap /\ cur' = p /\ UNCHANGED <<heap, open, sock>> /\ conn[p] \in Conn
          /\ Data(conn[p], sock[conn[p].fd]) /\ conn[p].fd \in Fds
          /\ sock[conn[p].fd] \in LooseSocket
      BY <1>4 DEF HandleConn, world, Structure, Typing, Owners, DataInv
    <2>2. sock = [sock EXCEPT ![conn[p].fd] = sock[conn[p].fd]]
      BY DEF Structure, Typing
    <2>3. CASE conn[p].state = "WRITE"
      <3> DEFINE k == PrepareSend(conn[p])
      <3>1. conn' = [conn EXCEPT ![p] = k] /\ pc' = "do_write"
        BY <1>4, <2>3 DEF HandleConn
      <3>2. k.fd = conn[p].fd /\ Data(k, sock[conn[p].fd]) /\ k.send_len = k.recv_len
        BY <2>1, <2>3, PrepareSendType, PrepareSendData
      <3> HIDE DEF k
      <3> QED BY <2>1, <2>2, <3>1, <3>2, DataOfOne
    <2>4. CASE conn[p].state # "WRITE"
      <3>1. /\ conn' = [conn EXCEPT ![p] = conn[p]]
            /\ \/ pc' = "do_read" /\ conn[p].state = "READ"
               \/ pc' = "cleanup"
        BY <1>4, <2>1, <2>4 DEF HandleConn, Conn, Structure, Typing
      <3> QED BY <2>1, <2>2, <3>1, DataOfOne
    <2> QED BY <2>3, <2>4
  <1> QED BY <1>1, <1>3, <1>4 DEF Dispatch

LEMMA DataCleanup == Structure /\ DataInv /\ Cleanup => DataInv'
  <1> SUFFICES ASSUME Structure, DataInv, Cleanup PROVE DataInv'
    OBVIOUS
  <1>1. cur \in heap /\ c.fd \in Fds /\ c = conn[cur]
    BY Current DEF Cleanup, Handling, c
  <1>2. ASSUME NEW p \in heap', p # cur PROVE conn'[p] = conn[p] /\ sock'[conn[p].fd] = sock[conn[p].fd]
    <2>1. conn[p].fd # c.fd
      BY <1>1, <1>2 DEF Cleanup, Structure, Owners
    <2> QED BY <1>2, <2>1 DEF Cleanup, Structure, Typing, Owners
  <1>3. \A f \in Fds \ open' : sock'[f] = NewSocket
    BY <1>1 DEF Cleanup, DataInv, Structure, Typing
  <1> QED BY <1>2, <1>3 DEF Cleanup, DataInv

LEMMA DataPeers == Structure /\ DataInv /\ Peers => DataInv'
  <1> SUFFICES ASSUME Structure, DataInv, Peers PROVE DataInv'
    OBVIOUS
  <1>1. CASE PeerConnects
    BY <1>1, DataControl DEF PeerConnects, server, memory
  <1>2. ASSUME NEW f \in open, NEW after, PeerActs(f, after),
               after.nread = sock[f].nread, after.out = sock[f].out
        PROVE  DataInv'
    <2>1. /\ UNCHANGED <<pc, cur, heap, conn, open>> /\ sock' = [sock EXCEPT ![f] = after]
      BY <1>2 DEF PeerActs, server, memory
    <2>2. ASSUME NEW p \in heap PROVE Data(conn[p], sock'[conn[p].fd])
      <3>1. /\ sock'[conn[p].fd].nread = sock[conn[p].fd].nread
            /\ sock'[conn[p].fd].out = sock[conn[p].fd].out
        BY <1>2, <2>1 DEF Structure, Typing, Owners
      <3> QED BY <3>1, DataFrame DEF DataInv
    <2> QED BY <2>1, <2>2 DEF DataInv, c
  <1>3. ASSUME NEW f \in open,
               \/ \E newline \in BOOLEAN : PeerSends(f, newline)
               \/ PeerFins(f) \/ PeerResets(f) \/ PeerTakes(f)
        PROVE  \E after : /\ PeerActs(f, after)
                          /\ after.nread = sock[f].nread /\ after.out = sock[f].out
    <2>1. sock[f] \in LooseSocket
      BY DEF Structure, Typing
    <2>2. /\ \A newline \in BOOLEAN : /\ AfterSend(sock[f], newline).nread = sock[f].nread
                                      /\ AfterSend(sock[f], newline).out = sock[f].out
          /\ AfterFin(sock[f]).nread = sock[f].nread /\ AfterFin(sock[f]).out = sock[f].out
          /\ AfterReset(sock[f]).nread = sock[f].nread /\ AfterReset(sock[f]).out = sock[f].out
          /\ AfterTake(sock[f]).nread = sock[f].nread /\ AfterTake(sock[f]).out = sock[f].out
      BY <2>1 DEF LooseSocket, AfterSend, AfterFin, AfterReset, AfterTake
    <2> QED BY <1>3, <2>2 DEF PeerSends, PeerFins, PeerResets, PeerTakes
  <1> QED BY <1>1, <1>2, <1>3 DEF Peers

LEMMA DataStep == Structure /\ DataInv /\ [Next]_vars => DataInv'
  <1> SUFFICES ASSUME Structure, DataInv, [Next]_vars PROVE DataInv'
    OBVIOUS
  <1>1. CASE LoopTest \/ EpollTimeout \/ (\E b \in SUBSET ReadyEvents : EpollReturns(b)) \/ Sigint
    BY <1>1, DataControl DEF LoopTest, EpollTimeout, EpollReturns, Sigint, memory, world
  <1>2. CASE Dispatch \/ DoRead \/ DoWrite \/ Cleanup \/ Peers
    BY <1>2, DataDispatch, DataDoRead, DataDoWrite, DataCleanup, DataPeers
  <1>3. CASE UNCHANGED vars
    BY <1>3, DataControl DEF vars, server, world, memory
  <1> QED BY <1>1, <1>2, <1>3 DEF Next, Server, Halted

-----------------------------------------------------------------------------
LEMMA DataGivesBounds == Structure /\ DataInv => BuffersInBounds
  <1> SUFFICES ASSUME Structure, DataInv, NEW p \in heap
               PROVE  /\ conn[p].recv_len <= BUF_SIZE - 1
                      /\ conn[p].send_len <= conn[p].recv_len
                      /\ conn[p].send_done <= conn[p].send_len
    BY DEF BuffersInBounds
  <1>1. conn[p] \in Conn /\ Data(conn[p], sock[conn[p].fd])
    BY DEF Structure, Typing, DataInv
  <1> QED BY <1>1 DEF Data, Conn

LEMMA EchoPrefix ==
  ASSUME Structure, DataInv, NEW f \in open
  PROVE  /\ Len(sock[f].out) <= sock[f].nread
         /\ \A i \in 1 .. Len(sock[f].out) : sock[f].out[i] = i
  <1> DEFINE k == conn[data_ptr[f]]
             t == sock[f]
  <1>1. Data(k, t) /\ k \in Conn /\ t \in LooseSocket
    BY DEF Structure, Typing, Owners, DataInv
  <1> HIDE DEF k, t
  <1>2. t.out \in Seq(Nat) /\ t.nread \in Int
    BY <1>1, SocketAssumption DEF LooseSocket
  <1>3. Pending(k) \in Nat /\ t.nread = Len(t.out) + Pending(k)
    BY <1>1 DEF Data, Pending, Unsent, Conn
  <1>4. Len(t.out) <= t.nread
    BY <1>2, <1>3
  <1>5. \A i \in 1 .. Len(t.out) : t.out[i] = i
    BY <1>1 DEF Data
  <1> QED BY <1>4, <1>5 DEF t

\* Structure and data together are inductive: the handler's index arithmetic is
\* what makes the pointers' steps well typed, and the pointers' one-to-one
\* correspondence is what keeps one connection's step off another's bytes.
THEOREM Invariance == Spec => [](Structure /\ DataInv)
  <1>1. Init => Structure /\ DataInv
    BY StructureInit, DataInit
  <1>2. Structure /\ DataInv /\ [Next]_vars => Structure' /\ DataInv'
    BY StructureStep, DataStep, DataGivesBounds
  <1> QED BY <1>1, <1>2, PTL DEF Spec

\* Type correctness; that the output holds only positions the peer has sent is
\* a consequence of the echo being in order.
THEOREM TypeCorrect == Spec => []TypeOK
  <1>1. Structure /\ DataInv => TypeOK
    <2> SUFFICES ASSUME Structure, DataInv PROVE \A f \in Fds : sock[f] \in Socket
      BY DEF Structure, Typing, TypeOK
    <2>1. ASSUME NEW f \in Fds, f \notin open PROVE sock[f] \in Socket
      <3>1. NewSocket \in Socket
        BY SocketAssumption DEF NewSocket, Socket
      <3> QED BY <2>1, <3>1 DEF DataInv
    <2>2. ASSUME NEW f \in open PROVE sock[f] \in Socket
      <3> DEFINE t == sock[f]
      <3>1. t \in LooseSocket
        BY DEF Structure, Typing
      <3>2. Len(t.out) <= t.nread /\ \A i \in 1 .. Len(t.out) : t.out[i] = i
        BY EchoPrefix
      <3> HIDE DEF t
      <3>3. t.out \in Seq(Nat) /\ t.nread \in 0 .. MaxBytes
        BY <3>1 DEF LooseSocket
      <3>4. \A i \in 1 .. Len(t.out) : t.out[i] \in 1 .. MaxBytes
        BY <3>2, <3>3, SocketAssumption
      <3>5. t.out \in Seq(1 .. MaxBytes)
        <4>1. t.out \in [1 .. Len(t.out) -> Nat] /\ Len(t.out) \in Nat
          BY <3>3
        <4>2. t.out \in [1 .. Len(t.out) -> 1 .. MaxBytes]
          BY <3>4, <4>1
        <4> QED BY <4>1, <4>2, SeqDef
      <3> QED BY <3>1, <3>5 DEF LooseSocket, Socket, t
    <2> QED BY <2>1, <2>2
  <1> QED BY <1>1, Invariance, PTL

\* Neither the rest of a batch, nor a registration, nor g_conns ever names
\* freed memory.
THEOREM NoUseAfterFree == Spec => []NoDanglingPointer
  <1>1. Structure => NoDanglingPointer
    BY DEF Structure, Typing, Owners, Table, NoDanglingPointer
  <1> QED BY <1>1, Invariance, PTL

\* Open descriptors and live connections stay in one-to-one correspondence.
THEOREM FdsAndConnsPairOff == Spec => []OneConnPerFd
  <1>1. Structure => OneConnPerFd
    BY DEF Structure, Owners, Table, OneConnPerFd
  <1> QED BY <1>1, Invariance, PTL

\* What a peer gets back is a prefix of what it sent, byte for byte.
THEOREM EchoIsAPrefix == Spec => []EchoInOrder
  <1>1. Structure /\ DataInv => EchoInOrder
    BY EchoPrefix DEF EchoInOrder, Structure, Typing, LooseSocket
  <1> QED BY <1>1, Invariance, PTL

\* Every byte read is either echoed or still in the connection's buffers.
THEOREM NothingLost == Spec => []NoByteLost
  <1>1. DataInv => NoByteLost
    BY DEF DataInv, Data, NoByteLost
  <1> QED BY <1>1, Invariance, PTL

\* The buffers' indices stay within what they hold.
THEOREM IndicesInBounds == Spec => []BuffersInBounds
  BY Invariance, DataGivesBounds, PTL
=============================================================================
