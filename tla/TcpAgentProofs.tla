---------------------------- MODULE TcpAgentProofs ----------------------------
(***************************************************************************)
(* Proofs about TcpAgent, for every set of heap addresses and descriptors, *)
(* whatever words the addresses read back as: the types, the table and the *)
(* pairing of descriptors survive events that are handled with a freed     *)
(* pair.                                                                   *)
(***************************************************************************)
EXTENDS TcpAgent, SequenceTheorems, TLAPS

AgentSocket == [sent: 0 .. MaxBytes, nl: SUBSET (1 .. MaxBytes), nread: 0 .. MaxBytes,
                fin: BOOLEAN, err: {"none", "ECONNRESET", "EPIPE"},
                out: Seq(Bytes), queued: 0 .. SndBuf]

Entries == 0 .. TABLE - 1
Owner == Sides \X (0 .. MaxConnects)

Control ==
    /\ pc \in {"loop", "epoll_wait", "dispatch", "read", "write"} \/ Stopped
    /\ keep_running \in BOOLEAN /\ batch \subseteq Events
    /\ backlog \in Nat /\ connects \in 0 .. MaxConnects /\ accepted \in Nat
    /\ accepted + backlog <= connects

\* A call of forward() is on two descriptors of a pair that was there.
Call ==
    /\ cur \in Ptrs \cup {NULL} /\ (pc \in {"read", "write"} => cur \in Ptrs)
    /\ carry.src \in Fds \cup {0} /\ carry.dst \in Fds \cup {0} /\ carry.buf \in Seq(Bytes)

Memory == /\ heap \subseteq Ptrs /\ pair \in [Ptrs -> Pair]
          /\ g_conns \in [Entries -> Ptrs \cup {NULL}]

Kernel ==
    /\ open \subseteq Fds /\ connecting \subseteq open
    /\ sock \in [Fds -> AgentSocket]
    /\ owner \in [Fds -> Owner] /\ data_ptr \in [Fds -> Ptrs \cup {NULL}]

\* An entry of g_conns is one of its pair's two, and the pair is in use.
Table == \A i \in Entries : g_conns[i] # NULL =>
    /\ g_conns[i] \in heap
    /\ i \in {pair[g_conns[i]].client_fd % TABLE, pair[g_conns[i]].backend_fd % TABLE}

LivePairs == \A p \in heap : pair[p] \in FdPair

Inv == Control /\ Call /\ Memory /\ Kernel /\ Table /\ LivePairs /\ PairsWhole

LEMMA EntryInTable == \A f \in Fds : f % TABLE \in Entries
  BY AgentAssumption DEF AgentAssumption, Entries

LEMMA NewSocketType == NewSocket \in AgentSocket
  BY SocketAssumption DEF SocketAssumption, NewSocket, AgentSocket

LEMMA InvInit == Init => Inv
  <1> SUFFICES ASSUME Init PROVE Inv
    OBVIOUS
  <1>1. Control
    BY AgentAssumption DEF AgentAssumption, Control, Init
  <1>2. Call /\ Memory
    BY AgentAssumption DEF AgentAssumption, Call, Memory, Init, Idle, Pair, Entries
  <1>3. Kernel
    BY AgentAssumption, NewSocketType DEF AgentAssumption, Kernel, Init, NoOwner, Owner, Sides
  <1>4. Table /\ LivePairs /\ PairsWhole
    BY DEF Table, LivePairs, PairsWhole, Init, Entries
  <1> QED BY <1>1, <1>2, <1>3, <1>4 DEF Inv

-------------------------------------------------------------------------------
(* A step of the loop or of a peer that leaves memory and registrations alone. *)

LEMMA QuietStep ==
  ASSUME Inv, Control', Call', UNCHANGED <<memory, open, owner, data_ptr>>,
         sock' \in [Fds -> AgentSocket], connecting' \subseteq open,
         Stopped => Stopped'
  PROVE  Inv'
  BY DEF Inv, Memory, Kernel, Table, LivePairs, PairsWhole, memory

LEMMA SocketSteps ==
  ASSUME NEW t \in AgentSocket
  PROVE  /\ \A n \in Nat : CanRead(t, n) => AfterRead(t, n) \in AgentSocket
         /\ CanSend(t) => AfterSend(t, FALSE) \in AgentSocket
         /\ AfterFin(t) \in AgentSocket
         /\ AfterReset(t) \in AgentSocket
         /\ CanTake(t) => AfterTake(t) \in AgentSocket
  <1>1. ASSUME NEW n \in Nat, CanRead(t, n) PROVE AfterRead(t, n) \in AgentSocket
    <2> DEFINE read == t.nread + n
    <2>1. read \in 0 .. MaxBytes
      BY <1>1, SocketAssumption DEF SocketAssumption, AgentSocket, CanRead, Unread
    <2>2. AfterRead(t, n) = [t EXCEPT !.nread = read]
      BY DEF AfterRead
    <2> HIDE DEF read
    <2> QED BY <2>1, <2>2 DEF AgentSocket
  <1>2. ASSUME CanSend(t) PROVE AfterSend(t, FALSE) \in AgentSocket
    <2> DEFINE sent == t.sent + 1
    <2>1. sent \in 0 .. MaxBytes
      BY <1>2, SocketAssumption DEF SocketAssumption, AgentSocket, CanSend
    <2>2. AfterSend(t, FALSE) = [t EXCEPT !.sent = sent]
      BY DEF AfterSend, AgentSocket
    <2> HIDE DEF sent
    <2> QED BY <2>1, <2>2 DEF AgentSocket
  <1>3. AfterFin(t) \in AgentSocket
    BY DEF AfterFin, AgentSocket
  <1>4. AfterReset(t) \in AgentSocket
    <2> DEFINE err == IF t.fin THEN "EPIPE" ELSE "ECONNRESET"
    <2>1. err \in {"none", "ECONNRESET", "EPIPE"} /\ 0 \in 0 .. SndBuf
      BY SocketAssumption DEF SocketAssumption
    <2>2. AfterReset(t) = [t EXCEPT !.err = err, !.queued = 0]
      BY DEF AfterReset
    <2> HIDE DEF err
    <2> QED BY <2>1, <2>2 DEF AgentSocket
  <1>5. ASSUME CanTake(t) PROVE AfterTake(t) \in AgentSocket
    <2> DEFINE left == t.queued - 1
    <2>1. left \in 0 .. SndBuf
      BY <1>5, SocketAssumption DEF SocketAssumption, AgentSocket, CanTake
    <2>2. AfterTake(t) = [t EXCEPT !.queued = left]
      BY DEF AfterTake
    <2> HIDE DEF left
    <2> QED BY <2>1, <2>2 DEF AgentSocket
  <1> QED BY <1>1, <1>2, <1>3, <1>4, <1>5

LEMMA WriteType ==
  ASSUME NEW t \in AgentSocket, NEW bytes \in Seq(Bytes), CanWrite(t, Len(bytes))
  PROVE  AfterWrite(t, bytes) \in AgentSocket
  <1> DEFINE out == t.out \o bytes
             q == t.queued + Len(bytes)
  <1>1. out \in Seq(Bytes)
    BY DEF AgentSocket
  <1>2. q \in 0 .. SndBuf
    BY SocketAssumption DEF SocketAssumption, AgentSocket, CanWrite, Room
  <1>3. AfterWrite(t, bytes) = [t EXCEPT !.out = out, !.queued = q]
    BY DEF AfterWrite
  <1> HIDE DEF out, q
  <1> QED BY <1>1, <1>2, <1>3 DEF AgentSocket

-------------------------------------------------------------------------------
(* cleanup_conn, on a pair in use or on one that is freed already. *)

LEMMA CleanupStep ==
  ASSUME Inv, pc \in {"read", "write"}, CleanupConn
  PROVE  Inv'
  <1> DEFINE gone == {pair[cur].client_fd, pair[cur].backend_fd} \ {0, -1}
  <1>1. cur \in Ptrs /\ gone \subseteq Fds /\ ~Stopped
    BY DEF Inv, Call, Memory, Pair, FdPair, Calloced, Overwritten, Stopped
  <1>2. Control' /\ Call'
    BY DEF Inv, Control, CleanupConn, Call, Idle, Stopped
  <1>3. /\ heap' \subseteq heap /\ cur \notin heap'
        /\ \A p \in Ptrs \ {cur} : pair'[p] = pair[p] /\ (p \in heap' <=> p \in heap)
    BY <1>1 DEF Inv, CleanupConn, Memory
  <1>4. Memory'
    <2>1. \A rest \in Freed(cur) : rest \in Pair
      BY <1>1 DEF Inv, Memory, Freed, Pair
    <2>2. pair' \in [Ptrs -> Pair]
      BY <1>1, <2>1 DEF Inv, CleanupConn, Memory
    <2>3. g_conns' \in [Entries -> Ptrs \cup {NULL}]
      BY DEF Inv, CleanupConn, Memory, Without
    <2> QED BY <1>3, <2>2, <2>3 DEF Inv, Memory
  <1>5. Kernel'
    <2>1. sock' \in [Fds -> AgentSocket] /\ data_ptr' \in [Fds -> Ptrs \cup {NULL}]
      BY NewSocketType DEF Inv, Kernel, CleanupConn, Without
    <2>2. owner' \in [Fds -> Owner]
      BY AgentAssumption, SocketAssumption
         DEF AgentAssumption, Inv, Kernel, CleanupConn, Without, NoOwner, Owner, Sides
    <2>3. open' \subseteq Fds /\ connecting' \subseteq open'
      BY DEF Inv, Kernel, CleanupConn
    <2> QED BY <2>1, <2>2, <2>3 DEF Kernel
  <1>6. LivePairs'
    BY <1>3 DEF Inv, LivePairs, Memory
  <1>7. Table'
    <2> SUFFICES ASSUME NEW i \in Entries, g_conns'[i] # NULL
                 PROVE  /\ g_conns'[i] \in heap'
                        /\ i \in {pair'[g_conns'[i]].client_fd % TABLE,
                                  pair'[g_conns'[i]].backend_fd % TABLE}
      BY DEF Table
    <2>1. g_conns'[i] = g_conns[i] /\ i \notin {f % TABLE : f \in gone}
      BY DEF CleanupConn, Without, Inv, Memory
    <2>2. g_conns[i] \in heap /\ i \in {pair[g_conns[i]].client_fd % TABLE,
                                        pair[g_conns[i]].backend_fd % TABLE}
      BY <2>1 DEF Inv, Table
    <2>3. g_conns[i] # cur
      BY <2>1, <2>2, AgentAssumption DEF AgentAssumption, Inv, LivePairs, FdPair
    <2> QED BY <1>3, <2>1, <2>2, <2>3 DEF Inv, Memory
  <1>8. PairsWhole'
    <2>1. CASE cur \notin heap
      BY <2>1 DEF CleanupConn, PairsWhole, Stopped
    <2>2. CASE cur \in heap
      <3>1. gone = {pair[cur].client_fd, pair[cur].backend_fd}
        BY <2>2, AgentAssumption DEF AgentAssumption, Inv, LivePairs, FdPair
      <3>2. \A f \in open : f \in gone <=> data_ptr[f] = cur
        BY <1>1, <2>2, <3>1 DEF Inv, PairsWhole
      <3>3. /\ open' = open \ gone
            /\ \A f \in open' : data_ptr'[f] = data_ptr[f]
        BY DEF CleanupConn, Without, Inv, Kernel
      <3>4. \A p \in heap' : p # cur /\ p \in heap /\ p \in Ptrs
        BY <1>3 DEF Inv, Memory
      <3>5. ASSUME NEW p \in heap'
            PROVE  /\ {pair'[p].client_fd, pair'[p].backend_fd} \subseteq open'
                   /\ pair'[p].client_fd # pair'[p].backend_fd
                   /\ data_ptr'[pair'[p].client_fd] = p
                   /\ data_ptr'[pair'[p].backend_fd] = p
        BY <1>1, <1>3, <3>2, <3>3, <3>4, <3>5 DEF Inv, PairsWhole
      <3>6. ASSUME NEW f \in open'
            PROVE  /\ data_ptr'[f] \in heap'
                   /\ f \in {pair'[data_ptr'[f]].client_fd, pair'[data_ptr'[f]].backend_fd}
        <4>1. f \in open /\ data_ptr[f] \in heap /\ data_ptr[f] # cur /\ data_ptr[f] \in Ptrs
          BY <1>1, <3>2, <3>3, <3>6 DEF Inv, PairsWhole, Memory
        <4> QED BY <1>1, <1>3, <3>3, <4>1 DEF Inv, PairsWhole
      <3> QED BY <3>5, <3>6 DEF PairsWhole
    <2> QED BY <2>1, <2>2
  <1> QED BY <1>2, <1>4, <1>5, <1>6, <1>7, <1>8 DEF Inv

-------------------------------------------------------------------------------
(* A new pair: two closed descriptors and an address not in use. *)

LEMMA PairStep ==
  ASSUME Inv, NEW e \in batch, PairCreated(e)
  PROVE  Inv'
  <1>1. PICK cfd \in Free, bfd \in Free, p \in Ptrs \ heap :
             Lowest(cfd, Free) /\ Lowest(bfd, Free \ {cfd}) /\ Registers(cfd, bfd, p)
    BY DEF PairCreated
  <1>2. /\ cfd \in Fds /\ bfd \in Fds /\ cfd # bfd /\ cfd \notin open /\ bfd \notin open
        /\ p \in Ptrs /\ p \notin heap
    BY <1>1 DEF Free, Lowest
  <1> DEFINE new == [client_fd |-> cfd, backend_fd |-> bfd]
  <1>3. new \in FdPair /\ new \in Pair
    BY <1>2 DEF FdPair, Pair
  <1>4. Control' /\ Call'
    BY AgentAssumption DEF AgentAssumption, PairCreated, AcceptedClient, HandleListen, Inv, Control, Call, Stopped
  <1>5. /\ heap' = heap \cup {p}
        /\ pair' \in [Ptrs -> Pair] /\ pair'[p] = new
        /\ \A q \in Ptrs \ {p} : pair'[q] = pair[q]
    BY <1>1, <1>2, <1>3 DEF Registers, Inv, Memory
  <1>6. /\ g_conns' \in [Entries -> Ptrs \cup {NULL}]
        /\ \A i \in Entries : \/ g_conns'[i] = g_conns[i]
                              \/ g_conns'[i] = p /\ i \in {cfd % TABLE, bfd % TABLE}
    BY <1>1, <1>2, EntryInTable DEF Registers, Inv, Memory
  <1>7. Memory'
    BY <1>2, <1>5, <1>6 DEF Inv, Memory
  <1>8. /\ open' = open \cup {cfd, bfd}
        /\ data_ptr' \in [Fds -> Ptrs \cup {NULL}]
        /\ data_ptr'[cfd] = p /\ data_ptr'[bfd] = p
        /\ \A f \in open : data_ptr'[f] = data_ptr[f]
    BY <1>1, <1>2 DEF Registers, Inv, Kernel
  <1>9. Kernel'
    <2>1. sock' \in [Fds -> AgentSocket]
      BY <1>1, NewSocketType DEF Registers, Inv, Kernel
    <2>2. accepted' \in 0 .. MaxConnects
      BY AgentAssumption DEF AgentAssumption, PairCreated, AcceptedClient, Inv, Control
    <2>3. <<"client", accepted'>> \in Owner /\ <<"backend", accepted'>> \in Owner
      BY <2>2 DEF Owner, Sides
    <2>4. owner' \in [Fds -> Owner]
      BY <1>1, <2>3 DEF Registers, Inv, Kernel
    <2>5. connecting' \subseteq open'
      BY <1>1, <1>8 DEF Registers, Inv, Kernel
    <2> QED BY <1>2, <1>8, <2>1, <2>4, <2>5 DEF Inv, Kernel
  <1>10. LivePairs'
    BY <1>2, <1>3, <1>5 DEF Inv, LivePairs, Memory
  <1>11. Table'
    BY <1>2, <1>5, <1>6 DEF Inv, Table, Memory
  <1>12. PairsWhole'
    <2>1. ~Stopped
      BY DEF PairCreated, AcceptedClient, HandleListen, Stopped
    <2>2. ASSUME NEW q \in heap'
          PROVE  /\ {pair'[q].client_fd, pair'[q].backend_fd} \subseteq open'
                 /\ pair'[q].client_fd # pair'[q].backend_fd
                 /\ data_ptr'[pair'[q].client_fd] = q
                 /\ data_ptr'[pair'[q].backend_fd] = q
      <3>1. CASE q = p
        BY <1>2, <1>5, <1>8, <3>1
      <3>2. CASE q # p
        <4>1. q \in heap /\ q \in Ptrs /\ pair'[q] = pair[q]
          BY <1>5, <2>2, <3>2 DEF Inv, Memory
        <4> QED BY <1>8, <2>1, <4>1 DEF Inv, PairsWhole
      <3> QED BY <3>1, <3>2
    <2>3. ASSUME NEW f \in open'
          PROVE  /\ data_ptr'[f] \in heap'
                 /\ f \in {pair'[data_ptr'[f]].client_fd, pair'[data_ptr'[f]].backend_fd}
      <3>1. CASE f \in {cfd, bfd}
        BY <1>5, <1>8, <3>1
      <3>2. CASE f \in open
        <4>1. data_ptr'[f] = data_ptr[f] /\ data_ptr[f] \in heap
              /\ f \in {pair[data_ptr[f]].client_fd, pair[data_ptr[f]].backend_fd}
          BY <1>8, <2>1, <3>2 DEF Inv, PairsWhole
        <4>2. data_ptr[f] \in Ptrs /\ data_ptr[f] # p
          BY <1>2, <4>1 DEF Inv, Memory
        <4> QED BY <1>5, <4>1, <4>2
      <3> QED BY <1>8, <2>3, <3>1, <3>2
    <2> QED BY <2>2, <2>3 DEF PairsWhole
  <1> QED BY <1>4, <1>7, <1>9, <1>10, <1>11, <1>12 DEF Inv

-------------------------------------------------------------------------------
(* The other steps. *)

LEMMA ListenData == DataFd(ListenEvent) = ListenFd
  BY AgentAssumption DEF AgentAssumption, DataFd, ListenEvent

LEMMA DispatchStep ==
  ASSUME Inv, NEW e \in batch,
         \/ AcceptFails(e) \/ BackendUnavailable(e) \/ PairWithoutMemory(e)
         \/ NeitherFd(e) \/ ClientEvent(e) \/ BackendEvent(e)
  PROVE  Inv'
  <1> USE DEF memory, kernel, world
  <1>1. CASE AcceptFails(e) \/ BackendUnavailable(e) \/ PairWithoutMemory(e)
    <2>1. Control'
      BY <1>1 DEF AcceptFails, BackendUnavailable, PairWithoutMemory, AcceptedClient, HandleListen,
                  Inv, Control, Stopped
    <2>2. Call'
      BY <1>1 DEF AcceptFails, BackendUnavailable, PairWithoutMemory, AcceptedClient, HandleListen,
                  Inv, Call
    <2>3. ~Stopped
      BY <1>1 DEF AcceptFails, BackendUnavailable, PairWithoutMemory, AcceptedClient, HandleListen, Stopped
    <2> QED BY <1>1, <2>1, <2>2, <2>3, QuietStep
            DEF AcceptFails, BackendUnavailable, PairWithoutMemory, Inv, Kernel
  <1>2. CASE NeitherFd(e)
    <2>1. Control' /\ Call'
      BY <1>2 DEF NeitherFd, HandlePair, Inv, Control, Call, Stopped
    <2> QED BY <1>2, <2>1, QuietStep DEF NeitherFd, Inv, Kernel, Stopped
  <1>3. CASE ClientEvent(e) \/ BackendEvent(e)
    <2>1. e # ListenEvent
      BY <1>3, ListenData DEF ClientEvent, BackendEvent, HandlePair
    <2>2. e.data \in Ptrs /\ pair[e.data] \in Pair
      BY <2>1 DEF Inv, Control, Events, Memory
    <2>3. DataFd(e) # -1
      <3>1. e.data \in Nat /\ WORD \in Nat \ {0}
        BY <2>2, AgentAssumption DEF AgentAssumption
      <3>2. \A a \in Nat : a % WORD # -1
        BY <3>1
      <3> QED BY <3>1, <3>2 DEF DataFd
    <2>4. /\ pair[e.data].client_fd \in Fds \cup {0}
          /\ pair[e.data].backend_fd \in Fds \cup {0}
      BY <1>3, <2>2, <2>3 DEF ClientEvent, BackendEvent, Pair, FdPair, Calloced, Overwritten
    <2>5. Control' /\ ~Stopped
      BY <1>3 DEF ClientEvent, BackendEvent, HandlePair, Calls, Inv, Control, Stopped
    <2>6. Call'
      <3>1. /\ cur' = e.data /\ carry'.src \in Fds \cup {0}
            /\ carry'.dst \in Fds \cup {0} /\ carry'.buf = << >>
        BY <1>3, <2>4 DEF ClientEvent, BackendEvent, Calls
      <3> QED BY <2>2, <3>1 DEF Call
    <2> QED BY <1>3, <2>5, <2>6, QuietStep DEF ClientEvent, BackendEvent, Calls, Inv, Kernel
  <1> QED BY <1>1, <1>2, <1>3

LEMMA ReadBuf ==
  ASSUME Inv, NEW n \in Nat, pc = "read", carry.src \in open, CanRead(sock[carry.src], n)
  PROVE  [i \in 1 .. n |-> <<owner[carry.src], sock[carry.src].nread + i>>] \in Seq(Bytes)
  <1> DEFINE s == sock[carry.src]
  <1>1. s \in AgentSocket /\ owner[carry.src] \in Owner
    BY DEF Inv, Kernel
  <1>2. \A i \in 1 .. n : s.nread + i \in 1 .. MaxBytes
    BY <1>1, SocketAssumption DEF SocketAssumption, CanRead, Unread, AgentSocket
  <1> HIDE DEF s
  <1>3. \A i \in 1 .. n : <<owner[carry.src], s.nread + i>> \in Bytes
    BY <1>1, <1>2 DEF Bytes, Owner
  <1>4. [i \in 1 .. n |-> <<owner[carry.src], s.nread + i>>] \in [1 .. n -> Bytes]
    BY <1>3
  <1>5. [i \in 1 .. n |-> <<owner[carry.src], s.nread + i>>] \in Seq(Bytes)
    BY <1>4, SeqDef
  <1> QED BY <1>5 DEF s

LEMMA ForwardStep ==
  ASSUME Inv, Forward
  PROVE  Inv'
  <1>1. ASSUME NEW n \in 1 .. BUF_SIZE, ForwardRead(n)
        PROVE  Inv'
    <2>1. n \in Nat /\ CanRead(sock[carry.src], n) /\ carry.src \in open /\ pc = "read"
      BY <1>1, AgentAssumption DEF AgentAssumption, ForwardRead
    <2>2. carry.src \in Fds /\ sock[carry.src] \in AgentSocket
      BY <2>1 DEF Inv, Kernel
    <2>3. sock' \in [Fds -> AgentSocket]
      BY <1>1, <2>1, <2>2, SocketSteps DEF ForwardRead, Inv, Kernel
    <2>4. Call'
      <3> DEFINE buf == [i \in 1 .. n |-> <<owner[carry.src], sock[carry.src].nread + i>>]
      <3>1. buf \in Seq(Bytes)
        BY <2>1, ReadBuf
      <3>2. carry' = [carry EXCEPT !.buf = buf] /\ cur' = cur /\ pc' = "write"
        BY <1>1 DEF ForwardRead
      <3> HIDE DEF buf
      <3>3. carry'.src = carry.src /\ carry'.dst = carry.dst /\ carry'.buf = buf
        BY <3>2 DEF Inv, Call
      <3> QED BY <2>1, <3>1, <3>2, <3>3 DEF Inv, Call
    <2>5. Control' /\ ~Stopped
      BY <1>1, <2>1 DEF ForwardRead, Inv, Control, Stopped
    <2> QED BY <1>1, <2>3, <2>4, <2>5, QuietStep DEF ForwardRead, Inv, Kernel, memory
  <1>2. ASSUME NEW n \in 1 .. BUF_SIZE, ForwardWrite(n)
        PROVE  Inv'
    <2> DEFINE bytes == SubSeq(carry.buf, 1, n)
    <2>1. /\ CanWrite(sock[carry.dst], n) /\ n <= Len(carry.buf) /\ n \in Nat
          /\ carry.dst \in open /\ pc = "write" /\ carry.buf \in Seq(Bytes)
      BY <1>2, AgentAssumption DEF AgentAssumption, ForwardWrite, Inv, Call
    <2>2. bytes \in Seq(Bytes) /\ Len(bytes) = n
      BY <2>1
    <2> HIDE DEF bytes
    <2>3. sock[carry.dst] \in AgentSocket
      BY <2>1 DEF Inv, Kernel
    <2>4. AfterWrite(sock[carry.dst], bytes) \in AgentSocket
      BY <2>1, <2>2, <2>3, WriteType
    <2>5. sock' = [sock EXCEPT ![carry.dst] = AfterWrite(@, bytes)]
      BY <1>2 DEF ForwardWrite, bytes
    <2>6. sock' \in [Fds -> AgentSocket]
      BY <2>4, <2>5 DEF Inv, Kernel
    <2>7. Control' /\ Call' /\ ~Stopped
      BY <1>2 DEF ForwardWrite, Inv, Control, Call, Idle, Stopped
    <2> QED BY <1>2, <2>6, <2>7, QuietStep DEF ForwardWrite, Inv, Kernel, memory
  <1>3. CASE ForwardReadEnds \/ ForwardWriteFails
    BY <1>3, CleanupStep DEF ForwardReadEnds, ForwardWriteFails
  <1>4. CASE ForwardWriteKilled
    <2>1. Control' /\ Call' /\ ~Stopped
      BY <1>4 DEF ForwardWriteKilled, Inv, Control, Call, Stopped, world
    <2> QED BY <1>4, <2>1, QuietStep DEF ForwardWriteKilled, Inv, Kernel, world, kernel
  <1> QED BY <1>1, <1>2, <1>3, <1>4 DEF Forward

LEMMA LoopStep ==
  ASSUME Inv, \/ LoopTest \/ EpollTimeout \/ BatchDone \/ Sigint \/ UNCHANGED vars
              \/ \E b \in SUBSET ReadyEvents : EpollReturns(b)
  PROVE  Inv'
  <1> USE DEF memory, kernel, world
  <1>1. ReadyEvents \subseteq Events
    BY DEF ReadyEvents, Events, Inv, Kernel
  <1>2. UNCHANGED <<memory, kernel, cur, carry>>
    BY DEF LoopTest, EpollTimeout, BatchDone, Sigint, vars, EpollReturns
  <1>3. Control'
    BY <1>1 DEF LoopTest, EpollTimeout, BatchDone, Sigint, vars, EpollReturns, Inv, Control, Stopped
  <1>4. Call' /\ (Stopped => Stopped')
    BY <1>2 DEF LoopTest, EpollTimeout, BatchDone, Sigint, vars, EpollReturns, Inv, Call, Stopped
  <1> QED BY <1>2, <1>3, <1>4, QuietStep DEF Inv, Kernel

LEMMA PeersStep ==
  ASSUME Inv, Peers
  PROVE  Inv'
  <1>1. CASE ClientConnects
    <2>1. Control' /\ Call' /\ ~Stopped
      BY <1>1, AgentAssumption
         DEF AgentAssumption, ClientConnects, Inv, Control, Call, Stopped, kernel, memory
    <2> QED BY <1>1, <2>1, QuietStep DEF ClientConnects, Inv, Kernel, kernel
  <1>2. ASSUME NEW f \in open, NEW t \in AgentSocket, PeerActs(f, t)
        PROVE  Inv'
    <2>1. Control' /\ Call' /\ ~Stopped
      BY <1>2 DEF PeerActs, Inv, Control, Call, Stopped
    <2> QED BY <1>2, <2>1, QuietStep DEF PeerActs, Inv, Kernel, memory
  <1>3. ASSUME NEW f \in open, PeerSends(f) \/ PeerFins(f) \/ PeerResets(f) \/ PeerTakes(f)
        PROVE  Inv'
    <2>1. sock[f] \in AgentSocket
      BY DEF Inv, Kernel
    <2> QED BY <1>2, <1>3, <2>1, SocketSteps DEF PeerSends, PeerFins, PeerResets, PeerTakes
  <1>4. ASSUME NEW f \in open, BackendAccepts(f)
        PROVE  Inv'
    <2>1. Control' /\ Call' /\ ~Stopped
      BY <1>4 DEF BackendAccepts, Inv, Control, Call, Stopped
    <2> QED BY <1>4, <2>1, QuietStep DEF BackendAccepts, Inv, Kernel, memory
  <1> QED BY <1>1, <1>3, <1>4 DEF Peers

\* Inv holds in every reachable state: no step, not even one that handles an
\* event of a freed pair, breaks it.
THEOREM AgentInvariance == Spec => []Inv
  <1>1. Inv /\ [Next]_vars => Inv'
    <2> SUFFICES ASSUME Inv, [Next]_vars PROVE Inv'
      OBVIOUS
    <2>1. CASE Dispatch
      BY <2>1, DispatchStep, PairStep DEF Dispatch
    <2>2. CASE Server /\ ~Dispatch
      BY <2>2, LoopStep, ForwardStep DEF Server
    <2>3. CASE Peers
      BY <2>3, PeersStep
    <2>4. CASE Sigint \/ Halted \/ UNCHANGED vars
      BY <2>4, LoopStep DEF Halted
    <2> QED BY <2>1, <2>2, <2>3, <2>4 DEF Next
  <1> QED BY InvInit, <1>1, PTL DEF Spec

\* Types: in particular accept never counts more clients than connected, and
\* forward() never leaves more bytes queued than the kernel took.
THEOREM AgentTypeCorrect == Spec => []TypeOK
  <1>1. Inv => TypeOK
    <2> SUFFICES ASSUME Inv PROVE TypeOK
      OBVIOUS
    <2>1. accepted \in 0 .. MaxConnects
      BY AgentAssumption DEF AgentAssumption, Inv, Control
    <2>2. \A f \in Fds : /\ [sock[f] EXCEPT !.out = << >>] \in Socket
                         /\ sock[f].out \in Seq(Bytes)
      <3> TAKE f \in Fds
      <3>1. sock[f] \in AgentSocket
        BY DEF Inv, Kernel
      <3>2. << >> \in Seq(1 .. MaxBytes)
        OBVIOUS
      <3> QED BY <3>1, <3>2 DEF AgentSocket, Socket
    <2> QED BY <2>1, <2>2 DEF Inv, Control, Call, Memory, Kernel, TypeOK, Entries, Owner
  <1> QED BY AgentInvariance, <1>1, PTL

\* g_conns never holds the address of a freed pair.
THEOREM AgentTableSafe == Spec => []TableNotDangling
  <1>1. Inv => TableNotDangling
    BY DEF Inv, Table, TableNotDangling, Entries
  <1> QED BY AgentInvariance, <1>1, PTL

\* While the proxy runs, live pairs and open descriptors match two to one:
\* a stale event may end the process or close a pair, but never half of one.
THEOREM AgentPairsStayWhole == Spec => []PairsWhole
  <1>1. Inv => PairsWhole
    BY DEF Inv
  <1> QED BY AgentInvariance, <1>1, PTL
=============================================================================
