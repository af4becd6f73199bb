------------------------------- MODULE TcpAgent -------------------------------
(***************************************************************************)
(* week5/demo/tcp-agent.c: the proxy.  Each accepted client is paired with *)
(* a non-blocking connection to the backend; both descriptors are          *)
(* registered with the pair's address as their event data, and the loop    *)
(* reads the data back as a descriptor.  epoll_data is a union, so what it *)
(* compares with client_fd and backend_fd is the address's low word.       *)
(*                                                                         *)
(* A step of the server is one system call with the code up to the next    *)
(* one, except that an accept and the connect it leads to are one step.    *)
(***************************************************************************)
EXTENDS TcpSocket, FiniteSets

CONSTANTS
    Ptrs,         \* heap addresses calloc can return for a proxy_conn
    WORD,         \* 2^32: an int holds an address modulo WORD
    Fds,          \* descriptors the process can still open
    ListenFd,
    BUF_SIZE,
    TABLE,        \* entries of g_conns
    MAX_EVENTS,
    MaxConnects   \* bound: connections the clients open

NULL == 0

ASSUME AgentAssumption ==
    /\ Ptrs \subseteq Nat \ {NULL} /\ WORD \in Nat \ {0}
    /\ Fds \subseteq Nat \ {0} /\ Fds # {} /\ ListenFd \in 1 .. WORD - 1 /\ ListenFd \notin Fds
    /\ BUF_SIZE \in Nat \ {0} /\ TABLE \in Nat \ {0} /\ MAX_EVENTS \in Nat \ {0}
    /\ MaxConnects \in Nat
    /\ \A p \in Ptrs : p % WORD # ListenFd   \* malloc aligns to 16

VARIABLES
    pc, keep_running,
    batch,        \* the events the for loop has still to handle
    cur,          \* the pair whose descriptors forward() was called with
    carry,        \* forward()'s arguments and the bytes it has read
    heap,         \* the addresses in use
    pair,         \* the memory at each address
    g_conns,
    open, sock,
    connecting,   \* backend sockets whose connect is still in progress
    owner,        \* which connection a descriptor is: <<side, number>>
    data_ptr,     \* epoll: the address registered with a descriptor
    backlog, connects, accepted

memory == <<heap, pair, g_conns>>
kernel == <<open, sock, connecting, owner, data_ptr>>
world == <<kernel, keep_running, backlog, connects, accepted>>
vars == <<pc, batch, cur, carry, memory, world>>

NoOwner == <<"none", 0>>
Idle == [src |-> 0, dst |-> 0, buf |-> << >>]
Calloced == [client_fd |-> 0, backend_fd |-> 0]

\* What free() leaves in a chunk of this size: the first words are the
\* allocator's list pointers, no descriptors, or stay as they were.
Overwritten == [client_fd |-> -1, backend_fd |-> -1]
FdPair == [client_fd: Fds, backend_fd: Fds]
Pair == FdPair \cup {Calloced, Overwritten}
Freed(p) == {pair[p], Overwritten}

Stopped == pc \in {"exit", "SIGPIPE", "SIGSEGV", "SIGABRT"}

Init ==
    /\ pc = "loop" /\ keep_running = TRUE
    /\ batch = {} /\ cur = NULL /\ carry = Idle
    /\ heap = {} /\ pair = [p \in Ptrs |-> Calloced]
    /\ g_conns = [i \in 0 .. TABLE - 1 |-> NULL]
    /\ open = {} /\ sock = [f \in Fds |-> NewSocket] /\ connecting = {}
    /\ owner = [f \in Fds |-> NoOwner] /\ data_ptr = [f \in Fds |-> NULL]
    /\ backlog = 0 /\ connects = 0 /\ accepted = 0

-------------------------------------------------------------------------------
(* The event loop. *)

LoopTest ==
    /\ pc = "loop"
    /\ pc' = IF keep_running THEN "epoll_wait" ELSE "exit"
    /\ UNCHANGED <<batch, cur, carry, memory, world>>

\* An event is a descriptor and the data it was registered with; the program
\* sees only the data.  A backend socket that is still connecting reports an
\* error but no data.
ListenEvent == [fd |-> ListenFd, data |-> ListenFd]
ReadyEvents ==
    {[fd |-> f, data |-> data_ptr[f]] : f \in {g \in open :
        data_ptr[g] # NULL /\ Polled(sock[g], IF g \in connecting THEN {} ELSE {"IN"})}}
    \cup (IF backlog > 0 THEN {ListenEvent} ELSE {})

EpollReturns(b) ==
    /\ pc = "epoll_wait"
    /\ b # {} /\ b \subseteq ReadyEvents
    /\ \/ b = ReadyEvents /\ Cardinality(b) <= MAX_EVENTS
       \/ b # ReadyEvents /\ Cardinality(b) = MAX_EVENTS
    /\ batch' = b /\ pc' = "dispatch"
    /\ UNCHANGED <<cur, carry, memory, world>>

\* Faulty variant: epoll_wait with timeout -1.
NoTimeout == FALSE /\ pc' = pc

EpollTimeout ==
    /\ pc = "epoll_wait" /\ ReadyEvents = {}
    /\ pc' = "loop"
    /\ UNCHANGED <<batch, cur, carry, memory, world>>

BatchDone ==
    /\ pc = "dispatch" /\ batch = {}
    /\ pc' = "loop"
    /\ UNCHANGED <<batch, cur, carry, memory, world>>

\* events[i].data.fd, whichever member of the union was written.
DataFd(e) == e.data % WORD

-------------------------------------------------------------------------------
(* Branch A: a new client. *)

Free == Fds \ open
Lowest(f, S) == f \in S /\ \A g \in S : f <= g

HandleListen(e) ==
    /\ pc = "dispatch" /\ e \in batch /\ DataFd(e) = ListenFd
    /\ batch' = batch \ {e}

AcceptFails(e) ==
    /\ HandleListen(e) /\ Free = {}
    /\ UNCHANGED <<pc, cur, carry, memory, world>>

AcceptedClient(e) ==
    /\ HandleListen(e) /\ Free # {} /\ backlog > 0
    /\ backlog' = backlog - 1

\* backend_connect returns -1, for want of a descriptor or because connect
\* fails at once: the client is closed again.
BackendUnavailable(e) ==
    /\ AcceptedClient(e)
    /\ accepted' = accepted + 1
    /\ UNCHANGED <<pc, cur, carry, memory, kernel, keep_running, connects>>

\* connect returned 0 or EINPROGRESS: both descriptors are registered with p.
Registers(cfd, bfd, p) ==
    /\ heap' = heap \cup {p}
    /\ pair' = [pair EXCEPT ![p] = [client_fd |-> cfd, backend_fd |-> bfd]]
    /\ g_conns' = [g_conns EXCEPT ![cfd % TABLE] = p, ![bfd % TABLE] = p]
    /\ data_ptr' = [data_ptr EXCEPT ![cfd] = p, ![bfd] = p]
    /\ open' = open \cup {cfd, bfd}
    /\ sock' = [sock EXCEPT ![cfd] = NewSocket, ![bfd] = NewSocket]
    /\ owner' = [owner EXCEPT ![cfd] = <<"client", accepted'>>, ![bfd] = <<"backend", accepted'>>]
    /\ connecting' \in {connecting, connecting \cup {bfd}}

PairCreated(e) ==
    /\ AcceptedClient(e)
    /\ accepted' = accepted + 1
    /\ \E cfd, bfd \in Free, p \in Ptrs \ heap :
        Lowest(cfd, Free) /\ Lowest(bfd, Free \ {cfd}) /\ Registers(cfd, bfd, p)
    /\ UNCHANGED <<pc, cur, carry, keep_running, connects>>

\* calloc returned NULL, and the next line writes pc->client_fd.
PairWithoutMemory(e) ==
    /\ AcceptedClient(e) /\ \E f, g \in Free : f # g
    /\ pc' = "SIGSEGV"
    /\ UNCHANGED <<cur, carry, memory, kernel, keep_running, connects, accepted>>

-------------------------------------------------------------------------------
(* Branches B and C: forward() from one descriptor of a pair to the other.  *)

HandlePair(e) ==
    /\ pc = "dispatch" /\ e \in batch /\ DataFd(e) # ListenFd
    /\ batch' = batch \ {e}

\* The word is neither descriptor of the pair: nothing is done.
NeitherFd(e) ==
    /\ HandlePair(e)
    /\ DataFd(e) \notin {pair[e.data].client_fd, pair[e.data].backend_fd}
    /\ UNCHANGED <<pc, cur, carry, memory, world>>

Calls(e, src, dst) ==
    /\ cur' = e.data /\ carry' = [src |-> src, dst |-> dst, buf |-> << >>]
    /\ pc' = "read"
    /\ UNCHANGED <<memory, world>>

ClientEvent(e) ==
    /\ HandlePair(e)
    /\ DataFd(e) = pair[e.data].client_fd
    /\ Calls(e, pair[e.data].client_fd, pair[e.data].backend_fd)

BackendEvent(e) ==
    /\ HandlePair(e)
    /\ DataFd(e) # pair[e.data].client_fd /\ DataFd(e) = pair[e.data].backend_fd
    /\ Calls(e, pair[e.data].backend_fd, pair[e.data].client_fd)

Without(fn, S, none) == [x \in DOMAIN fn |-> IF x \in S THEN none ELSE fn[x]]

\* Faulty variant: only the descriptor that ended is closed.
CleanupOneSide ==
    LET gone == {carry.src}
    IN  /\ open' = open \ gone
        /\ sock' = Without(sock, gone, NewSocket)
        /\ connecting' = connecting \ gone
        /\ owner' = Without(owner, gone, NoOwner)
        /\ data_ptr' = Without(data_ptr, gone, NULL)
        /\ g_conns' = Without(g_conns, {f % TABLE : f \in gone}, NULL)
        /\ heap' = heap \ {cur} /\ pair' = pair
        /\ pc' = "dispatch" /\ cur' = NULL /\ carry' = Idle
        /\ UNCHANGED <<batch, keep_running, backlog, connects, accepted>>

\* Faulty variant: the table entries keep the pointer that free() gets.
CleanupKeepsTable ==
    LET gone == {pair[cur].client_fd, pair[cur].backend_fd} \ {0, -1}
    IN  /\ open' = open \ gone /\ connecting' = connecting \ gone
        /\ sock' = Without(sock, gone, NewSocket)
        /\ owner' = Without(owner, gone, NoOwner)
        /\ data_ptr' = Without(data_ptr, gone, NULL)
        /\ heap' = heap \ {cur}
        /\ pc' = "dispatch" /\ cur' = NULL /\ carry' = Idle
        /\ UNCHANGED <<g_conns, pair, batch, keep_running, backlog, connects, accepted>>

\* cleanup_conn: close whatever the two descriptors are now, clear their table
\* entries, free the pair.  Freeing it twice aborts the process.
CleanupConn ==
    LET gone == {pair[cur].client_fd, pair[cur].backend_fd} \ {0, -1}
    IN  /\ open' = open \ gone
        /\ sock' = Without(sock, gone, NewSocket)
        /\ connecting' = connecting \ gone
        /\ owner' = Without(owner, gone, NoOwner)
        /\ data_ptr' = Without(data_ptr, gone, NULL)
        /\ g_conns' = Without(g_conns, {f % TABLE : f \in gone}, NULL)
        /\ IF cur \in heap
           THEN /\ heap' = heap \ {cur}
                /\ \E rest \in Freed(cur) : pair' = [pair EXCEPT ![cur] = rest]
                /\ pc' = "dispatch"
           ELSE UNCHANGED <<heap, pair>> /\ pc' = "SIGABRT"
        /\ cur' = NULL /\ carry' = Idle
        /\ UNCHANGED <<batch, keep_running, backlog, connects, accepted>>

\* Faulty variant: the socket is read until it is empty before anything is
\* written, each time into the same buffer.
DrainsFirst(n) ==
    /\ pc = "read" /\ carry.src \in open
    /\ CanRead(sock[carry.src], n) /\ n <= BUF_SIZE
    /\ sock' = [sock EXCEPT ![carry.src] = AfterRead(@, n)]
    /\ carry' = [carry EXCEPT !.buf =
         [i \in 1 .. n |-> <<owner[carry.src], sock[carry.src].nread + i>>]]
    /\ pc' = IF n = Unread(sock[carry.src]) THEN "write" ELSE "read"
    /\ UNCHANGED <<batch, cur, memory, open, connecting, owner, data_ptr,
                   keep_running, backlog, connects, accepted>>

ForwardRead(n) ==
    /\ pc = "read" /\ carry.src \in open
    /\ CanRead(sock[carry.src], n) /\ n <= BUF_SIZE
    /\ sock' = [sock EXCEPT ![carry.src] = AfterRead(@, n)]
    /\ carry' = [carry EXCEPT !.buf =
         [i \in 1 .. n |-> <<owner[carry.src], sock[carry.src].nread + i>>]]
    /\ pc' = "write"
    /\ UNCHANGED <<batch, cur, memory, open, connecting, owner, data_ptr,
                   keep_running, backlog, connects, accepted>>

\* read returned 0 or -1: end of file, an error, EAGAIN, or a closed descriptor.
ForwardReadEnds ==
    /\ pc = "read"
    /\ carry.src \notin open \/ Unread(sock[carry.src]) = 0
    /\ CleanupConn

\* Faulty variant: write() is taken to queue the whole buffer.
WriteTakesAll(n) ==
    /\ pc = "write" /\ carry.dst \in open \ connecting
    /\ CanWrite(sock[carry.dst], n) /\ n <= Len(carry.buf)
    /\ sock' = [sock EXCEPT ![carry.dst] = AfterWrite(@, carry.buf)]
    /\ cur' = NULL /\ carry' = Idle /\ pc' = "dispatch"
    /\ UNCHANGED <<batch, memory, open, connecting, owner, data_ptr,
                   keep_running, backlog, connects, accepted>>

\* Faulty variant: a partial write is repeated from the start of the buffer.
WriteRestarts(n) ==
    /\ pc = "write" /\ carry.dst \in open \ connecting
    /\ CanWrite(sock[carry.dst], n) /\ n <= Len(carry.buf)
    /\ sock' = [sock EXCEPT ![carry.dst] = AfterWrite(@, SubSeq(carry.buf, 1, n))]
    /\ IF n < Len(carry.buf) THEN UNCHANGED <<pc, cur, carry>>
       ELSE cur' = NULL /\ carry' = Idle /\ pc' = "dispatch"
    /\ UNCHANGED <<batch, memory, open, connecting, owner, data_ptr,
                   keep_running, backlog, connects, accepted>>

\* write() takes what the queue has room for; the rest of the buffer is dropped.
ForwardWrite(n) ==
    /\ pc = "write" /\ carry.dst \in open \ connecting
    /\ CanWrite(sock[carry.dst], n) /\ n <= Len(carry.buf)
    /\ n = Len(carry.buf) \/ n = Room(sock[carry.dst])
    /\ sock' = [sock EXCEPT ![carry.dst] = AfterWrite(@, SubSeq(carry.buf, 1, n))]
    /\ cur' = NULL /\ carry' = Idle /\ pc' = "dispatch"
    /\ UNCHANGED <<batch, memory, open, connecting, owner, data_ptr,
                   keep_running, backlog, connects, accepted>>

\* write returned -1: EAGAIN (a full queue, or still connecting), an error, or
\* a closed descriptor.
ForwardWriteFails ==
    /\ pc = "write"
    /\ \/ carry.dst \notin open
       \/ WriteAgain(sock[carry.dst]) \/ WriteFails(sock[carry.dst])
       \/ carry.dst \in connecting /\ sock[carry.dst].err = "none"
    /\ CleanupConn

ForwardWriteKilled ==
    /\ pc = "write" /\ carry.dst \in open /\ WriteKills(sock[carry.dst])
    /\ pc' = "SIGPIPE"
    /\ UNCHANGED <<batch, cur, carry, memory, world>>

-------------------------------------------------------------------------------
(* Clients, the backend and signals. *)

ClientConnects ==
    /\ ~Stopped /\ connects < MaxConnects
    /\ connects' = connects + 1 /\ backlog' = backlog + 1
    /\ UNCHANGED <<pc, batch, cur, carry, memory, kernel, keep_running, accepted>>

PeerActs(f, after) ==
    /\ ~Stopped
    /\ sock' = [sock EXCEPT ![f] = after]
    /\ UNCHANGED <<pc, batch, cur, carry, memory, open, connecting, owner, data_ptr,
                   keep_running, backlog, connects, accepted>>

Talking == open \ connecting
PeerSends(f) == f \in Talking /\ CanSend(sock[f]) /\ PeerActs(f, AfterSend(sock[f], FALSE))
PeerFins(f) == f \in Talking /\ CanFin(sock[f]) /\ PeerActs(f, AfterFin(sock[f]))
PeerResets(f) == f \in open /\ CanReset(sock[f]) /\ PeerActs(f, AfterReset(sock[f]))
PeerTakes(f) == f \in Talking /\ CanTake(sock[f]) /\ PeerActs(f, AfterTake(sock[f]))

BackendAccepts(f) ==
    /\ ~Stopped /\ f \in connecting /\ sock[f].err = "none"
    /\ connecting' = connecting \ {f}
    /\ UNCHANGED <<pc, batch, cur, carry, memory, open, sock, owner, data_ptr,
                   keep_running, backlog, connects, accepted>>

Sigint ==
    /\ ~Stopped
    /\ keep_running' = FALSE
    /\ UNCHANGED pc \/ (pc = "epoll_wait" /\ pc' = "exit")
    /\ UNCHANGED <<batch, cur, carry, memory, kernel, backlog, connects, accepted>>

Halted == Stopped /\ UNCHANGED vars

-------------------------------------------------------------------------------
Dispatch == \E e \in batch :
    \/ AcceptFails(e) \/ BackendUnavailable(e) \/ PairCreated(e) \/ PairWithoutMemory(e)
    \/ NeitherFd(e) \/ ClientEvent(e) \/ BackendEvent(e)

Forward == \/ \E n \in 1 .. BUF_SIZE : ForwardRead(n) \/ ForwardWrite(n)
           \/ ForwardReadEnds \/ ForwardWriteFails \/ ForwardWriteKilled

Server == \/ LoopTest \/ EpollTimeout \/ BatchDone \/ Dispatch \/ Forward
          \/ \E b \in SUBSET ReadyEvents : EpollReturns(b)

Peers == \/ ClientConnects
         \/ \E f \in open : \/ PeerSends(f) \/ PeerFins(f) \/ PeerResets(f) \/ PeerTakes(f)
                            \/ BackendAccepts(f)

Next == Server \/ Peers \/ Sigint \/ Halted

Spec == Init /\ [][Next]_vars

\* The process runs; the kernel takes ready descriptors in turn.
Fairness ==
    /\ WF_vars(Server)
    /\ \A f \in Fds \cup {ListenFd} :
         SF_vars(\E b \in SUBSET ReadyEvents : (\E e \in b : e.fd = f) /\ EpollReturns(b))
FairSpec == Spec /\ Fairness

-------------------------------------------------------------------------------
(* Properties. *)

Sides == {"none", "client", "backend"}
Bytes == (Sides \X (0 .. MaxConnects)) \X (1 .. MaxBytes)
Events == {ListenEvent} \cup [fd: Fds, data: Ptrs]

TypeOK ==
    /\ pc \in {"loop", "epoll_wait", "dispatch", "read", "write"} \/ Stopped
    /\ keep_running \in BOOLEAN
    /\ batch \subseteq Events /\ cur \in Ptrs \cup {NULL}
    /\ carry.src \in Fds \cup {0} /\ carry.dst \in Fds \cup {0} /\ carry.buf \in Seq(Bytes)
    /\ heap \subseteq Ptrs /\ pair \in [Ptrs -> Pair]
    /\ g_conns \in [0 .. TABLE - 1 -> Ptrs \cup {NULL}]
    /\ open \subseteq Fds /\ connecting \subseteq open
    /\ \A f \in Fds : [sock[f] EXCEPT !.out = << >>] \in Socket /\ sock[f].out \in Seq(Bytes)
    /\ owner \in [Fds -> Sides \X (0 .. MaxConnects)]
    /\ data_ptr \in [Fds -> Ptrs \cup {NULL}]
    /\ backlog \in Nat /\ connects \in 0 .. MaxConnects /\ accepted \in 0 .. MaxConnects

\* g_conns holds no pointer to freed memory, even where two descriptors share
\* an entry and even after an event was handled with a freed pair.
TableNotDangling == \A i \in 0 .. TABLE - 1 : g_conns[i] \in heap \cup {NULL}

\* The two descriptors of a pair live and die together: a live pair has both
\* open and registered, and every open descriptor is one of a live pair's.
PairsWhole ==
    ~Stopped =>
        /\ \A p \in heap : /\ {pair[p].client_fd, pair[p].backend_fd} \subseteq open
                           /\ pair[p].client_fd # pair[p].backend_fd
                           /\ data_ptr[pair[p].client_fd] = p
                           /\ data_ptr[pair[p].backend_fd] = p
        /\ \A f \in open : /\ data_ptr[f] \in heap
                           /\ f \in {pair[data_ptr[f]].client_fd, pair[data_ptr[f]].backend_fd}

Opposite(o) == <<IF o[1] = "client" THEN "backend" ELSE "client", o[2]>>

\* What the proxy writes to one side comes from the other side of the same
\* connection.  It holds although a stale pair is used: descriptors are opened
\* and closed two at a time, so a freed pair names both ends of one connection.
NoCrossTalk ==
    \A f \in open : \A i \in DOMAIN sock[f].out : sock[f].out[i][1] = Opposite(owner[f])

\* What is forwarded arrives in the order it was sent, and never twice; bytes
\* may be missing, where write() took a part of the buffer.
ForwardedInOrder ==
    \A f \in open : \A i, j \in DOMAIN sock[f].out :
        i < j => sock[f].out[i][2] < sock[f].out[j][2]

\* What was read from f and is neither written to g nor in forward's buffer, and
\* a write of that buffer that stops where g's queue is full.
Positions(bytes) == {bytes[i][2] : i \in DOMAIN bytes}
Carried(f) == IF carry.src = f THEN Positions(carry.buf) ELSE {}
Lost(f, g) == 1 .. sock[f].nread \ (Positions(sock[g].out) \cup Carried(f))
WriteFellShort(f, g) ==
    /\ pc = "write" /\ carry.src = f /\ carry.dst = g
    /\ Len(carry.buf) > Room(sock[g]) /\ sock'[g].queued = SndBuf
LosesNothing(f, g) == Lost(f, g)' \subseteq Lost(f, g) \/ WriteFellShort(f, g)

\* forward's comment supposes that one write takes everything.  A step loses
\* bytes on their way between the two ends of a live pair only if it is a write
\* whose buffer does not fit into the queue of the other end, and then only what
\* is left when the queue is full: stale events lose none, nor does a backend
\* that is still connecting (the pair is closed then), and an end that reads in
\* time has missed nothing, however long the stream.
NothingLostUnlessFull ==
    [][~Stopped' => \A p \in heap' : \A f, g \in {pair'[p].client_fd, pair'[p].backend_fd} :
         f # g => LosesNothing(f, g)]_vars

\* An event of the batch still names a pair in use when its turn comes.
EventsNameLivePairs ==
    pc = "dispatch" => \A e \in batch : e = ListenEvent \/ e.data \in heap

\* SIGINT ends the proxy, wherever it arrives.
SigintStops == ~keep_running ~> Stopped

\* cleanup_conn's comment: when one end goes away the other is closed too.
ChainedClose ==
    \A f \in Fds : (f \in open /\ (sock[f].fin \/ sock[f].err # "none")) ~> (f \notin open \/ Stopped)
==============================================================================
