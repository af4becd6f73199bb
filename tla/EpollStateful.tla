---------------------------- MODULE EpollStateful ----------------------------
(***************************************************************************)
(* week4/my-lab/epoll-stateful.c: the echo server whose connections each   *)
(* carry a state machine (READ, WRITE, CLOSE) and two buffers, driven by   *)
(* one level-triggered epoll loop.                                         *)
(*                                                                         *)
(* A step of the server is one system call with the code up to the next    *)
(* one; peers and SIGINT act between any two of them.  A conn_t lives in a *)
(* heap slot that free() gives back, a descriptor is reused after close(), *)
(* and the batch epoll_wait filled in keeps the pointers it was given.     *)
(***************************************************************************)
EXTENDS TcpSocket, FiniteSets

CONSTANTS
    Ptrs,         \* heap slots for a conn_t
    Fds,          \* descriptors accept() can return
    NULL,         \* the null pointer
    Listen,       \* the event of listen_fd
    BUF_SIZE,
    MAX_CLIENTS,
    MAX_EVENTS,
    MaxConnects   \* bound: connections the peers open

ASSUME ServerAssumption ==
    /\ NULL \notin Ptrs /\ Listen \notin Ptrs
    /\ Fds \subseteq Nat /\ Fds # {}
    /\ BUF_SIZE \in Nat /\ BUF_SIZE >= 2
    /\ MAX_CLIENTS \in Nat \ {0} /\ MAX_EVENTS \in Nat \ {0}
    /\ MaxConnects \in Nat

VARIABLES
    pc,            \* where the server is
    keep_running,
    batch,         \* events[i .. nfds-1]: what the for loop has still to handle
    cur,           \* the connection being handled
    heap,          \* the heap slots in use
    conn,          \* their contents
    g_conns,
    open,          \* the client descriptors in use
    sock,          \* their sockets
    interest,      \* epoll: the events each descriptor is registered for
    data_ptr,      \* epoll: its data.ptr
    backlog,       \* connections waiting to be accepted
    connects

memory == <<heap, conn, g_conns>>
epoll == <<interest, data_ptr>>
server == <<pc, batch, cur, memory, epoll>>
world == <<keep_running, open, sock, backlog, connects>>
vars == <<server, world>>

Index == 0 .. BUF_SIZE - 1
Buffer == [Index -> Nat]
Conn == [fd: Nat, state: {"READ", "WRITE", "CLOSE"},
         recv_buf: Buffer, recv_len: Nat, send_buf: Buffer, send_len: Nat, send_done: Nat]

\* calloc's zeroes; STATE_READ is 0.  A slot that is free holds this too: no
\* step reads it (NoDanglingPointer).
Zeroed == [fd |-> 0, state |-> "READ",
           recv_buf |-> [i \in Index |-> 0], recv_len |-> 0,
           send_buf |-> [i \in Index |-> 0], send_len |-> 0, send_done |-> 0]

Slots == 0 .. MAX_CLIENTS - 1
Control == {"loop", "epoll_wait", "dispatch", "do_read", "do_write", "cleanup",
            "exit", "SIGPIPE", "SIGSEGV"}
Stopped == pc \in {"exit", "SIGPIPE", "SIGSEGV"}

Init ==
    /\ pc = "loop" /\ keep_running = TRUE
    /\ batch = {} /\ cur = NULL
    /\ heap = {} /\ conn = [p \in Ptrs |-> Zeroed]
    /\ g_conns = [i \in Slots |-> NULL]
    /\ open = {} /\ sock = [f \in Fds |-> NewSocket]
    /\ interest = [f \in Fds |-> {}] /\ data_ptr = [f \in Fds |-> NULL]
    /\ backlog = 0 /\ connects = 0

-------------------------------------------------------------------------------
(* The event loop. *)

LoopTest ==
    /\ pc = "loop"
    /\ pc' = IF keep_running THEN "epoll_wait" ELSE "exit"
    /\ UNCHANGED <<batch, cur, memory, epoll, world>>

ReadyFds == {f \in open : Polled(sock[f], interest[f])}
ReadyEvents == {data_ptr[f] : f \in ReadyFds} \cup (IF backlog > 0 THEN {Listen} ELSE {})

\* The kernel fills in up to MAX_EVENTS of the ready events.
EpollReturns(b) ==
    /\ pc = "epoll_wait"
    /\ b # {} /\ b \subseteq ReadyEvents
    /\ \/ b = ReadyEvents /\ Cardinality(b) <= MAX_EVENTS
       \/ b # ReadyEvents /\ Cardinality(b) = MAX_EVENTS
    /\ batch' = b /\ pc' = "dispatch"
    /\ UNCHANGED <<cur, memory, epoll, world>>

\* Faulty variant: epoll_wait with timeout -1.
NoTimeout == FALSE /\ pc' = pc

EpollTimeout ==
    /\ pc = "epoll_wait" /\ ReadyEvents = {}
    /\ pc' = "loop"
    /\ UNCHANGED <<batch, cur, memory, epoll, world>>

BatchDone ==
    /\ pc = "dispatch" /\ batch = {}
    /\ pc' = "loop"
    /\ UNCHANGED <<batch, cur, memory, epoll, world>>

-------------------------------------------------------------------------------
(* events[i] is listen_fd's. *)

HandleListen ==
    /\ pc = "dispatch" /\ Listen \in batch
    /\ batch' = batch \ {Listen}

\* EMFILE: every descriptor the process may have is in use.
AcceptFails ==
    /\ HandleListen /\ Fds \subseteq open
    /\ UNCHANGED <<pc, cur, memory, epoll, world>>

\* accept() returns the lowest free descriptor.
Accepted(f) ==
    /\ HandleListen /\ backlog > 0
    /\ f \in Fds \ open /\ \A x \in Fds \ open : f <= x
    /\ backlog' = backlog - 1
    /\ open' = open \cup {f}
    /\ sock' = [sock EXCEPT ![f] = NewSocket]

AcceptClient ==
    \E f \in Fds, p \in Ptrs \ heap :
        /\ Accepted(f)
        /\ heap' = heap \cup {p}
        /\ conn' = [conn EXCEPT ![p] = [Zeroed EXCEPT !.fd = f, !.state = "READ"]]
        /\ g_conns' = [g_conns EXCEPT ![f % MAX_CLIENTS] = p]
        /\ interest' = [interest EXCEPT ![f] = {"IN"}]
        /\ data_ptr' = [data_ptr EXCEPT ![f] = p]
        /\ UNCHANGED <<pc, cur, keep_running, connects>>

\* calloc returned NULL, and the next line writes c->fd: the process ends.
AcceptWithoutMemory ==
    /\ HandleListen /\ backlog > 0 /\ ~(Fds \subseteq open)
    /\ pc' = "SIGSEGV"
    /\ UNCHANGED <<cur, memory, epoll, world>>

-------------------------------------------------------------------------------
(* events[i] is a connection's: c is the connection being handled. *)

c == conn[cur]
socket == sock[c.fd]

\* Faulty variant: only input is ever waited for.
AlwaysIn(state) == {"IN"}

\* What update_epoll_event registers for a state.
EventsFor(state) == CASE state = "READ"  -> {"IN"}
                      [] state = "WRITE" -> {"IN", "OUT"}
                      [] state = "CLOSE" -> {}

\* Faulty variants: every call copies, unfinished send or not; the copy takes
\* the terminating zero along.
CopyAgain(k) == [k EXCEPT !.send_buf = k.recv_buf, !.send_len = k.recv_len, !.send_done = 0]
CopyWithZero(k) ==
    IF k.send_len = 0
    THEN [k EXCEPT !.send_buf = k.recv_buf, !.send_len = k.recv_len + 1, !.send_done = 0]
    ELSE k

\* do_write's first lines: copy recv_buf unless an earlier send is unfinished.
PrepareSend(k) ==
    IF k.send_len = 0
    THEN [k EXCEPT !.send_buf = [i \in Index |-> IF i < k.recv_len THEN k.recv_buf[i] ELSE @[i]],
                   !.send_len = k.recv_len, !.send_done = 0]
    ELSE k

HandleConn(p) ==
    /\ pc = "dispatch" /\ p \in batch \ {Listen}
    /\ batch' = batch \ {p} /\ cur' = p
    /\ CASE conn[p].state = "READ"  -> pc' = "do_read" /\ conn' = conn
         [] conn[p].state = "WRITE" -> pc' = "do_write"
                                       /\ conn' = [conn EXCEPT ![p] = PrepareSend(@)]
         [] conn[p].state = "CLOSE" -> pc' = "cleanup" /\ conn' = conn
    /\ UNCHANGED <<heap, g_conns, epoll, world>>

\* do_read left the connection k in STATE_WRITE: main registers EPOLLOUT and
\* enters do_write.
StartWrite(k) ==
    /\ pc' = "do_write"
    /\ conn' = [conn EXCEPT ![cur] = PrepareSend([k EXCEPT !.state = "WRITE"])]
    /\ interest' = [interest EXCEPT ![k.fd] = EventsFor("WRITE")]

\* Faulty variant: only the last byte is looked at.
EndsWithNewline(k) == k.recv_len > 0 /\ k.recv_buf[k.recv_len - 1] \in sock[k.fd].nl

\* A message is complete when a newline is anywhere in the recv_len bytes.
HasNewline(k) == \E i \in Index : i < k.recv_len /\ k.recv_buf[i] \in sock[k.fd].nl

Received(k, n) ==
    [k EXCEPT !.recv_buf = [i \in Index |-> IF i >= k.recv_len /\ i < k.recv_len + n
                                            THEN sock[k.fd].nread + (i - k.recv_len) + 1
                                            ELSE @[i]],
              !.recv_len = @ + n]

\* Faulty variant: no room kept for the terminating zero.
ReadRoomToEnd(k) == BUF_SIZE - k.recv_len

ReadRoom(k) == BUF_SIZE - 1 - k.recv_len

ReadFull ==
    /\ pc = "do_read" /\ c.recv_len >= BUF_SIZE - 1
    /\ StartWrite(c)
    /\ UNCHANGED <<batch, cur, heap, g_conns, data_ptr, world>>

ReadData(n) ==
    /\ pc = "do_read" /\ c.recv_len < BUF_SIZE - 1
    /\ CanRead(socket, n) /\ n <= ReadRoom(c)
    /\ sock' = [sock EXCEPT ![c.fd] = AfterRead(@, n)]
    /\ IF HasNewline(Received(c, n))
       THEN StartWrite(Received(c, n))
       ELSE /\ conn' = [conn EXCEPT ![cur] = Received(c, n)]
            /\ UNCHANGED <<pc, interest>>
    /\ UNCHANGED <<batch, cur, heap, g_conns, data_ptr, keep_running, open, backlog, connects>>

\* Faulty variant: what has arrived is echoed when the socket runs dry.
ReadEchoesEarly ==
    /\ pc = "do_read" /\ c.recv_len \in 1 .. BUF_SIZE - 2 /\ ReadAgain(socket)
    /\ StartWrite(c)
    /\ UNCHANGED <<batch, cur, heap, g_conns, data_ptr, world>>

ReadWouldBlock ==
    /\ pc = "do_read" /\ c.recv_len < BUF_SIZE - 1 /\ ReadAgain(socket)
    /\ pc' = "dispatch"
    /\ UNCHANGED <<batch, cur, memory, epoll, world>>

\* Faulty variant: every result that is not data means "later".
ReadEndIgnored ==
    /\ pc = "do_read" /\ c.recv_len < BUF_SIZE - 1 /\ ReadEnds(socket)
    /\ pc' = "dispatch"
    /\ UNCHANGED <<batch, cur, memory, epoll, world>>

\* End of file, or an error: bytes already in recv_buf are dropped.
ReadEnd ==
    /\ pc = "do_read" /\ c.recv_len < BUF_SIZE - 1 /\ ReadEnds(socket)
    /\ conn' = [conn EXCEPT ![cur].state = "CLOSE"]
    /\ pc' = "cleanup"
    /\ UNCHANGED <<batch, cur, heap, g_conns, epoll, world>>

Unsent(k) == k.send_len - k.send_done

\* Faulty variant: a write is taken to be complete.
WriteIsWhole(n) ==
    /\ pc = "do_write" /\ c.send_done < c.send_len
    /\ CanWrite(socket, n) /\ n <= Unsent(c)
    /\ sock' = [sock EXCEPT ![c.fd] =
                  AfterWrite(@, [i \in 1 .. n |-> c.send_buf[c.send_done + i - 1]])]
    /\ conn' = [conn EXCEPT ![cur].send_done = c.send_len]
    /\ UNCHANGED <<pc, batch, cur, heap, g_conns, epoll,
                   keep_running, open, backlog, connects>>

WriteData(n) ==
    /\ pc = "do_write" /\ c.send_done < c.send_len
    /\ CanWrite(socket, n) /\ n <= Unsent(c)
    /\ sock' = [sock EXCEPT ![c.fd] =
                  AfterWrite(@, [i \in 1 .. n |-> c.send_buf[c.send_done + i - 1]])]
    /\ conn' = [conn EXCEPT ![cur].send_done = @ + n]
    /\ UNCHANGED <<pc, batch, cur, heap, g_conns, epoll,
                   keep_running, open, backlog, connects>>

WriteWouldBlock ==
    /\ pc = "do_write" /\ c.send_done < c.send_len /\ WriteAgain(socket)
    /\ interest' = [interest EXCEPT ![c.fd] = EventsFor(c.state)]
    /\ pc' = "dispatch"
    /\ UNCHANGED <<batch, cur, memory, data_ptr, world>>

WriteError ==
    /\ pc = "do_write" /\ c.send_done < c.send_len /\ WriteFails(socket)
    /\ conn' = [conn EXCEPT ![cur].state = "CLOSE"]
    /\ interest' = [interest EXCEPT ![c.fd] = EventsFor("CLOSE")]
    /\ pc' = "cleanup"
    /\ UNCHANGED <<batch, cur, heap, g_conns, data_ptr, world>>

\* SIGPIPE keeps its default action: the process ends inside write().
WriteKilled ==
    /\ pc = "do_write" /\ c.send_done < c.send_len /\ WriteKills(socket)
    /\ pc' = "SIGPIPE"
    /\ UNCHANGED <<batch, cur, memory, epoll, world>>

WriteDone ==
    /\ pc = "do_write" /\ c.send_done >= c.send_len
    /\ conn' = [conn EXCEPT ![cur] = [@ EXCEPT !.recv_len = 0, !.send_len = 0,
                                               !.send_done = 0, !.state = "READ"]]
    /\ interest' = [interest EXCEPT ![c.fd] = EventsFor("READ")]
    /\ pc' = "dispatch"
    /\ UNCHANGED <<batch, cur, heap, g_conns, data_ptr, world>>

\* Faulty variants: g_conns keeps the pointer; the descriptor is not closed.
CleanupKeepsEntry ==
    /\ pc = "cleanup"
    /\ interest' = [interest EXCEPT ![c.fd] = {}]
    /\ data_ptr' = [data_ptr EXCEPT ![c.fd] = NULL]
    /\ open' = open \ {c.fd} /\ sock' = [sock EXCEPT ![c.fd] = NewSocket]
    /\ heap' = heap \ {cur} /\ conn' = [conn EXCEPT ![cur] = Zeroed]
    /\ cur' = NULL /\ pc' = "dispatch"
    /\ UNCHANGED <<batch, g_conns, keep_running, backlog, connects>>

CleanupKeepsFd ==
    /\ pc = "cleanup"
    /\ interest' = [interest EXCEPT ![c.fd] = {}]
    /\ data_ptr' = [data_ptr EXCEPT ![c.fd] = NULL]
    /\ g_conns' = [g_conns EXCEPT ![c.fd % MAX_CLIENTS] = NULL]
    /\ heap' = heap \ {cur} /\ conn' = [conn EXCEPT ![cur] = Zeroed]
    /\ cur' = NULL /\ pc' = "dispatch"
    /\ UNCHANGED <<batch, open, sock, keep_running, backlog, connects>>

Cleanup ==
    /\ pc = "cleanup"
    /\ interest' = [interest EXCEPT ![c.fd] = {}]
    /\ data_ptr' = [data_ptr EXCEPT ![c.fd] = NULL]
    /\ open' = open \ {c.fd}
    /\ sock' = [sock EXCEPT ![c.fd] = NewSocket]
    /\ g_conns' = [g_conns EXCEPT ![c.fd % MAX_CLIENTS] = NULL]
    /\ heap' = heap \ {cur}
    /\ conn' = [conn EXCEPT ![cur] = Zeroed]
    /\ cur' = NULL /\ pc' = "dispatch"
    /\ UNCHANGED <<batch, keep_running, backlog, connects>>

-------------------------------------------------------------------------------
(* Peers and signals. *)

PeerConnects ==
    /\ ~Stopped /\ connects < MaxConnects
    /\ connects' = connects + 1 /\ backlog' = backlog + 1
    /\ UNCHANGED <<server, keep_running, open, sock>>

PeerActs(f, after) ==
    /\ ~Stopped
    /\ sock' = [sock EXCEPT ![f] = after]
    /\ UNCHANGED <<server, keep_running, open, backlog, connects>>

PeerSends(f, newline) == CanSend(sock[f]) /\ PeerActs(f, AfterSend(sock[f], newline))
PeerFins(f) == CanFin(sock[f]) /\ PeerActs(f, AfterFin(sock[f]))
PeerResets(f) == CanReset(sock[f]) /\ PeerActs(f, AfterReset(sock[f]))
PeerTakes(f) == CanTake(sock[f]) /\ PeerActs(f, AfterTake(sock[f]))

\* The handler clears keep_running.  It interrupts epoll_wait (EINTR, the loop
\* breaks) only when the call has begun: between the loop test and the call it
\* just sets the flag.
Sigint ==
    /\ ~Stopped
    /\ keep_running' = FALSE
    /\ UNCHANGED pc \/ (pc = "epoll_wait" /\ pc' = "exit")
    /\ UNCHANGED <<batch, cur, memory, epoll,
                   open, sock, backlog, connects>>

Halted == Stopped /\ UNCHANGED vars

-------------------------------------------------------------------------------
Dispatch == \/ BatchDone \/ AcceptFails \/ AcceptClient \/ AcceptWithoutMemory
            \/ \E p \in Ptrs : HandleConn(p)

DoRead == \/ ReadFull \/ ReadWouldBlock \/ ReadEnd
          \/ \E n \in 1 .. BUF_SIZE : ReadData(n)

DoWrite == \/ WriteWouldBlock \/ WriteError \/ WriteKilled \/ WriteDone
           \/ \E n \in 1 .. BUF_SIZE : WriteData(n)

Server == \/ LoopTest \/ EpollTimeout \/ \E b \in SUBSET ReadyEvents : EpollReturns(b)
          \/ Dispatch \/ DoRead \/ DoWrite \/ Cleanup

Peers == \/ PeerConnects
         \/ \E f \in open : \/ \E newline \in BOOLEAN : PeerSends(f, newline)
                            \/ PeerFins(f) \/ PeerResets(f) \/ PeerTakes(f)

Next == Server \/ Peers \/ Sigint \/ Halted

Spec == Init /\ [][Next]_vars

\* The server is a running process; the kernel takes ready descriptors in turn,
\* so none of them is left out of every batch; a peer reads what it is sent.
Fairness ==
    /\ WF_vars(Server)
    /\ \A p \in Ptrs \cup {Listen} :
         SF_vars(\E b \in SUBSET ReadyEvents : p \in b /\ EpollReturns(b))
PeersRead == \A f \in Fds : WF_vars(f \in open /\ PeerTakes(f))
FairSpec == Spec /\ Fairness /\ PeersRead

-------------------------------------------------------------------------------
(* Properties. *)

TypeOK ==
    /\ pc \in Control /\ keep_running \in BOOLEAN
    /\ batch \subseteq Ptrs \cup {Listen} /\ cur \in Ptrs \cup {NULL}
    /\ heap \subseteq Ptrs /\ conn \in [Ptrs -> Conn]
    /\ g_conns \in [Slots -> Ptrs \cup {NULL}]
    /\ open \subseteq Fds /\ sock \in [Fds -> Socket]
    /\ interest \in [Fds -> SUBSET {"IN", "OUT"}]
    /\ data_ptr \in [Fds -> Ptrs \cup {NULL}]
    /\ backlog \in Nat /\ connects \in 0 .. MaxConnects

Handling == pc \in {"do_read", "do_write", "cleanup"}

\* No pointer the server or the kernel still holds is to freed memory: not the
\* rest of the batch while a connection of it is freed, not the connection
\* being handled, not a registration, not the table g_conns.
NoDanglingPointer ==
    /\ batch \ {Listen} \subseteq heap
    /\ Handling => cur \in heap \ batch
    /\ \A f \in open : data_ptr[f] \in heap
    /\ \A i \in Slots : g_conns[i] \in heap \cup {NULL}

\* Descriptors and connections pair off: whatever the order of accepts and
\* closes, an open descriptor's events reach the one conn_t that names it, so
\* none leaks and none is shared; without slot collisions g_conns finds it too.
OneConnPerFd ==
    /\ \A f \in open : data_ptr[f] \in heap /\ conn[data_ptr[f]].fd = f
    /\ \A p \in heap : conn[p].fd \in open /\ data_ptr[conn[p].fd] = p
    /\ (\A f, g \in Fds : f % MAX_CLIENTS = g % MAX_CLIENTS => f = g)
         => \A p \in heap : g_conns[conn[p].fd % MAX_CLIENTS] = p

\* The echo is the peer's own stream: what was written so far is its first
\* bytes, each once and in order, across partial reads, partial writes and
\* the copies between the two buffers.
EchoInOrder ==
    \A f \in open : /\ Len(sock[f].out) <= sock[f].nread
                    /\ \A i \in DOMAIN sock[f].out : sock[f].out[i] = i

Pending(k) == IF k.send_len > 0 THEN Unsent(k) ELSE k.recv_len

\* Nothing is lost between read() and write(), whatever the reads and writes
\* returned: the bytes read are those echoed and those still buffered.
NoByteLost ==
    \A p \in heap :
        sock[conn[p].fd].nread = Len(sock[conn[p].fd].out) + Pending(conn[p])

\* do_read's limit leaves room for the terminating zero, and do_write never
\* runs past what it copied.
BuffersInBounds ==
    \A p \in heap : /\ conn[p].recv_len <= BUF_SIZE - 1
                    /\ conn[p].send_len <= conn[p].recv_len
                    /\ conn[p].send_done <= conn[p].send_len

\* When the server goes to sleep no connection is left without the wakeup its
\* state needs: unsent bytes wait for EPOLLOUT, and a connection that waits
\* for EPOLLIN holds no complete message and no full buffer.
NoMissedWakeup ==
    pc \in {"loop", "epoll_wait"} =>
        \A p \in heap :
            \/ /\ conn[p].state = "WRITE" /\ Unsent(conn[p]) > 0
               /\ "OUT" \in interest[conn[p].fd]
            \/ /\ conn[p].state = "READ" /\ conn[p].send_len = 0
               /\ "IN" \in interest[conn[p].fd]
               /\ ~HasNewline(conn[p]) /\ ReadRoom(conn[p]) > 0

\* A connection is in STATE_WRITE only for a complete message or a full buffer.
OnlyWholeMessages ==
    \A p \in heap : conn[p].state = "WRITE" => HasNewline(conn[p]) \/ ReadRoom(conn[p]) = 0

\* A peer that sends its lines and then shuts down gets every complete line
\* back: the connection is closed only when all of them were echoed.
LinesEchoedBeforeClose ==
    pc = "cleanup" /\ socket.err = "none" =>
        \A l \in socket.nl : l <= Len(socket.out)

\* W4-LAB-NOTES.md: at any time an error leads to STATE_CLOSE.
ErrorsOnlyClose == pc # "SIGPIPE"

\* A complete line is echoed in the end, unless the connection fails.
EveryLineEchoed ==
    \A f \in Fds, l \in 1 .. MaxBytes :
        (f \in open /\ l \in sock[f].nl)
          ~> (Len(sock[f].out) >= l \/ f \notin open \/ sock[f].err # "none" \/ Stopped)

\* A peer's shutdown or reset is noticed and the descriptor given back.
ClosedPeersReaped ==
    \A f \in Fds : (f \in open /\ (sock[f].fin \/ sock[f].err # "none"))
                     ~> (f \notin open \/ Stopped)

\* The connection a descriptor stands for, without buffers, states and events.
\* An answer is decided on when do_write copies it.
Link(f) ==
    LET k == conn[data_ptr[f]]
    IN  [connected |-> TRUE, sent |-> sock[f].sent, nl |-> sock[f].nl,
         due |-> Len(sock[f].out) + (IF k.send_len > 0 THEN Unsent(k) ELSE 0),
         echo |-> sock[f].out,
         ended |-> IF sock[f].err # "none" THEN "reset" ELSE IF sock[f].fin THEN "fin" ELSE "no"]

NoLink == [connected |-> FALSE, sent |-> 0, nl |-> {}, due |-> 0, echo |-> << >>, ended |-> "no"]

Service == INSTANCE EchoService
           WITH Conns <- Fds, running <- ~Stopped,
                link <- [f \in Fds |-> IF f \in open THEN Link(f) ELSE NoLink]

\* The state machine with its two buffers, its wakeups and its reused
\* descriptors gives each peer the service: every step is a step of it or
\* changes nothing of it, and it is as live.
ProvidesService == Service!Spec

\* SIGINT ends the server even when it arrives between the loop test and
\* epoll_wait: that is what the 1000 ms timeout is for.
SigintStops == ~keep_running ~> Stopped
==============================================================================
