------------------------------ MODULE EpollEcho ------------------------------
(***************************************************************************)
(* The two epoll servers that keep nothing about a connection:             *)
(* week4/my-lab/epoll-echo.c and week4/demo/epoll-server.c.  Their loops    *)
(* are the same; what they do with one event is not: how they put the      *)
(* newline back, and what they do when read() or write() fails.            *)
(*                                                                         *)
(* A step of the server is one system call with the code up to the next    *)
(* one.  The sockets are TcpSocket's; here a byte can also be a zero, which *)
(* strlen() takes for the end.                                             *)
(***************************************************************************)
EXTENDS TcpSocket, ByteStream, FiniteSets, SequencesExt

CONSTANTS
    Programs,     \* which of the two programs may be the one that runs
    Fds,          \* descriptors accept() can return
    Listen,       \* the event of listen_fd
    BUF_SIZE,
    MAX_EVENTS,
    MaxStale,     \* bound: bytes strlen() finds beyond what was read
    MaxConnects,  \* bound: connections the peers open
    MaxSends      \* bound: bytes all peers send together

ASSUME EpollEchoAssumption ==
    /\ Programs \subseteq {"epoll-echo", "epoll-server"} /\ Programs # {}
    /\ Fds \subseteq Nat \ {0} /\ Fds # {} /\ Listen \notin Fds
    /\ BUF_SIZE \in Nat /\ BUF_SIZE >= 2 /\ MAX_EVENTS \in Nat \ {0}
    /\ MaxStale \in Nat /\ MaxConnects \in Nat /\ MaxSends \in Nat

NoFd == 0
Inserted == 0     \* a newline that the peer did not send
Stale == -1       \* a byte left on the stack by an earlier call

VARIABLES
    program,
    pc,            \* where the server is
    keep_running,
    batch,         \* events[i .. nfds-1]: what the for loop has still to handle
    cur,           \* fd, the descriptor being handled
    writes,        \* the buffers of the write() calls still to be made for it
    open,          \* the client descriptors registered for EPOLLIN
    leaked,        \* those whose registration failed: nobody reads or closes them
    sock,
    nul,           \* the positions of the zero bytes each peer sent
    backlog, connects, sends

control == <<program, pc, batch, cur, writes>>
kernel == <<open, leaked, sock, nul, backlog>>
bounds == <<connects, sends>>
vars == <<control, keep_running, kernel, bounds>>

Stopped == pc \in {"exit", "SIGPIPE"}

Init ==
    /\ program \in Programs /\ pc = "loop" /\ keep_running = TRUE
    /\ batch = {} /\ cur = NoFd /\ writes = << >>
    /\ open = {} /\ leaked = {} /\ sock = [f \in Fds |-> NewSocket] /\ nul = [f \in Fds |-> {}]
    /\ backlog = 0 /\ connects = 0 /\ sends = 0

-------------------------------------------------------------------------------
(* The event loop. *)

LoopTest ==
    /\ pc = "loop"
    /\ pc' = IF keep_running THEN "epoll_wait" ELSE "exit"
    /\ UNCHANGED <<program, batch, cur, writes, keep_running, kernel, bounds>>

ReadyEvents == {f \in open : Polled(sock[f], {"IN"})} \cup (IF backlog > 0 THEN {Listen} ELSE {})

EpollReturns(b) ==
    /\ pc = "epoll_wait"
    /\ b # {} /\ b \subseteq ReadyEvents
    /\ IF b = ReadyEvents THEN Cardinality(b) <= MAX_EVENTS ELSE Cardinality(b) = MAX_EVENTS
    /\ batch' = b /\ pc' = "dispatch"
    /\ UNCHANGED <<program, cur, writes, keep_running, kernel, bounds>>

\* The timeout of 1000 ms, or a signal that does not end the loop.
EpollTimeout ==
    /\ pc = "epoll_wait" /\ ReadyEvents = {}
    /\ pc' = "loop"
    /\ UNCHANGED <<program, batch, cur, writes, keep_running, kernel, bounds>>

BatchDone ==
    /\ pc = "dispatch" /\ batch = {}
    /\ pc' = "loop"
    /\ UNCHANGED <<program, batch, cur, writes, keep_running, kernel, bounds>>

HandleListen ==
    /\ pc = "dispatch" /\ Listen \in batch
    /\ batch' = batch \ {Listen}
    /\ UNCHANGED <<program, writes, keep_running, nul, bounds>>

\* accept returns -1: the process or the system is out of descriptors or memory.
AcceptFails ==
    /\ HandleListen
    /\ UNCHANGED <<pc, cur, open, leaked, sock, backlog>>

Returned(f) ==
    LET free == Fds \ (open \cup leaked)
    IN  /\ HandleListen /\ backlog > 0
        /\ f \in free /\ \A g \in free : f <= g
        /\ backlog' = backlog - 1

Accepted(f) ==
    /\ Returned(f)
    /\ open' = open \cup {f} /\ sock' = [sock EXCEPT ![f] = NewSocket]
    /\ UNCHANGED leaked

\* Faulty variant (week 4's question 4): the new client is read at once.
AcceptAndRead(f) == Accepted(f) /\ pc' = "read" /\ cur' = f

AcceptClient(f) == Accepted(f) /\ UNCHANGED <<pc, cur>>

\* epoll_ctl(ADD) fails: epoll-server prints so, epoll-echo does not look, and
\* neither closes the descriptor.
AcceptUnregistered(f) ==
    /\ Returned(f)
    /\ leaked' = leaked \cup {f}
    /\ UNCHANGED <<pc, cur, open, sock>>

HandleClient(f) ==
    /\ pc = "dispatch" /\ f \in batch \ {Listen}
    /\ batch' = batch \ {f} /\ cur' = f /\ pc' = "read"
    /\ UNCHANGED <<program, writes, keep_running, kernel, bounds>>

-------------------------------------------------------------------------------
(* One event of a client: read once, answer, forget. *)

socket == sock[cur]

BackToLoop ==
    /\ pc' = "dispatch" /\ cur' = NoFd /\ writes' = << >>
    /\ UNCHANGED <<program, batch, keep_running, leaked, backlog, bounds>>

Disconnect ==
    /\ open' = open \ {cur}
    /\ sock' = [sock EXCEPT ![cur] = NewSocket] /\ nul' = [nul EXCEPT ![cur] = {}]
    /\ BackToLoop

\* End of file or an error.  epoll-echo closes for EAGAIN too, epoll-server
\* does not.
ReadNothing ==
    /\ pc = "read" /\ Unread(socket) = 0
    /\ IF program = "epoll-server" /\ ReadAgain(socket)
       THEN BackToLoop /\ UNCHANGED <<open, sock, nul>>
       ELSE Disconnect

\* Faulty variant: the last byte is taken off without being looked at.
StripsAlways(chunk) == << Front(chunk), <<Inserted>> >>

\* epoll-echo writes the line without its newline, which may be nothing, and
\* then a newline, whether or not the chunk had one.
LineThenNewline(chunk) ==
    IF Last(chunk) \in socket.nl THEN << Front(chunk), <<Last(chunk)>> >>
                                 ELSE << chunk, <<Inserted>> >>

\* epoll-server makes the chunk a string, ended by its newline's place or one
\* past it, writes a newline where strlen() says the string ends, and sends
\* strlen() of the result: up to the next zero.  A chunk without a zero or a
\* last newline has its only zero overwritten, and strlen() reads on.
UpToStrlen(chunk) ==
    LET n == Len(chunk)
        zeros == {i \in 1 .. n : chunk[i] \in nul[cur] \/ (i = n /\ chunk[i] \in socket.nl)}
        ThereOrPast(S) == IF S = {} THEN n + 1 ELSE CHOOSE i \in S : \A j \in S : i <= j
        first == ThereOrPast(zeros)
        second == ThereOrPast(zeros \ {first})
        newline == IF first <= n /\ chunk[first] \in socket.nl THEN chunk[first] ELSE Inserted
    IN  IF first > n
        THEN {Append(chunk, Inserted) \o [i \in 1 .. k |-> Stale] : k \in 0 .. MaxStale}
        ELSE {SubSeq([chunk EXCEPT ![first] = newline], 1, second - 1)}

Answers(chunk) == IF program = "epoll-echo" THEN {LineThenNewline(chunk)}
                                            ELSE {<<answer>> : answer \in UpToStrlen(chunk)}

ReadChunk(n) ==
    /\ pc = "read" /\ CanRead(socket, n) /\ n <= BUF_SIZE - 1
    /\ sock' = [sock EXCEPT ![cur] = AfterRead(@, n)]
    /\ writes' \in Answers([i \in 1 .. n |-> socket.nread + i])
    /\ pc' = "write"
    /\ UNCHANGED <<program, batch, cur, keep_running, open, leaked, nul, backlog, bounds>>

\* Faulty variant: one write too many.
OneMoreWrite ==
    /\ writes' = Tail(writes)
    /\ IF Len(writes) >= 1 THEN UNCHANGED <<pc, cur>> ELSE pc' = "dispatch" /\ cur' = NoFd
    /\ UNCHANGED <<program, batch, keep_running, open, leaked, nul, backlog, bounds>>

\* write() returned; what it did not take is not written again.
AfterWriting ==
    /\ writes' = Tail(writes)
    /\ IF Len(writes) > 1 THEN UNCHANGED <<pc, cur>> ELSE pc' = "dispatch" /\ cur' = NoFd
    /\ UNCHANGED <<program, batch, keep_running, open, leaked, nul, backlog, bounds>>

Smaller(m, n) == IF m <= n THEN m ELSE n
Taken == Smaller(Len(Head(writes)), Room(socket))

\* Faulty variant: the rest of a partial write is taken for a new answer.
WriteRestarts ==
    /\ pc = "write" /\ socket.err = "none" /\ (Taken > 0 \/ Head(writes) = << >>)
    /\ sock' = [sock EXCEPT ![cur] = AfterWrite(@, SubSeq(Head(writes), 1, Taken))]
    /\ IF Taken = Len(Head(writes)) THEN AfterWriting
       ELSE UNCHANGED <<control, keep_running, open, leaked, nul, backlog, bounds>>

Write ==
    /\ pc = "write" /\ socket.err = "none" /\ (Taken > 0 \/ Head(writes) = << >>)
    /\ sock' = [sock EXCEPT ![cur] = AfterWrite(@, SubSeq(Head(writes), 1, Taken))]
    /\ AfterWriting

\* Faulty variant: the descriptor was not made non-blocking, and write() waits.
WriteWaits ==
    /\ pc = "write" /\ WriteAgain(socket) /\ Head(writes) # << >>
    /\ UNCHANGED vars

\* EAGAIN: epoll-echo does not look at the result, epoll-server gives up.
WriteWouldBlock ==
    /\ pc = "write" /\ WriteAgain(socket) /\ Head(writes) # << >>
    /\ IF program = "epoll-echo" THEN AfterWriting /\ UNCHANGED sock ELSE Disconnect

\* ECONNRESET: once it was reported the socket is shut down, and the write of
\* epoll-echo's newline meets EPIPE.
WriteReset ==
    /\ pc = "write" /\ socket.err = "ECONNRESET"
    /\ IF program = "epoll-echo"
       THEN AfterWriting /\ sock' = [sock EXCEPT ![cur].err = "EPIPE"]
       ELSE Disconnect

\* SIGPIPE keeps its default action.
WriteKilled ==
    /\ pc = "write" /\ WriteKills(socket)
    /\ pc' = "SIGPIPE"
    /\ UNCHANGED <<program, batch, cur, writes, keep_running, kernel, bounds>>

-------------------------------------------------------------------------------
(* Peers and signals. *)

PeerConnects ==
    /\ ~Stopped /\ connects < MaxConnects
    /\ connects' = connects + 1 /\ backlog' = backlog + 1
    /\ UNCHANGED <<control, keep_running, open, leaked, sock, nul, sends>>

PeerActs(f, after) ==
    /\ ~Stopped
    /\ sock' = [sock EXCEPT ![f] = after]
    /\ UNCHANGED <<control, keep_running, open, leaked, backlog, connects>>

PeerSends(f, kind) ==
    /\ CanSend(sock[f]) /\ sends < MaxSends
    /\ PeerActs(f, AfterSend(sock[f], kind = "newline"))
    /\ nul' = IF kind = "zero" THEN [nul EXCEPT ![f] = @ \cup {sock[f].sent + 1}] ELSE nul
    /\ sends' = sends + 1
PeerFins(f) == CanFin(sock[f]) /\ PeerActs(f, AfterFin(sock[f])) /\ UNCHANGED <<nul, sends>>
PeerResets(f) == CanReset(sock[f]) /\ PeerActs(f, AfterReset(sock[f])) /\ UNCHANGED <<nul, sends>>
PeerTakes(f) == CanTake(sock[f]) /\ PeerActs(f, AfterTake(sock[f])) /\ UNCHANGED <<nul, sends>>

\* The handler clears keep_running; epoll_wait is interrupted if it has begun.
Sigint ==
    /\ ~Stopped
    /\ keep_running' = FALSE
    /\ UNCHANGED pc \/ (pc = "epoll_wait" /\ pc' = "exit")
    /\ UNCHANGED <<program, batch, cur, writes, kernel, bounds>>

Halted == Stopped /\ UNCHANGED vars

-------------------------------------------------------------------------------
Handle == \/ ReadNothing \/ Write \/ WriteWouldBlock \/ WriteReset \/ WriteKilled
          \/ \E n \in 1 .. BUF_SIZE : ReadChunk(n)

Server == \/ LoopTest \/ EpollTimeout \/ BatchDone \/ AcceptFails
          \/ \E b \in SUBSET ReadyEvents : EpollReturns(b)
          \/ \E f \in Fds : AcceptClient(f) \/ AcceptUnregistered(f) \/ HandleClient(f)
          \/ Handle

Peers == \/ PeerConnects
         \/ \E f \in open : \/ \E kind \in {"text", "newline", "zero"} : PeerSends(f, kind)
                            \/ PeerFins(f) \/ PeerResets(f) \/ PeerTakes(f)

Next == Server \/ Peers \/ Sigint \/ Halted

Spec == Init /\ [][Next]_vars

\* The process runs; the kernel takes ready descriptors in turn.  Peers need
\* do nothing.
Fairness ==
    /\ WF_vars(Server)
    /\ \A f \in Fds :
         SF_vars(\E b \in SUBSET ReadyEvents : f \in b /\ EpollReturns(b))
FairSpec == Spec /\ Fairness

-------------------------------------------------------------------------------
(* Properties. *)

Bytes == {Inserted, Stale} \cup 1 .. MaxBytes

TypeOK ==
    /\ program \in Programs /\ keep_running \in BOOLEAN
    /\ pc \in {"loop", "epoll_wait", "dispatch", "read", "write"} \/ Stopped
    /\ batch \subseteq Fds \cup {Listen} /\ cur \in Fds \cup {NoFd}
    /\ writes \in Seq(Seq(Bytes)) /\ Len(writes) <= 2 /\ (pc = "write" => writes # << >>)
    /\ open \subseteq Fds /\ leaked \subseteq Fds \ open
    /\ \A f \in Fds : [sock[f] EXCEPT !.out = << >>] \in Socket /\ sock[f].out \in Seq(Bytes)
    /\ nul \in [Fds -> SUBSET (1 .. MaxBytes)]
    /\ backlog \in Nat /\ connects \in 0 .. MaxConnects /\ sends \in 0 .. MaxSends

\* What epoll_wait reported is still so when its turn comes, whatever was
\* accepted or closed earlier in the batch: the descriptor is the same open
\* connection and read() will not find it without news, so that closing on any
\* n <= 0, as epoll-echo does, never closes a healthy connection.
EventsStayTrue ==
    /\ \A f \in batch \ {Listen} : f \in open /\ Readable(sock[f])
    /\ pc = "read" => cur \in open \ batch /\ Readable(socket)
    /\ pc = "write" => cur \in open \ batch

\* Of its own bytes a peer gets back each at most once, in the order sent, and
\* none before it was read, however many were dropped by writes or by strlen().
EchoInOrder ==
    \A f \in open : InOrder(sock[f].out) /\ Own(sock[f].out) \subseteq 1 .. sock[f].nread

\* What is still to be written to f, and the bytes read from f that neither were
\* written nor are still to be.
Pending(f) == CASE f # cur \/ writes = << >> -> << >>
                [] f = cur /\ Len(writes) = 1 -> writes[1]
                [] OTHER -> writes[1] \o writes[2]
Lost(f) == 1 .. sock[f].nread \ Own(sock[f].out \o Pending(f))

WriteFellShort(f) ==
    /\ pc = "write" /\ f = cur
    /\ sock[f].err # "none" \/ (Len(Head(writes)) > Room(sock[f]) /\ sock'[f].queued = SndBuf)
ReadZero(f) == program = "epoll-server" /\ nul[f] \cap (sock[f].nread + 1 .. sock'[f].nread) # {}
LosesNothing(f) == Lost(f)' \subseteq Lost(f) \/ WriteFellShort(f) \/ ReadZero(f)

\* A step loses bytes of an open connection only if it is a write() that met the
\* peer's reset or whose buffer does not fit into the queue (and then only what
\* is left when the queue is full), or, in epoll-server, the read of a zero.  A
\* peer that takes its echo in time has lost nothing, however long the stream.
NothingLostUnlessFull == [][\A f \in Fds : LosesNothing(f)]_vars

\* epoll-server.c's headline: one thread serves whoever has news, and no client
\* waits for another.  What a peer does is taken up in the end (its bytes read,
\* its shutdown or reset noticed and the descriptor closed) though no other peer
\* ever sends, reads or closes.
NobodyWaitsForOthers ==
    \A f \in Fds : (f \in open /\ Readable(sock[f]))
                     ~> (f \notin open \/ ~Readable(sock[f]) \/ Stopped)
==============================================================================
