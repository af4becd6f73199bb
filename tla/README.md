# Formal models of sys-netsec-lab

The repository is a training lab that builds a "Mini TCP Gateway" week by week.
Phase 1 (`src/phase1-tcp-gateway`) is the only phase with code; phases 2 to 7 are
empty directories.  This directory holds TLA+ models of the programs of phase 1,
the TLC configurations that check them and TLAPS proofs about them.

Paths below are relative to `src/phase1-tcp-gateway`.

## Inventory

| component | state it keeps | operations | what is hard | what makes it correct |
|---|---|---|---|---|
| `week5/demo/tcp-agent.c`, the TCP proxy | `proxy_conn` per client (two descriptors), `g_conns` by descriptor, the epoll set with `data.ptr` | accept + non-blocking `backend_connect`, `forward` in each direction, `cleanup_conn`, SIGINT | two descriptors share one heap object and one batch of events; `data` is a union read as `fd` and written as `ptr`; partial writes; connect still in progress | bytes arrive at the other side, in order; when one side ends the other is closed; no event is handled with a freed pair; nothing leaks |
| `week4/my-lab/epoll-stateful.c`, echo server with a state machine | `conn_t` per client (state, two buffers), `g_conns`, the epoll set | accept, `do_read`, `do_write`, `update_epoll_event`, cleanup, SIGINT | partial reads and writes, level-triggered wakeups, reuse of descriptors and heap slots, EMFILE, a signal just before `epoll_wait` | the echo is the stream; every line comes back; no missed wakeup; no dangling pointer; SIGINT stops it |
| `week4/my-lab/epoll-echo.c`, `week4/demo/epoll-server.c`, epoll echo servers without state | the epoll set | accept, read + write in one go, close | results of `write` are ignored; EAGAIN of `read` closes; `epoll-server` measures what it read with `strlen`; descriptors are reused while a batch is handled | an event is still true when handled; the echo is in order and lacks only what met a full queue; no client waits for another |
| `week3/my-lab/echod-server.c` with `echod-client.c` | one blocking connection | `read_full`, `write_full`, `handle_client` | both sides block; the client waits for a full buffer; `signal()` restarts `accept` | each line is echoed; Ctrl+C stops the server |
| `week3/my-lab/blocking-server.c` | one blocking connection | accept, read, write, close | a silent client blocks everyone; close with unread bytes resets the client | one chunk is echoed per client; a client that leaves frees the server |
| `week3/demo/echo-server.c`, `echo-client.c` | one connection | accept, read, write | an empty line writes nothing and then waits for an answer; one `read` may get a part of the answer | no byte is lost; only an empty line makes both wait |
| `week3/demo/fd-table.c` | the descriptor table | open and close | none | the lowest free descriptor is used |
| `week2/broken-server.c`, session table (its memory errors have been fixed, see `week2/my-lab/BROKEN-SERVER-FIXES.md`) | `g_connections`, `g_conn_count`, counters, sessions on the heap | `session_create`, `_destroy`, `_recv`, `_close`, `_get_data`, `process_packet`, `main` | allocation failures half-way; a counter and a table kept by hand | every allocation is freed once; the counter counts the table |
| `week1` (libcalc, build demos), `week2` bug demos and `memory-lab` | a call counter; single-bug demonstrations | | none: sequential demonstrations of the toolchain and of single memory errors | |

The programs are separate processes.  They interact only over TCP: the proxy connects
to port 8080, where one of the echo servers listens; `echod-client` and
`echo-client` connect to theirs.  Inside a server everything is one thread; what
interleaves with it is the kernel, the peers and SIGINT.

## Plan

Modules, in the order they were written (all are done):

1. `TcpSocket`: a connected socket as seen through `read`, `write` and `epoll_wait`
   (external: the kernel and the peer), shared by the models of the epoll servers.
2. `EpollStateful`, `MCEpollStateful`, `EpollStatefulProofs`: the stateful echo server,
   its runs, and the proof of its inductive invariant.
3. `TcpAgent`, `MCTcpAgent`, `TcpAgentProofs`: the proxy, run with event words that read
   back as a descriptor, which the handlers were written for, and with words that do
   not, which is what a heap gives; the proof of its inductive invariant.
   `AgentForwardProofs` proves what becomes of the forwarded bytes.
4. `BlockingEcho`, `MCBlockingEcho`, `BlockingEchoProofs`: the three blocking servers of week 3, each with runs of either
   blocking client over bounded pipes, and the proof that the path of a client's bytes is whole.
5. `Sessions`, `MCSessions`, `SessionsProofs`: `broken-server.c` with failure possible at
   every `malloc`, and the proof that its heap is what its pointers lead to.
6. `EpollEcho`, `MCEpollEcho`, `EpollEchoProofs`: the two epoll servers without per-connection state.
7. `EchoService`: what a peer of the stateful server is promised, without buffers, states and
   events; `EpollStateful` implements it (`ProvidesService`, checked in `stateful_live`; its safety part proved in `EpollServiceProofs`).
8. `ByteStream`, `ByteStreamProofs`: which of a peer's own bytes a sequence has and whether they are in order; what
   concatenation, splitting and padding do to that.

What composes what: `EpollStateful`, `EpollEcho` and `TcpAgent` extend `TcpSocket`; `EpollEcho` and `BlockingEcho` extend
`ByteStream`; `EpollStateful`
instantiates `EchoService` with its refinement mapping; each `MC` module extends the component it runs and
each `Proofs` module the component it is about.

## The models

`TcpSocket` is the only module for code outside the repository: one socket as a record of
what the peer has sent, what the server has read and written, and the error a RST left.
A byte is its position in the peer's stream, so loss, repetition and order can be stated
and contents cannot. `EpollStateful`, `EpollEcho` and `TcpAgent` share it.

| module | code | state | one action per |
|---|---|---|---|
| `EpollStateful` | `week4/my-lab/epoll-stateful.c` | `pc`, the events left of the batch, `cur` (`conn_t *c`), the heap, `conn_t`s, `g_conns`, open descriptors, their interest sets and `data.ptr` | system call of the loop, `do_read`, `do_write`, accept, cleanup |
| `TcpAgent` | `week5/demo/tcp-agent.c` | the same loop, `proxy_conn`s, `g_conns`, `data.ptr`, which backend sockets are still connecting | system call of the loop and of `forward`; accept with the backend's connect; `cleanup_conn` |
| `EchoService` | the promise of `epoll-stateful.c` | per descriptor: what was sent, up to where an answer is due, what was echoed, how the peer ended | message decided on, piece echoed, connection closed |
| `EpollEcho` | `week4/my-lab/epoll-echo.c`, `week4/demo/epoll-server.c` (the variable `program` says which) | the loop's `pc`, the events left of the batch, the descriptor being handled, the buffers of the `write`s still to be made, the open descriptors and those accepted but never registered | system call of the loop, `read`, each `write` |
| `BlockingEcho` | `week3/my-lab/echod-server.c`, `blocking-server.c`, `demo/echo-server.c` (`program`); `my-lab/echod-client.c`, `demo/echo-client.c` (`runs`, per client) | the server's next call and write buffer, each client's next call and what its read still wants, both directions of each connection | blocking call of either program |
| `Sessions` | `week2/broken-server.c` | main's place, the table, the count, local pointers, the heap's blocks, counters | `malloc` or `free` with the code around it |

`ByteStream` models no code: it has the two operators, `Own` and `InOrder`, in which the echo properties of `EpollEcho` and
`BlockingEcho` are stated, so that both proofs rest on the same lemmas.

Choices a reader of the code should know:

- *Heap*. In `EpollStateful` and `TcpAgent` `calloc` returns any address not in use, so
  an address is reused at once where that does harm. In `TcpAgent` the contents of a freed
  `proxy_conn` are either what they were or the allocator's words; reading it is undefined in C and the
  model takes both outcomes; freeing it again aborts the process, as glibc does.
- *The event's union*. `tcp-agent.c:312` writes `data.ptr` and line 255 reads `data.fd`.
  Addresses are numbers and `DataFd` is the address modulo `WORD` (2^32 in the
  program, 64 in the runs). The runs use addresses that read back as the client's descriptor, as the
  backend's, and as neither: the first two let `forward` and `cleanup_conn` run at all, the third is what a
  real heap gives.
- *Signals*. SIGINT may come at any time; it ends `epoll_wait` if it comes inside it and
  does not if it comes between the loop test and the call. `accept` and `read` in `echod-server` and `blocking-server` are restarted, because
  `signal()` asks for that; `demo/echo-server` has no handler and ends. That SIGINT cuts short a `write` which has taken a part
  is left out: `write_full` would go on, and the one answer of `blocking-server` (at most 4096 bytes) fits the queue of a new connection.
- *One module for programs that differ in a branch.* `EpollEcho` and `BlockingEcho` choose the program in `Init` and branch on
  it where the sources do, so that a property is stated once and each server meets each client.
- *`strlen` in `epoll-server`*. A byte may be a newline, a zero or text. The program makes the chunk a string, puts a newline at the end `strlen` finds,
  and sends `strlen` bytes of the result: a zero inside cuts the chunk, and when there is no zero left the call reads bytes an
  earlier call left on the stack; how many is a choice of the model (0 to `MaxStale`).
- *Short writes*. A non-blocking `write` may take any part of the buffer in `EpollStateful`, which must cope with it. In `EpollEcho` and `TcpAgent`, which drop the
  rest, it takes as much as the queue has room for, as the kernel does; otherwise nothing could be said of when bytes are lost.
- *Left out*: printing, socket options, the set-up calls before the loop (they exit on failure),
  a failing `epoll_ctl` in `epoll-stateful` and `tcp-agent`, addresses of peers, and what the bytes say.

Definitions called *faulty variants* are used by no action of the models: each is a plausible mistake in the code, and a
property is kept only if TLC finds it violated when the variant takes the place of the definition it varies.

## The runs

| run | bounds | shows |
|---|---|---|
| `stateful_safety` | 2 connections at once, 3 in all, `BUF_SIZE` 3, a socket queue of 1 byte, 2 bytes from each peer, `MAX_CLIENTS` 1 | `NoDanglingPointer`, `OneConnPerFd`, `EchoInOrder`, `NoMissedWakeup`: descriptors and heap slots are reused inside a batch, and both connections share the one entry of `g_conns` (what the table holds when entries are not shared is proved, `FdsAndConnsPairOff`) |
| `stateful_live` | 1 connection at a time, `BUF_SIZE` 4, a socket queue of 1 byte, streams of 4 | buffers fill, writes are partial, `accept` fails for want of a descriptor; every line is echoed, closed peers are reaped, SIGINT stops the server; `ProvidesService`: every step is a step of `EchoService` or changes nothing of it, and its fairness is met |
| `stateful_sigpipe` | 1 connection | finding: a reset connection can end the whole server |
| `agent_pairs` | 4 descriptors, 2 pairs at once, 1 byte each way | `TableNotDangling`, `PairsWhole`, `NoCrossTalk` although stale events are handled with freed pairs |
| `agent_forward` | 2 descriptors, 2 pairs one after the other, 2 bytes each way, partial writes | `ForwardedInOrder`, `NothingLostUnlessFull` (no step loses a byte but a write that does not fit into the queue; also for a backend still connecting, and after any number of bytes that were taken in time), `SigintStops` |
| `agent_chain` | 1 pair, an address whose low word is no descriptor | finding: nothing is forwarded and no end is ever closed |
| `agent_stale` | 1 pair | finding: the second event of a pair is handled after the first freed it |
| `epoll_echo` | either program, 2 connections, `BUF_SIZE` 3, a socket queue of 3 bytes, 2 bytes from the peers | `EventsStayTrue` (why `epoll-echo` may close on EAGAIN), `EchoInOrder`, `NothingLostUnlessFull`, `NobodyWaitsForOthers` |
| `blocking_pairs` | 3 servers, 2 clients of either program, buffers of 3, a queue of 2, 3 bytes each | `NothingLostOnTheWay`, `ServerMovesOn` (a client that leaves brings the next one its turn, if the server has no second write for it), `AnsweredUnlessEmpty`: lines that fit, that fill a buffer, that `fgets` cuts, and empty ones |
| `echod_answer` | 1 client, a line shorter than its buffer, its connection accepted | finding: client and server wait for each other |
| `echod_sigint` | no client | finding: an idle server ignores Ctrl+C |
| `sessions` | the program's own numbers | main's run for every set of failing allocations |

Why the bounds are enough to meet the cases: two connections are the fewest that can collide in a table or share a
batch, a third makes them reuse a descriptor; a stream longer than the socket's queue
makes writes partial or fail (in `epoll_echo` two bytes of one peer, each answered with a newline of the server's own, are four bytes for a queue of three); a buffer of three or four bytes can be empty, in use, full, and hold two lines.
`CHECK_DEADLOCK FALSE` is set for `BlockingEcho` only: two blocking programs whose user types nothing do stop.

### Fairness

- `EpollStateful`, `TcpAgent`, `EpollEcho`: weak fairness of the server's next step (it is one thread that always has
  something to call; `epoll_wait` returns after its 1000 ms), and strong fairness of each
  descriptor being among the events returned, because the kernel takes ready descriptors in turn and puts a reported one at the
  end of its list. Liveness of one connection of `EpollStateful` also assumes that its peer takes what is sent to it; `NobodyWaitsForOthers` in `EpollEcho` assumes nothing of any peer.
- `BlockingEcho`: weak fairness of each call that can return and of the kernel's RST; strong fairness of `accept` returning a connection,
  since its failures (a process or a system out of descriptors or memory) come from outside and pass; none of
  users typing, connecting or quitting. `ServerMovesOn` leaves out the server's own end by SIGPIPE: bytes written after the client closed are answered with a
  RST and the next write kills the server, so what is promised is the turn of the next client when the server is
  `blocking-server`, which writes once, when the client that left had reset the connection already, or when no second write is to come.

## What is proved

All theorems hold for every value of the constants that satisfies the modules' assumptions.

- `EpollStatefulProofs`. The inductive invariant is `Structure /\ DataInv`. `Structure` has the types, who points to whom (each open
  descriptor's event data is a live connection with that descriptor, and back; the events of a batch name live
  connections other than the one being handled) and the table. The property `NoDanglingPointer` alone is not inductive: that an event left in the batch
  is not freed by an earlier one needs that each descriptor has one connection and appears once. `DataInv` says that the
  receive buffer, the send buffer and the output are consecutive parts of the stream; `EchoInOrder`, `NoByteLost` and
  `BuffersInBounds` follow.
- `EpollServiceProofs`. A third part, `ModeInv`, says what a connection's state means for its buffers, its registration and its
  socket, with the exceptions for the one being handled (in `do_read` a full buffer may still wait for its answer; in `do_write` all may be
  sent). `IInv == Structure /\ DataInv /\ ModeInv` is inductive; `NoMissedWakeup`, `OnlyWholeMessages` and `LinesEchoedBeforeClose` follow,
  the last because a line among the buffered bytes would have been seen by `do_read`. `ServerImplementsService` is the refinement: by
  `Structure` a step shows in the view of one descriptor at most (`OneShown`); the copy in `do_write` is a `Decide` (`DecidesMessage`, from
  `DataInv` and the line or full buffer `ModeInv` promises), a write is an `Echo`, `cleanup_conn` a `Close`, `accept` a `Connect`, a signal or a failed `calloc`
  a `Stop`, and the rest changes nothing of the service.
- `TcpAgentProofs`. The inductive invariant is `Inv`: types, each entry of `g_conns` belongs to a live pair and stands at one of
  that pair's two places, and, while the proxy runs, `PairsWhole`. A call of `cleanup_conn` on a live pair closes exactly its two descriptors
  (by `PairsWhole`) and clears the entries where the pair can stand; on a freed pair it ends in an abort. So events with freed pairs, which `agent_stale`
  shows to happen, never leave a dangling table entry or half a pair.
- `SessionsProofs`. `IInv` says for each point of main which local pointers are held and how far the loops have come; with it the heap equals
  what pointers lead to, so `free` is never called twice and nothing is left at `exit`. The count's theorem uses cardinalities of finite sets.
- `AgentForwardProofs`. `ForwardInv`, inductive together with `Inv` of `TcpAgentProofs`, has five parts. A live pair's two descriptors are
  those of one accept and one connect (`Couples`), every open descriptor has such a partner (`Paired`), and the two belong to the
  opposite ends of the same connection (`Owned`). The pair of a stale event may be one that was freed, and its descriptors may be open again; they are then partners again: descriptors are only ever
  closed two by two and an accept takes the two lowest, so that, numbered from the lowest, a pair is always an even descriptor and its successor. That makes `forward()` harmless there: what it holds in its buffer came from the partner of the descriptor it will write to
  (`Carrying`), so what was written to a descriptor is only its partner's bytes, ascending (`Streams`), and none of them while `forward()` still holds it. Every step is shown to keep
  that and to lose nothing between two partners unless it is a write that does not fit (`NoLoss`). `NoCrossTalk`,
  `ForwardedInOrder` and the action property `NothingLostUnlessFull` follow.
- `EpollEchoProofs`, for both programs at once. `Inv` has the types, `EventsStayTrue` and `Flow`: what a peer got back followed by what
  the writes at hand will add (`Pending`) has its own bytes in order and none that was not read. Every step is shown to keep it and to lose no byte of any peer
  (`GoodStep`), except a write that does not fit or whose connection failed and, in `epoll-server`, the read of a zero; `NothingLostUnlessFull` says this of steps, so that what one full queue cost
  excuses nothing later. `EchoInOrder` alone is not inductive: a write that is still to come must not repeat what is in the queue. `LineThenNewline` and `UpToStrlen` have lemmas of their own (`LineAnswer`, `StrlenAnswer`): the first keeps all bytes
  of a chunk, the second keeps their order, and all of them if there is no zero.
- `BlockingEchoProofs`, for the three servers and both clients at once. `Inv` adds to the types that the server holds bytes only while it answers, and that a
  connection is broken only by a client that has closed: without the second, `CloseClient` after a failed `write` could drop bytes of an open client. Each call moves a prefix from one part of a client's path to the end of the part before (`Moved`) or adds a newline (`EchoIs`), so
  `NothingLostOnTheWay` is inductive.
- `ByteStreamProofs` has the lemmas on sequences. `Minimum`, that a non-empty set of naturals has a least element, is from the
  well-foundedness of `<`.

Assumptions: the named `ASSUME`s of the modules (`SocketAssumption`, `BlockingAssumption`, ...) and nothing else. They say that sizes are naturals, buffers hold at least two bytes where the code's `BUF_SIZE - 1` needs it, and
that descriptors, `Listen` and the values for "none" differ; `AgentAssumption` also that no address reads back as `listen_fd` (`malloc` aligns to 16).

Every invariant and action property that a passing run checks is proved. Only model-checked: liveness (`EveryLineEchoed`, `ClosedPeersReaped`, `SigintStops`, `ServerMovesOn`, `AnsweredUnlessEmpty`,
`NobodyWaitsForOthers` and the fairness in `ProvidesService`), because TLAPS does not reason about `ENABLED` and fairness here.

## Findings

1. `epoll-stateful.c:133`: `write` after a peer's FIN and RST raises SIGPIPE, which nothing handles, so one peer ends the server.
2. `tcp-agent.c:255`: the event's data is stored as a pointer and read as a descriptor. On a real heap the word matches no descriptor, so nothing is forwarded and no close is noticed.
3. `tcp-agent.c:323`: both ends of a pair can be in one batch; the second is handled with the freed pair, and freed again. This needs an address whose low word is a live descriptor, as
   the handlers suppose; with the addresses of an ordinary heap finding 2 keeps it out of reach, and mending 2 alone would bring it out.
4. `echod-client.c:95`: `read_full` waits for 4095 bytes, not for a line; after a shorter line client and server wait for each other.
5. `echod-server.c:155`: `signal()` restarts `accept`, so Ctrl+C does not stop an idle server.

Met while modelling, without a document that says otherwise: `calloc` is not checked in either epoll server; `tcp-agent` closes a pair when data arrives before the backend
is connected (EAGAIN); `echod-server` inserts a newline after each chunk that has none, so a line read in two parts comes back in two; in `epoll-echo` the write of the newline after a write that met ECONNRESET raises SIGPIPE, and a full queue
loses the newline or the line; neither `epoll-echo` nor `epoll-server` closes a descriptor whose `epoll_ctl` failed (`leaked`); `epoll-server` sends left-over stack bytes after a chunk without a newline or zero, and disconnects a reader that is slow enough for EAGAIN; `echo-client` waits for ever after an empty line; `blocking-server` resets a client whose second line it did not read; `echod-server` and `echo-server` end by SIGPIPE at the second write to a client that has closed; `g_conns` is written and never read in `epoll-stateful` and `tcp-agent`, so that an entry
cleared for another connection harms nobody and a dangling one nobody yet; `broken-server` dereferences NULL if session 0 was not
created, and its last loop destroys sessions without counting them.

## Not modelled

- `week3/demo/fd-table.c`: opens and closes descriptors in a fixed order to print their numbers.
- Week 1 and the demonstrations of week 2 other than `broken-server.c`: no state that outlives a call, or one memory error on purpose.
- The proxy connected to a model of an echo server: `TcpAgent`'s backend is any TCP peer, which includes each of them; what `agent_chain` shows of
  the event word keeps a composition from forwarding anything on a real heap.

## What is left of the plan

Nothing of the plan is left to model, and of what the runs check only liveness is left unproved. A proof that would add something is one of the
steps behind liveness, as a lemma each: that a helpful step of the server, once enabled, stays enabled until it is taken.
