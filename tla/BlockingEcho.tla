---------------------------- MODULE BlockingEcho -----------------------------
(***************************************************************************)
(* The echo servers and clients of week 3, which use blocking calls:       *)
(* my-lab/echod-server.c, my-lab/blocking-server.c and demo/echo-server.c,  *)
(* one of them serving runs of my-lab/echod-client.c and demo/echo-client.c *)
(* one after the other on port 8080.  A step of a program is one system    *)
(* call with the code up to the next one.                                  *)
(*                                                                         *)
(* A byte is named by its position in what its client sends; 0 is a        *)
(* newline the server puts after a chunk that had none at its end.         *)
(***************************************************************************)
EXTENDS ByteStream, SequencesExt

CONSTANTS
    Clients,
    ServerPrograms, ClientPrograms,   \* the programs that may be the ones that run
    BUF_SIZE,    \* of the servers' and the clients' buffers
    SockBuf,     \* bytes the kernel queues from the server to a client
    MaxBytes     \* bound: bytes one client sends

Inserted == 0
NoOne == "no one"

ASSUME BlockingAssumption ==
    /\ NoOne \notin Clients
    /\ ServerPrograms \subseteq {"echod-server", "blocking-server", "echo-server"}
    /\ ClientPrograms \subseteq {"echod-client", "echo-client"}
    /\ BUF_SIZE \in Nat \ {0, 1} /\ SockBuf \in Nat \ {0} /\ MaxBytes \in Nat

VARIABLES
    program,      \* the server that runs
    runs,         \* the program each client runs
    server,       \* what the server's next system call is
    serving,      \* the client of client_fd
    sbuf,         \* what write_full has still to write
    keep_running,
    backlog,      \* connections accept has not returned yet, oldest first
    client,       \* what each client's next call is
    need,         \* bytes each client's read_full still waits for
    sent, nl,     \* bytes each client sent, and which of them are newlines
    recv,         \* all bytes each client has read
    up, down,     \* the two directions of each connection
    err           \* the pending error of the server's socket

connection == <<sent, nl, up>>
programs == <<program, runs>>
vars == <<programs, server, serving, sbuf, keep_running, backlog, client, need, sent, nl, recv, up, down, err>>

Stopped == server \in {"exit", "SIGPIPE"}

\* echo-server has no loop around accept.
FirstCall == IF program = "echo-server" THEN "accept" ELSE "test"

Init ==
    /\ program \in ServerPrograms /\ runs \in [Clients -> ClientPrograms]
    /\ server = FirstCall
    /\ serving = NoOne /\ sbuf = << >> /\ keep_running = TRUE
    /\ backlog = << >>
    /\ client = [c \in Clients |-> "start"] /\ need = [c \in Clients |-> 0]
    /\ sent = [c \in Clients |-> 0] /\ nl = [c \in Clients |-> {}]
    /\ recv = [c \in Clients |-> << >>]
    /\ up = [c \in Clients |-> << >>] /\ down = [c \in Clients |-> << >>]
    /\ err = [c \in Clients |-> "none"]

-------------------------------------------------------------------------------
(* The servers: main, and handle_client of echod-server. *)

LoopTest ==
    /\ server = "test"
    /\ server' = IF keep_running THEN "accept" ELSE "exit"
    /\ UNCHANGED <<programs, serving, sbuf, keep_running, backlog, client, need, recv, connection, down, err>>

Accept ==
    /\ server = "accept" /\ backlog # << >>
    /\ serving' = Head(backlog) /\ backlog' = Tail(backlog)
    /\ server' = "read"
    /\ UNCHANGED <<programs, sbuf, keep_running, client, need, recv, connection, down, err>>

\* accept fails for a reason of its own (not EINTR: signal() restarts it).
AcceptFails ==
    /\ server = "accept"
    /\ server' = IF program = "echo-server" THEN "exit" ELSE "test"
    /\ UNCHANGED <<programs, serving, sbuf, keep_running, backlog, client, need, recv, connection, down, err>>

\* What is sent back.  echo-server repeats the chunk; the others take its last
\* newline off, if there is one, and put a newline.
Echo(c, chunk) ==
    IF program = "echo-server" \/ Last(chunk) \in nl[c] THEN chunk ELSE Append(chunk, Inserted)

\* Faulty variant: the server reads until its buffer is full.
ReadsFull(n) ==
    /\ server = "read" /\ n <= Len(up[serving]) /\ n = BUF_SIZE - 1
    /\ sbuf' = Echo(serving, SubSeq(up[serving], 1, n))
    /\ up' = [up EXCEPT ![serving] = SubSeq(@, n + 1, Len(@))]
    /\ server' = "write"
    /\ UNCHANGED <<programs, serving, keep_running, backlog, client, need, sent, nl, recv, down, err>>

ServerRead(n) ==
    /\ server = "read" /\ n <= Len(up[serving])
    /\ sbuf' = Echo(serving, SubSeq(up[serving], 1, n))
    /\ up' = [up EXCEPT ![serving] = SubSeq(@, n + 1, Len(@))]
    /\ server' = "write"
    /\ UNCHANGED <<programs, serving, keep_running, backlog, client, need, sent, nl, recv, down, err>>

\* The client is done with: the next one, but for echo-server.
CloseClient ==
    /\ serving' = NoOne /\ sbuf' = << >>
    /\ server' = IF program = "echo-server" THEN "exit" ELSE "test"
    /\ UNCHANGED <<programs, keep_running, backlog, client, need, recv, connection, down, err>>

\* Faulty variant: a read that returns no data is called again.
ReadRetried ==
    /\ server = "read" /\ up[serving] = << >>
    /\ client[serving] = "closed" \/ err[serving] # "none"
    /\ UNCHANGED vars

ServerReadEnds ==
    /\ server = "read" /\ up[serving] = << >>
    /\ client[serving] = "closed" \/ err[serving] # "none"
    /\ CloseClient

\* Faulty variant: one write, whose result is not looked at.
WriteOnce(n) ==
    /\ server = "write" /\ err[serving] = "none"
    /\ n <= Len(sbuf) /\ n <= SockBuf - Len(down[serving])
    /\ down' = [down EXCEPT ![serving] = @ \o SubSeq(sbuf, 1, n)]
    /\ sbuf' = << >> /\ server' = "read"
    /\ UNCHANGED <<programs, serving, keep_running, backlog, client, need, recv, connection, err>>

\* write_full's loop, or the kernel's own while one write() blocks.
ServerWrite(n) ==
    /\ server = "write" /\ err[serving] = "none"
    /\ n < Len(sbuf) /\ n <= SockBuf - Len(down[serving])
    /\ down' = [down EXCEPT ![serving] = @ \o SubSeq(sbuf, 1, n)]
    /\ sbuf' = SubSeq(sbuf, n + 1, Len(sbuf))
    /\ UNCHANGED <<programs, server, serving, keep_running, backlog, client, need, recv, connection, err>>

\* The last of the answer: blocking-server closes, the others read again.
ServerAnswered ==
    /\ server = "write" /\ err[serving] = "none"
    /\ Len(sbuf) <= SockBuf - Len(down[serving])
    /\ down' = [down EXCEPT ![serving] = @ \o sbuf] /\ sbuf' = << >>
    /\ IF program = "blocking-server" THEN serving' = NoOne /\ server' = "test"
                                      ELSE serving' = serving /\ server' = "read"
    /\ UNCHANGED <<programs, keep_running, backlog, client, need, recv, connection, err>>

\* blocking-server makes one write: a RST that answers a part of it makes the
\* write return short, which the program does not look at.
ServerWriteFails ==
    /\ server = "write"
    /\ err[serving] = "ECONNRESET" \/ (err[serving] = "EPIPE" /\ program = "blocking-server")
    /\ CloseClient

ServerKilled ==
    /\ server = "write" /\ err[serving] = "EPIPE" /\ program # "blocking-server"
    /\ server' = "SIGPIPE"
    /\ UNCHANGED <<programs, serving, sbuf, keep_running, backlog, client, need, recv, connection, down, err>>

-------------------------------------------------------------------------------
(* The clients: main, and read_full of echod-client. *)

ClientConnects(c) ==
    /\ client[c] = "start" /\ ~Stopped
    /\ client' = [client EXCEPT ![c] = "fgets"]
    /\ backlog' = Append(backlog, c)
    /\ UNCHANGED <<programs, server, serving, sbuf, keep_running, need, recv, connection, down, err>>

\* The lengths of what a client writes for a line.  fgets cuts a line longer
\* than its buffer; echod-client then puts a newline where the zero was, so
\* that it has BUF_SIZE bytes.  echo-client sends no newline, and nothing at
\* all for an empty line.
LineLengths(c) == IF runs[c] = "echod-client" THEN 1 .. BUF_SIZE ELSE 0 .. BUF_SIZE - 1

ClientSends(c, k) ==
    /\ client[c] = "fgets" /\ k \in LineLengths(c) /\ sent[c] + k <= MaxBytes
    /\ sent' = [sent EXCEPT ![c] = @ + k]
    /\ nl' = IF runs[c] = "echod-client" THEN [nl EXCEPT ![c] = @ \cup {sent[c] + k}] ELSE nl
    /\ up' = [up EXCEPT ![c] = @ \o [i \in 1 .. k |-> sent[c] + i]]
    /\ need' = [need EXCEPT ![c] = BUF_SIZE - 1]
    /\ client' = [client EXCEPT ![c] = "read"]
    /\ UNCHANGED <<programs, server, serving, sbuf, keep_running, backlog, recv, down, err>>

\* Faulty variant: read_full asks for n bytes again instead of n - total.
ReadsWholeBuffer(c, n) ==
    /\ client[c] = "read" /\ n <= BUF_SIZE - 1 /\ n <= Len(down[c])
    /\ recv' = [recv EXCEPT ![c] = @ \o SubSeq(down[c], 1, n)]
    /\ down' = [down EXCEPT ![c] = SubSeq(@, n + 1, Len(@))]
    /\ need' = [need EXCEPT ![c] = @ - n]
    /\ client' = [client EXCEPT ![c] = IF n >= need[c] THEN "fgets" ELSE "read"]
    /\ UNCHANGED <<programs, server, serving, sbuf, keep_running, backlog, connection, err>>

\* A read in read_full, which returns with BUF_SIZE - 1 bytes, or the one read
\* of echo-client.
ClientReads(c, n) ==
    /\ client[c] = "read" /\ n <= need[c] /\ n <= Len(down[c])
    /\ recv' = [recv EXCEPT ![c] = @ \o SubSeq(down[c], 1, n)]
    /\ down' = [down EXCEPT ![c] = SubSeq(@, n + 1, Len(@))]
    /\ need' = [need EXCEPT ![c] = @ - n]
    /\ client' = [client EXCEPT ![c] = IF n = need[c] \/ runs[c] = "echo-client"
                                         THEN "fgets" ELSE "read"]
    /\ UNCHANGED <<programs, server, serving, sbuf, keep_running, backlog, connection, err>>

\* close: unread bytes turn the FIN into a RST.
ClientCloses(c) ==
    /\ client' = [client EXCEPT ![c] = "closed"]
    /\ err' = [err EXCEPT ![c] = IF down[c] # << >> THEN "ECONNRESET" ELSE @]
    /\ down' = [down EXCEPT ![c] = << >>]
    /\ UNCHANGED <<programs, server, serving, sbuf, keep_running, backlog, need, recv, connection>>

\* "quit" or the end of the input.
ClientQuits(c) == client[c] = "fgets" /\ ClientCloses(c)

\* The server closed the connection, or ended.
ServerLeft(c) == \/ Stopped
                 \/ client[c] # "start" /\ serving # c /\ c \notin Range(backlog)

\* read returns 0, or fails where the server closed with bytes unread: the
\* client ends, unless read_full still has something to return.
ClientReadEnds(c) ==
    /\ client[c] = "read" /\ ServerLeft(c) /\ down[c] = << >>
    /\ IF runs[c] = "echod-client" /\ need[c] < BUF_SIZE - 1 /\ up[c] = << >>
       THEN /\ client' = [client EXCEPT ![c] = "fgets"]
            /\ UNCHANGED <<programs, server, serving, sbuf, keep_running, backlog, need, recv, connection, down, err>>
       ELSE ClientCloses(c)

\* Bytes the server left unread come back as a RST: a line written after it
\* fails, or ends the client by SIGPIPE.
ClientWriteFails(c) ==
    client[c] = "fgets" /\ ServerLeft(c) /\ up[c] # << >> /\ ClientCloses(c)

\* Bytes that reach a closed client are answered with a RST.
ResetAnswered(c) ==
    /\ client[c] = "closed" /\ down[c] # << >> /\ ~Stopped
    /\ err' = [err EXCEPT ![c] = IF @ = "none" THEN "EPIPE" ELSE @]
    /\ down' = [down EXCEPT ![c] = << >>]
    /\ UNCHANGED <<programs, server, serving, sbuf, keep_running, backlog, client, need, recv, connection>>

\* signal() asks for restarted calls: SIGINT only sets the flag.  echo-server
\* has no handler and ends.
Sigint ==
    /\ ~Stopped /\ keep_running
    /\ IF program = "echo-server" THEN server' = "exit" /\ UNCHANGED keep_running
                                  ELSE UNCHANGED server /\ keep_running' = FALSE
    /\ UNCHANGED <<programs, serving, sbuf, backlog, client, need, recv, connection, down, err>>

-------------------------------------------------------------------------------
ServerCalls ==
    \/ LoopTest \/ Accept \/ ServerReadEnds \/ ServerAnswered \/ ServerWriteFails \/ ServerKilled
    \/ \E n \in 1 .. BUF_SIZE - 1 : ServerRead(n)
    \/ \E n \in 1 .. BUF_SIZE : ServerWrite(n)

ClientReturns(c) == ClientReadEnds(c) \/ \E n \in 1 .. BUF_SIZE : ClientReads(c, n)

Next ==
    \/ ServerCalls \/ AcceptFails \/ Sigint
    \/ \E c \in Clients : \/ ClientConnects(c) \/ ClientQuits(c) \/ ClientWriteFails(c) \/ ResetAnswered(c)
                          \/ ClientReturns(c)
                          \/ \E k \in 0 .. BUF_SIZE : ClientSends(c, k)

Spec == Init /\ [][Next]_vars

\* Calls that can return do, accept does not fail for ever while a connection
\* waits, and the kernel answers; users need not type.
Fairness == /\ WF_vars(ServerCalls) /\ SF_vars(Accept)
            /\ \A c \in Clients : WF_vars(ClientReturns(c)) /\ WF_vars(ResetAnswered(c))
FairSpec == Spec /\ Fairness

-------------------------------------------------------------------------------
(* Properties. *)

Bytes == 0 .. MaxBytes

TypeOK ==
    /\ program \in ServerPrograms /\ runs \in [Clients -> ClientPrograms]
    /\ server \in {"test", "accept", "read", "write", "exit", "SIGPIPE"}
    /\ serving \in Clients \cup {NoOne}
    /\ server \in {"read", "write", "SIGPIPE"} => serving # NoOne
    /\ server \in {"test", "accept"} => serving = NoOne
    /\ sbuf \in Seq(Bytes) /\ Len(sbuf) <= BUF_SIZE /\ (server = "write" => sbuf # << >>)
    /\ keep_running \in BOOLEAN
    /\ backlog \in Seq(Clients)
    /\ client \in [Clients -> {"start", "fgets", "read", "closed"}]
    /\ need \in [Clients -> 0 .. BUF_SIZE - 1]
    /\ sent \in [Clients -> Bytes] /\ nl \in [Clients -> SUBSET (1 .. MaxBytes)]
    /\ \A c \in Clients : /\ recv[c] \in Seq(Bytes) /\ up[c] \in Seq(Bytes)
                          /\ down[c] \in Seq(Bytes) /\ Len(down[c]) <= SockBuf
    /\ err \in [Clients -> {"none", "ECONNRESET", "EPIPE"}]

Held(c) == IF serving = c THEN sbuf ELSE << >>
Path(c) == recv[c] \o down[c] \o Held(c) \o up[c]

\* What a client has read, what is on its way back, what the server holds of
\* it and what the server has not read yet are together what it sent, whatever
\* newlines the server inserted: write_full and read_full lose, repeat and
\* reorder nothing, and nothing of one client reaches another.
NothingLostOnTheWay ==
    \A c \in Clients : client[c] # "closed" => InOrder(Path(c)) /\ Own(Path(c)) = 1 .. sent[c]

\* The client being served has closed, and the server has no second write to
\* make for it: a write is answered with a RST, which ends the next one by
\* SIGPIPE and the server with it.  blocking-server never writes twice; and bytes
\* the client left unread have reset the connection already: then a write fails
\* with ECONNRESET only.
LeftHarmlessly ==
    /\ client[serving] = "closed"
    /\ \/ err[serving] = "ECONNRESET" \/ program = "blocking-server"
       \/ up[serving] = << >> /\ server = "read"
       \/ up[serving] = << >> /\ server = "write" /\ err[serving] = "none"
          /\ down[serving] = << >> /\ Len(sbuf) = 1

\* A client that closes, at any moment of the server's work for it short of a
\* second write, does not hold the server: handle_client returns and the oldest
\* connection that waits has its turn, unless the server ends by itself.
ServerMovesOn ==
    \A d \in Clients :
        (/\ backlog # << >> /\ d = Head(backlog)
         /\ serving # NoOne => LeftHarmlessly)
          ~> (serving = d \/ server = "exit")

\* echo-client and its server never wait for each other, unless the line was
\* empty and nothing was sent: whatever part of an answer its one read gets, it
\* goes on to the next line.
AnsweredUnlessEmpty ==
    \A c \in Clients :
        (/\ runs[c] = "echo-client" /\ client[c] = "read" /\ serving = c
         /\ up[c] # << >> \/ server = "write" \/ down[c] # << >>)
          ~> (client[c] # "read" \/ server = "SIGPIPE")

\* The client's comment: read_full reads one line.  So once the server has
\* accepted it, a client that sent less than read_full asks for gets an answer.
ClientGetsAnswer ==
    \A c \in Clients :
        (client[c] = "read" /\ serving = c /\ sent[c] < BUF_SIZE - 1) ~> client[c] # "read"

\* The server's comment: Ctrl+C ends it.
SigintStopsServer == ~keep_running ~> Stopped
==============================================================================
