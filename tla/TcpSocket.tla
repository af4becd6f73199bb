------------------------------ MODULE TcpSocket ------------------------------
(***************************************************************************)
(* One accepted TCP socket as the servers of this repository see it: the   *)
(* kernel's two queues and the peer behind them.  The kernel and the peer  *)
(* are outside the repository; the module says what the system calls of    *)
(* the servers (read, write, epoll_wait on non-blocking sockets) return.   *)
(*                                                                         *)
(* A byte is named by its position in the stream the peer sends, so that   *)
(* order, loss and duplication are visible and contents are not.           *)
(***************************************************************************)
EXTENDS Integers, Sequences

CONSTANTS
    SndBuf,     \* bytes the kernel queues for a peer that does not read
    MaxBytes    \* bound: bytes one peer sends on one connection

ASSUME SocketAssumption == SndBuf \in Nat \ {0} /\ MaxBytes \in Nat

(***************************************************************************)
(* sent    bytes the peer sent (they are in the receive queue or were read)*)
(* nl      the positions of the newlines among them                        *)
(* nread   bytes the server has read                                       *)
(* fin     the peer shut its direction down: read returns 0 after the data *)
(* err     the pending socket error left by a RST: ECONNRESET, or EPIPE    *)
(*         when the RST came after the peer's FIN                          *)
(* out     what the server wrote, each byte named by its position          *)
(* queued  how many bytes of out the peer has not taken yet                *)
(***************************************************************************)
Socket == [sent: 0 .. MaxBytes, nl: SUBSET (1 .. MaxBytes), nread: 0 .. MaxBytes,
           fin: BOOLEAN, err: {"none", "ECONNRESET", "EPIPE"},
           out: Seq(1 .. MaxBytes), queued: 0 .. SndBuf]

NewSocket == [sent |-> 0, nl |-> {}, nread |-> 0, fin |-> FALSE, err |-> "none",
              out |-> << >>, queued |-> 0]

Unread(s) == s.sent - s.nread
Room(s) == SndBuf - s.queued

\* What a level-triggered epoll_wait reports for a socket registered with a
\* set of events: a pending error is reported whatever the set is.
Readable(s) == Unread(s) > 0 \/ s.fin \/ s.err # "none"
Writable(s) == Room(s) > 0 \/ s.err # "none"
Polled(s, events) == \/ s.err # "none"
                     \/ "IN" \in events /\ Readable(s)
                     \/ "OUT" \in events /\ Writable(s)

\* The results read() and write() can have.  Data queued before a RST is still
\* readable; a write sees the error first, and EPIPE comes with a SIGPIPE.
CanRead(s, n) == n \in 1 .. Unread(s)
ReadAgain(s) == ~Readable(s)
ReadEnds(s) == Unread(s) = 0 /\ Readable(s)
CanWrite(s, n) == s.err = "none" /\ n \in 1 .. Room(s)
WriteAgain(s) == ~Writable(s)
WriteFails(s) == s.err = "ECONNRESET"
WriteKills(s) == s.err = "EPIPE"

AfterRead(s, n) == [s EXCEPT !.nread = @ + n]
AfterWrite(s, bytes) == [s EXCEPT !.out = @ \o bytes, !.queued = @ + Len(bytes)]

\* What the peer can do.
CanSend(s) == ~s.fin /\ s.err = "none" /\ s.sent < MaxBytes
AfterSend(s, newline) == [s EXCEPT !.sent = @ + 1,
                                   !.nl = IF newline THEN @ \cup {s.sent + 1} ELSE @]
CanFin(s) == ~s.fin /\ s.err = "none"
AfterFin(s) == [s EXCEPT !.fin = TRUE]
CanReset(s) == s.err = "none"
AfterReset(s) == [s EXCEPT !.err = IF s.fin THEN "EPIPE" ELSE "ECONNRESET", !.queued = 0]
CanTake(s) == s.queued > 0
AfterTake(s) == [s EXCEPT !.queued = @ - 1]
==============================================================================
