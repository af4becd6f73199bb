----------------------------- MODULE EchoService ------------------------------
(***************************************************************************)
(* What the stateful echo server promises a peer, without its buffers,     *)
(* states and events: the peer's stream is cut into messages, each ending  *)
(* after a newline or at the size of a buffer; a message is decided on     *)
(* when the one before it was echoed, and echoed in pieces; a connection   *)
(* that the peer shut down is closed when no complete line is left.        *)
(*                                                                         *)
(* A connection is one entry of the function link; a byte is named by its  *)
(* position in its peer's stream.                                          *)
(***************************************************************************)
EXTENDS Integers, Sequences

CONSTANTS
    Conns,
    BUF_SIZE,    \* a message has at most BUF_SIZE - 1 bytes
    MaxBytes     \* bound: bytes one peer sends

VARIABLES
    running,     \* the server has not ended
    link         \* the connections

vars == <<running, link>>

(***************************************************************************)
(* sent, nl    what the peer sent, and which of it are newlines            *)
(* due         the end of the last message decided on                      *)
(* echo        what the server sent back                                   *)
(* ended       whether the peer shut down or reset the connection          *)
(***************************************************************************)
New == [connected |-> TRUE, sent |-> 0, nl |-> {}, due |-> 0, echo |-> << >>, ended |-> "no"]
Idle == [New EXCEPT !.connected = FALSE]

Echoed(k) == Len(k.echo)

Init == running = TRUE /\ link = [f \in Conns |-> Idle]

Become(f, k) == running /\ link' = [link EXCEPT ![f] = k] /\ UNCHANGED running

Connect(f) == ~link[f].connected /\ Become(f, New)

Send(f, newline) ==
    /\ link[f].connected /\ link[f].ended = "no" /\ link[f].sent < MaxBytes
    /\ Become(f, [link[f] EXCEPT !.sent = @ + 1,
                                 !.nl = IF newline THEN @ \cup {link[f].sent + 1} ELSE @])

End(f, how) ==
    /\ link[f].connected /\ link[f].ended \notin {how, "reset"}
    /\ Become(f, [link[f] EXCEPT !.ended = how])

\* The bytes after due, up to and with last, can be one message.
Message(k, last) ==
    \/ last - k.due = BUF_SIZE - 1
    \/ last - k.due < BUF_SIZE - 1 /\ \E l \in k.nl : k.due < l /\ l <= last

Decide(f) ==
    /\ Echoed(link[f]) = link[f].due
    /\ \E last \in link[f].due + 1 .. link[f].sent :
         Message(link[f], last) /\ Become(f, [link[f] EXCEPT !.due = last])

Echo(f) ==
    /\ link[f].ended # "reset"
    /\ \E n \in Echoed(link[f]) + 1 .. link[f].due :
         Become(f, [link[f] EXCEPT !.echo = [i \in 1 .. n |-> i]])

\* Not before the peer is done, and then with nothing half sent and every
\* complete line sent back, unless the connection failed.
Close(f) ==
    /\ link[f].connected /\ link[f].ended # "no"
    /\ link[f].ended = "reset" \/ /\ Echoed(link[f]) = link[f].due
                                  /\ \A l \in link[f].nl : l <= link[f].due
    /\ Become(f, Idle)

Answer(f) == Decide(f) \/ Echo(f)

Stop == running /\ running' = FALSE /\ UNCHANGED link

Next ==
    \/ Stop
    \/ \E f \in Conns : \/ Connect(f) \/ Answer(f) \/ Close(f)
                        \/ \E newline \in BOOLEAN : Send(f, newline)
                        \/ \E how \in {"fin", "reset"} : End(f, how)

Safety == Init /\ [][Next]_vars

\* What can be answered is, and a connection whose peer is gone is closed.
Spec == Safety /\ \A f \in Conns : WF_vars(Answer(f)) /\ WF_vars(Close(f))
==============================================================================
