-------------------------- MODULE EpollServiceProofs --------------------------
(***************************************************************************)
(* What EpollStateful does for its peers, for every value of the           *)
(* constants: no wakeup is missed, answers are whole messages, no complete *)
(* line is left behind by a close, and the server implements EchoService.  *)
(***************************************************************************)
EXTENDS EpollStatefulProofs

(***************************************************************************)
(* The third part of the inductive invariant: what the state of a          *)
(* connection says of its buffers, its registration and its socket, and    *)
(* what is different while the server is in the middle of handling it.     *)
(***************************************************************************)
Place(p) == IF Handling /\ p = cur THEN pc ELSE "asleep"

Line(k, t) == \E i \in Index : i < k.recv_len /\ k.recv_buf[i] \in t.nl

Waiting(k, t, events, place) ==
    /\ k.send_len = 0 /\ events = {"IN"} /\ ~Line(k, t)
    /\ k.recv_len < BUF_SIZE - 1 \/ place = "do_read"

Sending(k, t, events, place) ==
    /\ k.send_len > 0 /\ events = {"IN", "OUT"}
    /\ Line(k, t) \/ k.recv_len = BUF_SIZE - 1
    /\ k.send_done < k.send_len \/ place = "do_write"

Ended(k, t) ==
    \/ t.err # "none"
    \/ t.fin /\ t.nread = t.sent /\ k.send_len = 0 /\ ~Line(k, t)

Mode(k, t, events, place) ==
    /\ place = "do_read" => k.state = "READ"
    /\ place = "do_write" => k.state = "WRITE"
    /\ place = "cleanup" <=> k.state = "CLOSE"
    /\ k.state = "READ" => Waiting(k, t, events, place)
    /\ k.state = "WRITE" => Sending(k, t, events, place)
    /\ k.state = "CLOSE" => Ended(k, t)
    /\ t.nread <= t.sent /\ t.nl \subseteq 1 .. t.sent

ModeInv == \A p \in heap : Mode(conn[p], sock[conn[p].fd], interest[conn[p].fd], Place(p))

IInv == Structure /\ DataInv /\ ModeInv

LEMMA NoIndexBelowZero == \A i \in Index : i \in Nat
  BY ServerAssumption DEF Index

LEMMA ModeOfNew ==
  ASSUME NEW f
  PROVE  Mode([Zeroed EXCEPT !.fd = f, !.state = "READ"], NewSocket, {"IN"}, "asleep")
  <1> DEFINE k == [Zeroed EXCEPT !.fd = f, !.state = "READ"]
  <1>1. k.state = "READ" /\ k.send_len = 0 /\ k.recv_len = 0
    BY DEF Zeroed
  <1>2. NewSocket.nread = 0 /\ NewSocket.sent = 0 /\ NewSocket.nl = {}
    BY DEF NewSocket
  <1> HIDE DEF k
  <1>3. Waiting(k, NewSocket, {"IN"}, "asleep")
    BY <1>1, <1>2, ServerAssumption DEF Waiting, Line
  <1> QED BY <1>1, <1>2, <1>3 DEF Mode, k

\* What a peer may do to a socket does not disturb the connection's mode.
LEMMA ModeOfPeer ==
  ASSUME NEW k \in Conn, NEW t \in LooseSocket, Data(k, t),
         NEW events, NEW place, Mode(k, t, events, place),
         NEW u,
         \/ CanSend(t) /\ \E newline \in BOOLEAN : u = AfterSend(t, newline)
         \/ CanFin(t) /\ u = AfterFin(t)
         \/ CanReset(t) /\ u = AfterReset(t)
         \/ CanTake(t) /\ u = AfterTake(t)
  PROVE  Mode(k, u, events, place)
  <1>1. /\ t.sent \in Nat /\ t.nread \in Nat /\ t.nread <= t.sent /\ t.nl \subseteq 1 .. t.sent
        /\ k.recv_len \in Nat
    BY SocketAssumption DEF LooseSocket, Mode, Conn
  <1>2. /\ u.nread = t.nread
        /\ t.err # "none" => u.err # "none"
        /\ t.fin => u.fin /\ u.sent = t.sent
        /\ \/ u.sent = t.sent /\ u.nl = t.nl
           \/ u.sent = t.sent + 1 /\ u.nl \in {t.nl, t.nl \cup {t.sent + 1}}
    BY DEF LooseSocket, AfterSend, AfterFin, AfterReset, AfterTake, CanSend, CanReset, CanFin
  <1>3. u.nread <= u.sent /\ u.nl \subseteq 1 .. u.sent
    BY <1>1, <1>2
  <1>4. Line(k, u) <=> Line(k, t)
    <2>1. ASSUME NEW i \in Index, i < k.recv_len
          PROVE  k.recv_buf[i] \in Nat /\ k.recv_buf[i] <= t.sent
      <3>1. k.recv_buf[i] = t.nread - k.recv_len + i + 1 /\ i \in Nat
        BY <2>1, NoIndexBelowZero DEF Data
      <3>2. k.recv_buf[i] \in Nat
        BY DEF Conn, Buffer
      <3> QED BY <1>1, <2>1, <3>1, <3>2
    <2>2. ASSUME NEW i \in Index, i < k.recv_len
          PROVE  k.recv_buf[i] \in u.nl <=> k.recv_buf[i] \in t.nl
      <3> DEFINE b == k.recv_buf[i]
      <3>1. b \in Nat /\ b <= t.sent /\ b # t.sent + 1
        BY <1>1, <2>1, <2>2
      <3> HIDE DEF b
      <3> QED BY <1>2, <3>1 DEF b
    <2> QED BY <2>2 DEF Line
  <1>5. k.state = "READ" => Waiting(k, u, events, place)
    BY <1>4 DEF Mode, Waiting
  <1>6. k.state = "WRITE" => Sending(k, u, events, place)
    BY <1>4 DEF Mode, Sending
  <1>7. k.state = "CLOSE" => Ended(k, u)
    BY <1>2, <1>4 DEF Mode, Ended
  <1> QED BY <1>3, <1>5, <1>6, <1>7 DEF Mode

\* One connection q changes, with its socket and registration; the others are
\* not being handled, before or after.
LEMMA ModeOfOne ==
  ASSUME Structure, ModeInv, NEW q \in heap, heap' = heap,
         NEW k, conn' = [conn EXCEPT ![q] = k], k.fd = conn[q].fd,
         NEW t, sock' = [sock EXCEPT ![conn[q].fd] = t],
         NEW events, interest' = [interest EXCEPT ![conn[q].fd] = events],
         Mode(k, t, events, Place(q)'),
         \A p \in heap \ {q} : Place(p)' = Place(p)
  PROVE  ModeInv'
  <1>1. /\ conn \in [Ptrs -> Conn] /\ q \in Ptrs /\ heap \subseteq Ptrs /\ conn[q].fd \in Fds
        /\ sock \in [Fds -> LooseSocket] /\ interest \in [Fds -> SUBSET {"IN", "OUT"}]
        /\ \A p \in heap : conn[p].fd \in Fds
    BY DEF Structure, Typing, Owners
  <1>2. conn'[q] = k /\ sock'[k.fd] = t /\ interest'[k.fd] = events
    BY <1>1
  <1>3. ASSUME NEW p \in heap, p # q
        PROVE  Mode(conn'[p], sock'[conn'[p].fd], interest'[conn'[p].fd], Place(p)')
    <2>1. conn[p].fd # conn[q].fd
      BY <1>3 DEF Structure, Owners
    <2>2. conn'[p] = conn[p] /\ sock'[conn[p].fd] = sock[conn[p].fd]
                             /\ interest'[conn[p].fd] = interest[conn[p].fd]
      BY <1>1, <1>3, <2>1
    <2> QED BY <1>3, <2>2 DEF ModeInv
  <1> QED BY <1>2, <1>3 DEF ModeInv

\* A step that leaves connections alone and is not in the middle of one.
LEMMA ModeControl ==
  ASSUME ModeInv, UNCHANGED <<heap, conn, sock, interest>>,
         \A p \in heap : Place(p)' = Place(p)
  PROVE  ModeInv'
  BY DEF ModeInv

LEMMA ModeInit == Init => ModeInv
  BY DEF Init, ModeInv

LEMMA ModeOfStart ==
  ASSUME NEW k \in Conn, NEW t, k.send_len = 0, Line(k, t) \/ k.recv_len = BUF_SIZE - 1,
         t.nread <= t.sent, t.nl \subseteq 1 .. t.sent
  PROVE  Mode(PrepareSend([k EXCEPT !.state = "WRITE"]), t, {"IN", "OUT"}, "do_write")
  <1> DEFINE kw == [k EXCEPT !.state = "WRITE"]
             kp == PrepareSend(kw)
  <1>1. /\ kw \in Conn /\ kw.state = "WRITE" /\ kw.send_len = 0
        /\ kw.recv_len = k.recv_len /\ kw.recv_buf = k.recv_buf
    BY DEF Conn
  <1> HIDE DEF kw
  <1>2. /\ kp.state = "WRITE" /\ kp.send_len = k.recv_len
        /\ kp.recv_len = k.recv_len /\ kp.recv_buf = k.recv_buf
    BY <1>1 DEF PrepareSend, Conn
  <1> HIDE DEF kp
  <1>3. k.recv_len > 0
    BY NoIndexBelowZero, ServerAssumption DEF Line, Conn
  <1>4. Sending(kp, t, {"IN", "OUT"}, "do_write")
    BY <1>2, <1>3 DEF Sending, Line
  <1>5. Mode(kp, t, {"IN", "OUT"}, "do_write")
    BY <1>2, <1>4 DEF Mode
  <1> QED BY <1>5 DEF kp, kw

\* What is known of the connection being handled.
LEMMA ModeCurrent ==
  ASSUME Structure, DataInv, ModeInv, Handling
  PROVE  /\ cur \in Ptrs /\ cur \in heap /\ c \in Conn /\ c = conn[cur] /\ c.fd \in Fds
         /\ sock \in [Fds -> LooseSocket] /\ sock[c.fd] \in LooseSocket
         /\ socket = sock[c.fd]
         /\ sock = [sock EXCEPT ![c.fd] = sock[c.fd]]
         /\ interest \in [Fds -> SUBSET {"IN", "OUT"}]
         /\ interest = [interest EXCEPT ![c.fd] = interest[c.fd]]
         /\ conn = [conn EXCEPT ![cur] = c]
         /\ Data(c, sock[c.fd])
         /\ Mode(c, sock[c.fd], interest[c.fd], pc)
  <1>1. cur \in Ptrs /\ cur \in heap /\ c \in Conn /\ c = conn[cur] /\ c.fd \in Fds
    BY Current DEF c
  <1>2. /\ sock \in [Fds -> LooseSocket] /\ conn \in [Ptrs -> Conn]
        /\ interest \in [Fds -> SUBSET {"IN", "OUT"}]
    BY DEF Structure, Typing
  <1>3. Place(cur) = pc
    BY DEF Place
  <1> QED BY <1>1, <1>2, <1>3 DEF DataInv, ModeInv, socket

\* ModeOfOne for a step on the connection being handled.
LEMMA ModeOfCurrent ==
  ASSUME Structure, DataInv, ModeInv, Handling, cur' = cur, heap' = heap,
         NEW k, conn' = [conn EXCEPT ![cur] = k], k.fd = c.fd,
         NEW t, sock' = [sock EXCEPT ![c.fd] = t],
         NEW events, interest' = [interest EXCEPT ![c.fd] = events],
         Mode(k, t, events, IF Handling' THEN pc' ELSE "asleep")
  PROVE  ModeInv'
  <1>1. PICK q \in heap : q = cur
    BY ModeCurrent
  <1>2. conn[q].fd = c.fd
    BY <1>1 DEF c
  <1>3. \A p \in heap \ {q} : Place(p)' = Place(p)
    BY <1>1 DEF Place
  <1>4. Mode(k, t, events, Place(q)')
    BY <1>1 DEF Place
  <1> QED BY <1>1, <1>2, <1>3, <1>4, ModeOfOne

LEMMA StartWriteMode ==
  ASSUME Structure, DataInv, ModeInv, Handling, cur' = cur, heap' = heap,
         NEW k \in Conn, k.fd = c.fd, StartWrite(k), k.send_len = 0,
         NEW t, sock' = [sock EXCEPT ![c.fd] = t],
         Line(k, t) \/ k.recv_len = BUF_SIZE - 1,
         t.nread <= t.sent, t.nl \subseteq 1 .. t.sent
  PROVE  ModeInv'
  <1> DEFINE kp == PrepareSend([k EXCEPT !.state = "WRITE"])
  <1>1. /\ pc' = "do_write" /\ conn' = [conn EXCEPT ![cur] = kp]
        /\ interest' = [interest EXCEPT ![c.fd] = {"IN", "OUT"}]
    BY DEF StartWrite, EventsFor
  <1>2. kp.fd = c.fd
    BY PrepareSendType DEF Conn
  <1>3. Mode(kp, t, {"IN", "OUT"}, "do_write")
    BY ModeOfStart
  <1> HIDE DEF kp
  <1>4. Handling'
    BY <1>1 DEF Handling
  <1> QED BY <1>1, <1>2, <1>3, <1>4, ModeOfCurrent

LEMMA ModeDoRead == Structure /\ DataInv /\ ModeInv /\ DoRead => ModeInv'
  <1> SUFFICES ASSUME Structure, DataInv, ModeInv, DoRead PROVE ModeInv'
    OBVIOUS
  <1>0. Handling /\ pc = "do_read"
    BY DEF DoRead, ReadFull, ReadData, ReadWouldBlock, ReadEnd, Handling
  <1> DEFINE t == sock[c.fd]
  <1>1. /\ cur \in heap /\ c \in Conn /\ c.fd \in Fds /\ t \in LooseSocket /\ socket = t
        /\ sock = [sock EXCEPT ![c.fd] = t]
        /\ interest = [interest EXCEPT ![c.fd] = interest[c.fd]]
        /\ conn = [conn EXCEPT ![cur] = c]
        /\ Data(c, t) /\ Mode(c, t, interest[c.fd], "do_read")
    BY <1>0, ModeCurrent
  <1> HIDE DEF t
  <1>2. /\ c.state = "READ" /\ c.send_len = 0 /\ interest[c.fd] = {"IN"} /\ ~Line(c, t)
        /\ t.nread <= t.sent /\ t.nl \subseteq 1 .. t.sent
    BY <1>1 DEF Mode, Waiting
  <1>3. CASE ReadFull
    <2>1. StartWrite(c) /\ UNCHANGED <<cur, heap, sock>> /\ c.recv_len >= BUF_SIZE - 1
      BY <1>3 DEF ReadFull, world
    <2>2. c.recv_len = BUF_SIZE - 1
      BY <1>1, <2>1, ServerAssumption DEF Data, Conn
    <2> QED BY <1>0, <1>1, <1>2, <2>1, <2>2, StartWriteMode
  <1>4. ASSUME NEW n \in 1 .. BUF_SIZE, ReadData(n) PROVE ModeInv'
    <2> DEFINE k == Received(c, n)
               u == AfterRead(t, n)
    <2>1. /\ sock' = [sock EXCEPT ![c.fd] = u] /\ UNCHANGED <<cur, heap>>
          /\ CanRead(t, n) /\ n \in Nat
      BY <1>1, <1>4 DEF ReadData, t
    <2>2. k \in Conn /\ k.fd = c.fd
      BY <1>1, <2>1, ReceivedType DEF t
    <2>3. k.send_len = 0 /\ k.state = "READ"
      BY <1>2 DEF Received
    <2>4. u.nl = t.nl /\ u.sent = t.sent /\ u.nread <= u.sent
      BY <1>1, <2>1, SocketAssumption DEF AfterRead, LooseSocket, CanRead, Unread
    <2>5. HasNewline(k) <=> Line(k, u)
      BY <2>2, <2>4 DEF HasNewline, Line, t
    <2>6. CASE HasNewline(k)
      <3>1. StartWrite(k)
        BY <1>4, <2>6 DEF ReadData
      <3> HIDE DEF k, u
      <3> QED BY <1>0, <1>2, <2>1, <2>2, <2>3, <2>4, <2>5, <2>6, <3>1, StartWriteMode
    <2>7. CASE ~HasNewline(k)
      <3>1. conn' = [conn EXCEPT ![cur] = k] /\ UNCHANGED <<pc, interest>>
        BY <1>4, <2>7 DEF ReadData
      <3> HIDE DEF k, u
      <3>2. Waiting(k, u, {"IN"}, "do_read")
        BY <2>3, <2>5, <2>7 DEF Waiting
      <3>3. Mode(k, u, {"IN"}, "do_read")
        BY <1>2, <2>3, <2>4, <3>2 DEF Mode
      <3>4. Handling'
        BY <1>0, <3>1 DEF Handling
      <3> QED BY <1>0, <1>1, <1>2, <2>1, <2>2, <3>1, <3>3, <3>4, ModeOfCurrent
    <2> QED BY <2>6, <2>7
  <1>5. CASE ReadWouldBlock
    <2>1. /\ UNCHANGED <<cur, heap, conn, sock, interest>> /\ pc' = "dispatch"
          /\ c.recv_len < BUF_SIZE - 1
      BY <1>5 DEF ReadWouldBlock, memory, epoll, world
    <2>2. Mode(c, t, {"IN"}, "asleep")
      BY <1>2, <2>1 DEF Mode, Waiting
    <2>3. ~Handling'
      BY <2>1 DEF Handling
    <2> QED BY <1>0, <1>1, <1>2, <2>1, <2>2, <2>3, ModeOfCurrent
  <1>6. CASE ReadEnd
    <2> DEFINE k == [c EXCEPT !.state = "CLOSE"]
    <2>1. /\ conn' = [conn EXCEPT ![cur] = k] /\ UNCHANGED <<cur, heap, sock, interest>>
          /\ pc' = "cleanup" /\ ReadEnds(t)
      BY <1>1, <1>6 DEF ReadEnd, world, epoll
    <2>2. /\ k.fd = c.fd /\ k.state = "CLOSE" /\ k.send_len = c.send_len
          /\ k.recv_len = c.recv_len /\ k.recv_buf = c.recv_buf
      BY <1>1 DEF Conn
    <2> HIDE DEF k
    <2>3. t.err # "none" \/ (t.fin /\ t.nread = t.sent)
      BY <1>1, <2>1, SocketAssumption DEF ReadEnds, Readable, Unread, LooseSocket
    <2>4. Ended(k, t)
      BY <1>2, <2>2, <2>3 DEF Ended, Line
    <2>5. Mode(k, t, {"IN"}, "cleanup")
      BY <1>2, <2>2, <2>4 DEF Mode
    <2>6. Handling'
      BY <2>1 DEF Handling
    <2> QED BY <1>0, <1>1, <1>2, <2>1, <2>2, <2>5, <2>6, ModeOfCurrent
  <1> QED BY <1>3, <1>4, <1>5, <1>6 DEF DoRead

LEMMA ModeDoWrite == Structure /\ DataInv /\ ModeInv /\ DoWrite => ModeInv'
  <1> SUFFICES ASSUME Structure, DataInv, ModeInv, DoWrite PROVE ModeInv'
    OBVIOUS
  <1>0. Handling /\ pc = "do_write"
    BY DEF DoWrite, WriteWouldBlock, WriteError, WriteKilled, WriteDone, WriteData, Handling
  <1> DEFINE t == sock[c.fd]
  <1>1. /\ cur \in heap /\ c \in Conn /\ c.fd \in Fds /\ t \in LooseSocket /\ socket = t
        /\ sock = [sock EXCEPT ![c.fd] = t]
        /\ interest = [interest EXCEPT ![c.fd] = interest[c.fd]]
        /\ conn = [conn EXCEPT ![cur] = c]
        /\ Data(c, t) /\ Mode(c, t, interest[c.fd], "do_write")
    BY <1>0, ModeCurrent
  <1> HIDE DEF t
  <1>2. /\ c.state = "WRITE" /\ c.send_len > 0 /\ interest[c.fd] = {"IN", "OUT"}
        /\ Line(c, t) \/ c.recv_len = BUF_SIZE - 1
        /\ t.nread <= t.sent /\ t.nl \subseteq 1 .. t.sent
    BY <1>1 DEF Mode, Sending
  <1>3. CASE WriteWouldBlock \/ WriteKilled
    <2>1. /\ UNCHANGED <<cur, heap, conn, sock>> /\ pc' \notin {"do_read", "do_write", "cleanup"}
          /\ c.send_done < c.send_len
          /\ interest' = [interest EXCEPT ![c.fd] = {"IN", "OUT"}]
      BY <1>1, <1>2, <1>3
         DEF WriteWouldBlock, WriteKilled, memory, epoll, world, EventsFor
    <2>2. Mode(c, t, {"IN", "OUT"}, "asleep")
      BY <1>2, <2>1 DEF Mode, Sending
    <2>3. ~Handling'
      BY <2>1 DEF Handling
    <2> QED BY <1>0, <1>1, <2>1, <2>2, <2>3, ModeOfCurrent
  <1>4. CASE WriteError
    <2> DEFINE k == [c EXCEPT !.state = "CLOSE"]
    <2>1. /\ conn' = [conn EXCEPT ![cur] = k] /\ UNCHANGED <<cur, heap, sock>>
          /\ interest' = [interest EXCEPT ![c.fd] = {}]
          /\ pc' = "cleanup" /\ t.err # "none"
      BY <1>1, <1>4 DEF WriteError, world, EventsFor, WriteFails
    <2>2. k.fd = c.fd /\ k.state = "CLOSE"
      BY <1>1 DEF Conn
    <2> HIDE DEF k
    <2>3. Mode(k, t, {}, "cleanup")
      BY <1>2, <2>1, <2>2 DEF Mode, Ended
    <2>4. Handling'
      BY <2>1 DEF Handling
    <2> QED BY <1>0, <1>1, <2>1, <2>2, <2>3, <2>4, ModeOfCurrent
  <1>5. CASE WriteDone
    <2> DEFINE k == [c EXCEPT !.recv_len = 0, !.send_len = 0, !.send_done = 0, !.state = "READ"]
    <2>1. /\ conn' = [conn EXCEPT ![cur] = k] /\ UNCHANGED <<cur, heap, sock>>
          /\ interest' = [interest EXCEPT ![c.fd] = {"IN"}] /\ pc' = "dispatch"
      BY <1>1, <1>5 DEF WriteDone, world, EventsFor
    <2>2. k.fd = c.fd /\ k.state = "READ" /\ k.send_len = 0 /\ k.recv_len = 0
      BY <1>1 DEF Conn
    <2> HIDE DEF k
    <2>3. Waiting(k, t, {"IN"}, "asleep")
      BY <2>2, NoIndexBelowZero, ServerAssumption DEF Waiting, Line
    <2>4. Mode(k, t, {"IN"}, "asleep")
      BY <1>2, <2>2, <2>3 DEF Mode
    <2>5. ~Handling'
      BY <2>1 DEF Handling
    <2> QED BY <1>0, <1>1, <2>1, <2>2, <2>4, <2>5, ModeOfCurrent
  <1>6. ASSUME NEW n \in 1 .. BUF_SIZE, WriteData(n) PROVE ModeInv'
    <2> DEFINE bytes == [i \in 1 .. n |-> c.send_buf[c.send_done + i - 1]]
               k == [c EXCEPT !.send_done = @ + n]
               u == AfterWrite(t, bytes)
    <2>1. /\ sock' = [sock EXCEPT ![c.fd] = u] /\ conn' = [conn EXCEPT ![cur] = k]
          /\ UNCHANGED <<pc, cur, heap, interest>>
      BY <1>1, <1>6 DEF WriteData, epoll, t
    <2>2. /\ k.fd = c.fd /\ k.state = "WRITE" /\ k.send_len = c.send_len
          /\ k.recv_len = c.recv_len /\ k.recv_buf = c.recv_buf
      BY <1>1, <1>2 DEF Conn
    <2>3. u.nl = t.nl /\ u.sent = t.sent /\ u.nread = t.nread
      BY <1>1 DEF AfterWrite, LooseSocket
    <2> HIDE DEF k, u, bytes
    <2>4. Sending(k, u, {"IN", "OUT"}, "do_write")
      BY <1>2, <2>2, <2>3 DEF Sending, Line
    <2>5. Mode(k, u, {"IN", "OUT"}, "do_write")
      BY <1>2, <2>2, <2>3, <2>4 DEF Mode
    <2>6. Handling'
      BY <1>0, <2>1 DEF Handling
    <2> QED BY <1>0, <1>1, <1>2, <2>1, <2>2, <2>5, <2>6, ModeOfCurrent
  <1> QED BY <1>3, <1>4, <1>5, <1>6 DEF DoWrite

LEMMA ModeDispatch == Structure /\ DataInv /\ ModeInv /\ Dispatch => ModeInv'
  <1> SUFFICES ASSUME Structure, DataInv, ModeInv, Dispatch PROVE ModeInv'
    OBVIOUS
  <1>0. pc = "dispatch" /\ ~Handling
    BY DEF Dispatch, BatchDone, AcceptFails, AcceptClient, Accepted, AcceptWithoutMemory,
           HandleListen, HandleConn, Handling
  <1>1. CASE BatchDone \/ AcceptFails \/ AcceptWithoutMemory
    <2>1. UNCHANGED <<heap, conn, sock, interest>> /\ ~Handling'
      BY <1>0, <1>1 DEF BatchDone, AcceptFails, AcceptWithoutMemory, HandleListen,
                        memory, epoll, world, Handling
    <2> QED BY <1>0, <2>1, ModeControl DEF Place
  <1>2. ASSUME NEW f \in Fds, NEW p \in Ptrs \ heap, Accepted(f), heap' = heap \cup {p},
               conn' = [conn EXCEPT ![p] = [Zeroed EXCEPT !.fd = f, !.state = "READ"]],
               interest' = [interest EXCEPT ![f] = {"IN"}],
               UNCHANGED <<pc, cur>>
        PROVE  ModeInv'
    <2> DEFINE new == [Zeroed EXCEPT !.fd = f, !.state = "READ"]
    <2>1. new.fd = f /\ Mode(new, NewSocket, {"IN"}, "asleep")
      BY ModeOfNew DEF Zeroed
    <2>2. conn' = [conn EXCEPT ![p] = new]
      BY <1>2
    <2> HIDE DEF new
    <2>3. /\ f \notin open /\ sock' = [sock EXCEPT ![f] = NewSocket]
          /\ conn \in [Ptrs -> Conn] /\ sock \in [Fds -> LooseSocket]
          /\ interest \in [Fds -> SUBSET {"IN", "OUT"}]
      BY <1>2 DEF Accepted, Structure, Typing
    <2>4. \A q \in heap' : Place(q)' = "asleep" /\ Place(q) = "asleep"
      BY <1>0, <1>2 DEF Place, Handling
    <2>5. conn'[p] = new /\ sock'[new.fd] = NewSocket /\ interest'[new.fd] = {"IN"}
      BY <2>1, <2>2, <2>3, <1>2
    <2>6. ASSUME NEW q \in heap
          PROVE  Mode(conn'[q], sock'[conn'[q].fd], interest'[conn'[q].fd], Place(q)')
      <3>1. conn'[q] = conn[q] /\ conn[q].fd # f /\ conn[q].fd \in Fds
        BY <1>2, <2>2, <2>3 DEF Structure, Typing, Owners
      <3>2. sock'[conn[q].fd] = sock[conn[q].fd] /\ interest'[conn[q].fd] = interest[conn[q].fd]
        BY <1>2, <2>3, <3>1
      <3>3. Place(q)' = Place(q)
        BY <1>2, <2>4
      <3> QED BY <3>1, <3>2, <3>3 DEF ModeInv
    <2>7. Mode(conn'[p], sock'[conn'[p].fd], interest'[conn'[p].fd], Place(p)')
      BY <1>2, <2>1, <2>4, <2>5
    <2> QED BY <1>2, <2>6, <2>7 DEF ModeInv
  <1>3. CASE AcceptClient
    BY <1>2, <1>3 DEF AcceptClient
  <1>4. ASSUME NEW p \in Ptrs, HandleConn(p) PROVE ModeInv'
    <2> DEFINE t == sock[conn[p].fd]
               events == interest[conn[p].fd]
    <2>1. /\ p \in heap /\ cur' = p /\ UNCHANGED <<heap, sock, interest>> /\ conn[p] \in Conn
          /\ conn \in [Ptrs -> Conn] /\ conn[p].fd \in Fds
          /\ sock = [sock EXCEPT ![conn[p].fd] = t]
          /\ interest = [interest EXCEPT ![conn[p].fd] = events]
      BY <1>4 DEF HandleConn, world, epoll, Structure, Typing, Owners
    <2>2. Mode(conn[p], t, events, "asleep")
      BY <1>0, <2>1 DEF ModeInv, Place
    <2> HIDE DEF t, events
    <2>3. \A q \in heap \ {p} : Place(q)' = Place(q)
      BY <1>0, <2>1 DEF Place
    <2>4. conn[p].state \in {"READ", "WRITE"}
      BY <2>1, <2>2 DEF Mode, Conn
    <2>5. /\ conn' = [conn EXCEPT ![p] = conn[p]]
          /\ pc' = IF conn[p].state = "READ" THEN "do_read" ELSE "do_write"
      <3>1. CASE conn[p].state = "READ"
        BY <1>4, <2>1, <3>1 DEF HandleConn
      <3>2. CASE conn[p].state = "WRITE"
        <4>1. PrepareSend(conn[p]) = conn[p]
          BY <2>1, <2>2, <3>2 DEF Mode, Sending, PrepareSend, Conn
        <4> QED BY <1>4, <2>1, <3>2, <4>1 DEF HandleConn
      <3> QED BY <2>4, <3>1, <3>2
    <2>6. Place(p)' = pc'
      BY <2>1, <2>5 DEF Place, Handling
    <2>7. Mode(conn[p], t, events, pc')
      BY <2>2, <2>4, <2>5 DEF Mode, Waiting, Sending
    <2>8. Mode(conn[p], t, events, Place(p)')
      BY <2>6, <2>7
    <2>9. /\ sock' = [sock EXCEPT ![conn[p].fd] = t] /\ heap' = heap
          /\ interest' = [interest EXCEPT ![conn[p].fd] = events]
      BY <2>1
    <2> QED BY <2>1, <2>3, <2>5, <2>8, <2>9, ModeOfOne
  <1> QED BY <1>1, <1>3, <1>4 DEF Dispatch

LEMMA ModeCleanup == Structure /\ DataInv /\ ModeInv /\ Cleanup => ModeInv'
  <1> SUFFICES ASSUME Structure, DataInv, ModeInv, Cleanup PROVE ModeInv'
    OBVIOUS
  <1>1. cur \in heap /\ c.fd \in Fds /\ c = conn[cur] /\ Handling
    BY Current DEF Cleanup, Handling, c
  <1>2. \A p \in heap' : p # cur /\ p \in heap /\ Place(p) = "asleep" /\ Place(p)' = "asleep"
    BY DEF Cleanup, Place, Handling
  <1>3. ASSUME NEW p \in heap'
        PROVE  Mode(conn'[p], sock'[conn'[p].fd], interest'[conn'[p].fd], Place(p)')
    <2>1. conn[p].fd # c.fd /\ conn[p].fd \in Fds /\ p \in Ptrs
      BY <1>1, <1>2 DEF Structure, Typing, Owners
    <2>2. /\ conn'[p] = conn[p] /\ sock'[conn[p].fd] = sock[conn[p].fd]
          /\ interest'[conn[p].fd] = interest[conn[p].fd]
      BY <1>2, <2>1 DEF Cleanup, Structure, Typing
    <2>3. Place(p)' = Place(p) /\ p \in heap
      BY <1>2
    <2> QED BY <2>2, <2>3 DEF ModeInv
  <1> QED BY <1>3 DEF ModeInv

LEMMA ModePeers == Structure /\ DataInv /\ ModeInv /\ Peers => ModeInv'
  <1> SUFFICES ASSUME Structure, DataInv, ModeInv, Peers PROVE ModeInv'
    OBVIOUS
  <1>1. CASE PeerConnects
    BY <1>1, ModeControl DEF PeerConnects, server, memory, epoll, Place, Handling
  <1>2. ASSUME NEW f \in open, NEW u, PeerActs(f, u),
               \/ CanSend(sock[f]) /\ \E newline \in BOOLEAN : u = AfterSend(sock[f], newline)
               \/ CanFin(sock[f]) /\ u = AfterFin(sock[f])
               \/ CanReset(sock[f]) /\ u = AfterReset(sock[f])
               \/ CanTake(sock[f]) /\ u = AfterTake(sock[f])
        PROVE  ModeInv'
    <2>1. UNCHANGED <<pc, cur, heap, conn, interest>> /\ sock' = [sock EXCEPT ![f] = u]
      BY <1>2 DEF PeerActs, server, memory, epoll
    <2>2. ASSUME NEW p \in heap
          PROVE  Mode(conn[p], sock'[conn[p].fd], interest[conn[p].fd], Place(p))
      <3>1. /\ conn[p] \in Conn /\ conn[p].fd \in Fds /\ sock[conn[p].fd] \in LooseSocket
            /\ sock \in [Fds -> LooseSocket] /\ f \in Fds
            /\ Data(conn[p], sock[conn[p].fd])
            /\ Mode(conn[p], sock[conn[p].fd], interest[conn[p].fd], Place(p))
        BY DEF Structure, Typing, Owners, DataInv, ModeInv
      <3>2. CASE conn[p].fd = f
        BY <1>2, <2>1, <3>1, <3>2, ModeOfPeer
      <3>3. CASE conn[p].fd # f
        BY <2>1, <3>1, <3>3
      <3> QED BY <3>2, <3>3
    <2>3. \A p \in heap : Place(p)' = Place(p)
      BY <2>1 DEF Place, Handling
    <2> QED BY <2>1, <2>2, <2>3 DEF ModeInv
  <1> QED BY <1>1, <1>2 DEF Peers, PeerSends, PeerFins, PeerResets, PeerTakes

LEMMA ModeStep == Structure /\ DataInv /\ ModeInv /\ [Next]_vars => ModeInv'
  <1> SUFFICES ASSUME Structure, DataInv, ModeInv, [Next]_vars PROVE ModeInv'
    OBVIOUS
  <1>1. CASE LoopTest \/ EpollTimeout \/ (\E b \in SUBSET ReadyEvents : EpollReturns(b)) \/ Sigint
    <2>1. /\ UNCHANGED <<heap, conn, sock, interest, cur>>
          /\ pc' = pc \/ (~Handling /\ ~Handling')
      BY <1>1 DEF LoopTest, EpollTimeout, EpollReturns, Sigint, memory, epoll, world, Handling
    <2>2. \A p \in heap : Place(p)' = Place(p)
      BY <2>1 DEF Place, Handling
    <2> QED BY <2>1, <2>2, ModeControl
  <1>2. CASE Dispatch \/ DoRead \/ DoWrite \/ Cleanup \/ Peers
    BY <1>2, ModeDispatch, ModeDoRead, ModeDoWrite, ModeCleanup, ModePeers
  <1>3. CASE UNCHANGED vars
    BY <1>3, ModeControl DEF vars, server, world, memory, epoll, Place, Handling
  <1> QED BY <1>1, <1>2, <1>3 DEF Next, Server, Halted

\* The three parts together are inductive.
THEOREM ServiceInvariance == Spec => []IInv
  <1>1. Init => IInv
    BY StructureInit, DataInit, ModeInit DEF IInv
  <1>2. IInv /\ [Next]_vars => IInv'
    BY StructureStep, DataStep, DataGivesBounds, ModeStep DEF IInv
  <1> QED BY <1>1, <1>2, PTL DEF Spec

-----------------------------------------------------------------------------
(* What follows from the invariant for one connection. *)

\* Where byte l of a stream is when the last len of its sent bytes are buffered.
LEMMA PlaceInBuffer ==
  ASSUME NEW written \in Nat, NEW len \in Nat, NEW sent \in Nat, sent = written + len,
         NEW l \in Nat, l <= sent, NEW i \in Nat, i = l - written - 1
  PROVE  i < len /\ sent - len + i + 1 = l
  OBVIOUS

\* No line of a connection whose input is used up is left unsent.
LEMMA NoLineLeft ==
  ASSUME NEW k \in Conn, NEW t \in LooseSocket, Data(k, t),
         t.nread = t.sent, t.nl \subseteq 1 .. t.sent, k.send_len = 0, ~Line(k, t),
         NEW l \in t.nl
  PROVE  l <= Len(t.out)
  <1>1. /\ Len(t.out) \in Nat /\ t.sent \in Nat /\ k.recv_len \in Nat
        /\ t.sent = Len(t.out) + k.recv_len /\ k.recv_len <= BUF_SIZE - 1
        /\ l \in Nat /\ l <= t.sent
    BY SocketAssumption DEF LooseSocket, Conn, Data, Pending
  <1>2. PICK written \in Nat : written = Len(t.out)
    BY <1>1
  <1>3. SUFFICES ASSUME l > written PROVE FALSE
    BY <1>1, <1>2
  <1>4. t.sent = written + k.recv_len
    BY <1>1, <1>2
  <1>5. PICK i \in Nat : i = l - written - 1
    BY <1>1, <1>3
  <1>6. i < k.recv_len /\ t.sent - k.recv_len + i + 1 = l
    BY <1>1, <1>4, <1>5, PlaceInBuffer
  <1>7. i \in Index
    BY <1>1, <1>6, ServerAssumption DEF Index
  <1>8. k.recv_buf[i] = l
    BY <1>6, <1>7 DEF Data
  <1> QED BY <1>6, <1>7, <1>8 DEF Line

\* When the server sleeps, what is unsent waits for EPOLLOUT, and a connection
\* that waits for input has room for it and holds no line.
THEOREM WakeupsNotMissed == Spec => []NoMissedWakeup
  <1>1. IInv => NoMissedWakeup
    <2> SUFFICES ASSUME IInv, pc \in {"loop", "epoll_wait"}, NEW p \in heap
                 PROVE  \/ /\ conn[p].state = "WRITE" /\ Unsent(conn[p]) > 0
                           /\ "OUT" \in interest[conn[p].fd]
                        \/ /\ conn[p].state = "READ" /\ conn[p].send_len = 0
                           /\ "IN" \in interest[conn[p].fd]
                           /\ ~HasNewline(conn[p]) /\ ReadRoom(conn[p]) > 0
      BY DEF NoMissedWakeup
    <2>1. /\ Mode(conn[p], sock[conn[p].fd], interest[conn[p].fd], "asleep")
          /\ conn[p] \in Conn
      BY DEF IInv, ModeInv, Place, Handling, Structure, Typing
    <2>2. CASE conn[p].state = "READ"
      BY <2>1, <2>2, ServerAssumption DEF Mode, Waiting, Line, HasNewline, ReadRoom, Conn
    <2>3. CASE conn[p].state = "WRITE"
      BY <2>1, <2>3 DEF Mode, Sending, Unsent, Conn
    <2> QED BY <2>1, <2>2, <2>3 DEF Mode, Conn
  <1> QED BY <1>1, ServiceInvariance, PTL

\* An answer is started for a complete line or a full buffer, never less.
THEOREM AnswersAreWhole == Spec => []OnlyWholeMessages
  <1>1. IInv => OnlyWholeMessages
    <2> SUFFICES ASSUME IInv, NEW p \in heap, conn[p].state = "WRITE"
                 PROVE  HasNewline(conn[p]) \/ ReadRoom(conn[p]) = 0
      BY DEF OnlyWholeMessages
    <2>1. Line(conn[p], sock[conn[p].fd]) \/ conn[p].recv_len = BUF_SIZE - 1
      BY DEF IInv, ModeInv, Mode, Sending
    <2> QED BY <2>1, ServerAssumption DEF Line, HasNewline, ReadRoom
  <1> QED BY <1>1, ServiceInvariance, PTL

\* A connection that did not fail is closed only with every line sent back.
THEOREM CloseLeavesNoLine == Spec => []LinesEchoedBeforeClose
  <1>1. IInv => LinesEchoedBeforeClose
    <2> SUFFICES ASSUME IInv, pc = "cleanup", socket.err = "none", NEW l \in socket.nl
                 PROVE  l <= Len(socket.out)
      BY DEF LinesEchoedBeforeClose
    <2>1. Handling
      BY DEF Handling
    <2>2. /\ c \in Conn /\ socket \in LooseSocket /\ Data(c, socket)
          /\ Mode(c, socket, interest[c.fd], "cleanup")
      BY <2>1, ModeCurrent DEF IInv
    <2> HIDE DEF c, socket
    <2>3. socket.nread = socket.sent /\ c.send_len = 0 /\ ~Line(c, socket)
      BY <2>2 DEF Mode, Ended
    <2> QED BY <2>2, <2>3, NoLineLeft DEF Mode
  <1> QED BY <1>1, ServiceInvariance, PTL

-----------------------------------------------------------------------------
(***************************************************************************)
(* The refinement.  A connection is shown to its peer as Shown(f); a step  *)
(* changes that of at most one descriptor, or ends the server.             *)
(***************************************************************************)
Due(k, t) == Len(t.out) + (IF k.send_len > 0 THEN Unsent(k) ELSE 0)

Ending(t) == IF t.err # "none" THEN "reset" ELSE IF t.fin THEN "fin" ELSE "no"

Face(sent, nl, due, echo, ended) ==
    [connected |-> TRUE, sent |-> sent, nl |-> nl, due |-> due, echo |-> echo, ended |-> ended]

View(k, t) == Face(t.sent, t.nl, Due(k, t), t.out, Ending(t))

Shown(f) == IF f \in open THEN Link(f) ELSE NoLink
Links == [f \in Fds |-> Shown(f)]

\* What replacing a field of a view gives.  (The solver needs the field that is
\* TRUE under a name.)
LEMMA Faces ==
  \E yes : \A s, l, d, e, n : Face(s, l, d, e, n) = [connected |-> yes, sent |-> s, nl |-> l,
                                                    due |-> d, echo |-> e, ended |-> n]
  BY DEF Face

LEMMA NewDue ==
  ASSUME NEW sent, NEW nl, NEW due, NEW echo, NEW ended, NEW x
  PROVE  [Face(sent, nl, due, echo, ended) EXCEPT !.due = x] = Face(sent, nl, x, echo, ended)
  <1>1. PICK yes : \A s, l, d, e, n : Face(s, l, d, e, n) = [connected |-> yes, sent |-> s,
                                       nl |-> l, due |-> d, echo |-> e, ended |-> n]
    BY Faces
  <1>2. PICK v : v = Face(sent, nl, due, echo, ended)
    OBVIOUS
  <1>3. [v EXCEPT !.due = x] = Face(sent, nl, x, echo, ended)
    BY <1>1, <1>2
  <1> QED BY <1>2, <1>3, Zenon

LEMMA NewEcho ==
  ASSUME NEW sent, NEW nl, NEW due, NEW echo, NEW ended, NEW x
  PROVE  [Face(sent, nl, due, echo, ended) EXCEPT !.echo = x] = Face(sent, nl, due, x, ended)
  <1>1. PICK yes : \A s, l, d, e, n : Face(s, l, d, e, n) = [connected |-> yes, sent |-> s,
                                       nl |-> l, due |-> d, echo |-> e, ended |-> n]
    BY Faces
  <1>2. PICK v : v = Face(sent, nl, due, echo, ended)
    OBVIOUS
  <1>3. [v EXCEPT !.echo = x] = Face(sent, nl, due, x, ended)
    BY <1>1, <1>2
  <1> QED BY <1>2, <1>3, Zenon

LEMMA NewEnd ==
  ASSUME NEW sent, NEW nl, NEW due, NEW echo, NEW ended, NEW x
  PROVE  [Face(sent, nl, due, echo, ended) EXCEPT !.ended = x] = Face(sent, nl, due, echo, x)
  <1>1. PICK yes : \A s, l, d, e, n : Face(s, l, d, e, n) = [connected |-> yes, sent |-> s,
                                       nl |-> l, due |-> d, echo |-> e, ended |-> n]
    BY Faces
  <1>2. PICK v : v = Face(sent, nl, due, echo, ended)
    OBVIOUS
  <1>3. [v EXCEPT !.ended = x] = Face(sent, nl, due, echo, x)
    BY <1>1, <1>2
  <1> QED BY <1>2, <1>3, Zenon

LEMMA NewSent ==
  ASSUME NEW sent, NEW nl, NEW due, NEW echo, NEW ended, NEW x
  PROVE  [Face(sent, nl, due, echo, ended) EXCEPT !.sent = x] = Face(x, nl, due, echo, ended)
  <1>1. PICK yes : \A s, l, d, e, n : Face(s, l, d, e, n) = [connected |-> yes, sent |-> s,
                                       nl |-> l, due |-> d, echo |-> e, ended |-> n]
    BY Faces
  <1>2. PICK v : v = Face(sent, nl, due, echo, ended)
    OBVIOUS
  <1>3. [v EXCEPT !.sent = x] = Face(x, nl, due, echo, ended)
    BY <1>1, <1>2
  <1> QED BY <1>2, <1>3, Zenon

LEMMA NewNl ==
  ASSUME NEW sent, NEW nl, NEW due, NEW echo, NEW ended, NEW x
  PROVE  [Face(sent, nl, due, echo, ended) EXCEPT !.nl = x] = Face(sent, x, due, echo, ended)
  <1>1. PICK yes : \A s, l, d, e, n : Face(s, l, d, e, n) = [connected |-> yes, sent |-> s,
                                       nl |-> l, due |-> d, echo |-> e, ended |-> n]
    BY Faces
  <1>2. PICK v : v = Face(sent, nl, due, echo, ended)
    OBVIOUS
  <1>3. [v EXCEPT !.nl = x] = Face(sent, x, due, echo, ended)
    BY <1>1, <1>2
  <1> QED BY <1>2, <1>3, Zenon

\* The fields of a connection's view; two views of one socket differ in due.
LEMMA ViewFields ==
  ASSUME NEW k, NEW t, NEW k2
  PROVE  /\ View(k, t).connected /\ View(k, t).sent = t.sent /\ View(k, t).nl = t.nl
         /\ View(k, t).due = Due(k, t) /\ View(k, t).echo = t.out
         /\ View(k, t).ended = Ending(t)
         /\ View(k2, t) = [View(k, t) EXCEPT !.due = Due(k2, t)]
  <1>1. View(k2, t) = [View(k, t) EXCEPT !.due = Due(k2, t)]
    BY NewDue DEF View
  <1> QED BY <1>1 DEF View, Face

LEMMA ServiceInit == Init => Service!Init
  BY DEF Init, Service!Init, Service!Idle, Service!New, NoLink, Stopped

LEMMA ServiceStutter ==
  ASSUME UNCHANGED Links, UNCHANGED Stopped
  PROVE  UNCHANGED Service!vars
  BY DEF Service!vars, Links, Shown

LEMMA ServiceStop ==
  ASSUME UNCHANGED Links, ~Stopped, Stopped'
  PROVE  Service!Next
  BY DEF Service!Next, Service!Stop, Links, Shown

LEMMA ServiceBecome ==
  ASSUME ~Stopped, ~Stopped', NEW f \in Fds,
         \A g \in Fds \ {f} : Shown(g)' = Shown(g),
         NEW v, Shown(f)' = v
  PROVE  Service!Become(f, v)
  BY DEF Service!Become, Shown

\* One connection q changes, with its socket: only its descriptor's view does.
LEMMA OneShown ==
  ASSUME Structure, NEW q \in heap, NEW f \in Fds, conn[q].fd = f,
         heap' = heap, open' = open, data_ptr' = data_ptr,
         NEW k, conn'[q] = k, \A p \in heap \ {q} : conn'[p] = conn[p],
         NEW t, sock'[f] = t, \A g \in open \ {f} : sock'[g] = sock[g]
  PROVE  /\ Shown(f) = View(conn[q], sock[f]) /\ Shown(f)' = View(k, t)
         /\ \A g \in Fds \ {f} : Shown(g)' = Shown(g)
  <1>1. f \in open /\ data_ptr[f] = q
    BY DEF Structure, Owners
  <1>2. Shown(f) = View(conn[q], sock[f])
    BY <1>1 DEF Shown, Link, View, Face, Due, Ending
  <1>4. Shown(f)' = View(k, t)
    BY <1>1 DEF Shown, Link, View, Face, Due, Ending, Unsent
  <1>5. ASSUME NEW g \in Fds \ {f} PROVE Shown(g)' = Shown(g)
    <2>1. CASE g \notin open
      BY <2>1 DEF Shown, NoLink
    <2>2. CASE g \in open
      <3>1. data_ptr[g] # q
        BY <1>5, <2>2 DEF Structure, Owners
      <3>2. conn'[data_ptr'[g]] = conn[data_ptr[g]] /\ sock'[g] = sock[g]
        BY <1>5, <2>2, <3>1 DEF Structure, Owners
      <3> QED BY <2>2, <3>2 DEF Shown, Link, Unsent
    <2> QED BY <2>1, <2>2
  <1> QED BY <1>2, <1>4, <1>5

LEMMA SameView ==
  ASSUME Structure, NEW q \in heap, NEW f \in Fds, conn[q].fd = f,
         UNCHANGED <<heap, open, data_ptr>>,
         NEW k, conn' = [conn EXCEPT ![q] = k],
         NEW t, sock' = [sock EXCEPT ![f] = t],
         View(k, t) = View(conn[q], sock[f]), UNCHANGED Stopped
  PROVE  UNCHANGED Service!vars
  <1>0. /\ conn'[q] = k /\ \A p \in heap \ {q} : conn'[p] = conn[p]
        /\ sock'[f] = t /\ \A g \in open \ {f} : sock'[g] = sock[g]
    BY DEF Structure, Typing
  <1>1. /\ Shown(f) = View(conn[q], sock[f]) /\ Shown(f)' = View(k, t)
        /\ \A g \in Fds \ {f} : Shown(g)' = Shown(g)
    BY <1>0, OneShown
  <1>2. \A g \in Fds : Shown(g)' = Shown(g)
    BY <1>1
  <1> QED BY <1>2, ServiceStutter DEF Links

\* do_write copies recv_buf: the peer's next message is decided on.
LEMMA DecidesMessage ==
  ASSUME NEW k \in Conn, NEW t \in LooseSocket, Data(k, t), k.send_len = 0,
         Line(k, t) \/ k.recv_len = BUF_SIZE - 1, t.nread <= t.sent
  PROVE  \E last \in View(k, t).due + 1 .. View(k, t).sent :
           /\ Service!Message(View(k, t), last)
           /\ View(PrepareSend([k EXCEPT !.state = "WRITE"]), t) = [View(k, t) EXCEPT !.due = last]
  <1> DEFINE kw == [k EXCEPT !.state = "WRITE"]
             kp == PrepareSend(kw)
             written == Len(t.out)
  <1>1. kw \in Conn /\ kw.send_len = 0 /\ kw.recv_len = k.recv_len
    BY DEF Conn
  <1> HIDE DEF kw
  <1>2. kp.send_len = k.recv_len /\ kp.send_done = 0
    BY <1>1 DEF PrepareSend, Conn
  <1> HIDE DEF kp
  <1>3. /\ written \in Nat /\ k.recv_len \in Nat /\ t.sent \in Nat /\ t.nread \in Nat
        /\ t.nread = written + k.recv_len /\ k.recv_len <= BUF_SIZE - 1
    BY SocketAssumption DEF LooseSocket, Conn, Data, Pending
  <1>4. k.recv_len > 0
    BY NoIndexBelowZero, ServerAssumption DEF Line, Conn
  <1>5. View(k, t).due = written /\ View(k, t).sent = t.sent /\ View(k, t).nl = t.nl
    BY <1>3 DEF View, Face, Due
  <1>6. View(kp, t) = [View(k, t) EXCEPT !.due = written + k.recv_len]
    <2>1. kp.send_len > 0 /\ Unsent(kp) = k.recv_len
      BY <1>2, <1>3, <1>4 DEF Unsent
    <2>2. Due(kp, t) = written + k.recv_len
      BY <2>1 DEF Due
    <2>3. View(kp, t) = [View(k, t) EXCEPT !.due = Due(kp, t)]
      BY ViewFields
    <2> QED BY <2>2, <2>3
  <1>7. ASSUME Line(k, t) PROVE \E l \in t.nl : written < l /\ l <= written + k.recv_len
    <2>1. PICK i \in Index : i < k.recv_len /\ k.recv_buf[i] \in t.nl
      BY <1>7 DEF Line
    <2>2. k.recv_buf[i] = t.nread - k.recv_len + i + 1 /\ i \in Nat
      BY <2>1, NoIndexBelowZero DEF Data
    <2> HIDE DEF written
    <2>3. t.nread - k.recv_len + i + 1 = written + i + 1
      BY <1>3, <2>2
    <2>4. written < written + i + 1 /\ written + i + 1 <= written + k.recv_len
      BY <1>3, <2>1, <2>2
    <2> QED BY <2>1, <2>2, <2>3, <2>4
  <1> DEFINE last == written + k.recv_len
  <1> HIDE DEF written
  <1>8. last \in written + 1 .. t.sent /\ last - written = k.recv_len
    BY <1>3, <1>4
  <1>9. Service!Message(View(k, t), last)
    BY <1>3, <1>5, <1>7, <1>8, ServerAssumption DEF Service!Message
  <1> QED BY <1>5, <1>6, <1>8, <1>9 DEF kp, kw

LEMMA ServiceDecides ==
  ASSUME ~Stopped, ~Stopped', NEW f \in Fds,
         \A g \in Fds \ {f} : Shown(g)' = Shown(g),
         NEW k \in Conn, NEW t \in LooseSocket, Data(k, t), k.send_len = 0,
         Line(k, t) \/ k.recv_len = BUF_SIZE - 1, t.nread <= t.sent,
         Shown(f) = View(k, t),
         Shown(f)' = View(PrepareSend([k EXCEPT !.state = "WRITE"]), t)
  PROVE  Service!Next
  <1> DEFINE v == View(k, t)
  <1>1. PICK last \in v.due + 1 .. v.sent :
          Service!Message(v, last) /\ Shown(f)' = [v EXCEPT !.due = last]
    BY DecidesMessage
  <1>2. Len(v.echo) = v.due
    BY DEF View, Face, Due, LooseSocket
  <1> HIDE DEF v
  <1>3. Service!Become(f, [v EXCEPT !.due = last])
    BY <1>1, ServiceBecome
  <1>4. [g \in Fds |-> IF g \in open THEN Link(g) ELSE NoLink][f] = v
    BY DEF Shown, v
  <1>5. Service!Decide(f)
    BY <1>1, <1>2, <1>3, <1>4 DEF Service!Decide, Service!Echoed, Service!Become
  <1> QED BY <1>5 DEF Service!Next, Service!Answer

\* do_write's write: the peer gets more of what is due.
LEMMA ServiceEchoes ==
  ASSUME ~Stopped, ~Stopped', NEW f \in Fds,
         \A g \in Fds \ {f} : Shown(g)' = Shown(g),
         NEW k, NEW t, NEW k2, NEW u \in LooseSocket, Data(k2, u),
         Shown(f) = View(k, t), Shown(f)' = View(k2, u),
         t.err = "none", u.sent = t.sent, u.nl = t.nl, u.fin = t.fin, u.err = t.err,
         Due(k2, u) = Due(k, t), Len(u.out) \in Len(t.out) + 1 .. Due(k, t)
  PROVE  Service!Next
  <1>1. PICK n : n = Len(u.out)
    OBVIOUS
  <1>2. PICK stream : stream = [i \in 1 .. n |-> i]
    OBVIOUS
  <1>3. u.out = stream
    <2>1. u.out \in Seq(Nat) /\ \A i \in 1 .. n : u.out[i] = i
      BY <1>1 DEF LooseSocket, Data
    <2>2. u.out = [i \in 1 .. n |-> u.out[i]]
      BY <1>1, <2>1
    <2>3. [i \in 1 .. n |-> u.out[i]] = stream
      BY <1>2, <2>1
    <2> QED BY <2>2, <2>3, Zenon
  <1>4. PICK v : v = View(k, t)
    OBVIOUS
  <1>5. Ending(u) = Ending(t) /\ Ending(t) # "reset"
    BY DEF Ending
  <1>6. View(k2, u) = [v EXCEPT !.echo = stream]
    <2>1. View(k2, u) = Face(t.sent, t.nl, Due(k, t), stream, Ending(t))
      BY <1>3, <1>5 DEF View
    <2>2. v = Face(t.sent, t.nl, Due(k, t), t.out, Ending(t))
      BY <1>4 DEF View
    <2>3. [Face(t.sent, t.nl, Due(k, t), t.out, Ending(t)) EXCEPT !.echo = stream]
            = Face(t.sent, t.nl, Due(k, t), stream, Ending(t))
      BY NewEcho
    <2> QED BY <2>1, <2>2, <2>3, Zenon
  <1>7. v.echo = t.out /\ v.due = Due(k, t) /\ v.ended # "reset"
    BY <1>4, <1>5, ViewFields
  <1>8. [g \in Fds |-> IF g \in open THEN Link(g) ELSE NoLink][f] = v
    BY <1>4 DEF Shown
  <1>9. Service!Become(f, [v EXCEPT !.echo = stream])
    BY <1>6, ServiceBecome
  <1>10. n \in Len(v.echo) + 1 .. v.due
    BY <1>1, <1>7
  <1>11. Service!Echo(f)
    BY <1>2, <1>7, <1>8, <1>9, <1>10 DEF Service!Echo, Service!Echoed, Service!Become
  <1> QED BY <1>11 DEF Service!Next, Service!Answer

\* cleanup_conn: the peer is done, and unless it failed nothing is owed to it.
LEMMA ServiceCloses ==
  ASSUME ~Stopped, ~Stopped', NEW f \in Fds,
         \A g \in Fds \ {f} : Shown(g)' = Shown(g),
         NEW k \in Conn, NEW t \in LooseSocket, Data(k, t), Ended(k, t),
         t.nl \subseteq 1 .. t.sent,
         Shown(f) = View(k, t), Shown(f)' = NoLink
  PROVE  Service!Next
  <1>1. PICK v : v = View(k, t)
    OBVIOUS
  <1>2. /\ v.connected /\ v.nl = t.nl /\ v.due = Due(k, t) /\ v.echo = t.out
        /\ v.ended = Ending(t)
    BY <1>1, ViewFields
  <1>3. [g \in Fds |-> IF g \in open THEN Link(g) ELSE NoLink][f] = v
    BY <1>1 DEF Shown
  <1>4. Ending(t) # "no"
    BY DEF Ended, Ending
  <1>5. Ending(t) = "reset" \/ /\ Len(t.out) = Due(k, t)
                               /\ \A l \in t.nl : l <= Due(k, t)
    <2>1. CASE t.err # "none"
      BY <2>1 DEF Ending
    <2>2. CASE t.err = "none"
      <3>1. t.nread = t.sent /\ k.send_len = 0 /\ ~Line(k, t)
        BY <2>2 DEF Ended
      <3>2. \A l \in t.nl : l <= Len(t.out)
        BY <3>1, NoLineLeft
      <3>3. Due(k, t) = Len(t.out)
        BY <3>1 DEF Due, LooseSocket
      <3> QED BY <3>2, <3>3
    <2> QED BY <2>1, <2>2
  <1>6. Service!Idle = NoLink
    <2>1. PICK yes, no, none : yes = TRUE /\ no = FALSE /\ none = << >>
      OBVIOUS
    <2>2. PICK new : new = Service!New
      OBVIOUS
    <2>3. new = [connected |-> yes, sent |-> 0, nl |-> {}, due |-> 0, echo |-> none,
                 ended |-> "no"]
      BY <2>1, <2>2 DEF Service!New
    <2>4. [new EXCEPT !.connected = no] = [connected |-> no, sent |-> 0, nl |-> {}, due |-> 0,
                                           echo |-> none, ended |-> "no"]
      BY <2>3
    <2>5. NoLink = [connected |-> no, sent |-> 0, nl |-> {}, due |-> 0, echo |-> none,
                    ended |-> "no"]
      BY <2>1 DEF NoLink
    <2>6. NoLink = [new EXCEPT !.connected = no]
      BY <2>4, <2>5, Zenon
    <2> QED BY <2>1, <2>2, <2>6, Zenon DEF Service!Idle
  <1>7. Service!Become(f, Service!Idle)
    BY <1>6, ServiceBecome
  <1>8. Service!Close(f)
    BY <1>2, <1>3, <1>4, <1>5, <1>7 DEF Service!Close, Service!Echoed, Service!Become
  <1> QED BY <1>8 DEF Service!Next

\* accept(): a new connection, on a descriptor that was closed.
LEMMA ServiceConnects ==
  ASSUME ~Stopped, ~Stopped', NEW f \in Fds,
         \A g \in Fds \ {f} : Shown(g)' = Shown(g),
         NEW k, k.send_len = 0, Shown(f) = NoLink, Shown(f)' = View(k, NewSocket)
  PROVE  Service!Next
  <1>1. [g \in Fds |-> IF g \in open THEN Link(g) ELSE NoLink][f] = NoLink
    BY DEF Shown
  <1>2. View(k, NewSocket) = Service!New
    <2>1. Due(k, NewSocket) = 0 /\ Ending(NewSocket) = "no"
      BY DEF Due, Ending, NewSocket
    <2> QED BY <2>1 DEF View, Face, Service!New, NewSocket
  <1>3. Service!Become(f, Service!New)
    BY <1>2, ServiceBecome
  <1>4. Service!Connect(f)
    BY <1>1, <1>3 DEF Service!Connect, Service!Become, NoLink
  <1> QED BY <1>4 DEF Service!Next

\* What the peer does to its socket, seen as the service.
LEMMA ServicePeer ==
  ASSUME ~Stopped, ~Stopped', NEW f \in Fds,
         \A g \in Fds \ {f} : Shown(g)' = Shown(g),
         NEW k, NEW t \in LooseSocket, NEW u,
         Shown(f) = View(k, t), Shown(f)' = View(k, u),
         \/ CanSend(t) /\ \E newline \in BOOLEAN : u = AfterSend(t, newline)
         \/ CanFin(t) /\ u = AfterFin(t)
         \/ CanReset(t) /\ u = AfterReset(t)
  PROVE  Service!Next
  <1>1. PICK v : v = View(k, t)
    OBVIOUS
  <1>2. v.connected /\ v.sent = t.sent /\ v.nl = t.nl /\ v.ended = Ending(t)
    BY <1>1, ViewFields
  <1>3. [g \in Fds |-> IF g \in open THEN Link(g) ELSE NoLink][f] = v
    BY <1>1 DEF Shown
  <1>4. v = Face(t.sent, t.nl, Due(k, t), t.out, Ending(t))
    BY <1>1 DEF View
  <1>5. ASSUME CanSend(t), NEW newline \in BOOLEAN, u = AfterSend(t, newline)
        PROVE  Service!Next
    <2>1. PICK sent, nl : /\ sent = t.sent + 1
                          /\ nl = IF newline THEN t.nl \cup {t.sent + 1} ELSE t.nl
      OBVIOUS
    <2>2. /\ u.sent = sent /\ u.nl = nl /\ u.out = t.out /\ u.fin = t.fin /\ u.err = t.err
      BY <1>5, <2>1 DEF AfterSend, LooseSocket
    <2>3. Due(k, u) = Due(k, t) /\ Ending(u) = Ending(t)
      BY <2>2 DEF Due, Ending
    <2>4. View(k, u) = Face(sent, nl, Due(k, t), t.out, Ending(t))
      BY <2>2, <2>3 DEF View
    <2>5. PICK w : w = [v EXCEPT !.sent = sent]
      OBVIOUS
    <2>6. w = Face(sent, t.nl, Due(k, t), t.out, Ending(t))
      BY <1>4, <2>5, NewSent
    <2>7. [w EXCEPT !.nl = nl] = View(k, u)
      BY <2>4, <2>6, NewNl
    <2>8. [v EXCEPT !.sent = sent, !.nl = nl] = [w EXCEPT !.nl = nl]
      BY <2>5
    <2>9. Service!Become(f, [v EXCEPT !.sent = sent, !.nl = nl])
      BY <2>7, <2>8, ServiceBecome
    <2>10. Ending(t) = "no" /\ t.sent < MaxBytes
      BY <1>5 DEF CanSend, Ending
    <2>11. Service!Send(f, newline)
      BY <1>2, <1>3, <2>1, <2>9, <2>10 DEF Service!Send, Service!Become
    <2> QED BY <2>11 DEF Service!Next
  <1>6. ASSUME NEW how \in {"fin", "reset"}, Ending(t) \notin {how, "reset"},
               u.sent = t.sent, u.nl = t.nl, u.out = t.out, Ending(u) = how
        PROVE  Service!Next
    <2>1. Due(k, u) = Due(k, t)
      BY <1>6 DEF Due
    <2>2. View(k, u) = Face(t.sent, t.nl, Due(k, t), t.out, how)
      BY <1>6, <2>1 DEF View
    <2>3. [v EXCEPT !.ended = how] = View(k, u)
      BY <1>4, <2>2, NewEnd
    <2>4. Service!Become(f, [v EXCEPT !.ended = how])
      BY <2>3, ServiceBecome
    <2>5. Service!End(f, how)
      BY <1>2, <1>3, <1>6, <2>4 DEF Service!End, Service!Become
    <2> QED BY <2>5 DEF Service!Next
  <1>7. CASE CanFin(t) /\ u = AfterFin(t)
    <2>1. /\ u.sent = t.sent /\ u.nl = t.nl /\ u.out = t.out /\ Ending(u) = "fin"
          /\ Ending(t) = "no"
      BY <1>7 DEF AfterFin, CanFin, Ending, LooseSocket
    <2> QED BY <1>6, <2>1
  <1>8. CASE CanReset(t) /\ u = AfterReset(t)
    <2>1. /\ u.sent = t.sent /\ u.nl = t.nl /\ u.out = t.out /\ u.err # "none"
      BY <1>8 DEF AfterReset, LooseSocket
    <2>2. Ending(u) = "reset" /\ Ending(t) \notin {"reset"}
      BY <1>8, <2>1 DEF CanReset, Ending
    <2> QED BY <1>6, <2>1, <2>2
  <1> QED BY <1>5, <1>7, <1>8

LEMMA PeersServed == IInv /\ Peers => [Service!Next]_(Service!vars)
  <1> SUFFICES ASSUME IInv, Peers PROVE [Service!Next]_(Service!vars)
    OBVIOUS
  <1>1. CASE PeerConnects
    <2>1. UNCHANGED <<pc, open, sock, conn, data_ptr>>
      BY <1>1 DEF PeerConnects, server, memory, epoll
    <2> QED BY <2>1, ServiceStutter DEF Links, Shown, Link, Unsent, NoLink, Stopped
  <1>2. ASSUME NEW f \in open, NEW u, PeerActs(f, u),
               \/ CanSend(sock[f]) /\ \E newline \in BOOLEAN : u = AfterSend(sock[f], newline)
               \/ CanFin(sock[f]) /\ u = AfterFin(sock[f])
               \/ CanReset(sock[f]) /\ u = AfterReset(sock[f])
               \/ CanTake(sock[f]) /\ u = AfterTake(sock[f])
        PROVE  [Service!Next]_(Service!vars)
    <2>1. /\ UNCHANGED <<pc, heap, conn, open, data_ptr>> /\ sock' = [sock EXCEPT ![f] = u]
          /\ ~Stopped
      BY <1>2 DEF PeerActs, server, memory, epoll
    <2>2. PICK q \in heap : q = data_ptr[f]
      BY DEF IInv, Structure, Owners
    <2>3. PICK k, t : k = conn[q] /\ t = sock[f]
      OBVIOUS
    <2>4. /\ conn[q].fd = f /\ f \in Fds /\ t \in LooseSocket
          /\ heap' = heap /\ open' = open /\ data_ptr' = data_ptr /\ Structure
          /\ conn'[q] = k /\ \A p \in heap \ {q} : conn'[p] = conn[p]
          /\ sock'[f] = u /\ \A g \in open \ {f} : sock'[g] = sock[g]
      BY <2>1, <2>2, <2>3 DEF IInv, Structure, Typing, Owners
    <2>5. /\ Shown(f) = View(k, t) /\ Shown(f)' = View(k, u)
          /\ \A g \in Fds \ {f} : Shown(g)' = Shown(g)
      <3>1. /\ Shown(f) = View(conn[q], sock[f]) /\ Shown(f)' = View(k, u)
            /\ \A g \in Fds \ {f} : Shown(g)' = Shown(g)
        BY <2>2, <2>4, OneShown
      <3> QED BY <2>3, <3>1
    <2>6. ~Stopped' /\ UNCHANGED Stopped
      BY <2>1 DEF Stopped
    <2>7. CASE u = AfterTake(t)
      <3>1. View(k, u) = View(k, t)
        BY <2>4, <2>7 DEF AfterTake, LooseSocket, View, Face, Due, Ending
      <3>2. \A g \in Fds : Shown(g)' = Shown(g)
        BY <2>5, <3>1
      <3> QED BY <2>1, <2>6, <3>2, ServiceStutter DEF Links
    <2>8. CASE u # AfterTake(t)
      <3>1. \/ CanSend(t) /\ \E newline \in BOOLEAN : u = AfterSend(t, newline)
            \/ CanFin(t) /\ u = AfterFin(t)
            \/ CanReset(t) /\ u = AfterReset(t)
        BY <1>2, <2>3, <2>8
      <3>2. Service!Next
        BY <2>1, <2>4, <2>5, <2>6, <3>1, ServicePeer
      <3> QED BY <3>2
    <2> QED BY <2>7, <2>8
  <1> QED BY <1>1, <1>2 DEF Peers, PeerSends, PeerFins, PeerResets, PeerTakes

-----------------------------------------------------------------------------
(* The server's steps, seen as the service. *)

\* A step on the connection being handled changes at most its view.
LEMMA CurrentShown ==
  ASSUME IInv, Handling, cur' = cur, heap' = heap, open' = open, data_ptr' = data_ptr,
         NEW k, conn' = [conn EXCEPT ![cur] = k],
         NEW t, sock' = [sock EXCEPT ![c.fd] = t]
  PROVE  \E f \in Fds : /\ Shown(f) = View(c, sock[c.fd]) /\ Shown(f)' = View(k, t)
                        /\ \A g \in Fds \ {f} : Shown(g)' = Shown(g)
  <1>1. /\ Structure /\ cur \in heap /\ c = conn[cur] /\ c.fd \in Fds
        /\ conn \in [Ptrs -> Conn] /\ sock \in [Fds -> LooseSocket] /\ heap \subseteq Ptrs
    BY ModeCurrent DEF IInv, Structure, Typing
  <1>2. PICK q \in heap, f \in Fds : q = cur /\ f = c.fd
    BY <1>1
  <1>3. /\ conn[q].fd = f /\ conn[q] = c
        /\ conn'[q] = k /\ \A p \in heap \ {q} : conn'[p] = conn[p]
        /\ sock'[f] = t /\ \A g \in open \ {f} : sock'[g] = sock[g]
    BY <1>1, <1>2 DEF Structure, Typing
  <1>4. /\ Shown(f) = View(conn[q], sock[f]) /\ Shown(f)' = View(k, t)
        /\ \A g \in Fds \ {f} : Shown(g)' = Shown(g)
    BY <1>1, <1>2, <1>3, OneShown
  <1> QED BY <1>2, <1>3, <1>4

LEMMA CurrentStutter ==
  ASSUME IInv, Handling, cur' = cur, heap' = heap, open' = open, data_ptr' = data_ptr,
         NEW k, conn' = [conn EXCEPT ![cur] = k],
         NEW t, sock' = [sock EXCEPT ![c.fd] = t],
         View(k, t) = View(c, sock[c.fd]), pc' \in Control, ~Stopped'
  PROVE  UNCHANGED Service!vars
  <1>1. \A g \in Fds : Shown(g)' = Shown(g)
    BY CurrentShown
  <1>2. UNCHANGED Stopped
    BY DEF Handling, Stopped
  <1> QED BY <1>1, <1>2, ServiceStutter DEF Links

LEMMA StartWriteServed ==
  ASSUME IInv, Handling, cur' = cur, heap' = heap, open' = open, data_ptr' = data_ptr,
         NEW k \in Conn, k.fd = c.fd, StartWrite(k), k.send_len = 0,
         NEW t \in LooseSocket, sock' = [sock EXCEPT ![c.fd] = t], Data(k, t),
         Line(k, t) \/ k.recv_len = BUF_SIZE - 1, t.nread <= t.sent,
         View(k, t) = View(c, sock[c.fd])
  PROVE  Service!Next
  <1> DEFINE kp == PrepareSend([k EXCEPT !.state = "WRITE"])
  <1>1. pc' = "do_write" /\ conn' = [conn EXCEPT ![cur] = kp]
    BY DEF StartWrite
  <1>2. ~Stopped /\ ~Stopped'
    BY <1>1 DEF Handling, Stopped
  <1> HIDE DEF kp
  <1>3. PICK f \in Fds : /\ Shown(f) = View(k, t) /\ Shown(f)' = View(kp, t)
                         /\ \A g \in Fds \ {f} : Shown(g)' = Shown(g)
    <2>1. \E f \in Fds : /\ Shown(f) = View(c, sock[c.fd]) /\ Shown(f)' = View(kp, t)
                          /\ \A g \in Fds \ {f} : Shown(g)' = Shown(g)
      BY <1>1, CurrentShown
    <2> QED BY <2>1, Zenon
  <1>4. Shown(f)' = View(PrepareSend([k EXCEPT !.state = "WRITE"]), t)
    BY <1>3 DEF kp
  <1> QED BY <1>2, <1>3, <1>4, ServiceDecides

LEMMA ReadServed == IInv /\ DoRead => [Service!Next]_(Service!vars)
  <1> SUFFICES ASSUME IInv, DoRead PROVE [Service!Next]_(Service!vars)
    OBVIOUS
  <1>0. Handling /\ pc = "do_read"
    BY DEF DoRead, ReadFull, ReadData, ReadWouldBlock, ReadEnd, Handling
  <1> DEFINE t == sock[c.fd]
  <1>1. /\ c \in Conn /\ t \in LooseSocket /\ socket = t
        /\ sock = [sock EXCEPT ![c.fd] = t] /\ conn = [conn EXCEPT ![cur] = c]
        /\ Data(c, t) /\ Mode(c, t, interest[c.fd], "do_read")
    BY <1>0, ModeCurrent DEF IInv
  <1> HIDE DEF t
  <1>2. c.state = "READ" /\ c.send_len = 0 /\ t.nread <= t.sent
    BY <1>1 DEF Mode, Waiting
  <1>3. CASE ReadFull
    <2>1. /\ StartWrite(c) /\ cur' = cur /\ heap' = heap /\ open' = open /\ data_ptr' = data_ptr
          /\ sock' = sock /\ c.recv_len >= BUF_SIZE - 1
      BY <1>3 DEF ReadFull, world
    <2>2. c.recv_len = BUF_SIZE - 1
      BY <1>1, <2>1, ServerAssumption DEF Data, Conn
    <2>3. Service!Next
      BY <1>0, <1>1, <1>2, <2>1, <2>2, StartWriteServed DEF t
    <2> QED BY <2>3
  <1>4. ASSUME NEW n \in 1 .. BUF_SIZE, ReadData(n) PROVE [Service!Next]_(Service!vars)
    <2> DEFINE k == Received(c, n)
               u == AfterRead(t, n)
    <2>1. /\ sock' = [sock EXCEPT ![c.fd] = u] /\ CanRead(t, n) /\ n \in Nat \ {0}
          /\ cur' = cur /\ heap' = heap /\ open' = open /\ data_ptr' = data_ptr
          /\ n <= ReadRoom(c)
      BY <1>1, <1>4 DEF ReadData, t
    <2>2. k \in Conn /\ k.fd = c.fd /\ u \in LooseSocket
      BY <1>1, <2>1, ReceivedType, SocketSteps DEF t
    <2>3. Data(k, u)
      BY <1>1, <1>2, <2>1, ReceivedData DEF t
    <2>4. k.send_len = 0
      BY <1>2 DEF Received
    <2>5. /\ u.nl = t.nl /\ u.sent = t.sent /\ u.nread <= u.sent /\ u.out = t.out
          /\ u.fin = t.fin /\ u.err = t.err
      BY <1>1, <2>1, SocketAssumption DEF AfterRead, LooseSocket, CanRead, Unread
    <2>6. HasNewline(k) <=> Line(k, u)
      BY <2>2, <2>5 DEF HasNewline, Line, t
    <2>7. Due(k, u) = Due(c, t) /\ Ending(u) = Ending(t)
      BY <1>2, <2>4, <2>5 DEF Due, Ending
    <2>8. View(k, u) = View(c, t)
      BY <2>5, <2>7 DEF View
    <2>9. CASE HasNewline(k)
      <3>1. StartWrite(k)
        BY <1>4, <2>9 DEF ReadData
      <3> HIDE DEF k, u
      <3>2. Service!Next
        BY <1>0, <2>1, <2>2, <2>3, <2>4, <2>5, <2>6, <2>8, <2>9, <3>1, StartWriteServed DEF t
      <3> QED BY <3>2
    <2>10. CASE ~HasNewline(k)
      <3>1. conn' = [conn EXCEPT ![cur] = k] /\ pc' = pc
        BY <1>4, <2>10 DEF ReadData
      <3>2. pc' \in Control /\ ~Stopped'
        BY <1>0, <3>1 DEF Control, Stopped
      <3> HIDE DEF k, u
      <3> QED BY <1>0, <2>1, <2>8, <3>1, <3>2, CurrentStutter DEF t
    <2> QED BY <2>9, <2>10
  <1>5. CASE ReadWouldBlock
    <2>1. UNCHANGED <<open, sock, conn, data_ptr>> /\ UNCHANGED Stopped
      BY <1>0, <1>5 DEF ReadWouldBlock, memory, epoll, world, Stopped
    <2> QED BY <2>1, ServiceStutter DEF Links, Shown, Link, Unsent, NoLink
  <1>6. CASE ReadEnd
    <2> DEFINE k == [c EXCEPT !.state = "CLOSE"]
    <2>1. /\ conn' = [conn EXCEPT ![cur] = k] /\ pc' = "cleanup" /\ sock' = sock
          /\ cur' = cur /\ heap' = heap /\ open' = open /\ data_ptr' = data_ptr
      BY <1>1, <1>6 DEF ReadEnd, world, epoll
    <2>2. k.send_len = c.send_len /\ k.send_done = c.send_done
      BY <1>1 DEF Conn
    <2> HIDE DEF k
    <2>3. View(k, t) = View(c, t)
      BY <2>2 DEF View, Due, Unsent
    <2>4. pc' \in Control /\ ~Stopped'
      BY <2>1 DEF Control, Stopped
    <2> QED BY <1>0, <1>1, <2>1, <2>3, <2>4, CurrentStutter DEF t
  <1> QED BY <1>3, <1>4, <1>5, <1>6 DEF DoRead

LEMMA WriteServed == IInv /\ DoWrite => [Service!Next]_(Service!vars)
  <1> SUFFICES ASSUME IInv, DoWrite PROVE [Service!Next]_(Service!vars)
    OBVIOUS
  <1>0. Handling /\ pc = "do_write" /\ ~Stopped
    BY DEF DoWrite, WriteWouldBlock, WriteError, WriteKilled, WriteDone, WriteData, Handling,
           Stopped
  <1> DEFINE t == sock[c.fd]
  <1>1. /\ c \in Conn /\ t \in LooseSocket /\ socket = t
        /\ sock = [sock EXCEPT ![c.fd] = t] /\ conn = [conn EXCEPT ![cur] = c]
        /\ Data(c, t) /\ Mode(c, t, interest[c.fd], "do_write")
        /\ cur \in heap /\ c.fd \in Fds
    BY <1>0, ModeCurrent DEF IInv
  <1> HIDE DEF t
  <1>2. c.state = "WRITE" /\ c.send_len > 0
    BY <1>1 DEF Mode, Sending
  <1>3. CASE WriteWouldBlock
    <2>1. UNCHANGED <<open, sock, conn, data_ptr>> /\ UNCHANGED Stopped
      BY <1>0, <1>3 DEF WriteWouldBlock, memory, world, Stopped
    <2> QED BY <2>1, ServiceStutter DEF Links, Shown, Link, Unsent, NoLink
  <1>4. CASE WriteKilled
    <2>1. UNCHANGED <<open, sock, conn, data_ptr>> /\ Stopped'
      BY <1>4 DEF WriteKilled, memory, epoll, world, Stopped
    <2>2. UNCHANGED Links
      BY <2>1 DEF Links, Shown, Link, Unsent, NoLink
    <2> QED BY <1>0, <2>1, <2>2, ServiceStop
  <1>5. CASE WriteError
    <2> DEFINE k == [c EXCEPT !.state = "CLOSE"]
    <2>1. /\ conn' = [conn EXCEPT ![cur] = k] /\ pc' = "cleanup" /\ sock' = sock
          /\ cur' = cur /\ heap' = heap /\ open' = open /\ data_ptr' = data_ptr
      BY <1>1, <1>5 DEF WriteError, world
    <2>2. k.send_len = c.send_len /\ k.send_done = c.send_done
      BY <1>1 DEF Conn
    <2> HIDE DEF k
    <2>3. View(k, t) = View(c, t)
      BY <2>2 DEF View, Due, Unsent
    <2>4. pc' \in Control /\ ~Stopped'
      BY <2>1 DEF Control, Stopped
    <2> QED BY <1>0, <1>1, <2>1, <2>3, <2>4, CurrentStutter DEF t
  <1>6. CASE WriteDone
    <2> DEFINE k == [c EXCEPT !.recv_len = 0, !.send_len = 0, !.send_done = 0, !.state = "READ"]
    <2>1. /\ conn' = [conn EXCEPT ![cur] = k] /\ pc' = "dispatch" /\ sock' = sock
          /\ cur' = cur /\ heap' = heap /\ open' = open /\ data_ptr' = data_ptr
          /\ c.send_done >= c.send_len
      BY <1>1, <1>6 DEF WriteDone, world
    <2>2. k.send_len = 0
      BY <1>1 DEF Conn
    <2> HIDE DEF k
    <2>3. Unsent(c) = 0 /\ Len(t.out) \in Nat
      BY <1>1, <2>1 DEF Unsent, Data, Conn, LooseSocket
    <2>4. Due(k, t) = Due(c, t)
      BY <2>2, <2>3 DEF Due
    <2>5. View(k, t) = View(c, t)
      BY <2>4 DEF View
    <2>6. pc' \in Control /\ ~Stopped'
      BY <2>1 DEF Control, Stopped
    <2> QED BY <1>0, <1>1, <2>1, <2>5, <2>6, CurrentStutter DEF t
  <1>7. ASSUME NEW n \in 1 .. BUF_SIZE, WriteData(n) PROVE [Service!Next]_(Service!vars)
    <2> DEFINE bytes == [i \in 1 .. n |-> c.send_buf[c.send_done + i - 1]]
               k == [c EXCEPT !.send_done = @ + n]
               u == AfterWrite(t, bytes)
    <2>1. /\ conn' = [conn EXCEPT ![cur] = k] /\ sock' = [sock EXCEPT ![c.fd] = u]
          /\ cur' = cur /\ heap' = heap /\ open' = open /\ data_ptr' = data_ptr /\ pc' = pc
          /\ n <= Unsent(c) /\ c.send_done < c.send_len /\ t.err = "none"
      BY <1>1, <1>7 DEF WriteData, epoll, t, CanWrite
    <2>2. /\ k.fd = c.fd /\ k.send_len = c.send_len /\ k.send_done = c.send_done + n
      BY <1>1 DEF Conn
    <2>3. /\ u.sent = t.sent /\ u.nl = t.nl /\ u.nread = t.nread /\ u.fin = t.fin
          /\ u.err = t.err
      BY <1>1 DEF AfterWrite, LooseSocket
    <2> HIDE DEF bytes, k, u
    <2>4. Data(k, u) /\ u \in LooseSocket
      <3>1. DataInv' /\ Structure'
        BY DataDoWrite, DoWriteStep, DataGivesBounds DEF IInv
      <3>2. PICK q \in heap, f \in Fds : q = cur /\ f = c.fd
        BY <1>1
      <3>3. conn'[q] = k /\ sock'[f] = u
        BY <2>1, <3>2 DEF IInv, Structure, Typing
      <3>4. Data(conn'[q], sock'[conn'[q].fd])
        BY <2>1, <3>1 DEF DataInv
      <3>5. sock'[f] \in LooseSocket
        BY <3>1 DEF Structure, Typing
      <3> QED BY <2>2, <3>2, <3>3, <3>4, <3>5
    <2>5. /\ Len(t.out) \in Nat /\ Len(u.out) \in Nat
          /\ c.send_len \in Nat /\ c.send_done \in Nat /\ n \in Nat \ {0}
      BY <1>1, <2>4 DEF LooseSocket, Conn
    <2>6. Unsent(k) = Unsent(c) - n /\ Unsent(c) \in Nat
      BY <2>1, <2>2, <2>5 DEF Unsent
    <2>7. Len(u.out) + Unsent(k) = Len(t.out) + Unsent(c)
      BY <1>1, <1>2, <2>2, <2>3, <2>4 DEF Data, Pending
    <2>8. Due(k, u) = Due(c, t) /\ Due(c, t) = Len(t.out) + Unsent(c)
      BY <1>2, <2>2, <2>7 DEF Due
    <2>9. Len(u.out) \in Len(t.out) + 1 .. Due(c, t)
      BY <2>1, <2>5, <2>6, <2>7, <2>8
    <2>10. PICK f \in Fds : /\ Shown(f) = View(c, t) /\ Shown(f)' = View(k, u)
                            /\ \A g \in Fds \ {f} : Shown(g)' = Shown(g)
      BY <1>0, <2>1, CurrentShown DEF t
    <2>11. ~Stopped'
      BY <1>0, <2>1 DEF Stopped
    <2>12. Service!Next
      BY <1>0, <2>1, <2>3, <2>4, <2>8, <2>9, <2>10, <2>11, ServiceEchoes
    <2> QED BY <2>12
  <1> QED BY <1>3, <1>4, <1>5, <1>6, <1>7 DEF DoWrite

LEMMA CleanupServed == IInv /\ Cleanup => Service!Next
  <1> SUFFICES ASSUME IInv, Cleanup PROVE Service!Next
    OBVIOUS
  <1>0. Handling /\ pc = "cleanup" /\ ~Stopped /\ ~Stopped'
    BY DEF Cleanup, Handling, Stopped
  <1>1. PICK q \in heap, f \in Fds, k \in Conn, t \in LooseSocket :
          /\ q = cur /\ f = c.fd /\ k = c /\ t = sock[f]
          /\ Data(k, t) /\ Mode(k, t, interest[f], "cleanup")
          /\ conn[q] = k /\ k.fd = f
    BY <1>0, ModeCurrent DEF IInv
  <1>2. f \in open /\ data_ptr[f] = q
    BY <1>1 DEF IInv, Structure, Owners
  <1>3. Shown(f) = View(k, t)
    BY <1>1, <1>2 DEF Shown, Link, View, Face, Due, Ending
  <1>4. open' = open \ {f}
    BY <1>1 DEF Cleanup
  <1>5. Shown(f)' = NoLink
    BY <1>4 DEF Shown, NoLink
  <1>6. ASSUME NEW g \in Fds \ {f} PROVE Shown(g)' = Shown(g)
    <2>1. CASE g \notin open
      BY <1>4, <2>1 DEF Shown, NoLink
    <2>2. CASE g \in open
      <3>1. data_ptr[g] \in heap /\ data_ptr[g] # q /\ heap \subseteq Ptrs
        BY <1>1, <1>6, <2>2 DEF IInv, Structure, Typing, Owners
      <3>2. data_ptr'[g] = data_ptr[g] /\ sock'[g] = sock[g]
        BY <1>1, <1>6 DEF Cleanup, IInv, Structure, Typing
      <3>3. conn'[data_ptr[g]] = conn[data_ptr[g]]
        BY <1>1, <3>1 DEF Cleanup, IInv, Structure, Typing
      <3> QED BY <1>4, <1>6, <2>2, <3>2, <3>3 DEF Shown, Link, Unsent
    <2> QED BY <2>1, <2>2
  <1>7. Ended(k, t) /\ t.nl \subseteq 1 .. t.sent
    BY <1>1 DEF Mode
  <1> QED BY <1>0, <1>1, <1>3, <1>5, <1>6, <1>7, ServiceCloses

LEMMA DispatchServed == IInv /\ Dispatch => [Service!Next]_(Service!vars)
  <1> SUFFICES ASSUME IInv, Dispatch PROVE [Service!Next]_(Service!vars)
    OBVIOUS
  <1>0. pc = "dispatch" /\ ~Handling /\ ~Stopped
    BY DEF Dispatch, BatchDone, AcceptFails, AcceptClient, Accepted, AcceptWithoutMemory,
           HandleListen, HandleConn, Handling, Stopped
  <1>1. CASE BatchDone \/ AcceptFails
    <2>1. UNCHANGED <<open, sock, conn, data_ptr>> /\ UNCHANGED Stopped
      BY <1>0, <1>1 DEF BatchDone, AcceptFails, HandleListen, memory, epoll, world, Stopped
    <2> QED BY <2>1, ServiceStutter DEF Links, Shown, Link, Unsent, NoLink
  <1>2. CASE AcceptWithoutMemory
    <2>1. UNCHANGED <<open, sock, conn, data_ptr>> /\ Stopped'
      BY <1>2 DEF AcceptWithoutMemory, memory, epoll, world, Stopped
    <2>2. UNCHANGED Links
      BY <2>1 DEF Links, Shown, Link, Unsent, NoLink
    <2> QED BY <1>0, <2>1, <2>2, ServiceStop
  <1>3. ASSUME NEW f \in Fds, NEW p \in Ptrs \ heap, Accepted(f),
               conn' = [conn EXCEPT ![p] = [Zeroed EXCEPT !.fd = f, !.state = "READ"]],
               data_ptr' = [data_ptr EXCEPT ![f] = p], pc' = pc
        PROVE  Service!Next
    <2>1. PICK new : new = [Zeroed EXCEPT !.fd = f, !.state = "READ"]
      OBVIOUS
    <2>2. new.send_len = 0
      BY <2>1 DEF Zeroed
    <2>3. f \notin open /\ open' = open \cup {f}
      BY <1>3 DEF Accepted
    <2>4. /\ conn'[p] = new /\ \A q \in Ptrs \ {p} : conn'[q] = conn[q]
          /\ data_ptr'[f] = p /\ \A g \in Fds \ {f} : data_ptr'[g] = data_ptr[g]
          /\ sock'[f] = NewSocket /\ \A g \in Fds \ {f} : sock'[g] = sock[g]
      BY <1>3, <2>1 DEF Accepted, IInv, Structure, Typing
    <2>5. Shown(f) = NoLink
      BY <2>3 DEF Shown
    <2>6. Shown(f)' = View(new, NewSocket)
      BY <2>3, <2>4 DEF Shown, Link, Unsent, View, Face, Due, Ending
    <2>7. ASSUME NEW g \in Fds \ {f} PROVE Shown(g)' = Shown(g)
      <3>1. CASE g \notin open
        BY <2>3, <2>7, <3>1 DEF Shown, NoLink
      <3>2. CASE g \in open
        <4>1. data_ptr[g] \in Ptrs \ {p}
          BY <1>3, <3>2 DEF IInv, Structure, Typing, Owners
        <4> QED BY <2>3, <2>4, <2>7, <3>2, <4>1 DEF Shown, Link, Unsent
      <3> QED BY <3>1, <3>2
    <2>8. ~Stopped'
      BY <1>0, <1>3 DEF Stopped
    <2> QED BY <1>0, <2>2, <2>5, <2>6, <2>7, <2>8, ServiceConnects
  <1>4. CASE AcceptClient
    BY <1>3, <1>4 DEF AcceptClient
  <1>5. ASSUME NEW p \in Ptrs, HandleConn(p) PROVE [Service!Next]_(Service!vars)
    <2>1. /\ p \in heap /\ UNCHANGED <<open, sock, data_ptr>> /\ conn[p] \in Conn
          /\ conn \in [Ptrs -> Conn]
      BY <1>5 DEF HandleConn, world, epoll, IInv, Structure, Typing, Owners
    <2>2. Mode(conn[p], sock[conn[p].fd], interest[conn[p].fd], "asleep")
      BY <1>0, <2>1 DEF IInv, ModeInv, Place
    <2>3. conn[p].state \in {"READ", "WRITE"}
      BY <2>1, <2>2 DEF Mode, Conn
    <2>4. conn' = conn /\ pc' \in {"do_read", "do_write"}
      <3>1. CASE conn[p].state = "READ"
        BY <1>5, <2>1, <3>1 DEF HandleConn
      <3>2. CASE conn[p].state = "WRITE"
        <4>1. PrepareSend(conn[p]) = conn[p]
          BY <2>1, <2>2, <3>2 DEF Mode, Sending, PrepareSend, Conn
        <4>2. conn = [conn EXCEPT ![p] = conn[p]]
          BY <2>1
        <4> QED BY <1>5, <3>2, <4>1, <4>2 DEF HandleConn
      <3> QED BY <2>3, <3>1, <3>2
    <2>5. UNCHANGED Stopped
      BY <1>0, <2>4 DEF Stopped
    <2> QED BY <2>1, <2>4, <2>5, ServiceStutter DEF Links, Shown, Link, Unsent, NoLink
  <1> QED BY <1>1, <1>2, <1>4, <1>5 DEF Dispatch

LEMMA LoopServed ==
  ASSUME LoopTest \/ EpollTimeout \/ (\E b \in SUBSET ReadyEvents : EpollReturns(b)) \/ Sigint
  PROVE  [Service!Next]_(Service!vars)
  <1>1. UNCHANGED <<open, sock, conn, data_ptr>> /\ ~Stopped
    BY DEF LoopTest, EpollTimeout, EpollReturns, Sigint, memory, epoll, world, Stopped
  <1>2. UNCHANGED Links
    BY <1>1 DEF Links, Shown, Link, Unsent, NoLink
  <1>3. CASE Stopped'
    BY <1>1, <1>2, <1>3, ServiceStop
  <1>4. CASE ~Stopped'
    <2>1. UNCHANGED Stopped
      BY <1>1, <1>4 DEF Stopped
    <2> QED BY <1>2, <2>1, ServiceStutter
  <1> QED BY <1>3, <1>4

LEMMA ServiceStep == IInv /\ [Next]_vars => [Service!Next]_(Service!vars)
  <1> SUFFICES ASSUME IInv, [Next]_vars PROVE [Service!Next]_(Service!vars)
    OBVIOUS
  <1>1. CASE LoopTest \/ EpollTimeout \/ (\E b \in SUBSET ReadyEvents : EpollReturns(b)) \/ Sigint
    BY <1>1, LoopServed
  <1>2. CASE Dispatch \/ DoRead \/ DoWrite \/ Cleanup \/ Peers
    BY <1>2, DispatchServed, ReadServed, WriteServed, CleanupServed, PeersServed
  <1>3. CASE UNCHANGED vars
    <2>1. UNCHANGED <<open, sock, conn, data_ptr>> /\ UNCHANGED Stopped
      BY <1>3 DEF vars, server, world, memory, epoll, Stopped
    <2> QED BY <2>1, ServiceStutter DEF Links, Shown, Link, Unsent, NoLink
  <1> QED BY <1>1, <1>2, <1>3 DEF Next, Server, Halted

\* The server implements the service: whatever is read and written in pieces,
\* in whatever order descriptors are handled, closed and reused, every step is
\* one step of the service for one peer, or none.
THEOREM ServerImplementsService == Spec => Service!Safety
  <1>1. Init => Service!Init
    BY ServiceInit
  <1>2. IInv /\ [Next]_vars => [Service!Next]_(Service!vars)
    BY ServiceStep
  <1> QED BY <1>1, <1>2, ServiceInvariance, PTL DEF Spec, Service!Safety
===============================================================================
