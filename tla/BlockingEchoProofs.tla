------------------------- MODULE BlockingEchoProofs --------------------------
(***************************************************************************)
(* Proofs about BlockingEcho, for any clients, each of the three servers   *)
(* and both client programs, and buffers of every size: partial reads and  *)
(* writes on either side neither lose, repeat nor reorder a byte.          *)
(***************************************************************************)
EXTENDS BlockingEcho, ByteStreamProofs

Control ==
    /\ program \in ServerPrograms /\ runs \in [Clients -> ClientPrograms]
    /\ server \in {"test", "accept", "read", "write", "exit", "SIGPIPE"}
    /\ serving \in Clients \cup {NoOne}
    /\ server \in {"read", "write", "SIGPIPE"} => serving # NoOne
    /\ server \in {"test", "accept"} => serving = NoOne
    /\ keep_running \in BOOLEAN
    /\ backlog \in Seq(Clients)

\* The server holds bytes only between a read and the last write of its answer.
Answer ==
    /\ sbuf \in Seq(Bytes) /\ Len(sbuf) <= BUF_SIZE /\ (server = "write" => sbuf # << >>)
    /\ server \in {"test", "accept", "read"} => sbuf = << >>

\* A connection breaks only when its client has closed it.
Users ==
    /\ client \in [Clients -> {"start", "fgets", "read", "closed"}]
    /\ need \in [Clients -> 0 .. BUF_SIZE - 1]
    /\ err \in [Clients -> {"none", "ECONNRESET", "EPIPE"}]
    /\ \A c \in Clients : err[c] # "none" => client[c] = "closed"

Bytestreams ==
    /\ sent \in [Clients -> Bytes] /\ nl \in [Clients -> SUBSET (1 .. MaxBytes)]
    /\ recv \in [Clients -> Seq(Bytes)] /\ up \in [Clients -> Seq(Bytes)]
    /\ down \in [Clients -> Seq(Bytes)]
    /\ \A c \in Clients : Len(down[c]) <= SockBuf

Types == Control /\ Answer /\ Users /\ Bytestreams
Inv == Types /\ NothingLostOnTheWay

\* All that a client sent is on its path, once and in order.
Whole(c) == InOrder(Path(c)) /\ Own(Path(c)) = 1 .. sent[c]

LEMMA Constants ==
  /\ BUF_SIZE \in Nat /\ BUF_SIZE >= 2 /\ SockBuf \in Nat /\ MaxBytes \in Nat
  /\ NoOne \notin Clients
  /\ Bytes \subseteq Int /\ Bytes \in SUBSET Int /\ Inserted \in Bytes /\ << >> \in Seq(Bytes)
  BY BlockingAssumption DEF BlockingAssumption, Bytes, Inserted

LEMMA InvInit == Init => Inv
  <1> SUFFICES ASSUME Init PROVE Inv
    OBVIOUS
  <1>1. Control
    BY DEF Init, Control, FirstCall
  <1>2. Answer
    BY Constants DEF Init, Answer, FirstCall
  <1>3. Users
    BY Constants DEF Init, Users
  <1>4. Bytestreams
    <2>1. 0 \in Bytes
      BY Constants DEF Bytes
    <2>2. Len(<< >>) <= SockBuf
      BY Constants
    <2> QED BY <2>1, <2>2, Constants DEF Init, Bytestreams
  <1>5. NothingLostOnTheWay
    <2> SUFFICES ASSUME NEW c \in Clients PROVE Whole(c)
      BY DEF NothingLostOnTheWay, Whole
    <2>1. recv[c] = << >> /\ down[c] = << >> /\ Held(c) = << >> /\ up[c] = << >> /\ sent[c] = 0
      BY DEF Init, Held
    <2>2. Path(c) = << >>
      BY <2>1, Constants, ConcatEmptySeq DEF Path
    <2>3. 1 .. sent[c] = {}
      BY <2>1
    <2> QED BY <2>2, <2>3, EmptyStream DEF Whole
  <1> QED BY <1>1, <1>2, <1>3, <1>4, <1>5 DEF Inv, Types

-------------------------------------------------------------------------------
(* Steps that move no byte of an open connection. *)

LEMMA QuietStep ==
  ASSUME Inv, Types',
         \A c \in Clients :
             client'[c] # "closed" =>
               /\ client[c] # "closed" /\ Held(c)' = Held(c)
               /\ recv'[c] = recv[c] /\ down'[c] = down[c] /\ up'[c] = up[c] /\ sent'[c] = sent[c]
  PROVE  Inv'
  <1>1. ASSUME NEW c \in Clients, client'[c] # "closed"
        PROVE  InOrder(Path(c))' /\ (Own(Path(c)) = 1 .. sent[c])'
    <2>1. client[c] # "closed" /\ Path(c)' = Path(c) /\ sent'[c] = sent[c]
      BY <1>1 DEF Path
    <2> QED BY <2>1 DEF Inv, NothingLostOnTheWay
  <1>2. NothingLostOnTheWay'
    BY <1>1 DEF NothingLostOnTheWay
  <1> QED BY <1>2 DEF Inv

LEMMA LoopStep ==
  ASSUME Inv, LoopTest \/ Accept \/ AcceptFails \/ ServerKilled \/ Sigint \/ UNCHANGED vars
  PROVE  Inv'
  <1> USE DEF connection, programs
  <1>1. UNCHANGED <<programs, client, need, recv, connection, down, err, sbuf>>
    BY DEF LoopTest, Accept, AcceptFails, ServerKilled, Sigint, vars
  <1>2. Control'
    <2>1. CASE Accept
      <3>1. Head(backlog) \in Clients /\ Tail(backlog) \in Seq(Clients)
        BY <2>1, HeadTailProperties DEF Accept, Inv, Types, Control
      <3>2. /\ UNCHANGED <<program, runs, keep_running>>
            /\ serving' = Head(backlog) /\ backlog' = Tail(backlog) /\ server' = "read"
        BY <2>1 DEF Accept
      <3> QED BY <3>1, <3>2, Constants DEF Inv, Types, Control
    <2>2. CASE LoopTest \/ AcceptFails \/ ServerKilled \/ Sigint \/ UNCHANGED vars
      BY <2>2 DEF LoopTest, AcceptFails, ServerKilled, Sigint, vars, Inv, Types, Control, Stopped
    <2> QED BY <2>1, <2>2
  <1>3. Answer'
    BY <1>1 DEF LoopTest, Accept, AcceptFails, ServerKilled, Sigint, vars, Inv, Types, Answer,
                Stopped
  <1>4. Users' /\ Bytestreams'
    BY <1>1 DEF Inv, Types, Users, Bytestreams
  <1>5. \A c \in Clients : Held(c)' = Held(c)
    <2>1. CASE Accept
      BY <1>1, <2>1 DEF Accept, Held, Inv, Types, Answer
    <2>2. CASE LoopTest \/ AcceptFails \/ ServerKilled \/ Sigint \/ UNCHANGED vars
      BY <1>1, <2>2 DEF LoopTest, AcceptFails, ServerKilled, Sigint, vars, Held
    <2> QED BY <2>1, <2>2
  <1> QED BY <1>1, <1>2, <1>3, <1>4, <1>5, QuietStep DEF Types

\* The server is done with a client only when the client has closed.
LEMMA CloseClientStep ==
  ASSUME Inv, ServerReadEnds \/ ServerWriteFails
  PROVE  Inv'
  <1> USE DEF connection, programs
  <1>1. /\ UNCHANGED <<program, runs, keep_running, backlog, client, need, recv, connection, down, err>>
        /\ serving' = NoOne /\ sbuf' = << >> /\ server' \in {"exit", "test"}
    BY DEF ServerReadEnds, ServerWriteFails, CloseClient
  <1>2. serving \in Clients /\ client[serving] = "closed"
    BY DEF ServerReadEnds, ServerWriteFails, Inv, Types, Control, Users
  <1>3. Types'
    <2>1. Len(<< >>) <= BUF_SIZE
      BY Constants
    <2> QED BY <1>1, <2>1, Constants DEF Inv, Types, Control, Answer, Users, Bytestreams
  <1>4. \A c \in Clients : client[c] # "closed" => Held(c)' = Held(c)
    BY <1>1, <1>2, Constants DEF Held
  <1> QED BY <1>1, <1>3, <1>4, QuietStep

LEMMA UserStep ==
  ASSUME Inv, NEW c \in Clients,
         ClientConnects(c) \/ ClientQuits(c) \/ ClientReadEnds(c) \/ ClientWriteFails(c)
           \/ ResetAnswered(c)
  PROVE  Inv'
  <1> USE DEF connection, programs
  <1>1. /\ UNCHANGED <<program, runs, server, serving, sbuf, keep_running, need, recv, connection>>
        /\ \A d \in Clients \ {c} : client'[d] = client[d] /\ down'[d] = down[d]
        /\ \/ client'[c] = "closed"
           \/ client'[c] = "fgets" /\ client[c] \in {"start", "read"} /\ UNCHANGED <<down, err>>
    <2>1. client \in [Clients -> {"start", "fgets", "read", "closed"}] /\ down \in [Clients -> Seq(Bytes)]
      BY DEF Inv, Types, Users, Bytestreams
    <2>2. CASE ClientCloses(c)
      BY <2>1, <2>2 DEF ClientCloses
    <2>3. CASE ResetAnswered(c)
      BY <2>1, <2>3 DEF ResetAnswered
    <2>4. CASE ClientConnects(c)
      BY <2>1, <2>4 DEF ClientConnects
    <2>5. CASE ClientReadEnds(c) /\ ~ClientCloses(c)
      BY <2>1, <2>5 DEF ClientReadEnds
    <2> QED BY <2>2, <2>3, <2>4, <2>5 DEF ClientQuits, ClientReadEnds, ClientWriteFails
  <1>2. Types'
    <2>1. Control'
      <3>1. backlog' \in Seq(Clients)
        BY DEF ClientConnects, ClientQuits, ClientReadEnds, ClientWriteFails, ResetAnswered,
               ClientCloses, Inv, Types, Control
      <3> QED BY <1>1, <3>1 DEF Inv, Types, Control
    <2>2. Users'
      BY <1>1 DEF ClientConnects, ClientQuits, ClientReadEnds, ClientWriteFails, ResetAnswered,
                  ClientCloses, Inv, Types, Users
    <2>3. Bytestreams'
      <3>1. down' = down \/ down' = [down EXCEPT ![c] = << >>]
        BY DEF ClientConnects, ClientQuits, ClientReadEnds, ClientWriteFails, ResetAnswered,
               ClientCloses
      <3>2. Len(<< >>) <= SockBuf
        BY Constants
      <3> QED BY <1>1, <3>1, <3>2, Constants DEF Inv, Types, Bytestreams
    <2> QED BY <1>1, <2>1, <2>2, <2>3 DEF Inv, Types, Answer
  <1>3. \A d \in Clients : Held(d)' = Held(d)
    BY <1>1 DEF Held
  <1>4. \A d \in Clients : client'[d] # "closed" => client[d] # "closed" /\ down'[d] = down[d]
    BY <1>1
  <1> QED BY <1>1, <1>2, <1>3, <1>4, QuietStep

-------------------------------------------------------------------------------
(* Steps that move bytes along one client's path. *)

LEMMA PathStep ==
  ASSUME Inv, Types', NEW c \in Clients,
         \A d \in Clients \ {c} :
             /\ client'[d] = client[d] /\ Held(d)' = Held(d)
             /\ recv'[d] = recv[d] /\ down'[d] = down[d] /\ up'[d] = up[d] /\ sent'[d] = sent[d],
         client'[c] # "closed" => client[c] # "closed" /\ (Whole(c) => Whole(c)')
  PROVE  Inv'
  <1>1. ASSUME NEW d \in Clients, d # c, client'[d] # "closed" PROVE Whole(d)'
    <2>1. client[d] # "closed" /\ Path(d)' = Path(d) /\ sent'[d] = sent[d]
      BY <1>1 DEF Path
    <2> QED BY <2>1 DEF Inv, NothingLostOnTheWay, Whole
  <1>2. client'[c] # "closed" => Whole(c)'
    BY DEF Inv, NothingLostOnTheWay, Whole
  <1>3. NothingLostOnTheWay'
    BY <1>1, <1>2 DEF NothingLostOnTheWay, Whole
  <1> QED BY <1>3 DEF Inv

LEMMA SamePath ==
  ASSUME NEW c \in Clients, Path(c)' = Path(c), sent'[c] = sent[c], Whole(c)
  PROVE  Whole(c)'
  BY DEF Whole

LEMMA Regrouped ==
  ASSUME NEW S, NEW x \in Seq(S), NEW y \in Seq(S), NEW z \in Seq(S)
  PROVE  x \o (y \o z) \in Seq(S) /\ (x \o y) \o z = x \o (y \o z)
  BY ConcatAssociative, ConcatProperties

\* A prefix of one part of the path goes to the end of the part before it.
LEMMA Moved ==
  ASSUME NEW S, NEW a \in Seq(S), NEW b \in Seq(S), NEW n \in 0 .. Len(b)
  PROVE  (a \o SubSeq(b, 1, n)) \o SubSeq(b, n + 1, Len(b)) = a \o b
  <1> DEFINE first == SubSeq(b, 1, n)
             rest == SubSeq(b, n + 1, Len(b))
  <1>1. first \in Seq(S) /\ rest \in Seq(S) /\ b = first \o rest
    BY Split
  <1> HIDE DEF first, rest
  <1>2. (a \o first) \o rest = a \o (first \o rest)
    BY <1>1, ConcatAssociative
  <1> QED BY <1>1, <1>2 DEF first, rest

LEMMA ServerWriteStep ==
  ASSUME Inv, NEW n \in 1 .. BUF_SIZE, ServerWrite(n)
  PROVE  Inv'
  <1> USE DEF connection, programs
  <1>0. PICK c \in Clients : c = serving
    BY DEF ServerWrite, Inv, Types, Control
  <1> DEFINE part == SubSeq(sbuf, 1, n)
             rest == SubSeq(sbuf, n + 1, Len(sbuf))
             path == down[c] \o part
  <1>1. /\ UNCHANGED <<programs, server, serving, keep_running, backlog, client, need, recv, connection, err>>
        /\ server = "write" /\ n \in Nat /\ n < Len(sbuf)
        /\ n <= SockBuf - Len(down[c]) /\ sbuf \in Seq(Bytes) /\ Len(sbuf) <= BUF_SIZE
        /\ down \in [Clients -> Seq(Bytes)] /\ recv \in [Clients -> Seq(Bytes)]
        /\ up \in [Clients -> Seq(Bytes)]
    BY <1>0, Constants DEF ServerWrite, Inv, Types, Answer, Bytestreams
  <1>2. down' = [down EXCEPT ![c] = path] /\ sbuf' = rest
    BY <1>0 DEF ServerWrite
  <1>3. n \in 0 .. Len(sbuf) /\ Len(sbuf) \in Nat /\ Len(down[c]) \in Nat
    BY <1>1
  <1>4. /\ part \in Seq(Bytes) /\ rest \in Seq(Bytes)
        /\ Len(part) = n /\ Len(rest) = Len(sbuf) - n
    BY <1>1, <1>3, Split
  <1> HIDE DEF part, rest
  <1>5. path \in Seq(Bytes) /\ Len(path) = Len(down[c]) + n
    BY <1>1, <1>4, ConcatProperties
  <1> HIDE DEF path
  <1>6. Len(rest) <= BUF_SIZE /\ Len(rest) # 0 /\ Len(path) <= SockBuf
    BY <1>1, <1>3, <1>4, <1>5, Constants
  <1>7. Types'
    <2>1. rest # << >>
      BY <1>4, <1>6, EmptySeq
    <2>2. Answer'
      BY <1>1, <1>2, <1>4, <1>6, <2>1 DEF Answer
    <2>3. Bytestreams'
      BY <1>1, <1>2, <1>5, <1>6 DEF Inv, Types, Bytestreams
    <2> QED BY <1>1, <2>2, <2>3 DEF Inv, Types, Control, Users
  <1>8. Path(c)' = Path(c)
    <2>1. /\ Path(c) = ((recv[c] \o down[c]) \o sbuf) \o up[c]
          /\ Path(c)' = ((recv[c] \o path) \o rest) \o up[c]
      BY <1>0, <1>1, <1>2 DEF Path, Held
    <2>3. (down[c] \o part) \o rest = down[c] \o sbuf
      BY <1>1, <1>3, Moved DEF part, rest
    <2> DEFINE x == recv[c]
               y == down[c]
    <2>2. x \in Seq(Bytes) /\ y \in Seq(Bytes) /\ sbuf \in Seq(Bytes)
      BY <1>1
    <2> HIDE DEF x, y
    <2>4. (x \o (y \o part)) \o rest = (x \o y) \o sbuf
      <3>1. (x \o (y \o part)) \o rest = x \o ((y \o part) \o rest)
        <4>1. part \in Seq(Bytes) /\ rest \in Seq(Bytes) /\ y \o part \in Seq(Bytes)
          BY <1>4, <2>2, ConcatProperties
        <4> DEFINE yp == y \o part
        <4>2. yp \in Seq(Bytes)
          BY <4>1
        <4> HIDE DEF yp
        <4>3. (x \o yp) \o rest = x \o (yp \o rest)
          <5>1. x \in Seq(Bytes) /\ rest \in Seq(Bytes)
            BY <2>2, <4>1
          <5> QED BY <4>2, <5>1, Regrouped
        <4> QED BY <4>3 DEF yp
      <3>2. (x \o y) \o sbuf = x \o (y \o sbuf)
        BY <2>2, Regrouped
      <3> QED BY <2>3, <3>1, <3>2 DEF y
    <2> QED BY <2>1, <2>4 DEF x, y, path
  <1>9. \A d \in Clients \ {c} : Held(d)' = Held(d) /\ down'[d] = down[d]
    BY <1>0, <1>1, <1>2 DEF Held
  <1> QED BY <1>1, <1>7, <1>8, <1>9, PathStep, SamePath

LEMMA ServerAnsweredStep ==
  ASSUME Inv, ServerAnswered
  PROVE  Inv'
  <1> USE DEF connection, programs
  <1>0. PICK c \in Clients : c = serving
    BY DEF ServerAnswered, Inv, Types, Control
  <1> DEFINE path == down[c] \o sbuf
  <1>1. /\ UNCHANGED <<programs, keep_running, backlog, client, need, recv, connection, err>>
        /\ server = "write"
        /\ Len(sbuf) <= SockBuf - Len(down[c]) /\ sbuf \in Seq(Bytes)
        /\ down \in [Clients -> Seq(Bytes)] /\ recv \in [Clients -> Seq(Bytes)]
        /\ up \in [Clients -> Seq(Bytes)]
    BY <1>0 DEF ServerAnswered, Inv, Types, Answer, Bytestreams
  <1>2. /\ down' = [down EXCEPT ![c] = path] /\ sbuf' = << >>
        /\ \/ serving' = NoOne /\ server' = "test"
           \/ serving' = serving /\ server' = "read"
    BY <1>0 DEF ServerAnswered
  <1>3. path \in Seq(Bytes) /\ Len(path) <= SockBuf
    <2>1. path \in Seq(Bytes) /\ Len(path) = Len(down[c]) + Len(sbuf)
      BY <1>1, ConcatProperties
    <2>2. Len(down[c]) \in Nat /\ Len(sbuf) \in Nat
      BY <1>1
    <2> HIDE DEF path
    <2> QED BY <1>1, <2>1, <2>2, Constants
  <1>4. Types'
    <2> HIDE DEF path
    <2>1. Control'
      BY <1>1, <1>2, Constants DEF Inv, Types, Control
    <2>2. Answer'
      <3>1. Len(<< >>) <= BUF_SIZE
        BY Constants
      <3> QED BY <1>2, <3>1, Constants DEF Answer
    <2>3. Bytestreams'
      BY <1>1, <1>2, <1>3 DEF Inv, Types, Bytestreams
    <2> QED BY <1>1, <2>1, <2>2, <2>3 DEF Inv, Types, Users
  <1>5. Path(c)' = Path(c)
    <2>1. /\ Path(c) = ((recv[c] \o down[c]) \o sbuf) \o up[c]
          /\ Path(c)' = ((recv[c] \o path) \o << >>) \o up[c]
      BY <1>0, <1>1, <1>2 DEF Path, Held
    <2> DEFINE x == recv[c]
               y == down[c]
    <2>2. x \in Seq(Bytes) /\ y \in Seq(Bytes) /\ sbuf \in Seq(Bytes)
      BY <1>1
    <2> HIDE DEF x, y
    <2>4. (x \o (y \o sbuf)) \o << >> = (x \o y) \o sbuf
      <3>1. x \o (y \o sbuf) \in Seq(Bytes) /\ (x \o y) \o sbuf = x \o (y \o sbuf)
        BY <2>2, Regrouped
      <3> QED BY <3>1, ConcatEmptySeq
    <2> QED BY <2>1, <2>4 DEF x, y, path
  <1>6. \A d \in Clients \ {c} : Held(d)' = Held(d) /\ down'[d] = down[d]
    BY <1>0, <1>1, <1>2, Constants DEF Held
  <1> QED BY <1>1, <1>4, <1>5, <1>6, PathStep, SamePath

LEMMA ClientReadsStep ==
  ASSUME Inv, NEW c \in Clients, NEW n \in 1 .. BUF_SIZE, ClientReads(c, n)
  PROVE  Inv'
  <1> USE DEF connection, programs
  <1> DEFINE part == SubSeq(down[c], 1, n)
             rest == SubSeq(down[c], n + 1, Len(down[c]))
             got == recv[c] \o part
             left == need[c] - n
  <1>1. /\ UNCHANGED <<programs, server, serving, sbuf, keep_running, backlog, connection, err>>
        /\ client[c] = "read" /\ n \in Nat /\ n <= need[c] /\ n <= Len(down[c])
        /\ need \in [Clients -> 0 .. BUF_SIZE - 1]
        /\ down \in [Clients -> Seq(Bytes)] /\ recv \in [Clients -> Seq(Bytes)]
        /\ up \in [Clients -> Seq(Bytes)] /\ Held(c) \in Seq(Bytes)
        /\ Len(down[c]) <= SockBuf
    BY Constants DEF ClientReads, Inv, Types, Answer, Users, Bytestreams, Held
  <1>2. /\ recv' = [recv EXCEPT ![c] = got] /\ down' = [down EXCEPT ![c] = rest]
        /\ need' = [need EXCEPT ![c] = left]
        /\ client' = [client EXCEPT ![c] = IF n = need[c] \/ runs[c] = "echo-client"
                                             THEN "fgets" ELSE "read"]
    BY DEF ClientReads
  <1>3. n \in 0 .. Len(down[c]) /\ Len(down[c]) \in Nat /\ left \in 0 .. BUF_SIZE - 1
    BY <1>1, Constants
  <1> HIDE DEF left
  <1>4. /\ part \in Seq(Bytes) /\ rest \in Seq(Bytes) /\ Len(rest) = Len(down[c]) - n
    BY <1>1, <1>3, Split
  <1>5. got \o rest = recv[c] \o down[c]
    <2>1. recv[c] \in Seq(Bytes) /\ down[c] \in Seq(Bytes)
      BY <1>1
    <2> QED BY <1>3, <2>1, Moved
  <1> HIDE DEF part, rest
  <1>6. got \in Seq(Bytes) /\ Len(rest) <= SockBuf
    BY <1>1, <1>3, <1>4, Constants
  <1> HIDE DEF got
  <1>7. Types'
    <2>1. Users'
      <3>1. \A d \in Clients : client'[d] = "closed" <=> client[d] = "closed"
        BY <1>1, <1>2 DEF Inv, Types, Users
      <3> QED BY <1>1, <1>2, <1>3, <3>1 DEF Inv, Types, Users
    <2>2. Bytestreams'
      BY <1>1, <1>2, <1>4, <1>6 DEF Inv, Types, Bytestreams
    <2> QED BY <1>1, <2>1, <2>2 DEF Inv, Types, Control, Answer
  <1>8. Path(c)' = Path(c)
    <2>1. Held(c)' = Held(c)
      BY <1>1 DEF Held
    <2>2. Path(c)' = ((got \o rest) \o Held(c)) \o up[c]
      BY <1>1, <1>2, <2>1 DEF Path
    <2> QED BY <1>5, <2>2 DEF Path
  <1>9. \A d \in Clients \ {c} : /\ client'[d] = client[d] /\ Held(d)' = Held(d)
                                 /\ recv'[d] = recv[d] /\ down'[d] = down[d]
    BY <1>1, <1>2 DEF Held, Inv, Types, Users
  <1> QED BY <1>1, <1>7, <1>8, <1>9, PathStep, SamePath

\* An inserted newline changes nothing of a client's own bytes.
LEMMA EchoIs ==
  ASSUME NEW c, NEW chunk \in Seq(Bytes), Len(chunk) \in 1 .. BUF_SIZE - 1
  PROVE  LET e == Echo(c, chunk)
         IN  /\ e \in Seq(Bytes) /\ Len(e) <= BUF_SIZE /\ e # << >>
             /\ Own(e) = Own(chunk) /\ (InOrder(chunk) => InOrder(e))
  <1>1. Len(chunk) <= BUF_SIZE /\ Len(chunk) + 1 <= BUF_SIZE /\ Len(chunk) # 0
    BY Constants
  <1>2. CASE Echo(c, chunk) = chunk
    BY <1>1, <1>2, EmptySeq
  <1>3. CASE Echo(c, chunk) # chunk
    <2> DEFINE newline == <<Inserted>>
    <2>1. Echo(c, chunk) = chunk \o newline
      BY <1>3, AppendIsConcat, Constants DEF Echo
    <2>2. /\ newline \in Seq(Bytes) /\ Own(newline) = {} /\ InOrder(newline)
          /\ Len(newline) = 1
      BY Constants DEF Own, Range, InOrder, Inserted
    <2> HIDE DEF newline
    <2>3. chunk \o newline \in Seq(Bytes) /\ Len(chunk \o newline) = Len(chunk) + 1
      BY <2>2, ConcatProperties
    <2>4. Own(chunk \o newline) = Own(chunk)
      <3>1. Own(chunk \o newline) = Own(chunk) \cup Own(newline)
        BY <2>2, Constants, OwnConcat
      <3> QED BY <2>2, <3>1
    <2>5. InOrder(chunk) => InOrder(chunk \o newline)
      <3>1. Before(chunk, newline)
        BY <2>2 DEF Before
      <3> QED BY <2>2, <3>1, Constants, InOrderConcat
    <2>6. chunk \o newline # << >>
      <3>1. Len(chunk \o newline) # 0
        BY <1>1, <2>3
      <3> QED BY <2>3, <3>1, EmptySeq
    <2> QED BY <1>1, <2>1, <2>3, <2>4, <2>5, <2>6
  <1> QED BY <1>2, <1>3

LEMMA ServerReadStep ==
  ASSUME Inv, NEW n \in 1 .. BUF_SIZE - 1, ServerRead(n)
  PROVE  Inv'
  <1> USE DEF connection, programs
  <1>0. PICK c \in Clients : c = serving
    BY DEF ServerRead, Inv, Types, Control
  <1> DEFINE u == up[c]
             chunk == SubSeq(u, 1, n)
             rest == SubSeq(u, n + 1, Len(u))
             e == Echo(c, chunk)
  <1>1. /\ UNCHANGED <<programs, serving, keep_running, backlog, client, need, sent, nl, recv, down, err>>
        /\ server = "read" /\ server' = "write" /\ n \in Nat /\ n <= Len(u) /\ sbuf = << >>
        /\ down \in [Clients -> Seq(Bytes)] /\ recv \in [Clients -> Seq(Bytes)]
        /\ up \in [Clients -> Seq(Bytes)] /\ u \in Seq(Bytes)
    BY <1>0, Constants DEF ServerRead, Inv, Types, Answer, Bytestreams
  <1>2. up' = [up EXCEPT ![c] = rest] /\ sbuf' = e
    BY <1>0 DEF ServerRead
  <1>3. n \in 0 .. Len(u)
    BY <1>1
  <1>4. /\ chunk \in Seq(Bytes) /\ rest \in Seq(Bytes) /\ Len(chunk) = n /\ u = chunk \o rest
    <2> HIDE DEF u
    <2> QED BY <1>1, <1>3, Split
  <1> HIDE DEF u, chunk, rest
  <1>5. /\ e \in Seq(Bytes) /\ Len(e) <= BUF_SIZE /\ e # << >>
        /\ Own(e) = Own(chunk) /\ (InOrder(chunk) => InOrder(e))
    BY <1>4, EchoIs
  <1> HIDE DEF e
  <1>6. Types'
    <2>1. Control'
      BY <1>1 DEF Inv, Types, Control
    <2>2. Answer'
      BY <1>1, <1>2, <1>5 DEF Answer
    <2>3. Bytestreams'
      BY <1>1, <1>2, <1>4 DEF Inv, Types, Bytestreams
    <2> QED BY <1>1, <2>1, <2>2, <2>3 DEF Inv, Types, Users
  <1>7. Whole(c) => Whole(c)'
    <2> DEFINE pre == recv[c] \o down[c]
    <2>1. pre \in Seq(Bytes)
      BY <1>1, ConcatProperties
    <2>2. /\ Path(c) = (pre \o << >>) \o u
          /\ Path(c)' = (pre \o e) \o rest
      BY <1>0, <1>1, <1>2 DEF Path, Held, u
    <2> HIDE DEF pre
    <2>3. Path(c) = pre \o (chunk \o rest)
      BY <1>4, <2>1, <2>2, ConcatEmptySeq
    <2>4. InOrder(Path(c)) => /\ InOrder((pre \o e) \o rest)
                              /\ Own((pre \o e) \o rest) = Own(Path(c))
      BY <1>4, <1>5, <2>1, <2>3, Constants, Replaced
    <2> QED BY <1>1, <2>2, <2>4 DEF Whole
  <1>8. \A d \in Clients \ {c} : Held(d)' = Held(d) /\ up'[d] = up[d]
    BY <1>0, <1>1, <1>2 DEF Held
  <1> QED BY <1>1, <1>6, <1>7, <1>8, PathStep

LEMMA ClientSendsStep ==
  ASSUME Inv, NEW c \in Clients, NEW k \in 0 .. BUF_SIZE, ClientSends(c, k)
  PROVE  Inv'
  <1> USE DEF programs
  <1> DEFINE s == sent[c]
             line == [i \in 1 .. k |-> s + i]
             u == up[c] \o line
  <1>1. /\ UNCHANGED <<programs, server, serving, sbuf, keep_running, backlog, recv, down, err>>
        /\ client[c] = "fgets" /\ s + k <= MaxBytes /\ s \in Nat /\ k \in Nat
        /\ need \in [Clients -> 0 .. BUF_SIZE - 1]
        /\ down \in [Clients -> Seq(Bytes)] /\ recv \in [Clients -> Seq(Bytes)]
        /\ up \in [Clients -> Seq(Bytes)] /\ Held(c) \in Seq(Bytes)
        /\ sent \in [Clients -> Bytes]
    <2>1. s \in Nat /\ k \in Nat
      BY Constants DEF Inv, Types, Bytestreams, Bytes
    <2>2. Held(c) \in Seq(Bytes)
      BY Constants DEF Inv, Types, Answer, Held
    <2> QED BY <2>1, <2>2 DEF ClientSends, Inv, Types, Users, Bytestreams
  <1>2. /\ sent' = [sent EXCEPT ![c] = s + k] /\ up' = [up EXCEPT ![c] = u]
        /\ need' = [need EXCEPT ![c] = BUF_SIZE - 1]
        /\ client' = [client EXCEPT ![c] = "read"]
    BY DEF ClientSends
  <1>3. /\ line \in Seq(Bytes) /\ Own(line) = s + 1 .. s + k /\ InOrder(line)
    <2>1. \A i \in 1 .. k : s + i \in Bytes
      BY <1>1, Constants DEF Bytes
    <2> QED BY <1>1, <2>1, Consecutive
  <1> HIDE DEF line
  <1>4. u \in Seq(Bytes)
    BY <1>1, <1>3, ConcatProperties
  <1> HIDE DEF u
  <1>5. Types'
    <2>1. Users'
      <3>1. BUF_SIZE - 1 \in 0 .. BUF_SIZE - 1
        BY Constants
      <3>2. \A d \in Clients : client'[d] = "closed" <=> client[d] = "closed"
        BY <1>1, <1>2 DEF Inv, Types, Users
      <3> QED BY <1>1, <1>2, <3>1, <3>2 DEF Inv, Types, Users
    <2>2. Bytestreams'
      <3>1. s + k \in Bytes
        BY <1>1, Constants DEF Bytes
      <3>2. nl' \in [Clients -> SUBSET (1 .. MaxBytes)]
        <4>1. CASE k = 0
          BY <4>1 DEF ClientSends, LineLengths, Inv, Types, Bytestreams
        <4>2. CASE k # 0
          <5>1. s + k \in 1 .. MaxBytes
            BY <1>1, <4>2, Constants
          <5> QED BY <5>1 DEF ClientSends, Inv, Types, Bytestreams
        <4> QED BY <4>1, <4>2
      <3> HIDE DEF s
      <3> QED BY <1>1, <1>2, <1>4, <3>1, <3>2 DEF Inv, Types, Bytestreams
    <2> QED BY <1>1, <2>1, <2>2 DEF Inv, Types, Control, Answer
  <1>6. Whole(c) => Whole(c)'
    <2> DEFINE pre == (recv[c] \o down[c]) \o Held(c)
    <2>1. pre \in Seq(Bytes) /\ up[c] \in Seq(Bytes)
      BY <1>1, ConcatProperties
    <2>2. Held(c)' = Held(c)
      BY <1>1 DEF Held
    <2>3. Path(c) = pre \o up[c] /\ Path(c)' = pre \o u
      BY <1>1, <1>2, <2>2 DEF Path
    <2> HIDE DEF pre
    <2>4. pre \o u = Path(c) \o line /\ Path(c) \in Seq(Bytes)
      <3> DEFINE v == up[c]
      <3>1. pre \in Seq(Bytes) /\ v \in Seq(Bytes) /\ line \in Seq(Bytes)
        BY <1>3, <2>1
      <3> HIDE DEF v
      <3>2. (pre \o v) \o line = pre \o (v \o line) /\ pre \o v \in Seq(Bytes)
        BY <3>1, Regrouped, ConcatProperties
      <3> QED BY <2>3, <3>2 DEF u, v
    <2> DEFINE path == Path(c)
    <2> SUFFICES ASSUME InOrder(path), Own(path) = 1 .. s PROVE Whole(c)'
      BY DEF Whole
    <2>5. path \in Seq(Bytes)
      BY <2>4
    <2> HIDE DEF path
    <2>6. Before(path, line)
      <3> SUFFICES ASSUME NEW x \in 1 .. s, NEW y \in s + 1 .. s + k PROVE x < y
        BY <1>3 DEF Before
      <3> QED BY <1>1
    <2>7. InOrder(path \o line) /\ Own(path \o line) = (1 .. s) \cup (s + 1 .. s + k)
      <3>1. line \in Seq(Bytes)
        BY <1>3
      <3>2. Own(path \o line) = Own(path) \cup Own(line)
        BY <2>5, <3>1, Constants, OwnConcat
      <3>3. InOrder(path \o line) <=> InOrder(path) /\ InOrder(line) /\ Before(path, line)
        BY <2>5, <3>1, Constants, InOrderConcat
      <3> QED BY <1>3, <2>6, <3>2, <3>3
    <2>8. (1 .. s) \cup (s + 1 .. s + k) = 1 .. s + k
      BY <1>1
    <2>9. sent'[c] = s + k
      BY <1>1, <1>2
    <2> QED BY <2>3, <2>4, <2>7, <2>8, <2>9 DEF Whole, path
  <1>7. \A d \in Clients \ {c} : /\ client'[d] = client[d] /\ Held(d)' = Held(d)
                                 /\ sent'[d] = sent[d] /\ up'[d] = up[d]
    BY <1>1, <1>2 DEF Held, Inv, Types, Users
  <1> QED BY <1>1, <1>5, <1>6, <1>7, PathStep

-------------------------------------------------------------------------------
(* The theorems. *)

\* The invariant behind the others: the types, a server that holds bytes only
\* while it answers, connections broken by their client alone, and whole paths.
THEOREM BlockingInvariance == Spec => []Inv
  <1>1. Inv /\ [Next]_vars => Inv'
    <2> SUFFICES ASSUME Inv, [Next]_vars PROVE Inv'
      OBVIOUS
    <2>1. CASE ServerCalls
      <3>1. CASE LoopTest \/ Accept \/ ServerKilled
        BY <3>1, LoopStep
      <3>2. CASE ServerReadEnds \/ ServerWriteFails
        BY <3>2, CloseClientStep
      <3>3. CASE ServerAnswered
        BY <3>3, ServerAnsweredStep
      <3>4. CASE \E n \in 1 .. BUF_SIZE - 1 : ServerRead(n)
        BY <3>4, ServerReadStep
      <3>5. CASE \E n \in 1 .. BUF_SIZE : ServerWrite(n)
        BY <3>5, ServerWriteStep
      <3> QED BY <2>1, <3>1, <3>2, <3>3, <3>4, <3>5 DEF ServerCalls
    <2>2. CASE AcceptFails \/ Sigint \/ UNCHANGED vars
      BY <2>2, LoopStep
    <2>3. ASSUME NEW c \in Clients,
                 \/ ClientConnects(c) \/ ClientQuits(c) \/ ClientWriteFails(c) \/ ResetAnswered(c)
                 \/ ClientReturns(c)
                 \/ \E k \in 0 .. BUF_SIZE : ClientSends(c, k)
          PROVE  Inv'
      <3>1. CASE \E k \in 0 .. BUF_SIZE : ClientSends(c, k)
        BY <3>1, ClientSendsStep
      <3>2. CASE \E n \in 1 .. BUF_SIZE : ClientReads(c, n)
        BY <3>2, ClientReadsStep
      <3>3. CASE \/ ClientConnects(c) \/ ClientQuits(c) \/ ClientReadEnds(c)
                 \/ ClientWriteFails(c) \/ ResetAnswered(c)
        BY <3>3, UserStep
      <3> QED BY <2>3, <3>1, <3>2, <3>3 DEF ClientReturns
    <2> QED BY <2>1, <2>2, <2>3 DEF Next
  <1> QED BY InvInit, <1>1, PTL DEF Spec

\* Every variable keeps its type; an answer fits the buffer that holds it.
THEOREM BlockingTypeCorrect == Spec => []TypeOK
  <1>1. Inv => TypeOK
    BY DEF Inv, Types, Control, Answer, Users, Bytestreams, TypeOK
  <1> QED BY BlockingInvariance, <1>1, PTL

\* However read() and write() cut the stream, what an open client has read, what
\* is under way and what is still to be read are together what it sent.
THEOREM BlockingLosesNothing == Spec => []NothingLostOnTheWay
  <1>1. Inv => NothingLostOnTheWay
    BY DEF Inv
  <1> QED BY BlockingInvariance, <1>1, PTL
=============================================================================
