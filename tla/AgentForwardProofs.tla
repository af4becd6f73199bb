-------------------------- MODULE AgentForwardProofs --------------------------
(***************************************************************************)
(* What the proxy of TcpAgent forwards: between the right two descriptors, *)
(* in order, and all of it but what a full queue cuts off.  The hard case  *)
(* is a call of forward() with a freed pair, whose descriptors may be open *)
(* again for another connection.  It does no harm because accept           *)
(* and socket take the lowest free descriptors, two by two: numbered from  *)
(* the lowest, every pair there ever was has an even descriptor and its    *)
(* successor, so the two of a freed pair are the two of a live one or are  *)
(* both closed.                                                            *)
(***************************************************************************)
EXTENDS TcpAgentProofs, FiniteSetTheorems, ByteStreamProofs

Rank(f) == Cardinality({g \in Fds : g < f})
Next2(f, g) == f < g /\ \A h \in Fds : h <= f \/ g <= h

\* The two descriptors of one call of accept and the connect after it.
Couple(c, b) == c \in Fds /\ b \in Fds /\ Rank(c) % 2 = 0 /\ Next2(c, b)
Partners(f, g) == Couple(f, g) \/ Couple(g, f)

Couples == \A p \in Ptrs : pair[p] \in FdPair => Couple(pair[p].client_fd, pair[p].backend_fd)
Paired == \A f \in open : \E g \in open : Partners(f, g)
Owned == \A c, b \in open : Couple(c, b) =>
            owner[c][1] = "client" /\ owner[b] = Opposite(owner[c])

\* bytes are of the connection's end o, none after its m-th; they ascend; they
\* are the last ones up to the m-th.
Within(bytes, o, m) == \A i \in 1 .. Len(bytes) : bytes[i][1] = o /\ bytes[i][2] <= m
Ascending(bytes) == \A i, j \in 1 .. Len(bytes) : i < j => bytes[i][2] < bytes[j][2]
LastOf(bytes, o, m) == \A i \in 1 .. Len(bytes) : bytes[i] = <<o, m - Len(bytes) + i>>

\* forward() works on the two descriptors its pair names; what its buffer holds
\* is the last of what was read from src, which is still open.
Carrying ==
    /\ pc \in {"read", "write"} =>
          {carry.src, carry.dst} = {pair[cur].client_fd, pair[cur].backend_fd}
    /\ pc \notin {"write", "SIGPIPE"} => carry.buf = << >>
    /\ pc \in {"write", "SIGPIPE"} =>
          carry.src \in open /\ Len(carry.buf) <= sock[carry.src].nread
    /\ LastOf(carry.buf, owner[carry.src], sock[carry.src].nread)

\* Bytes read from f that are still in forward()'s buffer.
Held(f) == IF carry.src = f THEN Len(carry.buf) ELSE 0

\* What was written to g is f's, in order, and none of it is still held.
Stream(f, g) ==
    /\ Within(sock[g].out, owner[f], sock[f].nread - Held(f))
    /\ Ascending(sock[g].out)

Streams == \A f, g \in open : Partners(f, g) => Stream(f, g)

ForwardInv == Couples /\ Paired /\ Owned /\ Carrying /\ Streams

\* What each step has to show: the invariant, and that between two partners it
\* loses nothing but the rest of a write that filled the queue.
NoLoss == \A f, g : Partners(f, g) => LosesNothing(f, g)
GoodStep == ForwardInv' /\ NoLoss

-------------------------------------------------------------------------------
(* The order of descriptors. *)

LEMMA FdsAreNumbers == \A f \in Fds : f \in Nat /\ f # 0 /\ f # -1
  BY AgentAssumption DEF AgentAssumption

LEMMA RankNext ==
  ASSUME NEW f \in Fds, NEW g \in Fds, Next2(f, g)
  PROVE  Rank(f) \in Nat /\ Rank(g) = Rank(f) + 1
  <1> DEFINE below(h) == {k \in Fds : k < h}
  <1>1. IsFiniteSet(below(f))
    <2>1. below(f) \in SUBSET Nat /\ \A s \in below(f) : s <= f
      BY FdsAreNumbers
    <2> QED BY <2>1, FdsAreNumbers, FS_BoundedSetOfNaturals
  <1>2. below(g) = below(f) \cup {f}
    BY FdsAreNumbers DEF Next2
  <1>3. f \notin below(f)
    BY FdsAreNumbers
  <1>4. Rank(f) = Cardinality(below(f)) /\ Rank(g) = Cardinality(below(g))
    BY DEF Rank
  <1> HIDE DEF below
  <1> QED BY <1>1, <1>2, <1>3, <1>4, FS_AddElement, FS_CardinalityType

\* A descriptor and the next are of different parity, so two couples that share
\* one are the same.
LEMMA CouplesDisjoint ==
  ASSUME NEW c, NEW b, NEW d, NEW e, Couple(c, b), Couple(d, e)
  PROVE  c # e /\ b # d /\ (c = d <=> b = e)
  <1>1. Rank(b) % 2 = 1 /\ Rank(e) % 2 = 1
    BY RankNext DEF Couple
  <1>2. c = d => b = e
    BY FdsAreNumbers DEF Couple, Next2
  <1>3. b = e => c = d
    BY FdsAreNumbers DEF Couple, Next2
  <1> QED BY <1>1, <1>2, <1>3 DEF Couple

LEMMA NextUnique ==
  ASSUME NEW f \in Fds, NEW g \in Fds, NEW h \in Fds
  PROVE  /\ Next2(f, g) /\ Next2(f, h) => g = h
         /\ Next2(g, f) /\ Next2(h, f) => g = h
  BY FdsAreNumbers DEF Next2

\* The descriptors that accept and socket return are a couple.
LEMMA LowestAreCouple ==
  ASSUME open \subseteq Fds, Paired, NEW c \in Free, NEW b \in Free,
         Lowest(c, Free), Lowest(b, Free \ {c})
  PROVE  Couple(c, b)
  <1> USE FdsAreNumbers
  <1>1. /\ c \in Fds /\ b \in Fds /\ c \notin open /\ b \notin open
        /\ \A g \in Fds : g < c => g \in open
        /\ c < b /\ \A g \in Fds : g < b => g = c \/ g \in open
    BY DEF Free, Lowest
  <1>2. Rank(c) % 2 = 0
    <2> DEFINE S == {g \in Fds : g < c}
    <2>1. CASE S = {}
      BY <2>1, FS_EmptySet DEF Rank
    <2>2. CASE S # {}
      <3>1. S \in SUBSET Nat /\ \A g \in S : g <= c
        BY <1>1
      <3>2. PICK m \in S : \A g \in S : g <= m
        BY <1>1, <2>2, <3>1, Maximum
      <3>3. m \in Fds /\ m \in open /\ Next2(m, c)
        BY <1>1, <3>2 DEF Next2
      <3>4. PICK g \in open : Partners(m, g)
        BY <3>3 DEF Paired
      <3>5. ~Couple(m, g)
        BY <1>1, <3>3, <3>4, NextUnique DEF Couple
      <3>6. g \in Fds /\ Next2(g, m) /\ Rank(g) % 2 = 0
        BY <3>4, <3>5 DEF Partners, Couple
      <3>7. Rank(g) \in Nat /\ Rank(c) = Rank(g) + 2
        BY <1>1, <3>3, <3>6, RankNext
      <3> QED BY <3>6, <3>7
    <2> QED BY <2>1, <2>2
  <1>3. Next2(c, b)
    <2>1. ASSUME NEW h \in Fds, c < h, h < b
          PROVE  FALSE
      <3> DEFINE S == {g \in Fds : c < g}
      <3>1. S \in SUBSET Nat /\ S # {}
        BY <2>1
      <3>2. PICK m \in S : \A g \in S : m <= g
        BY <3>1, Minimum
      <3>3. m \in Fds /\ Next2(c, m) /\ m < b
        BY <1>1, <2>1, <3>2 DEF Next2
      <3>4. m \in open
        BY <1>1, <3>2, <3>3
      <3>5. PICK g \in open : Partners(m, g)
        BY <3>4 DEF Paired
      <3>6. Rank(m) % 2 = 1
        BY <1>1, <1>2, <3>3, RankNext
      <3>7. ~Couple(m, g)
        BY <3>6 DEF Couple
      <3>8. g \in Fds /\ Next2(g, m)
        BY <3>5, <3>7 DEF Partners, Couple
      <3> QED BY <1>1, <3>3, <3>8, NextUnique
    <2> QED BY <1>1, <2>1 DEF Next2
  <1> QED BY <1>1, <1>2, <1>3 DEF Couple

LEMMA PartnerUnique ==
  ASSUME NEW f, NEW g, Partners(f, g)
  PROVE  /\ f \in Fds /\ g \in Fds /\ f # g /\ Partners(g, f)
         /\ \A h : Partners(f, h) => h = g
  <1>1. f \in Fds /\ g \in Fds /\ f # g
    BY FdsAreNumbers DEF Partners, Couple, Next2
  <1>2. ASSUME NEW h, Partners(f, h) PROVE h = g
    BY <1>2, CouplesDisjoint DEF Partners
  <1> QED BY <1>1, <1>2 DEF Partners

-------------------------------------------------------------------------------
(* The initial state, and steps that move no data. *)

LEMMA ForwardInit == Init => ForwardInv
  <1> SUFFICES ASSUME Init PROVE ForwardInv
    OBVIOUS
  <1>1. Couples
    BY FdsAreNumbers DEF Init, Couples, Calloced, FdPair
  <1>2. Paired /\ Owned /\ Streams
    BY DEF Init, Paired, Owned, Streams
  <1>3. Carrying
    BY DEF Init, Carrying, LastOf, Idle
  <1> QED BY <1>1, <1>2, <1>3 DEF ForwardInv

LEMMA NothingCarried ==
  ASSUME NEW f, carry.buf = << >>
  PROVE  Held(f) = 0 /\ Carried(f) = {}
  BY DEF Held, Carried, Positions

LEMMA LostKept ==
  ASSUME NEW f, NEW g, sock'[g].out = sock[g].out, sock'[f].nread = sock[f].nread,
         Carried(f)' = Carried(f)
  PROVE  LosesNothing(f, g)
  <1>1. Lost(f, g)' = Lost(f, g)
    BY DEF Lost
  <1> QED BY <1>1 DEF LosesNothing

\* Of a descriptor that was just opened or closed nothing was read.
LEMMA LostNone ==
  ASSUME NEW f, NEW g, sock'[f] = NewSocket
  PROVE  LosesNothing(f, g)
  <1>1. 1 .. sock'[f].nread = {}
    BY DEF NewSocket
  <1>2. Lost(f, g)' = {}
    BY <1>1 DEF Lost
  <1> QED BY <1>2 DEF LosesNothing

LEMMA QuietForward ==
  ASSUME Inv, ForwardInv, UNCHANGED <<pair, open, owner>>, Carrying',
         UNCHANGED carry \/ (carry.buf = << >> /\ carry'.buf = << >>),
         \A f \in Fds : sock'[f].out = sock[f].out /\ sock'[f].nread = sock[f].nread
  PROVE  GoodStep
  <1>1. Couples' /\ Paired' /\ Owned'
    BY DEF ForwardInv, Couples, Paired, Owned
  <1>2. ASSUME NEW f PROVE Held(f)' = Held(f) /\ Carried(f)' = Carried(f)
    <2>1. CASE UNCHANGED carry
      BY <2>1 DEF Held, Carried
    <2>2. CASE carry.buf = << >> /\ carry'.buf = << >>
      <3>1. Held(f)' = 0 /\ Carried(f)' = {}
        BY <2>2 DEF Held, Carried, Positions
      <3> QED BY <2>2, <3>1, NothingCarried
    <2> QED BY <2>1, <2>2
  <1>3. Streams'
    <2> SUFFICES ASSUME NEW f \in open, NEW g \in open, Partners(f, g)
                 PROVE  Stream(f, g)'
      BY DEF Streams
    <2>1. Stream(f, g) /\ f \in Fds /\ g \in Fds
      BY PartnerUnique DEF ForwardInv, Streams
    <2>2. owner' = owner /\ sock'[g].out = sock[g].out /\ sock'[f].nread = sock[f].nread
          /\ Held(f)' = Held(f)
      BY <1>2, <2>1
    <2> HIDE DEF Held
    <2> QED BY <2>1, <2>2 DEF Stream
  <1>4. NoLoss
    <2> SUFFICES ASSUME NEW f, NEW g, Partners(f, g) PROVE LosesNothing(f, g)
      BY DEF NoLoss
    <2> QED BY <1>2, PartnerUnique, LostKept
  <1> QED BY <1>1, <1>3, <1>4 DEF ForwardInv, GoodStep

LEMMA LoopForward ==
  ASSUME Inv, ForwardInv,
         \/ LoopTest \/ EpollTimeout \/ BatchDone \/ Sigint \/ UNCHANGED vars
         \/ ForwardWriteKilled \/ ClientConnects
         \/ \E b \in SUBSET ReadyEvents : EpollReturns(b)
         \/ \E f \in open : BackendAccepts(f)
  PROVE  GoodStep
  <1> USE DEF memory, kernel, world
  <1>1. UNCHANGED <<pair, open, owner, sock, carry, cur>>
    BY DEF LoopTest, EpollTimeout, BatchDone, Sigint, vars, ForwardWriteKilled, ClientConnects,
           EpollReturns, BackendAccepts
  <1>2. \/ pc' = pc
        \/ pc \notin {"write", "SIGPIPE"} /\ pc' \notin {"read", "write", "SIGPIPE"}
        \/ pc = "write" /\ pc' = "SIGPIPE"
    BY DEF LoopTest, EpollTimeout, BatchDone, Sigint, vars, ForwardWriteKilled, ClientConnects,
           EpollReturns, BackendAccepts
  <1>3. Carrying'
    BY <1>1, <1>2 DEF ForwardInv, Carrying
  <1> QED BY <1>1, <1>3, QuietForward

\* Nothing a peer does changes what was written and read.
LEMMA PeerKeeps ==
  ASSUME NEW t \in AgentSocket,
         NEW u, \/ u = AfterSend(t, FALSE) \/ u = AfterFin(t) \/ u = AfterReset(t)
                \/ u = AfterTake(t)
  PROVE  u.out = t.out /\ u.nread = t.nread
  BY DEF AfterSend, AfterFin, AfterReset, AfterTake, AgentSocket

LEMMA PeerForward ==
  ASSUME Inv, ForwardInv, NEW f \in open,
         PeerSends(f) \/ PeerFins(f) \/ PeerResets(f) \/ PeerTakes(f)
  PROVE  GoodStep
  <1> DEFINE t == sock'[f]
  <1>1. f \in Fds /\ sock \in [Fds -> AgentSocket] /\ sock[f] \in AgentSocket
    BY DEF Inv, Kernel
  <1>2. /\ UNCHANGED <<pc, cur, carry, memory, open, owner>>
        /\ sock' = [sock EXCEPT ![f] = t]
        /\ t.out = sock[f].out /\ t.nread = sock[f].nread
    BY <1>1, PeerKeeps DEF PeerSends, PeerFins, PeerResets, PeerTakes, PeerActs
  <1> HIDE DEF t
  <1>3. \A g \in Fds : sock'[g].out = sock[g].out /\ sock'[g].nread = sock[g].nread
    BY <1>1, <1>2
  <1>4. Carrying'
    <2>1. carry.src \in open => sock'[carry.src].nread = sock[carry.src].nread
      BY <1>3 DEF Inv, Kernel
    <2>2. \A i \in 1 .. Len(carry.buf) : carry.src \in open
      BY EmptySeq DEF ForwardInv, Carrying
    <2> QED BY <1>2, <2>1, <2>2 DEF ForwardInv, Carrying, LastOf, memory
  <1> QED BY <1>2, <1>3, <1>4, QuietForward DEF memory

-------------------------------------------------------------------------------
(* A call of forward(), with a pair in use or a freed one. *)

LEMMA DispatchForward ==
  ASSUME Inv, ForwardInv, NEW e \in batch,
         \/ AcceptFails(e) \/ BackendUnavailable(e) \/ PairWithoutMemory(e)
         \/ NeitherFd(e) \/ ClientEvent(e) \/ BackendEvent(e)
  PROVE  GoodStep
  <1> USE DEF memory, kernel, world
  <1>1. UNCHANGED <<pair, open, owner, sock>> /\ pc = "dispatch" /\ carry.buf = << >>
    BY DEF AcceptFails, BackendUnavailable, PairWithoutMemory, NeitherFd, ClientEvent, BackendEvent,
           AcceptedClient, HandleListen, HandlePair, Calls, ForwardInv, Carrying
  <1>2. CASE AcceptFails(e) \/ BackendUnavailable(e) \/ PairWithoutMemory(e) \/ NeitherFd(e)
    <2>1. pc' \in {"dispatch", "SIGSEGV"} /\ UNCHANGED carry
      BY <1>1, <1>2 DEF AcceptFails, BackendUnavailable, PairWithoutMemory, NeitherFd
    <2>2. Carrying'
      BY <1>1, <2>1 DEF ForwardInv, Carrying
    <2> QED BY <1>1, <2>1, <2>2, QuietForward
  <1>3. CASE ClientEvent(e) \/ BackendEvent(e)
    <2>1. /\ pc' = "read" /\ cur' = e.data /\ carry'.buf = << >>
          /\ {carry'.src, carry'.dst} = {pair[e.data].client_fd, pair[e.data].backend_fd}
      BY <1>3 DEF ClientEvent, BackendEvent, Calls
    <2>2. Carrying'
      BY <1>1, <2>1 DEF Carrying, LastOf
    <2> QED BY <1>1, <2>1, <2>2, QuietForward
  <1> QED BY <1>2, <1>3

\* The two descriptors of a call are both of a couple, or src is no descriptor.
LEMMA CallOfCouple ==
  ASSUME Inv, ForwardInv, pc \in {"read", "write"}
  PROVE  /\ cur \in Ptrs
         /\ pair[cur] \notin FdPair => {carry.src, carry.dst} \cap Fds = {}
         /\ pair[cur] \in FdPair => Partners(carry.src, carry.dst)
  <1>1. cur \in Ptrs /\ pair[cur] \in Pair
    BY DEF Inv, Call, Memory
  <1>2. {carry.src, carry.dst} = {pair[cur].client_fd, pair[cur].backend_fd}
    BY DEF ForwardInv, Carrying
  <1>3. ASSUME pair[cur] \notin FdPair PROVE {carry.src, carry.dst} \cap Fds = {}
    BY <1>1, <1>2, <1>3, FdsAreNumbers DEF Pair, Calloced, Overwritten
  <1>4. ASSUME pair[cur] \in FdPair PROVE Partners(carry.src, carry.dst)
    <2>1. Couple(pair[cur].client_fd, pair[cur].backend_fd)
      BY <1>1, <1>4 DEF ForwardInv, Couples
    <2>2. pair[cur].client_fd # pair[cur].backend_fd
      BY <2>1, FdsAreNumbers DEF Couple, Next2
    <2> QED BY <1>2, <2>1, <2>2 DEF Partners
  <1> QED BY <1>1, <1>3, <1>4

LEMMA TypesOfSocket ==
  ASSUME NEW t \in AgentSocket
  PROVE  t.nread \in Nat /\ t.queued \in Nat /\ t.out \in Seq(Bytes)
  <1>1. t.nread \in 0 .. MaxBytes /\ t.queued \in 0 .. SndBuf /\ t.out \in Seq(Bytes)
    BY DEF AgentSocket
  <1> QED BY <1>1, SocketAssumption DEF SocketAssumption

LEMMA ReadForward ==
  ASSUME Inv, ForwardInv, NEW n \in 1 .. BUF_SIZE, ForwardRead(n)
  PROVE  GoodStep
  <1> DEFINE src == carry.src
             nread == sock[src].nread
  <1>1. /\ pc = "read" /\ src \in open /\ src \in Fds /\ carry.buf = << >>
        /\ sock \in [Fds -> AgentSocket] /\ sock[src] \in AgentSocket
        /\ n \in Nat /\ nread \in Nat
    <2>1. pc = "read" /\ src \in open /\ n \in Nat
      BY AgentAssumption DEF AgentAssumption, ForwardRead
    <2>2. src \in Fds /\ sock \in [Fds -> AgentSocket] /\ sock[src] \in AgentSocket
      BY <2>1 DEF Inv, Kernel
    <2>3. nread \in Nat
      BY <2>2, TypesOfSocket
    <2>4. carry.buf = << >>
      BY <2>1 DEF ForwardInv, Carrying
    <2> QED BY <2>1, <2>2, <2>3, <2>4
  <1>2. /\ UNCHANGED <<cur, pair, open, owner>> /\ pc' = "write"
        /\ carry'.src = src /\ carry'.dst = carry.dst
        /\ carry'.buf = [i \in 1 .. n |-> <<owner[src], nread + i>>]
    BY DEF ForwardRead, memory, Inv, Call
  <1>3. Len(carry'.buf) = n
    BY <1>1, <1>2
  <1>4. \A f \in Fds : /\ sock'[f].out = sock[f].out
                       /\ sock'[f].nread = IF f = src THEN nread + n ELSE sock[f].nread
    BY <1>1 DEF ForwardRead, AfterRead, AgentSocket
  <1>5. Couples' /\ Paired' /\ Owned'
    BY <1>2, <1>4 DEF ForwardInv, Couples, Paired, Owned
  <1>6. Carrying'
    <2>1. {carry'.src, carry'.dst} = {pair'[cur'].client_fd, pair'[cur'].backend_fd}
      BY <1>1, <1>2 DEF ForwardInv, Carrying
    <2>2. sock'[src].nread = nread + n
      BY <1>1, <1>4
    <2>3. carry'.src \in open' /\ Len(carry'.buf) <= sock'[carry'.src].nread
      BY <1>1, <1>2, <1>3, <2>2
    <2>4. LastOf(carry'.buf, owner[src], sock'[src].nread)
      BY <1>1, <1>2, <1>3, <2>2 DEF LastOf
    <2> QED BY <1>2, <1>3, <2>1, <2>3, <2>4 DEF Carrying
  <1>7. Streams'
    <2> SUFFICES ASSUME NEW f \in open, NEW g \in open, Partners(f, g)
                 PROVE  Stream(f, g)'
      BY <1>2 DEF Streams
    <2>1. Stream(f, g) /\ f \in Fds /\ g \in Fds
      BY PartnerUnique DEF ForwardInv, Streams
    <2>2. /\ sock'[g].out = sock[g].out /\ owner' = owner
          /\ sock'[f].nread - Held(f)' = sock[f].nread - Held(f)
          /\ sock'[f].nread \in Nat /\ sock[f].nread \in Nat
      <3>1. sock[f].nread \in Nat
        BY <1>1, <2>1, SocketAssumption DEF SocketAssumption, AgentSocket
      <3>2. Held(f) = 0 /\ Held(f)' = IF f = src THEN n ELSE 0
        BY <1>1, <1>2, <1>3 DEF Held
      <3> QED BY <1>1, <1>2, <1>4, <2>1, <3>1, <3>2
    <2> HIDE DEF Held
    <2> QED BY <2>1, <2>2 DEF Stream
  <1>8. NoLoss
    <2> SUFFICES ASSUME NEW f, NEW g, Partners(f, g) PROVE LosesNothing(f, g)
      BY DEF NoLoss
    <2>1. f \in Fds /\ g \in Fds
      BY PartnerUnique
    <2>2. Carried(f) = {}
      BY <1>1, NothingCarried
    <2>3. CASE f # src
      <3>1. Carried(f)' = {}
        BY <1>2, <2>3 DEF Carried
      <3> QED BY <1>4, <2>1, <2>2, <2>3, <3>1, LostKept
    <2>4. CASE f = src
      <3> DEFINE read == nread + 1 .. nread + n
      <3>1. Positions(carry'.buf) = read
        <4>1. \A x \in read : x - nread \in 1 .. n /\ x = nread + (x - nread)
          BY <1>1
        <4>2. \A i \in 1 .. n : nread + i \in read
          BY <1>1
        <4> QED BY <1>2, <4>1, <4>2 DEF Positions
      <3>2. Carried(f)' = read
        BY <1>2, <2>4, <3>1 DEF Carried, Positions
      <3>3. 1 .. nread + n = (1 .. nread) \cup read
        BY <1>1
      <3>4. sock'[f].nread = nread + n /\ sock[f].nread = nread /\ sock'[g].out = sock[g].out
        BY <1>4, <2>1, <2>4
      <3> HIDE DEF read, nread
      <3>5. Lost(f, g) = (1 .. nread) \ Positions(sock[g].out)
        BY <2>2, <3>4 DEF Lost
      <3>6. Lost(f, g)' = ((1 .. nread) \cup read) \ (Positions(sock[g].out) \cup read)
        BY <3>2, <3>3, <3>4 DEF Lost, Positions
      <3> QED BY <3>5, <3>6 DEF LosesNothing
    <2> QED BY <2>3, <2>4
  <1> QED BY <1>5, <1>6, <1>7, <1>8 DEF ForwardInv, GoodStep

LEMMA PositionsConcat ==
  ASSUME NEW a \in Seq(Bytes), NEW b \in Seq(Bytes)
  PROVE  Positions(a \o b) = Positions(a) \cup Positions(b)
  <1>1. Len(a) \in Nat /\ Len(b) \in Nat /\ DOMAIN a = 1 .. Len(a) /\ DOMAIN b = 1 .. Len(b)
    OBVIOUS
  <1>2. /\ DOMAIN (a \o b) = 1 .. Len(a) + Len(b)
        /\ \A i \in 1 .. Len(a) : (a \o b)[i] = a[i]
        /\ \A i \in 1 .. Len(b) : (a \o b)[Len(a) + i] = b[i]
    OBVIOUS
  <1>3. ASSUME NEW l \in Nat, NEW k \in Nat
        PROVE  /\ \A i \in 1 .. l + k : i \in 1 .. l \/ (i - l \in 1 .. k /\ l + (i - l) = i)
               /\ \A i \in 1 .. l : i \in 1 .. l + k
               /\ \A i \in 1 .. k : l + i \in 1 .. l + k
    OBVIOUS
  <1>4. ASSUME NEW x \in Positions(a \o b) PROVE x \in Positions(a) \cup Positions(b)
    BY <1>1, <1>2, <1>3 DEF Positions
  <1>5. ASSUME NEW x \in Positions(a) \cup Positions(b) PROVE x \in Positions(a \o b)
    <2>1. CASE x \in Positions(a)
      <3>1. PICK i \in 1 .. Len(a) : x = a[i][2]
        BY <1>1, <2>1 DEF Positions
      <3>2. (a \o b)[i] = a[i] /\ i \in DOMAIN (a \o b)
        BY <1>1, <1>2, <1>3
      <3> QED BY <3>1, <3>2 DEF Positions
    <2>2. CASE x \in Positions(b)
      <3>1. PICK i \in 1 .. Len(b) : x = b[i][2]
        BY <1>1, <2>2 DEF Positions
      <3>2. (a \o b)[Len(a) + i] = b[i] /\ Len(a) + i \in DOMAIN (a \o b)
        BY <1>1, <1>2, <1>3
      <3> QED BY <3>1, <3>2 DEF Positions
    <2> QED BY <1>5, <2>1, <2>2
  <1> QED BY <1>4, <1>5

LEMMA PositionsAreNumbers == \A x \in Bytes : x[2] \in Nat
  <1> SUFFICES ASSUME NEW x \in Bytes PROVE x[2] \in Nat
    OBVIOUS
  <1>1. x[2] \in 1 .. MaxBytes
    BY DEF Bytes
  <1> QED BY <1>1

\* A sequence that ascends up to m - k, continued by the n numbers after that.
LEMMA AscendingExtended ==
  ASSUME NEW at, NEW l \in Nat, NEW k \in Nat, NEW n \in Nat, NEW m \in Nat, n <= k,
         \A i \in 1 .. l : at[i] \in Nat /\ at[i] <= m - k,
         \A i, j \in 1 .. l : i < j => at[i] < at[j],
         \A i \in l + 1 .. l + n : at[i] = m - k + (i - l)
  PROVE  /\ \A i \in 1 .. l + n : at[i] <= m
         /\ \A i, j \in 1 .. l + n : i < j => at[i] < at[j]
  <1>1. ASSUME NEW i \in 1 .. l + n PROVE at[i] <= m
    <2>1. CASE i \in 1 .. l
      BY <2>1
    <2>2. CASE i \in l + 1 .. l + n
      <3>1. at[i] = m - k + (i - l)
        BY <2>2
      <3> QED BY <2>2, <3>1
    <2> QED BY <2>1, <2>2
  <1>2. ASSUME NEW i \in 1 .. l + n, NEW j \in 1 .. l + n, i < j PROVE at[i] < at[j]
    <2>1. CASE j \in 1 .. l
      BY <1>2, <2>1
    <2>2. CASE i \in 1 .. l /\ j \in l + 1 .. l + n
      <3>1. at[i] \in Nat /\ at[i] <= m - k /\ at[j] = m - k + (j - l)
        BY <2>2
      <3> QED BY <2>2, <3>1
    <2>3. CASE i \in l + 1 .. l + n
      <3>1. at[i] = m - k + (i - l) /\ at[j] = m - k + (j - l)
        BY <1>2, <2>3
      <3> QED BY <1>2, <2>3, <3>1
    <2> QED BY <2>1, <2>2, <2>3
  <1> QED BY <1>1, <1>2

\* What one write adds to a stream: bytes that follow all that was written.
LEMMA StreamGrows ==
  ASSUME NEW out \in Seq(Bytes), NEW buf \in Seq(Bytes), NEW n \in 1 .. Len(buf),
         NEW o, NEW m \in Nat,
         Within(out, o, m - Len(buf)), Ascending(out), LastOf(buf, o, m)
  PROVE  LET longer == out \o SubSeq(buf, 1, n)
         IN  /\ longer \in Seq(Bytes) /\ Len(longer) = Len(out) + n
             /\ Within(longer, o, m) /\ Ascending(longer)
  <1> DEFINE part == SubSeq(buf, 1, n)
             longer == out \o part
  <1>1. Len(out) \in Nat /\ Len(buf) \in Nat /\ n \in Nat /\ n <= Len(buf)
    OBVIOUS
  <1>2. part \in Seq(Bytes) /\ Len(part) = n /\ \A i \in 1 .. n : part[i] = buf[i]
    BY <1>1
  <1> HIDE DEF part
  <1>3. longer \in Seq(Bytes) /\ Len(longer) = Len(out) + n
    BY <1>2
  <1>4. /\ \A i \in 1 .. Len(out) : longer[i] = out[i]
        /\ \A i \in Len(out) + 1 .. Len(out) + n : longer[i] = part[i - Len(out)]
    BY <1>1, <1>2
  <1> HIDE DEF longer
  <1>5. ASSUME NEW l, NEW k, l = Len(out), k = Len(buf)
        PROVE  Within(longer, o, m) /\ Ascending(longer)
    <2> DEFINE at == [i \in 1 .. l + n |-> longer[i][2]]
    <2>1. l \in Nat /\ k \in Nat /\ n \in Nat /\ n <= k
      BY <1>1, <1>5
    <2>2. \A i \in 1 .. l + n : at[i] = longer[i][2]
      OBVIOUS
    <2>3. \A i \in 1 .. l : i \in 1 .. l + n
      BY <2>1
    <2>4. \A i \in l + 1 .. l + n : i \in 1 .. l + n /\ i - l \in 1 .. n /\ i - l \in 1 .. k
      BY <2>1
    <2> HIDE DEF at
    <2>5. ASSUME NEW i \in 1 .. l
          PROVE  longer[i][1] = o /\ at[i] = out[i][2] /\ at[i] \in Nat /\ at[i] <= m - k
      <3>1. out[i] \in Bytes /\ longer[i] = out[i] /\ out[i][1] = o /\ out[i][2] <= m - k
        BY <1>4, <1>5 DEF Within
      <3>2. at[i] = out[i][2]
        BY <2>2, <2>3, <3>1
      <3> QED BY <3>1, <3>2, PositionsAreNumbers
    <2>6. \A i, j \in 1 .. l : i < j => at[i] < at[j]
      BY <1>5, <2>5 DEF Ascending
    <2>7. ASSUME NEW i \in l + 1 .. l + n
          PROVE  longer[i][1] = o /\ at[i] = m - k + (i - l)
      <3>1. longer[i] = buf[i - l] /\ i - l \in 1 .. k
        BY <1>2, <1>4, <1>5, <2>4
      <3>2. longer[i] = <<o, m - k + (i - l)>>
        BY <1>5, <3>1 DEF LastOf
      <3> QED BY <2>2, <2>4, <3>2
    <2>8. /\ \A i \in 1 .. l + n : at[i] <= m
          /\ \A i, j \in 1 .. l + n : i < j => at[i] < at[j]
      BY <2>1, <2>5, <2>6, <2>7, AscendingExtended
    <2>9. \A i \in 1 .. l + n : longer[i][1] = o
      <3>1. \A i \in 1 .. l + n : i \in 1 .. l \/ i \in l + 1 .. l + n
        BY <2>1
      <3> QED BY <2>5, <2>7, <3>1
    <2> QED BY <1>3, <1>5, <2>2, <2>8, <2>9 DEF Within, Ascending
  <1> QED BY <1>3, <1>5 DEF longer, part

LEMMA WriteForward ==
  ASSUME Inv, ForwardInv, NEW n \in 1 .. BUF_SIZE, ForwardWrite(n)
  PROVE  GoodStep
  <1> DEFINE src == carry.src
             dst == carry.dst
             buf == carry.buf
             nread == sock[src].nread
             out == sock[dst].out
  <1>1. /\ pc = "write" /\ src \in open /\ dst \in open /\ src \in Fds /\ dst \in Fds
        /\ sock \in [Fds -> AgentSocket] /\ buf \in Seq(Bytes) /\ n \in 1 .. Len(buf)
    BY AgentAssumption DEF AgentAssumption, ForwardWrite, ForwardInv, Carrying, Inv, Kernel, Call
  <1>2. /\ nread \in Nat /\ out \in Seq(Bytes) /\ Len(out) \in Nat /\ Len(buf) \in Nat
        /\ sock[dst].queued \in Nat /\ SndBuf \in Nat
    <2>1. SndBuf \in Nat
      BY SocketAssumption DEF SocketAssumption
    <2>2. sock[src] \in AgentSocket /\ sock[dst] \in AgentSocket
      BY <1>1
    <2>3. nread \in Nat /\ out \in Seq(Bytes) /\ sock[dst].queued \in Nat
      BY <2>2, TypesOfSocket
    <2> HIDE DEF out, buf
    <2> QED BY <1>1, <2>1, <2>3, LenProperties
  <1>3. Partners(src, dst) /\ src # dst
    BY <1>1, CallOfCouple, PartnerUnique
  <1>4. /\ UNCHANGED <<pair, open, owner>> /\ pc' = "dispatch" /\ carry' = Idle
        /\ sock'[dst].out = out \o SubSeq(buf, 1, n)
        /\ sock'[dst].queued = sock[dst].queued + Len(SubSeq(buf, 1, n))
        /\ \A f \in Fds : /\ sock'[f].nread = sock[f].nread
                          /\ f # dst => sock'[f] = sock[f]
    BY <1>1 DEF ForwardWrite, memory, AfterWrite, AgentSocket
  <1>5. /\ Stream(src, dst) /\ Held(src) = Len(buf)
        /\ LastOf(buf, owner[src], nread)
    BY <1>1, <1>3 DEF ForwardInv, Streams, Carrying, Held
  <1>6. /\ sock'[dst].out \in Seq(Bytes) /\ Len(sock'[dst].out) = Len(out) + n
        /\ Within(sock'[dst].out, owner[src], nread) /\ Ascending(sock'[dst].out)
    <2>1. Within(out, owner[src], nread - Len(buf)) /\ Ascending(out)
      BY <1>5 DEF Stream
    <2>2. LET longer == out \o SubSeq(buf, 1, n)
          IN  /\ longer \in Seq(Bytes) /\ Len(longer) = Len(out) + n
              /\ Within(longer, owner[src], nread) /\ Ascending(longer)
      BY <1>1, <1>2, <1>5, <2>1, StreamGrows
    <2> QED BY <1>4, <2>2
  <1>7. Couples' /\ Paired' /\ Owned' /\ Carrying'
    <2>1. Carrying'
      BY <1>4 DEF Carrying, LastOf, Idle
    <2> QED BY <1>4, <2>1 DEF ForwardInv, Couples, Paired, Owned
  <1>8. \A f : Held(f)' = 0
    BY <1>4 DEF Held, Idle
  <1>9. ASSUME NEW f, NEW g, f = src, g = dst
        PROVE  Stream(f, g)'
    <2>2. sock'[src].nread = nread /\ nread - 0 = nread
      BY <1>1, <1>2, <1>4
    <2>4. Held(f)' = 0 /\ owner' = owner
      BY <1>4, <1>8
    <2>5. Within(sock'[g].out, owner[f], sock'[f].nread - 0) /\ Ascending(sock'[g].out)
      BY <1>6, <1>9, <2>2
    <2> HIDE DEF out, buf, nread, src, dst, Held
    <2> QED BY <2>4, <2>5 DEF Stream
  <1>10. ASSUME NEW f \in open, NEW g \in open, Partners(f, g), g # dst
         PROVE  Stream(f, g)'
    <2>1. Stream(f, g) /\ f \in Fds /\ g \in Fds
      BY <1>10, PartnerUnique DEF ForwardInv, Streams
    <2>2. f # src
      BY <1>3, <1>10, PartnerUnique
    <2>3. Held(f) = 0
      BY <2>2 DEF Held
    <2>4. sock'[g] = sock[g] /\ sock'[f].nread = sock[f].nread /\ owner' = owner
      BY <1>4, <1>10, <2>1
    <2> HIDE DEF Held
    <2> QED BY <1>8, <2>1, <2>3, <2>4 DEF Stream
  <1>11. Streams'
    <2> SUFFICES ASSUME NEW f \in open, NEW g \in open, Partners(f, g) PROVE Stream(f, g)'
      BY <1>4 DEF Streams
    <2>1. g = dst => f = src
      BY <1>3, PartnerUnique
    <2> QED BY <1>9, <1>10, <2>1
  <1>12. ASSUME NEW f, NEW g, f = src, g = dst
         PROVE  LosesNothing(f, g)
    <2>1. CASE n = Len(buf)
      <3>1. sock'[g].out = out \o buf
        BY <1>1, <1>4, <1>12, <2>1, SubSeqFull
      <3>2. Positions(out \o buf) = Positions(out) \cup Positions(buf)
        BY <1>1, <1>2, PositionsConcat
      <3>3. Carried(f) = Positions(buf) /\ Carried(f)' = {}
        BY <1>4, <1>12 DEF Carried, Idle, Positions
      <3>4. sock'[f].nread = sock[f].nread
        BY <1>1, <1>4, <1>12
      <3>5. Positions(sock'[g].out) = Positions(out) \cup Positions(buf)
        BY <3>1, <3>2
      <3> HIDE DEF out, buf
      <3>6. Lost(f, g) = 1 .. sock[f].nread \ (Positions(out) \cup Positions(buf))
        BY <1>12, <3>3 DEF Lost, out
      <3>7. Lost(f, g)' = 1 .. sock[f].nread \ (Positions(out) \cup Positions(buf))
        BY <3>3, <3>4, <3>5 DEF Lost, Positions
      <3> QED BY <3>6, <3>7 DEF LosesNothing
    <2>2. CASE n # Len(buf)
      <3>1. n = Room(sock[dst]) /\ n <= Len(buf)
        BY <1>1, <2>2 DEF ForwardWrite
      <3>2. Len(SubSeq(buf, 1, n)) = n
        BY <1>1, Split
      <3>3. sock'[dst].queued = sock[dst].queued + n
        BY <1>4, <3>2
      <3>4. Len(buf) > Room(sock[dst]) /\ sock'[dst].queued = SndBuf
        <4> HIDE DEF buf
        <4> QED BY <1>1, <1>2, <2>2, <3>1, <3>3 DEF Room
      <3> QED BY <1>1, <1>12, <3>4 DEF LosesNothing, WriteFellShort
    <2> QED BY <2>1, <2>2
  <1>13. NoLoss
    <2> SUFFICES ASSUME NEW f, NEW g, Partners(f, g) PROVE LosesNothing(f, g)
      BY DEF NoLoss
    <2>1. f \in Fds /\ g \in Fds /\ (f = src <=> g = dst)
      BY <1>3, PartnerUnique
    <2>2. CASE f # src
      <3>1. Carried(f) = {} /\ Carried(f)' = {}
        BY <1>4, <2>2 DEF Carried, Idle, Positions
      <3>2. sock'[g].out = sock[g].out /\ sock'[f].nread = sock[f].nread
        BY <1>4, <2>1, <2>2
      <3> QED BY <3>1, <3>2, LostKept
    <2> QED BY <1>12, <2>1, <2>2
  <1> QED BY <1>7, <1>11, <1>13 DEF ForwardInv, GoodStep

\* cleanup_conn closes both of a couple or nothing, with a freed pair too, and
\* drops only what was read from a descriptor it closes.
LEMMA CleanupForward ==
  ASSUME Inv, ForwardInv, pc \in {"read", "write"}, CleanupConn
  PROVE  GoodStep
  <1> DEFINE gone == {pair[cur].client_fd, pair[cur].backend_fd} \ {0, -1}
  <1>1. /\ cur \in Ptrs /\ pair \in [Ptrs -> Pair] /\ pair[cur] \in Pair
        /\ open \subseteq Fds /\ owner \in [Fds -> Owner] /\ sock \in [Fds -> AgentSocket]
    BY DEF Inv, Call, Memory, Kernel
  <1>2. \A f, g : Partners(f, g) => (f \in gone <=> g \in gone)
    <2>1. CASE pair[cur] \notin FdPair
      <3>1. gone = {}
        BY <1>1, <2>1 DEF Pair, Calloced, Overwritten
      <3> QED BY <3>1
    <2>2. CASE pair[cur] \in FdPair
      <3>1. Partners(pair[cur].client_fd, pair[cur].backend_fd)
        BY <1>1, <2>2 DEF ForwardInv, Couples, Partners
      <3>2. gone = {pair[cur].client_fd, pair[cur].backend_fd}
        BY <2>2, FdsAreNumbers DEF FdPair
      <3> HIDE DEF gone
      <3> QED BY <3>1, <3>2, PartnerUnique
    <2> QED BY <2>1, <2>2
  <1>3. carry.src \in Fds => carry.src \in gone
    <2>1. carry.src \in {pair[cur].client_fd, pair[cur].backend_fd}
      BY DEF ForwardInv, Carrying
    <2> QED BY <2>1, FdsAreNumbers
  <1>4. /\ open' = open \ gone /\ carry' = Idle /\ pc' \in {"dispatch", "SIGABRT"}
        /\ \A f \in Fds : f \notin gone => owner'[f] = owner[f]
        /\ \A f \in Fds : sock'[f] = IF f \in gone THEN NewSocket ELSE sock[f]
    BY <1>1 DEF CleanupConn, Without
  <1>5. \A p \in Ptrs : pair'[p] \in {pair[p], Overwritten}
    BY <1>1 DEF CleanupConn, Freed
  <1> HIDE DEF gone
  <1>6. Couples'
    <2>1. Overwritten \notin FdPair
      BY FdsAreNumbers DEF Overwritten, FdPair
    <2> QED BY <1>5, <2>1 DEF ForwardInv, Couples
  <1>7. Paired' /\ Owned'
    <2>1. \A f \in open' : f \in open /\ f \in Fds /\ f \notin gone
      BY <1>1, <1>4
    <2>2. Paired'
      BY <1>2, <1>4, <2>1 DEF ForwardInv, Paired
    <2>3. Owned'
      BY <1>4, <2>1 DEF ForwardInv, Owned
    <2> QED BY <2>2, <2>3
  <1>8. Carrying'
    BY <1>4 DEF Carrying, Idle, LastOf
  <1>10. Streams'
    <2> SUFFICES ASSUME NEW f, NEW g, f \in open', g \in open', Partners(f, g)
                 PROVE  Stream(f, g)'
      BY DEF Streams
    <2>1. f \in open /\ g \in open /\ f \in Fds /\ g \in Fds /\ f \notin gone /\ g \notin gone
      BY <1>1, <1>4
    <2>2. Stream(f, g) /\ sock'[f] = sock[f] /\ sock'[g] = sock[g] /\ owner'[f] = owner[f]
      BY <1>4, <2>1 DEF ForwardInv, Streams
    <2>3. Held(f) = 0 /\ Held(f)' = 0
      BY <1>3, <1>4, <2>1 DEF Held, Idle
    <2> HIDE DEF Held
    <2> QED BY <2>2, <2>3 DEF Stream
  <1>9. NoLoss
    <2> SUFFICES ASSUME NEW f, NEW g, Partners(f, g) PROVE LosesNothing(f, g)
      BY DEF NoLoss
    <2>1. f \in Fds /\ g \in Fds /\ (f \in gone <=> g \in gone)
      BY <1>2, PartnerUnique
    <2>2. CASE f \in gone
      BY <1>4, <2>1, <2>2, LostNone
    <2>3. CASE f \notin gone
      <3>1. Carried(f) = {} /\ Carried(f)' = {}
        BY <1>3, <1>4, <2>1, <2>3 DEF Carried, Idle, Positions
      <3> QED BY <1>4, <2>1, <2>3, <3>1, LostKept
    <2> QED BY <2>2, <2>3
  <1> QED BY <1>6, <1>7, <1>8, <1>9, <1>10 DEF ForwardInv, GoodStep

-------------------------------------------------------------------------------
(* A new pair. *)

LEMMA PairForward ==
  ASSUME Inv, ForwardInv, NEW e \in batch, PairCreated(e)
  PROVE  GoodStep
  <1>1. PICK cfd \in Free, bfd \in Free, p \in Ptrs \ heap :
             Lowest(cfd, Free) /\ Lowest(bfd, Free \ {cfd}) /\ Registers(cfd, bfd, p)
    BY DEF PairCreated
  <1>2. /\ cfd \in Fds /\ bfd \in Fds /\ cfd # bfd /\ cfd \notin open /\ bfd \notin open
        /\ open \subseteq Fds /\ sock \in [Fds -> AgentSocket] /\ owner \in [Fds -> Owner]
        /\ pair \in [Ptrs -> Pair] /\ pc = "dispatch" /\ carry.buf = << >>
    BY <1>1 DEF Free, Lowest, Inv, Kernel, Memory, PairCreated, AcceptedClient, HandleListen,
                ForwardInv, Carrying
  <1>3. Couple(cfd, bfd)
    BY <1>1, <1>2, LowestAreCouple DEF ForwardInv
  <1>4. \A f, g : Partners(f, g) => (f \in {cfd, bfd} <=> g \in {cfd, bfd})
    BY <1>3, PartnerUnique DEF Partners
  <1>5. /\ pc' = pc /\ carry' = carry /\ cur' = cur
        /\ open' = open \cup {cfd, bfd}
        /\ \A q \in Ptrs : pair'[q] \in {pair[q], [client_fd |-> cfd, backend_fd |-> bfd]}
        /\ owner'[cfd] = <<"client", accepted'>> /\ owner'[bfd] = <<"backend", accepted'>>
        /\ \A f \in Fds : f \notin {cfd, bfd} => owner'[f] = owner[f]
        /\ \A f \in Fds : sock'[f] = IF f \in {cfd, bfd} THEN NewSocket ELSE sock[f]
    BY <1>1, <1>2 DEF PairCreated, Registers
  <1>6. Couples'
    BY <1>3, <1>5 DEF ForwardInv, Couples
  <1>7. Paired'
    <2>1. Partners(cfd, bfd) /\ Partners(bfd, cfd)
      BY <1>3 DEF Partners
    <2> QED BY <1>5, <2>1 DEF ForwardInv, Paired
  <1>8. Owned'
    <2> SUFFICES ASSUME NEW c, NEW b, c \in open', b \in open', Couple(c, b)
                 PROVE  owner'[c][1] = "client" /\ owner'[b] = Opposite(owner'[c])
      BY DEF Owned
    <2>1. CASE c \in {cfd, bfd} \/ b \in {cfd, bfd}
      <3>1. c = cfd /\ b = bfd
        BY <1>3, <2>1, CouplesDisjoint
      <3> QED BY <1>5, <3>1 DEF Opposite
    <2>2. CASE c \notin {cfd, bfd} /\ b \notin {cfd, bfd}
      BY <1>2, <1>5, <2>2 DEF ForwardInv, Owned
    <2> QED BY <2>1, <2>2
  <1>9. Carrying'
    BY <1>2, <1>5 DEF Carrying, LastOf
  <1>10. NewSocket.out = << >> /\ NewSocket.nread = 0
    BY DEF NewSocket
  <1>11. NoLoss
    <2> SUFFICES ASSUME NEW f, NEW g, Partners(f, g) PROVE LosesNothing(f, g)
      BY DEF NoLoss
    <2>1. f \in Fds /\ g \in Fds /\ (f \in {cfd, bfd} <=> g \in {cfd, bfd})
      BY <1>4, PartnerUnique
    <2>2. CASE f \in {cfd, bfd}
      BY <1>5, <2>1, <2>2, LostNone
    <2>3. CASE f \notin {cfd, bfd}
      <3>1. Carried(f)' = Carried(f)
        BY <1>5 DEF Carried
      <3> QED BY <1>5, <2>1, <2>3, <3>1, LostKept
    <2> QED BY <2>2, <2>3
  <1>12. \A f : Held(f) = 0 /\ Held(f)' = 0
    BY <1>2, <1>5 DEF Held
  <1>13. Streams'
    <2> SUFFICES ASSUME NEW f, NEW g, f \in open', g \in open', Partners(f, g)
                 PROVE  Stream(f, g)'
      BY DEF Streams
    <2>1. CASE f \in {cfd, bfd}
      <3>1. sock'[f] = NewSocket /\ sock'[g] = NewSocket
        BY <1>2, <1>4, <1>5, <2>1
      <3> QED BY <1>10, <1>12, <3>1 DEF Stream, Within, Ascending
    <2>2. CASE f \notin {cfd, bfd}
      <3>1. f \in open /\ g \in open /\ f \in Fds /\ g \in Fds /\ g \notin {cfd, bfd}
        BY <1>2, <1>4, <1>5, <2>2
      <3>2. Stream(f, g) /\ sock'[f] = sock[f] /\ sock'[g] = sock[g] /\ owner'[f] = owner[f]
        BY <1>5, <2>2, <3>1 DEF ForwardInv, Streams
      <3> HIDE DEF Held
      <3> QED BY <1>12, <3>2 DEF Stream
    <2> QED BY <2>1, <2>2
  <1> QED BY <1>6, <1>7, <1>8, <1>9, <1>11, <1>13 DEF ForwardInv, GoodStep

-------------------------------------------------------------------------------
\* Every step of the proxy keeps the invariant and loses nothing else.
LEMMA NextForward ==
  ASSUME Inv, ForwardInv, [Next]_vars
  PROVE  GoodStep
  <1>1. CASE Dispatch
    BY <1>1, DispatchForward, PairForward DEF Dispatch
  <1>2. CASE Forward
    <2>1. CASE ForwardReadEnds \/ ForwardWriteFails
      BY <2>1, CleanupForward DEF ForwardReadEnds, ForwardWriteFails
    <2>2. CASE \E n \in 1 .. BUF_SIZE : ForwardRead(n) \/ ForwardWrite(n)
      BY <2>2, ReadForward, WriteForward
    <2>3. CASE ForwardWriteKilled
      BY <2>3, LoopForward
    <2> QED BY <1>2, <2>1, <2>2, <2>3 DEF Forward
  <1>3. CASE Server /\ ~Dispatch /\ ~Forward
    BY <1>3, LoopForward DEF Server
  <1>4. CASE Peers
    BY <1>4, LoopForward, PeerForward DEF Peers
  <1>5. CASE Sigint \/ Halted \/ UNCHANGED vars
    BY <1>5, LoopForward DEF Halted
  <1> QED BY <1>1, <1>2, <1>3, <1>4, <1>5 DEF Next

\* The invariant holds in every state the proxy reaches, whatever the addresses
\* read back as and whichever pairs are stale.
THEOREM ForwardInvariance == Spec => []ForwardInv
  <1>1. Inv /\ ForwardInv /\ [Next]_vars => ForwardInv'
    BY NextForward DEF GoodStep
  <1> QED BY ForwardInit, AgentInvariance, <1>1, PTL DEF Spec

\* What was written to an open descriptor is what Stream says of its partner.
LEMMA StreamOfPartner ==
  ASSUME Inv, ForwardInv, NEW g \in open
  PROVE  \E f \in open : Partners(f, g) /\ Stream(f, g) /\ owner[f] = Opposite(owner[g])
  <1>1. PICK f \in open : Partners(g, f)
    BY DEF ForwardInv, Paired
  <1>2. Partners(f, g) /\ f \in Fds /\ g \in Fds
    BY <1>1, PartnerUnique
  <1>3. owner[f] = Opposite(owner[g])
    <2>1. owner[f] \in Owner /\ owner[g] \in Owner
      BY <1>2 DEF Inv, Kernel
    <2>2. CASE Couple(f, g)
      BY <2>1, <2>2 DEF ForwardInv, Owned, Opposite, Owner, Sides
    <2>3. CASE Couple(g, f)
      BY <2>3 DEF ForwardInv, Owned
    <2> QED BY <1>2, <2>2, <2>3 DEF Partners
  <1> QED BY <1>2, <1>3 DEF ForwardInv, Streams

\* forward() with the descriptors of a freed pair, possibly opened again for
\* another connection, never carries bytes from one connection to another.
THEOREM AgentNoCrossTalk == Spec => []NoCrossTalk
  <1>1. Inv /\ ForwardInv => NoCrossTalk
    <2> SUFFICES ASSUME Inv, ForwardInv, NEW g \in open, NEW i \in DOMAIN sock[g].out
                 PROVE  sock[g].out[i][1] = Opposite(owner[g])
      BY DEF NoCrossTalk
    <2>1. PICK f \in open : Stream(f, g) /\ owner[f] = Opposite(owner[g])
      BY StreamOfPartner
    <2>2. sock[g].out \in Seq(Bytes)
      BY DEF Inv, Kernel, AgentSocket
    <2> QED BY <2>1, <2>2 DEF Stream, Within
  <1> QED BY AgentInvariance, ForwardInvariance, <1>1, PTL

\* What arrives is in the order it was sent and never twice, whatever a partial
\* write dropped and however often the pair's buffer was filled.
THEOREM AgentForwardsInOrder == Spec => []ForwardedInOrder
  <1>1. Inv /\ ForwardInv => ForwardedInOrder
    <2> SUFFICES ASSUME Inv, ForwardInv, NEW g \in open PROVE
                 \A i, j \in DOMAIN sock[g].out : i < j => sock[g].out[i][2] < sock[g].out[j][2]
      BY DEF ForwardedInOrder
    <2>1. Ascending(sock[g].out)
      BY StreamOfPartner DEF Stream
    <2>2. sock[g].out \in Seq(Bytes)
      BY DEF Inv, Kernel, AgentSocket
    <2> QED BY <2>1, <2>2 DEF Ascending
  <1> QED BY AgentInvariance, ForwardInvariance, <1>1, PTL

\* Between the two ends of a live pair only a write whose buffer does not fit
\* into the other end's queue loses anything, and only what did not fit: at any
\* length of the stream, whichever pairs are stale and whatever is connecting.
THEOREM AgentLosesNothingUnlessFull == Spec => NothingLostUnlessFull
  <1> DEFINE Kept == ~Stopped' => \A p \in heap' :
                 \A f, g \in {pair'[p].client_fd, pair'[p].backend_fd} :
                   f # g => LosesNothing(f, g)
  <1>1. Inv /\ Inv' /\ ForwardInv /\ [Next]_vars => [Kept]_vars
    <2> SUFFICES ASSUME Inv, Inv', ForwardInv, [Next]_vars, ~Stopped', NEW p \in heap',
                        NEW f \in {pair'[p].client_fd, pair'[p].backend_fd},
                        NEW g \in {pair'[p].client_fd, pair'[p].backend_fd}, f # g
                 PROVE  LosesNothing(f, g)
      OBVIOUS
    <2>1. ForwardInv' /\ NoLoss
      BY NextForward DEF GoodStep
    <2>2. p \in Ptrs /\ pair'[p] \in FdPair
      BY DEF Inv, PairsWhole, Memory, LivePairs
    <2>3. Partners(f, g)
      BY <2>1, <2>2 DEF ForwardInv, Couples, Partners
    <2> QED BY <2>1, <2>3 DEF NoLoss
  <1> QED BY AgentInvariance, ForwardInvariance, <1>1, PTL DEF Spec, NothingLostUnlessFull
=============================================================================
