---------------------------- MODULE SessionsProofs ----------------------------
(***************************************************************************)
(* Proofs about Sessions, for every number of sessions, strings and table  *)
(* entries: whichever allocations fail, every block is freed exactly once. *)
(***************************************************************************)
EXTENDS Sessions, FiniteSetTheorems, TLAPS

Phases == {"create", "recv", "decoded", "header", "payload", "cleanup", "get_data",
           "dup", "free_dup", "close", "sweep", "exit", "SIGSEGV"}

\* The pointers that are not NULL at each point of the program.
Locals ==
    CASE pc = "header"   -> local = {"decoded"}
      [] pc = "payload"  -> local = {"decoded", "header"}
      [] pc = "cleanup"  -> local \subseteq {"decoded", "header", "payload"}
      [] pc = "free_dup" -> local = {"dup"}
      [] OTHER           -> local = {}

\* Where the loops are: create has not reached the entries from i on, the last
\* loop leaves none behind.
Progress ==
    /\ i \in Nat
    /\ pc = "create" => i <= N /\ \A c \in Ids : c >= i => g_connections[c] = Null
    /\ pc = "recv" => i <= DataLines
    /\ pc \in {"sweep", "exit"} => \A c \in Ids : c < i => g_connections[c] = Null
    /\ pc = "sweep" => i >= 1
    /\ pc = "exit" => i >= MAX_CONNECTIONS

Typed == pc \in Phases /\ g_connections \in [Ids -> Session \cup {Null}]

\* HeapIsReachable, block by block.
LeadsTo(b) ==
    \/ \E c \in Ids : /\ g_connections[c] # Null
                      /\ \/ b = Struct(c)
                         \/ g_connections[c].recv_buf /\ b = <<"recv_buf", c>>
                         \/ g_connections[c].packet_data /\ b = <<"packet_data", c>>
    \/ \E p \in local : b = Local(p)
Reachable == \A b : b \in heap <=> LeadsTo(b)

IInv == Typed /\ Locals /\ Progress /\ Reachable

LEMMA ReachableIsInvariant == Reachable <=> HeapIsReachable
  <1> DEFINE structs == {Struct(c) : c \in Live}
             members == UNION {Members(c) : c \in Live}
             owned == structs \cup members \cup LocalBlocks
  <1>1. \A b : LeadsTo(b) <=> b \in owned
    <2> TAKE b
    <2>1. \A c \in Ids : b \in Members(c) <=>
            \/ g_connections[c].recv_buf /\ b = <<"recv_buf", c>>
            \/ g_connections[c].packet_data /\ b = <<"packet_data", c>>
      BY DEF Members
    <2>2. b \in LocalBlocks <=> \E p \in local : b = Local(p)
      BY DEF LocalBlocks
    <2>3. b \in members <=> \E c \in Live : b \in Members(c)
      OBVIOUS
    <2>4. b \in structs <=> \E c \in Live : b = Struct(c)
      OBVIOUS
    <2> HIDE DEF structs, members
    <2>5. b \in owned <=> \/ \E c \in Live : b = Struct(c)
                          \/ \E c \in Live : b \in Members(c)
                          \/ \E p \in local : b = Local(p)
      BY <2>2, <2>3, <2>4
    <2>6. \A c : c \in Live <=> c \in Ids /\ g_connections[c] # Null
      BY DEF Live
    <2> HIDE DEF owned
    <2> QED BY <2>1, <2>5, <2>6 DEF LeadsTo
  <1>2. HeapIsReachable <=> heap = owned
    BY DEF HeapIsReachable
  <1> HIDE DEF owned
  <1> QED BY <1>1, <1>2 DEF Reachable

LEMMA IInvInit == Init => IInv
  <1> SUFFICES ASSUME Init PROVE IInv
    OBVIOUS
  <1>1. Typed /\ Locals
    BY DEF Init, Typed, Phases, Locals
  <1>2. Progress
    BY SessionsAssumption DEF SessionsAssumption, Init, Progress, Ids
  <1>3. Reachable
    BY DEF Init, Reachable, LeadsTo
  <1> QED BY <1>1, <1>2, <1>3 DEF IInv

LEMMA IndexInTable ==
  ASSUME Progress
  PROVE  /\ pc = "create" /\ i < N => i \in Ids
         /\ pc = "recv" /\ i < DataLines => i \in Ids
         /\ pc = "sweep" /\ i < MAX_CONNECTIONS => i \in Ids
         /\ 0 \in Ids
  BY SessionsAssumption DEF SessionsAssumption, Progress, Ids

\* A step that moves on without touching a pointer or a block.
LEMMA MoveStep ==
  ASSUME IInv, UNCHANGED <<g_connections, local, heap>>,
         pc' \in Phases, Locals', Progress'
  PROVE  IInv'
  BY DEF IInv, Typed, Reachable, LeadsTo

\* An entry of the table gets a session, or a session gets a member.
LEMMA TableStep ==
  ASSUME IInv, NEW c \in Ids, NEW s \in Session, UNCHANGED local,
         g_connections' = [g_connections EXCEPT ![c] = s],
         g_connections[c] # Null \/ s = Created,
         g_connections[c] # Null => /\ g_connections[c].recv_buf => s.recv_buf
                                    /\ g_connections[c].packet_data => s.packet_data,
         heap' = heap \cup {Struct(c)}
                      \cup (IF s.recv_buf THEN {<<"recv_buf", c>>} ELSE {})
                      \cup (IF s.packet_data THEN {<<"packet_data", c>>} ELSE {}),
         pc' \in Phases, Locals', Progress'
  PROVE  IInv'
  <1>1. s # Null
    BY DEF Session, Null
  <1>2. Typed'
    BY DEF IInv, Typed
  <1>3. \A d \in Ids : g_connections'[d] = IF d = c THEN s ELSE g_connections[d]
    BY DEF IInv, Typed
  <1>4. ASSUME NEW b PROVE b \in heap' <=> LeadsTo(b)'
    <2>1. b \in heap <=> LeadsTo(b)
      BY DEF IInv, Reachable
    <2>2. CASE b \in {Struct(c), <<"recv_buf", c>>, <<"packet_data", c>>}
      BY <1>1, <1>3, <2>1, <2>2 DEF LeadsTo, Struct, Local, Null, Created
    <2>3. CASE b \notin {Struct(c), <<"recv_buf", c>>, <<"packet_data", c>>}
      BY <1>1, <1>3, <2>1, <2>3 DEF LeadsTo
    <2> QED BY <2>2, <2>3
  <1> QED BY <1>2, <1>4 DEF IInv, Reachable

\* A local pointer gets a block.
LEMMA AllocStep ==
  ASSUME IInv, NEW p, Alloc(p), UNCHANGED g_connections,
         pc' \in Phases, Locals', Progress'
  PROVE  IInv'
  <1>1. ASSUME NEW b PROVE b \in heap' <=> LeadsTo(b)'
    BY DEF IInv, Reachable, Alloc, LeadsTo
  <1> QED BY <1>1 DEF IInv, Typed, Reachable

\* The blocks of local pointers are freed: they are in use, so free() succeeds,
\* and nothing else leads to them.
LEMMA FreeStep ==
  ASSUME IInv, NEW P \in SUBSET local, NEW next \in Phases,
         local \subseteq {"decoded", "header", "payload", "dup"},
         Frees({Local(p) : p \in P}, next), local' = local \ P, UNCHANGED g_connections,
         pc' = next => Locals' /\ Progress'
  PROVE  IInv'
  <1> DEFINE freed == {Local(p) : p \in P}
  <1>1. freed \subseteq heap
    BY DEF IInv, Reachable, LeadsTo
  <1>2. pc' = next /\ heap' = heap \ freed
    BY <1>1 DEF Frees
  <1>3. ASSUME NEW b PROVE b \in heap' <=> LeadsTo(b)'
    <2>1. b \in heap <=> LeadsTo(b)
      BY DEF IInv, Reachable
    <2>2. CASE b \in freed
      <3>1. PICK p \in P : b = Local(p)
        BY <2>2
      <3>2. \A c \in Ids : b \notin {Struct(c), <<"recv_buf", c>>, <<"packet_data", c>>}
        BY <3>1 DEF Local, Struct
      <3>3. \A q \in local \ P : b # Local(q)
        BY <3>1 DEF Local
      <3> QED BY <1>2, <2>2, <3>2, <3>3 DEF LeadsTo
    <2>3. CASE b \notin freed
      BY <1>2, <2>1, <2>3 DEF LeadsTo
    <2> QED BY <2>2, <2>3
  <1> QED BY <1>2, <1>3 DEF IInv, Typed, Reachable

\* session_destroy of a live session, when no local pointer is held.
LEMMA DestroyStep ==
  ASSUME IInv, NEW c \in Ids, g_connections[c] # Null, NEW next \in Phases,
         local = {}, SessionDestroy(c, next), UNCHANGED local,
         pc' = next => Locals' /\ Progress'
  PROVE  IInv'
  <1> DEFINE freed == {Struct(c)} \cup Members(c)
  <1>1. freed \subseteq heap
    BY DEF IInv, Reachable, LeadsTo, Members
  <1>2. /\ pc' = next /\ heap' = heap \ freed
        /\ \A d \in Ids : g_connections'[d] = IF d = c THEN Null ELSE g_connections[d]
        /\ g_connections' \in [Ids -> Session \cup {Null}]
    BY <1>1 DEF SessionDestroy, Frees, IInv, Typed
  <1>3. ASSUME NEW b PROVE b \in heap' <=> LeadsTo(b)'
    <2>1. b \in heap <=> LeadsTo(b)
      BY DEF IInv, Reachable
    <2>2. CASE b \in freed
      <3>1. \A d \in Ids \ {c} : b \notin {Struct(d), <<"recv_buf", d>>, <<"packet_data", d>>}
        BY <2>2 DEF Members, Struct
      <3> QED BY <1>2, <2>2, <3>1 DEF LeadsTo
    <2>3. CASE b \notin freed
      <3>1. \/ b \notin {Struct(c), <<"recv_buf", c>>, <<"packet_data", c>>}
            \/ b = <<"recv_buf", c>> /\ ~g_connections[c].recv_buf
            \/ b = <<"packet_data", c>> /\ ~g_connections[c].packet_data
        BY <2>3 DEF Members
      <3> QED BY <1>2, <2>1, <2>3, <3>1 DEF LeadsTo, Struct
    <2> QED BY <2>2, <2>3
  <1> QED BY <1>2, <1>3 DEF IInv, Typed, Reachable

-------------------------------------------------------------------------------
(* The steps of main. *)

LEMMA LoopsStep ==
  ASSUME IInv, \/ CreateDone \/ RecvSkips \/ RecvDone \/ NoPayload
               \/ GetDataOfNull \/ SweepDone \/ Halted \/ UNCHANGED vars
  PROVE  IInv'
  <1> USE DEF table, counters
  <1>1. UNCHANGED <<g_connections, local, heap>>
    BY DEF CreateDone, RecvSkips, RecvDone, NoPayload, GetDataOfNull, SweepDone, Halted, vars
  <1>2. pc' \in Phases /\ Locals'
    BY DEF CreateDone, RecvSkips, RecvDone, NoPayload, GetDataOfNull, SweepDone, Halted, vars,
           IInv, Typed, Locals, Phases
  <1>3. Progress'
    BY SessionsAssumption
       DEF SessionsAssumption, CreateDone, RecvSkips, RecvDone, NoPayload, GetDataOfNull,
           SweepDone, Halted, vars, IInv, Progress
  <1> QED BY <1>1, <1>2, <1>3, MoveStep

LEMMA SessionsStep ==
  ASSUME IInv, NEW ok \in BOOLEAN, Create(ok) \/ Recv(ok) \/ GetData(ok)
  PROVE  IInv'
  <1> USE DEF counters
  <1>1. Progress /\ local = {}
    BY DEF IInv, Create, Recv, GetData, Locals
  <1>2. pc' \in Phases /\ Locals' /\ UNCHANGED local
    BY <1>1 DEF Create, Recv, GetData, IInv, Typed, Locals, Phases
  <1>3. CASE Create(ok)
    <2>1. i \in Ids /\ g_connections[i] = Null /\ i < N
      BY <1>1, <1>3, IndexInTable, SessionsAssumption
         DEF SessionsAssumption, Create, Progress, Ids
    <2>2. Progress'
      BY <1>1, <1>3, <2>1, SessionsAssumption
         DEF SessionsAssumption, Create, Progress, Ids, IInv, Typed
    <2>3. CASE ok
      <3>1. Created \in Session
        BY DEF Created, Session
      <3>2. heap' = heap \cup {Struct(i)} \cup (IF Created.recv_buf THEN {<<"recv_buf", i>>} ELSE {})
                         \cup (IF Created.packet_data THEN {<<"packet_data", i>>} ELSE {})
        BY <1>3, <2>3 DEF Create, Created
      <3>3. g_connections' = [g_connections EXCEPT ![i] = Created]
        BY <1>3, <2>3 DEF Create
      <3> QED BY <1>2, <2>1, <2>2, <3>1, <3>2, <3>3, TableStep
    <2>4. CASE ~ok
      <3>1. g_connections' = g_connections /\ heap' = heap
        BY <1>3, <2>1, <2>4 DEF Create, IInv, Typed
      <3> QED BY <1>2, <2>2, <3>1, MoveStep
    <2> QED BY <2>3, <2>4
  <1>4. CASE Recv(ok)
    <2>1. i \in Ids /\ g_connections[i] # Null /\ g_connections[i] \in Session
      BY <1>1, <1>4, IndexInTable DEF Recv, IInv, Typed
    <2>2. Progress'
      BY <1>1, <1>4, SessionsAssumption DEF SessionsAssumption, Recv, Progress
    <2> DEFINE has == g_connections[i].recv_buf \/ ok
               s == [g_connections[i] EXCEPT !.recv_buf = has]
    <2>3. s \in Session /\ s.recv_buf = has /\ s.packet_data = g_connections[i].packet_data
      BY <2>1 DEF Session
    <2>4. g_connections' = [g_connections EXCEPT ![i] = s]
      BY <1>4 DEF Recv
    <2>5. heap' = IF has THEN heap \cup {<<"recv_buf", i>>} ELSE heap
      BY <1>4 DEF Recv
    <2>6. Struct(i) \in heap /\ (g_connections[i].packet_data => <<"packet_data", i>> \in heap)
      BY <2>1 DEF IInv, Reachable, LeadsTo
    <2>7. heap' = heap \cup {Struct(i)} \cup (IF s.recv_buf THEN {<<"recv_buf", i>>} ELSE {})
                       \cup (IF s.packet_data THEN {<<"packet_data", i>>} ELSE {})
      BY <2>3, <2>5, <2>6
    <2>8. g_connections[i].recv_buf => s.recv_buf
      BY <2>3
    <2> HIDE DEF s, has
    <2> QED BY <1>2, <2>1, <2>2, <2>3, <2>4, <2>7, <2>8, TableStep
  <1>5. CASE GetData(ok)
    <2>1. 0 \in Ids /\ g_connections[0] # Null /\ g_connections[0] \in Session
      BY <1>1, <1>5, IndexInTable DEF GetData, IInv, Typed
    <2>2. Progress'
      BY <1>1, <1>5 DEF GetData, Progress
    <2> DEFINE has == g_connections[0].packet_data \/ ok
               s == [g_connections[0] EXCEPT !.packet_data = has]
    <2>3. s \in Session /\ s.packet_data = has /\ s.recv_buf = g_connections[0].recv_buf
      BY <2>1 DEF Session
    <2>4. g_connections' = [g_connections EXCEPT ![0] = s]
      BY <1>5 DEF GetData
    <2>5. heap' = IF has THEN heap \cup {<<"packet_data", 0>>} ELSE heap
      BY <1>5 DEF GetData
    <2>6. Struct(0) \in heap /\ (g_connections[0].recv_buf => <<"recv_buf", 0>> \in heap)
      BY <2>1 DEF IInv, Reachable, LeadsTo
    <2>7. heap' = heap \cup {Struct(0)} \cup (IF s.recv_buf THEN {<<"recv_buf", 0>>} ELSE {})
                       \cup (IF s.packet_data THEN {<<"packet_data", 0>>} ELSE {})
      BY <2>3, <2>5, <2>6
    <2>8. g_connections[0].packet_data => s.packet_data
      BY <2>3
    <2> HIDE DEF s, has
    <2> QED BY <1>2, <2>1, <2>2, <2>3, <2>4, <2>7, <2>8, TableStep
  <1> QED BY <1>3, <1>4, <1>5

LEMMA MallocStep ==
  ASSUME IInv, NEW ok \in BOOLEAN,
         MallocDecoded(ok) \/ MallocHeader(ok) \/ MallocPayload(ok) \/ DuplicateString(ok)
  PROVE  IInv'
  <1> USE DEF counters, table, Alloc
  <1>1. pc' \in Phases /\ Locals' /\ UNCHANGED g_connections
    BY DEF MallocDecoded, MallocHeader, MallocPayload, DuplicateString, NextPacket,
           IInv, Typed, Locals, Phases
  <1>2. Progress'
    BY DEF MallocDecoded, MallocHeader, MallocPayload, DuplicateString, NextPacket, IInv, Progress
  <1>3. \/ UNCHANGED <<local, heap>>
        \/ \E p \in {"decoded", "header", "payload", "dup"} : Alloc(p)
    BY DEF MallocDecoded, MallocHeader, MallocPayload, DuplicateString
  <1> HIDE DEF Alloc
  <1> QED BY <1>1, <1>2, <1>3, MoveStep, AllocStep

LEMMA FreesStep ==
  ASSUME IInv, DamagedHeader \/ CleanupPacket \/ FreeDup
  PROVE  IInv'
  <1> USE DEF counters, table
  <1> DEFINE pointers == {"decoded", "header", "payload", "dup"}
  <1>1. local \subseteq pointers
    BY DEF IInv, Locals, DamagedHeader, CleanupPacket, FreeDup
  <1>2. CASE DamagedHeader
    <2>1. {"header"} \in SUBSET local /\ {Local(p) : p \in {"header"}} = {Local("header")}
      BY <1>2 DEF IInv, Locals, DamagedHeader
    <2>2. pc' = "cleanup" => Locals' /\ Progress'
      BY <1>2 DEF DamagedHeader, IInv, Locals, Progress
    <2> QED BY <1>1, <1>2, <2>1, <2>2, FreeStep DEF DamagedHeader, Phases
  <1>3. CASE CleanupPacket
    <2>1. NextPacket \in {"decoded", "get_data"}
      BY DEF NextPacket
    <2>2. pc' = NextPacket => Locals' /\ Progress'
      BY <1>3, <2>1 DEF CleanupPacket, IInv, Locals, Progress
    <2>3. NextPacket \in Phases /\ local \in SUBSET local /\ local' = local \ local
      BY <1>3, <2>1 DEF Phases, CleanupPacket
    <2> QED BY <1>1, <1>3, <2>2, <2>3, FreeStep DEF CleanupPacket, LocalBlocks
  <1>4. CASE FreeDup
    <2>1. {"dup"} \in SUBSET local /\ {Local(p) : p \in {"dup"}} = {Local("dup")}
      BY <1>4 DEF IInv, Locals, FreeDup
    <2>2. pc' = "close" => Locals' /\ Progress'
      BY <1>4 DEF FreeDup, IInv, Locals, Progress
    <2> QED BY <1>1, <1>4, <2>1, <2>2, FreeStep DEF FreeDup, Phases
  <1> QED BY <1>2, <1>3, <1>4

LEMMA DestroysStep ==
  ASSUME IInv, SessionClose \/ Sweep
  PROVE  IInv'
  <1> USE DEF counters, table
  <1>1. local = {} /\ local' = local /\ 0 \in Ids /\ Progress /\ "sweep" \in Phases
    BY IndexInTable DEF IInv, Locals, SessionClose, Sweep, Phases
  <1>2. CASE SessionClose
    <2>1. g_connections'[0] = Null /\ i' = 1
      BY <1>1, <1>2 DEF SessionClose, SessionDestroy, IInv, Typed
    <2>2. pc' = "sweep" => Locals' /\ Progress'
      BY <1>1, <2>1 DEF Locals, Progress, Ids
    <2>3. CASE g_connections[0] = Null
      BY <1>1, <1>2, <2>2, <2>3, MoveStep DEF SessionClose
    <2>4. CASE g_connections[0] # Null
      BY <1>1, <1>2, <2>2, <2>4, DestroyStep DEF SessionClose
    <2> QED BY <2>3, <2>4
  <1>3. CASE Sweep
    <2>1. i \in Ids /\ pc = "sweep"
      BY <1>1, <1>3, IndexInTable DEF Sweep
    <2>2. /\ g_connections'[i] = Null /\ i' = i + 1
          /\ \A c \in Ids : c < i => g_connections'[c] = Null
      BY <1>1, <1>3, <2>1 DEF Sweep, SessionDestroy, IInv, Typed, Progress
    <2>3. pc' = "sweep" => Locals' /\ Progress'
      BY <1>1, <2>1, <2>2 DEF Locals, Progress, Ids
    <2>4. CASE g_connections[i] = Null
      BY <1>1, <1>3, <2>1, <2>3, <2>4, MoveStep DEF Sweep
    <2>5. CASE g_connections[i] # Null
      BY <1>1, <1>3, <2>1, <2>3, <2>5, DestroyStep DEF Sweep
    <2> QED BY <2>4, <2>5
  <1> QED BY <1>2, <1>3

\* IInv holds in every reachable state.
THEOREM SessionsInvariance == Spec => []IInv
  <1>1. IInv /\ [Next]_vars => IInv'
    BY LoopsStep, SessionsStep, MallocStep, FreesStep, DestroysStep DEF Next
  <1> QED BY IInvInit, <1>1, PTL DEF Spec

\* The blocks in use are those the program's pointers lead to: no allocation
\* failure makes broken-server lose a block or keep a pointer to a freed one.
THEOREM NoBlockLost == Spec => []HeapIsReachable
  <1>1. IInv => HeapIsReachable
    BY ReachableIsInvariant DEF IInv
  <1> QED BY SessionsInvariance, <1>1, PTL

\* free() is never called with a block that is free already.
THEOREM NoDoubleFree == Spec => []NothingFreedTwice
  <1>1. IInv => NothingFreedTwice
    BY DEF IInv, Typed, Phases, NothingFreedTwice
  <1> QED BY SessionsInvariance, <1>1, PTL

\* When main returns, every block has been freed.
THEOREM AllFreedAtExit == Spec => []NoLeakAtExit
  <1>1. IInv => NoLeakAtExit
    <2> SUFFICES ASSUME IInv, pc = "exit" PROVE heap = {}
      BY DEF NoLeakAtExit
    <2>1. local = {} /\ \A c \in Ids : g_connections[c] = Null
      BY SessionsAssumption DEF SessionsAssumption, IInv, Locals, Progress, Ids
    <2>2. \A b : b \notin heap
      BY <2>1 DEF IInv, Reachable, LeadsTo
    <2> QED BY <2>2
  <1> QED BY SessionsInvariance, <1>1, PTL

-------------------------------------------------------------------------------
(* The connection count. *)

LEMMA LiveFinite == IsFiniteSet(Live)
  <1>1. IsFiniteSet(Ids)
    <2>1. 0 \in Int /\ MAX_CONNECTIONS - 1 \in Int
      BY SessionsAssumption DEF SessionsAssumption
    <2> QED BY <2>1, FS_Interval DEF Ids
  <1>2. Live \in SUBSET Ids
    BY DEF Live
  <1> QED BY <1>1, <1>2, FS_Subset

LEMMA CountStep ==
  ASSUME IInv, CountsTable, Next
  PROVE  CountsTable'
  <1> USE DEF table, counters
  <1> SUFFICES ASSUME ~LastLoop' PROVE g_conn_count' = Cardinality(Live')
    BY DEF CountsTable
  <1>0. pc \notin {"sweep", "exit"} => g_conn_count = Cardinality(Live)
    BY DEF CountsTable, LastLoop
  <1>1. ASSUME NEW ok \in BOOLEAN, Create(ok)
        PROVE  g_conn_count' = Cardinality(Live')
    <2>1. i \in Ids /\ g_connections[i] = Null /\ g_connections \in [Ids -> Session \cup {Null}]
      BY <1>1, IndexInTable, SessionsAssumption
         DEF SessionsAssumption, Create, IInv, Progress, Ids, Typed
    <2>2. CASE ok
      <3>1. Live' = Live \cup {i} /\ i \notin Live
        BY <1>1, <2>1, <2>2 DEF Create, Live, Created, Null
      <3>2. Cardinality(Live') = Cardinality(Live) + 1
        BY <3>1, LiveFinite, FS_AddElement
      <3> QED BY <1>0, <1>1, <2>2, <3>2 DEF Create
    <2>3. CASE ~ok
      <3>1. Live' = Live
        BY <1>1, <2>1, <2>3 DEF Create, Live
      <3> QED BY <1>0, <1>1, <2>3, <3>1 DEF Create
    <2> QED BY <2>2, <2>3
  <1>2. ASSUME NEW ok \in BOOLEAN, Recv(ok) \/ GetData(ok)
        PROVE  g_conn_count' = Cardinality(Live')
    <2>1. g_connections \in [Ids -> Session \cup {Null}] /\ g_conn_count' = g_conn_count
          /\ pc \notin {"sweep", "exit"}
      BY <1>2 DEF IInv, Typed, Recv, GetData
    <2>2. PICK c \in Ids : /\ g_connections[c] # Null /\ g_connections'[c] # Null
                           /\ \A d \in Ids \ {c} : g_connections'[d] = g_connections[d]
      <3>1. CASE Recv(ok)
        <4>1. i \in Ids /\ g_connections[i] \in Session
          BY <2>1, <3>1, IndexInTable DEF IInv, Recv
        <4>2. g_connections'[i] \in Session
          BY <2>1, <3>1, <4>1 DEF Recv, Session
        <4> QED BY <2>1, <3>1, <4>1, <4>2 DEF Recv, Session, Null
      <3>2. CASE GetData(ok)
        <4>1. 0 \in Ids /\ g_connections[0] \in Session
          BY <2>1, <3>2, IndexInTable DEF IInv, GetData
        <4>2. g_connections'[0] \in Session
          BY <2>1, <3>2, <4>1 DEF GetData, Session
        <4> QED BY <2>1, <3>2, <4>1, <4>2 DEF GetData, Session, Null
      <3> QED BY <1>2, <3>1, <3>2
    <2>3. Live' = Live
      BY <2>2 DEF Live
    <2> QED BY <1>0, <2>1, <2>3
  <1>3. ASSUME UNCHANGED table, pc \notin {"sweep", "exit"}
        PROVE  g_conn_count' = Cardinality(Live')
    BY <1>0, <1>3 DEF Live
  <1>4. CASE SessionClose
    <2>1. /\ g_conn_count = Cardinality(Live) /\ 0 \in Ids
          /\ g_connections \in [Ids -> Session \cup {Null}]
      BY <1>0, <1>4, IndexInTable DEF SessionClose, IInv, Typed
    <2>2. CASE g_connections[0] = Null
      BY <1>4, <2>1, <2>2 DEF SessionClose, Live
    <2>3. CASE g_connections[0] # Null
      <3>1. Live' = Live \ {0} /\ 0 \in Live
        BY <1>4, <2>1, <2>3 DEF SessionClose, SessionDestroy, Live
      <3>2. Cardinality(Live') = Cardinality(Live) - 1
        BY <3>1, LiveFinite, FS_RemoveElement
      <3> QED BY <1>4, <2>1, <2>3, <3>2 DEF SessionClose
    <2> QED BY <2>2, <2>3
  <1>5. CASE Sweep \/ SweepDone
    \* free() succeeds, and the loop has begun.
    <2>1. IInv' /\ pc = "sweep" /\ i >= 1 /\ i \in Nat
      BY <1>5, DestroysStep, LoopsStep DEF Sweep, SweepDone, IInv, Progress
    <2>2. pc' = "exit" \/ (pc' \in {"sweep", "SIGABRT"} /\ i' > 1)
      BY <1>5, <2>1 DEF Sweep, SweepDone, SessionDestroy, Frees
    <2> QED BY <2>1, <2>2 DEF IInv, Typed, Phases, LastLoop
  <1>6. CASE \E ok \in BOOLEAN : MallocDecoded(ok) \/ MallocHeader(ok) \/ MallocPayload(ok)
                                 \/ DuplicateString(ok)
    BY <1>3, <1>6 DEF MallocDecoded, MallocHeader, MallocPayload, DuplicateString
  <1>7. CASE CreateDone \/ RecvSkips \/ RecvDone \/ DamagedHeader \/ NoPayload \/ CleanupPacket
             \/ GetDataOfNull \/ FreeDup
    BY <1>3, <1>7 DEF CreateDone, RecvSkips, RecvDone, DamagedHeader, NoPayload, CleanupPacket,
                      GetDataOfNull, FreeDup
  <1>8. CASE Halted
    BY <1>8 DEF Halted, vars, Live, CountsTable, LastLoop
  <1> QED BY <1>1, <1>2, <1>4, <1>5, <1>6, <1>7, <1>8 DEF Next

\* Until main's last loop the count is the number of sessions in the table,
\* whichever session_create failed.
THEOREM CountIsRight == Spec => []CountsTable
  <1>1. Init => CountsTable
    <2> SUFFICES ASSUME Init PROVE g_conn_count = Cardinality(Live)
      BY DEF CountsTable
    <2>1. Live = {}
      BY DEF Init, Live
    <2> QED BY <2>1, FS_EmptySet DEF Init
  <1>2. IInv /\ CountsTable /\ [Next]_vars => CountsTable'
    <2> SUFFICES ASSUME IInv, CountsTable, UNCHANGED vars PROVE CountsTable'
      BY CountStep
    <2> QED BY DEF vars, table, CountsTable, Live, LastLoop
  <1> QED BY SessionsInvariance, <1>1, <1>2, PTL DEF Spec

-------------------------------------------------------------------------------
(* The counters. *)

\* How far each counter can have come: sessions are counted one per turn of the
\* first loop, packets at most one per turn of the second.
Counters ==
    /\ g_conn_count \in 0 .. N /\ (pc = "create" => g_conn_count <= i)
    /\ g_total_packets \in 0 .. Len(Packets) /\ g_corrupted_packets \in 0 .. Len(Packets)
    /\ pc \in {"create", "recv"} => g_total_packets = 0 /\ g_corrupted_packets = 0
    /\ pc \in {"decoded", "header", "payload", "cleanup"} => i \in 1 .. Len(Packets)
    /\ pc \in {"decoded", "header", "payload"} => g_total_packets < i /\ g_corrupted_packets < i
    /\ pc = "cleanup" => g_total_packets <= i /\ g_corrupted_packets <= i

LEMMA ThreePackets == Len(Packets) = 3
  BY DEF Packets

\* The close that counts down finds a session in the table, which was counted.
LEMMA CloseCounts ==
  ASSUME IInv, CountsTable, Counters, SessionClose
  PROVE  g_conn_count' \in 0 .. N
  <1>1. g_conn_count = Cardinality(Live) /\ g_conn_count \in 0 .. N /\ 0 \in Ids
    BY IndexInTable DEF SessionClose, CountsTable, LastLoop, Counters, IInv
  <1>2. CASE g_connections[0] = Null
    BY <1>1, <1>2 DEF SessionClose, table
  <1>3. CASE g_connections[0] # Null
    <2>1. 0 \in Live
      BY <1>1, <1>3 DEF Live
    <2>2. Cardinality(Live) # 0
      BY <2>1, LiveFinite, FS_EmptySet
    <2>3. g_conn_count' = g_conn_count - 1
      BY <1>3 DEF SessionClose
    <2> QED BY <1>1, <2>2, <2>3, SessionsAssumption DEF SessionsAssumption
  <1> QED BY <1>2, <1>3

LEMMA CountersStep ==
  ASSUME IInv, CountsTable, Counters, Next
  PROVE  Counters'
  <1> USE SessionsAssumption, ThreePackets DEF SessionsAssumption, table, counters
  <1>0. i \in Nat
    BY DEF IInv, Progress
  <1>1. ASSUME NEW ok \in BOOLEAN, Create(ok) \/ Recv(ok) \/ GetData(ok) \/ DuplicateString(ok)
        PROVE  Counters'
    BY <1>0, <1>1 DEF Create, Recv, GetData, DuplicateString, Counters
  <1>2. ASSUME NEW ok \in BOOLEAN, MallocDecoded(ok) \/ MallocHeader(ok) \/ MallocPayload(ok)
        PROVE  Counters'
    BY <1>0, <1>2 DEF MallocDecoded, MallocHeader, MallocPayload, NextPacket, Counters
  <1>3. CASE CreateDone \/ RecvSkips \/ RecvDone \/ NoPayload \/ GetDataOfNull \/ SweepDone \/ Halted
    BY <1>0, <1>3 DEF CreateDone, RecvSkips, RecvDone, NoPayload, GetDataOfNull, SweepDone, Halted,
                      vars, Counters
  <1>4. CASE DamagedHeader \/ CleanupPacket \/ FreeDup
    BY <1>0, <1>4 DEF DamagedHeader, CleanupPacket, FreeDup, Frees, NextPacket, Counters
  <1>5. CASE SessionClose
    <2>1. pc' \in {"sweep", "SIGABRT"} /\ UNCHANGED counters /\ pc = "close"
      BY <1>5 DEF SessionClose, SessionDestroy, Frees
    <2> QED BY <1>5, <2>1, CloseCounts DEF Counters
  <1>6. CASE Sweep
    <2>1. pc' \in {"sweep", "SIGABRT"} /\ UNCHANGED <<g_conn_count, counters>>
      BY <1>6 DEF Sweep, SessionDestroy, Frees
    <2> QED BY <2>1 DEF Counters
  <1> QED BY <1>1, <1>2, <1>3, <1>4, <1>5, <1>6 DEF Next

\* Types; that the count stays between 0 and N depends on session_close being
\* called for a session that was counted, whichever session_create failed.
THEOREM SessionsTypeCorrect == Spec => []TypeOK
  <1>1. Init => Counters
    BY SessionsAssumption, ThreePackets DEF SessionsAssumption, Init, Counters
  <1>2. IInv /\ CountsTable /\ Counters /\ [Next]_vars => Counters'
    BY CountersStep DEF vars, table, counters, Counters
  <1>3. IInv /\ Counters => TypeOK
    <2> SUFFICES ASSUME IInv, Counters PROVE TypeOK
      OBVIOUS
    <2>1. local \subseteq {"decoded", "header", "payload", "dup"}
      BY DEF IInv, Locals
    <2> QED BY <2>1 DEF IInv, Typed, Phases, Progress, Counters, TypeOK, Ended
  <1> QED BY SessionsInvariance, CountIsRight, <1>1, <1>2, <1>3, PTL DEF Spec
=============================================================================
