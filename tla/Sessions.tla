------------------------------- MODULE Sessions -------------------------------
(***************************************************************************)
(* week2/broken-server.c: a table of sessions on the heap, used by main in *)
(* a fixed order.  A step is one malloc or free with the code around it,   *)
(* or one turn of a loop; every malloc may fail.                           *)
(*                                                                         *)
(* A block of the heap is named by the pointer it was allocated for, so a  *)
(* pointer is NULL or its block; strings and packets have no contents      *)
(* beyond what the code branches on.                                       *)
(***************************************************************************)
EXTENDS Integers, Sequences, FiniteSets

CONSTANTS
    N,                \* sessions main creates
    DataLines,        \* strings of test_data before the NULL
    MAX_CONNECTIONS

ASSUME SessionsAssumption ==
    /\ N \in Nat \ {0} /\ MAX_CONNECTIONS \in Nat /\ N <= MAX_CONNECTIONS
    /\ DataLines \in 0 .. N

HEADER_SIZE == 5
\* The three packets main processes: a normal, a short and a damaged one.
Packets == <<[len |-> 23, damaged |-> FALSE], [len |-> 5, damaged |-> FALSE],
             [len |-> 24, damaged |-> TRUE]>>

VARIABLES
    pc,
    i,                \* the loop's index, or the number of the packet
    g_connections, g_conn_count,
    local,            \* process_packet's and main's pointers that are not NULL
    heap,             \* the blocks in use
    g_total_packets, g_corrupted_packets

counters == <<g_total_packets, g_corrupted_packets>>
table == <<g_connections, g_conn_count>>
vars == <<pc, i, table, local, heap, counters>>

Ids == 0 .. MAX_CONNECTIONS - 1
Null == [recv_buf |-> FALSE, packet_data |-> FALSE, state |-> "NULL"]
Session == [recv_buf: BOOLEAN, packet_data: BOOLEAN, state: {"NEW"}]
Created == [recv_buf |-> FALSE, packet_data |-> FALSE, state |-> "NEW"]

Struct(c) == <<"session", c>>
Members(c) == (IF g_connections[c].recv_buf THEN {<<"recv_buf", c>>} ELSE {})
              \cup (IF g_connections[c].packet_data THEN {<<"packet_data", c>>} ELSE {})
Local(p) == <<p, 0>>
LocalBlocks == {Local(p) : p \in local}

Ended == pc \in {"exit", "SIGSEGV", "SIGABRT"}

Init ==
    /\ pc = "create" /\ i = 0
    /\ g_connections = [c \in Ids |-> Null] /\ g_conn_count = 0
    /\ local = {} /\ heap = {}
    /\ g_total_packets = 0 /\ g_corrupted_packets = 0

\* free() of some blocks, going on at next; a block that is free already aborts.
Frees(blocks, next) ==
    /\ heap' = heap \ blocks
    /\ pc' = IF blocks \subseteq heap THEN next ELSE "SIGABRT"

-------------------------------------------------------------------------------
(* session_create and session_recv, in main's first two loops. *)

\* Faulty variant: the connection is counted before session_create's result.
CountsFailure(ok) ==
    /\ pc = "create" /\ i < N
    /\ heap' = IF ok THEN heap \cup {Struct(i)} ELSE heap
    /\ g_connections' = [g_connections EXCEPT ![i] = IF ok THEN Created ELSE Null]
    /\ g_conn_count' = g_conn_count + 1
    /\ i' = i + 1
    /\ UNCHANGED <<pc, local, counters>>

Create(ok) ==
    /\ pc = "create" /\ i < N
    /\ heap' = IF ok THEN heap \cup {Struct(i)} ELSE heap
    /\ g_connections' = [g_connections EXCEPT ![i] = IF ok THEN Created ELSE Null]
    /\ g_conn_count' = IF ok THEN g_conn_count + 1 ELSE g_conn_count
    /\ i' = i + 1
    /\ UNCHANGED <<pc, local, counters>>

CreateDone ==
    /\ pc = "create" /\ i = N
    /\ pc' = "recv" /\ i' = 0
    /\ UNCHANGED <<table, local, heap, counters>>

\* session_recv allocates its buffer at the first call for a session.
Recv(ok) ==
    /\ pc = "recv" /\ i < DataLines /\ g_connections[i] # Null
    /\ LET has == g_connections[i].recv_buf \/ ok
       IN  /\ heap' = IF has THEN heap \cup {<<"recv_buf", i>>} ELSE heap
           /\ g_connections' = [g_connections EXCEPT ![i].recv_buf = has]
    /\ i' = i + 1
    /\ UNCHANGED <<pc, g_conn_count, local, counters>>

\* Faulty variant: main does not look whether the entry is NULL.
RecvUnchecked ==
    /\ pc = "recv" /\ i < DataLines /\ g_connections[i] = Null
    /\ g_connections' = [g_connections EXCEPT ![i].recv_buf = TRUE]
    /\ heap' = heap \cup {<<"recv_buf", i>>}
    /\ i' = i + 1
    /\ UNCHANGED <<pc, g_conn_count, local, counters>>

RecvSkips ==
    /\ pc = "recv" /\ i < DataLines /\ g_connections[i] = Null
    /\ i' = i + 1
    /\ UNCHANGED <<pc, table, local, heap, counters>>

RecvDone ==
    /\ pc = "recv" /\ i = DataLines
    /\ pc' = "decoded" /\ i' = 1
    /\ UNCHANGED <<table, local, heap, counters>>

-------------------------------------------------------------------------------
(* process_packet and parse_header. *)

packet == Packets[i]
NextPacket == IF i < Len(Packets) THEN "decoded" ELSE "get_data"
Alloc(p) == local' = local \cup {p} /\ heap' = heap \cup {Local(p)}

MallocDecoded(ok) ==
    /\ pc = "decoded"
    /\ \/ ok /\ Alloc("decoded") /\ pc' = "header" /\ i' = i
       \/ ~ok /\ pc' = NextPacket /\ i' = i + 1 /\ UNCHANGED <<local, heap>>
    /\ UNCHANGED <<table, counters>>

\* parse_header refuses a packet shorter than a header.
MallocHeader(ok) ==
    /\ pc = "header"
    /\ \/ ok /\ packet.len >= HEADER_SIZE /\ Alloc("header") /\ pc' = "payload"
       \/ (~ok \/ packet.len < HEADER_SIZE) /\ pc' = "cleanup" /\ UNCHANGED <<local, heap>>
    /\ UNCHANGED <<i, table, counters>>

\* Faulty variant: the freed header is returned, as before bug 6 was mended.
ReturnsFreedHeader ==
    /\ pc = "payload" /\ packet.damaged
    /\ Frees({Local("header")}, "cleanup") /\ local' = local
    /\ g_corrupted_packets' = g_corrupted_packets + 1
    /\ UNCHANGED <<i, table, g_total_packets>>

DamagedHeader ==
    /\ pc = "payload" /\ packet.damaged
    /\ Frees({Local("header")}, "cleanup") /\ local' = local \ {"header"}
    /\ g_corrupted_packets' = g_corrupted_packets + 1
    /\ UNCHANGED <<i, table, g_total_packets>>

NoPayload ==
    /\ pc = "payload" /\ ~packet.damaged /\ packet.len <= HEADER_SIZE
    /\ pc' = "cleanup"
    /\ UNCHANGED <<i, table, local, heap, counters>>

MallocPayload(ok) ==
    /\ pc = "payload" /\ ~packet.damaged /\ packet.len > HEADER_SIZE
    /\ \/ ok /\ Alloc("payload") /\ g_total_packets' = g_total_packets + 1
       \/ ~ok /\ UNCHANGED <<local, heap, g_total_packets>>
    /\ pc' = "cleanup"
    /\ UNCHANGED <<i, table, g_corrupted_packets>>

\* Faulty variant: only a packet with a payload is cleaned up, as before bug 7
\* was mended.
EarlyReturn ==
    /\ pc = "cleanup"
    /\ IF "payload" \in local THEN Frees(LocalBlocks, NextPacket)
       ELSE pc' = NextPacket /\ heap' = heap
    /\ local' = {} /\ i' = i + 1
    /\ UNCHANGED <<table, counters>>

CleanupPacket ==
    /\ pc = "cleanup"
    /\ Frees(LocalBlocks, NextPacket)
    /\ local' = {} /\ i' = i + 1
    /\ UNCHANGED <<table, counters>>

-------------------------------------------------------------------------------
(* The rest of main. *)

\* session_get_data(g_connections[0]) does not expect NULL.
GetDataOfNull ==
    /\ pc = "get_data" /\ g_connections[0] = Null
    /\ pc' = "SIGSEGV"
    /\ UNCHANGED <<i, table, local, heap, counters>>

GetData(ok) ==
    /\ pc = "get_data" /\ g_connections[0] # Null
    /\ LET has == g_connections[0].packet_data \/ ok
       IN  /\ heap' = IF has THEN heap \cup {<<"packet_data", 0>>} ELSE heap
           /\ g_connections' = [g_connections EXCEPT ![0].packet_data = has]
    /\ pc' = "dup"
    /\ UNCHANGED <<i, g_conn_count, local, counters>>

DuplicateString(ok) ==
    /\ pc = "dup"
    /\ \/ ok /\ Alloc("dup") /\ pc' = "free_dup"
       \/ ~ok /\ pc' = "close" /\ UNCHANGED <<local, heap>>
    /\ UNCHANGED <<i, table, counters>>

FreeDup ==
    /\ pc = "free_dup"
    /\ Frees({Local("dup")}, "close") /\ local' = local \ {"dup"}
    /\ UNCHANGED <<i, table, counters>>

\* Faulty variant: the members are not freed, as before bug 2 was mended.
DestroyStructOnly(c, next) ==
    Frees({Struct(c)}, next) /\ g_connections' = [g_connections EXCEPT ![c] = Null]

SessionDestroy(c, next) ==
    Frees({Struct(c)} \cup Members(c), next)
    /\ g_connections' = [g_connections EXCEPT ![c] = Null]

SessionClose ==
    /\ pc = "close"
    /\ IF g_connections[0] # Null
       THEN SessionDestroy(0, "sweep") /\ g_conn_count' = g_conn_count - 1
       ELSE pc' = "sweep" /\ UNCHANGED <<heap, table>>
    /\ i' = 1
    /\ UNCHANGED <<local, counters>>

Sweep ==
    /\ pc = "sweep" /\ i < MAX_CONNECTIONS
    /\ IF g_connections[i] # Null THEN SessionDestroy(i, "sweep")
       ELSE pc' = pc /\ UNCHANGED <<heap, g_connections>>
    /\ i' = i + 1
    /\ UNCHANGED <<g_conn_count, local, counters>>

SweepDone ==
    /\ pc = "sweep" /\ i >= MAX_CONNECTIONS
    /\ pc' = "exit"
    /\ UNCHANGED <<i, table, local, heap, counters>>

Halted == Ended /\ UNCHANGED vars

-------------------------------------------------------------------------------
Next ==
    \/ \E ok \in BOOLEAN :
          \/ Create(ok) \/ Recv(ok) \/ MallocDecoded(ok) \/ MallocHeader(ok)
          \/ MallocPayload(ok) \/ GetData(ok) \/ DuplicateString(ok)
    \/ CreateDone \/ RecvSkips \/ RecvDone
    \/ DamagedHeader \/ NoPayload \/ CleanupPacket
    \/ GetDataOfNull \/ FreeDup \/ SessionClose \/ Sweep \/ SweepDone \/ Halted

Spec == Init /\ [][Next]_vars

-------------------------------------------------------------------------------
(* Properties. *)

TypeOK ==
    /\ pc \in {"create", "recv", "decoded", "header", "payload", "cleanup", "get_data",
               "dup", "free_dup", "close", "sweep"} \/ Ended
    /\ i \in Nat
    /\ g_connections \in [Ids -> Session \cup {Null}]
    /\ g_conn_count \in 0 .. N
    /\ local \subseteq {"decoded", "header", "payload", "dup"}
    /\ g_total_packets \in 0 .. Len(Packets) /\ g_corrupted_packets \in 0 .. Len(Packets)

Live == {c \in Ids : g_connections[c] # Null}

\* The blocks in use are exactly those a pointer of the program leads to:
\* whichever allocations failed before, nothing is lost and no pointer dangles.
HeapIsReachable ==
    heap = {Struct(c) : c \in Live} \cup (UNION {Members(c) : c \in Live}) \cup LocalBlocks

\* Nothing is freed twice, on whichever path process_packet is left.
NothingFreedTwice == pc # "SIGABRT"

\* The connection count follows the table, whichever session_create failed, as
\* long as sessions are closed with session_close; main's last loop destroys
\* them behind its back.
LastLoop == pc = "exit" \/ (pc = "sweep" /\ i > 1)
CountsTable == ~LastLoop => g_conn_count = Cardinality(Live)

\* main returns with everything freed.
NoLeakAtExit == pc = "exit" => heap = {}
==============================================================================
