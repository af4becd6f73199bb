------------------------------ MODULE ByteStream ------------------------------
(***************************************************************************)
(* What an echo server sends back, as a sequence of bytes: a peer's own    *)
(* bytes are numbered from 1 in the order it sent them, and what the       *)
(* server puts in between is not positive.                                 *)
(***************************************************************************)
EXTENDS Integers, Sequences, Functions

\* Which of a peer's own bytes are among these.
Own(bytes) == {b \in Range(bytes) : b > 0}

\* The peer's own bytes are in the order it sent them, each at most once.
InOrder(bytes) == \A i, j \in DOMAIN bytes :
    i < j /\ bytes[i] > 0 /\ bytes[j] > 0 => bytes[i] < bytes[j]
==============================================================================
