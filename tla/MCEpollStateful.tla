--------------------------- MODULE MCEpollStateful ---------------------------
(* EpollStateful on two heap slots and two descriptors. *)
EXTENDS EpollStateful, TLC

\* Heap slots are interchangeable (safety only).
SlotSymmetry == Permutations(Ptrs)
==============================================================================
