----------------------------- MODULE MCEpollEcho -----------------------------
(* EpollEcho, either program, with two descriptors and few bytes.            *)
EXTENDS EpollEcho
==============================================================================
