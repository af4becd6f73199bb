---------------------------- MODULE MCBlockingEcho ---------------------------
(* BlockingEcho with two clients and buffers of three bytes: a line fits,     *)
(* fills the buffer of read_full exactly, or is cut by fgets.                 *)
EXTENDS BlockingEcho
==============================================================================
