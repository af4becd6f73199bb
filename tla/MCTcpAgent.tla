------------------------------ MODULE MCTcpAgent ------------------------------
(* TcpAgent on a few descriptors and addresses: WORD is 64, so that addresses  *)
(* stay small; an address is a multiple of 16, as malloc's are.                *)
EXTENDS TcpAgent
==============================================================================
