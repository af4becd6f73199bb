----------------------------- MODULE MCSessions -----------------------------
(* Sessions with the numbers of the source.                                    *)
EXTENDS Sessions
=============================================================================
