--------------------------- MODULE MCSourceService ---------------------------
(* A small instance of SourceService: three handlers, so that two readers   *)
(* can be open on the lease that a third one made.                          *)
EXTENDS SourceService, TLC

CONSTANTS l1, q1, q2, q3, own

Handlers == Permutations(Request)
=============================================================================
