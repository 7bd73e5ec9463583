----------------------------- MODULE MCAuditFile -----------------------------
(* A small instance of AuditFile: processes and events are symmetric.       *)
EXTENDS AuditFile, TLC

CONSTANTS p1, p2, e1, e2, e3

Interchangeable == Permutations(Process) \cup Permutations(Event)
=============================================================================
