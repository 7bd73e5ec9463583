--------------------------- MODULE MCSqliteLedger ---------------------------
(* Two processes share a ledger; records a, b and c have tokens of their   *)
(* own, a2 is another record with the token of a, and c is in the ledger,   *)
(* if at all, from the beginning.                                           *)
EXTENDS SqliteLedger

CONSTANTS admitA, admitB, admitA2, deleteA, list, p1, p2, a, b, a2, c

MCTokenOf == [r \in Record |-> IF r = a2 THEN a ELSE r]
MCRecordOf == [k \in Caller |-> IF k = admitB THEN b
                                ELSE IF k = admitA2 THEN a2 ELSE a]
MCProcessOf == [k \in Caller |-> IF k \in {admitA, list} THEN p1 ELSE p2]
=============================================================================
