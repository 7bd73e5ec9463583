-------------------------- MODULE OwnershipLedger --------------------------
(***************************************************************************)
(* What the ownership ledger promises its callers: source.OwnershipLedger  *)
(* and source.RecoveryLedger.  A call of Admit or Delete takes effect in   *)
(* one atomic step, or not at all; success is answered only after the      *)
(* effect; an error says nothing about it.                                 *)
(***************************************************************************)
EXTENDS Naturals, FiniteSets

CONSTANTS
    Caller,        \* one call of the ledger each
    Record,        \* ownership records
    TokenOf,       \* the token of a record, the table's primary key
    RecordOf,      \* the record a caller passes
    Admitting,     \* the callers that call Admit; the others call Delete
    MaxRows        \* 64 in the code

VARIABLES
    rows,          \* the durable rows
    call           \* per caller: idle, called, taken, ok or error

vars == <<rows, call>>

TypeOK ==
    /\ rows \subseteq Record
    /\ call \in [Caller -> {"idle", "called", "taken", "ok", "error"}]

Init ==
    /\ rows \in SUBSET Record
    /\ Cardinality(rows) <= MaxRows
    /\ \A x, y \in rows : TokenOf[x] = TokenOf[y] => x = y
    /\ call = [c \in Caller |-> "idle"]

Move(c, from, to) ==
    /\ call[c] \in from
    /\ call' = [call EXCEPT ![c] = to]

Invoke(c) == Move(c, {"idle"}, "called") /\ UNCHANGED rows

(* Admission is idempotent for the exact record and refused for another     *)
(* record with its token.  A row that somebody deleted while Admit was      *)
(* still unsure of its commit may be inserted once more.                    *)
TakeAdmit(c) ==
    /\ c \in Admitting
    /\ Move(c, {"called", "taken"}, "taken")
    /\ \/ RecordOf[c] \in rows /\ UNCHANGED rows
       \/ /\ \A x \in rows : TokenOf[x] # TokenOf[RecordOf[c]]
          /\ Cardinality(rows) < MaxRows
          /\ rows' = rows \cup {RecordOf[c]}

(* Deletion removes exactly the record, once.                               *)
TakeDelete(c) ==
    /\ c \notin Admitting
    /\ Move(c, {"called"}, "taken")
    /\ RecordOf[c] \in rows
    /\ rows' = rows \ {RecordOf[c]}

Succeed(c) == Move(c, {"taken"}, "ok") /\ UNCHANGED rows
Err(c) == Move(c, {"called", "taken"}, "error") /\ UNCHANGED rows

Next == \E c \in Caller :
    Invoke(c) \/ TakeAdmit(c) \/ TakeDelete(c) \/ Succeed(c) \/ Err(c)

Spec == Init /\ [][Next]_vars
=============================================================================
