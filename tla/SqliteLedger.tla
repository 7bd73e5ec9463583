---------------------------- MODULE SqliteLedger ----------------------------
(***************************************************************************)
(* internal/ownership/sqlite.Ledger: Admit, Delete and ListRecovery over a *)
(* SQLite file in rollback-journal mode.  Each process has a pool of one   *)
(* connection (SetMaxOpenConns(1)).  A writer holds SQLite's RESERVED lock *)
(* from BEGIN IMMEDIATE on and commits only while nobody reads; a lock not *)
(* obtained within the busy timeout is SQLITE_BUSY.  A COMMIT that reports *)
(* an error may be durable all the same.                                   *)
(*                                                                         *)
(* SQLite itself is modelled from how the ledger uses it.                  *)
(***************************************************************************)
EXTENDS Naturals, FiniteSets

CONSTANTS
    Caller, Record, TokenOf, RecordOf, Admitting, MaxRows,
    Lister,        \* the callers that call ListRecovery
    Process, ProcessOf,
    NoCaller,      \* nobody holds the connection or the lock
    Retries,       \* attempts after the first: len(transactionRetryDelays)+1
    MaxFaults      \* bound: I/O errors and expired contexts

ASSUME SqliteAssumption ==
    /\ RecordOf \in [Caller -> Record]
    /\ Admitting \subseteq Caller
    /\ Lister \subseteq Caller \ Admitting
    /\ ProcessOf \in [Caller -> Process]
    /\ NoCaller \notin Caller
    /\ MaxRows \in Nat
    /\ Retries \in Nat
    /\ MaxFaults \in Nat

VARIABLES
    db,            \* the committed rows
    pool,          \* per process, the caller that has its connection
    reserved,      \* the caller with SQLite's RESERVED lock
    readers,       \* the callers with a SHARED lock
    pc,            \* per caller, where it is
    tx,            \* per caller, the rows its transaction would commit
    attempt,       \* per caller, Admit's loop counter
    took,          \* history: the effect is there, by this call or found
    faults

vars == <<db, pool, reserved, readers, pc, tx, attempt, took, faults>>
connVars == <<pool, reserved, readers>>

Finished == {"ok", "error"}
Stages == {"idle", "conn", "begin", "work", "commit", "again", "check",
           "readback", "succeeding", "failing", "list", "listing"} \cup Finished

TypeOK ==
    /\ db \subseteq Record
    /\ pool \in [Process -> Caller \cup {NoCaller}]
    /\ reserved \in Caller \cup {NoCaller}
    /\ readers \subseteq Caller
    /\ pc \in [Caller -> Stages]
    /\ tx \in [Caller -> SUBSET Record]
    /\ attempt \in [Caller -> 0..Retries]
    /\ took \in [Caller -> BOOLEAN]
    /\ faults \in 0..MaxFaults

Unique(rs) == \A x, y \in rs : TokenOf[x] = TokenOf[y] => x = y

Init ==
    /\ db \in SUBSET Record /\ Cardinality(db) <= MaxRows /\ Unique(db)
    /\ pool = [p \in Process |-> NoCaller]
    /\ reserved = NoCaller
    /\ readers = {}
    /\ pc = [c \in Caller |-> "idle"]
    /\ tx = [c \in Caller |-> {}]
    /\ attempt = [c \in Caller |-> 0]
    /\ took = [c \in Caller |-> FALSE]
    /\ faults = 0

-----------------------------------------------------------------------------

Step(c, from, to) == pc[c] = from /\ pc' = [pc EXCEPT ![c] = to]
Fault == faults < MaxFaults /\ faults' = faults + 1

Mine(c) == RecordOf[c]
Conn(c) == pool[ProcessOf[c]]

TakeConn(c) ==
    /\ Conn(c) = NoCaller
    /\ pool' = [pool EXCEPT ![ProcessOf[c]] = c]
GiveConn(c) == pool' = [pool EXCEPT ![ProcessOf[c]] = NoCaller]

(* The deferred ROLLBACK, if there was no COMMIT, and conn.Close.           *)
EndTransaction(c) ==
    /\ reserved' = IF reserved = c THEN NoCaller ELSE reserved
    /\ tx' = [tx EXCEPT ![c] = {}]
    /\ GiveConn(c)

-----------------------------------------------------------------------------
(* The transaction of Admit and of Delete. *)

Call(c) ==
    /\ Step(c, "idle", IF c \in Lister THEN "list" ELSE "conn")
    /\ UNCHANGED <<db, connVars, tx, attempt, took, faults>>

GetConn(c) ==
    /\ Step(c, "conn", "begin")
    /\ TakeConn(c)
    /\ UNCHANGED <<db, reserved, readers, tx, attempt, took, faults>>

(* Mutant: a deferred transaction, which takes no lock before it reads.     *)
Deferred == TRUE
LockFree == reserved = NoCaller

BeginImmediate(c) ==
    /\ LockFree
    /\ Step(c, "begin", "work")
    /\ reserved' = c
    /\ UNCHANGED <<db, pool, readers, tx, attempt, took, faults>>

(* An attempt that certainly did nothing, because the lock was not to be    *)
(* had: Admit waits and tries again, Delete gives up.                       *)
BeginBusy(c) ==
    /\ ~LockFree
    /\ Step(c, "begin", IF c \in Admitting THEN "again" ELSE "error")
    /\ EndTransaction(c)
    /\ UNCHANGED <<db, readers, attempt, took, faults>>

HasRoom == Cardinality(db) < MaxRows

TokenFree(c) == \A x \in db : TokenOf[x] # TokenOf[Mine(c)]

(* SELECT, count and INSERT under the lock.                                 *)
AdmitWork(c) ==
    /\ c \in Admitting
    /\ Step(c, "work", "commit")
    /\ \/ Mine(c) \in db /\ tx' = [tx EXCEPT ![c] = db]
       \/ /\ TokenFree(c)
          /\ HasRoom
          /\ tx' = [tx EXCEPT ![c] = db \cup {Mine(c)}]
    /\ UNCHANGED <<db, connVars, attempt, took, faults>>

(* ErrOwnershipMismatch and ErrOwnershipCapacity are not retried.           *)
AdmitRefused(c) ==
    /\ c \in Admitting
    /\ Mine(c) \notin db
    /\ ~TokenFree(c) \/ ~HasRoom
    /\ Step(c, "work", "error")
    /\ EndTransaction(c)
    /\ UNCHANGED <<db, readers, attempt, took, faults>>

DeleteWork(c) ==
    /\ c \notin Admitting
    /\ Mine(c) \in db
    /\ Step(c, "work", "commit")
    /\ tx' = [tx EXCEPT ![c] = db \ {Mine(c)}]
    /\ UNCHANGED <<db, connVars, attempt, took, faults>>

DeleteMissing(c) ==
    /\ c \notin Admitting
    /\ Mine(c) \notin db
    /\ Step(c, "work", "error")
    /\ EndTransaction(c)
    /\ UNCHANGED <<db, readers, attempt, took, faults>>

(* After COMMIT succeeded, Admit still requires the exact row.              *)
Commit(c) ==
    /\ readers = {}
    /\ Step(c, "commit", IF c \in Admitting THEN "check" ELSE "succeeding")
    /\ db' = tx[c]
    /\ took' = [took EXCEPT ![c] = TRUE]
    /\ EndTransaction(c)
    /\ UNCHANGED <<readers, attempt, faults>>

(* COMMIT reports an error: SQLITE_BUSY while somebody reads, or a fault    *)
(* that leaves it open whether the transaction is durable.                  *)
CommitFails(c) ==
    /\ Step(c, "commit", IF c \in Admitting THEN "readback" ELSE "failing")
    /\ \/ readers # {} /\ UNCHANGED <<db, took, faults>>
       \/ Fault /\ UNCHANGED <<db, took>>
       \/ Fault /\ db' = tx[c] /\ took' = [took EXCEPT ![c] = TRUE]
    /\ EndTransaction(c)
    /\ UNCHANGED <<readers, attempt>>

Return(c) ==
    /\ pc[c] \in {"succeeding", "failing"}
    /\ pc' = [pc EXCEPT ![c] = IF @ = "succeeding" THEN "ok" ELSE "error"]
    /\ UNCHANGED <<db, connVars, tx, attempt, took, faults>>

(* An expired context or an I/O error anywhere before COMMIT; it is not     *)
(* SQLITE_BUSY, so that Admit does not try again.                           *)
WorkFault(c) ==
    /\ pc[c] \in {"conn", "begin", "work"}
    /\ pc' = [pc EXCEPT ![c] = "error"]
    /\ IF pc[c] = "conn" THEN UNCHANGED <<pool, reserved, tx>> ELSE EndTransaction(c)
    /\ Fault
    /\ UNCHANGED <<db, readers, attempt, took>>

-----------------------------------------------------------------------------
(* Admit's loop and its readback. *)

(* Mutant: after an ambiguous commit, a row that is not there is success.   *)
AssumedDurable(c) == "succeeding"
(* Mutant: the row is waited for. *)
ReadAgain(c) == "readback"
NotFound(c) == "again"

(* One SELECT on a pooled connection, outside any transaction.              *)
Readback(c) ==
    /\ Conn(c) = NoCaller
    /\ Step(c, "readback",
            IF Mine(c) \in db THEN "succeeding"
            ELSE IF TokenFree(c) THEN NotFound(c) ELSE "error")
    /\ took' = [took EXCEPT ![c] = @ \/ Mine(c) \in db]
    /\ UNCHANGED <<db, connVars, tx, attempt, faults>>

RequireExact(c) ==
    /\ Conn(c) = NoCaller
    /\ Step(c, "check", IF Mine(c) \in db THEN "ok" ELSE "error")
    /\ UNCHANGED <<db, connVars, tx, attempt, took, faults>>

ReadFault(c) ==
    /\ pc[c] \in {"readback", "check", "again"}
    /\ pc' = [pc EXCEPT ![c] = "error"]
    /\ Fault
    /\ UNCHANGED <<db, connVars, tx, attempt, took>>

(* Three waits, one attempt more without a wait, then the error.            *)
MayRetry(c) == attempt[c] < Retries

Again(c) ==
    /\ MayRetry(c)
    /\ Step(c, "again", "conn")
    /\ attempt' = [attempt EXCEPT ![c] = @ + 1]
    /\ UNCHANGED <<db, connVars, tx, took, faults>>

GiveUp(c) ==
    /\ ~MayRetry(c)
    /\ Step(c, "again", "error")
    /\ UNCHANGED <<db, connVars, tx, attempt, took, faults>>

-----------------------------------------------------------------------------
(* ListRecovery: one SELECT whose rows are read one by one under SHARED.    *)

ListStart(c) ==
    /\ Step(c, "list", "listing")
    /\ TakeConn(c)
    /\ readers' = readers \cup {c}
    /\ UNCHANGED <<db, reserved, tx, attempt, took, faults>>

ListEnd(c) ==
    /\ Step(c, "listing", "ok")
    /\ GiveConn(c)
    /\ readers' = readers \ {c}
    /\ UNCHANGED <<db, reserved, tx, attempt, took, faults>>

-----------------------------------------------------------------------------

Transaction(c) ==
    \/ GetConn(c) \/ BeginImmediate(c) \/ BeginBusy(c)
    \/ AdmitWork(c) \/ AdmitRefused(c) \/ DeleteWork(c) \/ DeleteMissing(c)
    \/ Commit(c) \/ CommitFails(c) \/ Return(c) \/ WorkFault(c)

Loop(c) == Readback(c) \/ RequireExact(c) \/ ReadFault(c) \/ Again(c) \/ GiveUp(c)
List(c) == ListStart(c) \/ ListEnd(c)

Next == \E c \in Caller : Call(c) \/ Transaction(c) \/ Loop(c) \/ List(c)

Spec == Init /\ [][Next]_vars

(* A goroutine that waits for the one connection gets its turn (database/sql *)
(* queues the waiters), hence strong fairness.                               *)
Fairness == \A c \in Caller : SF_vars(Transaction(c) \/ Loop(c) \/ List(c))

FairSpec == Spec /\ Fairness

-----------------------------------------------------------------------------
(* Properties. *)

(* Nothing is written past another caller's transaction: the rows a caller  *)
(* is about to commit are still the rows it read, but for its own record.   *)
NoLostUpdate ==
    \A c \in Caller : pc[c] = "commit" =>
        tx[c] \ {Mine(c)} = db \ {Mine(c)}

(* The ledger keeps its promise: effects are atomic, at most one per Delete,*)
(* and a success is never answered without the effect.                      *)
Promise == INSTANCE OwnershipLedger WITH
    rows <- db,
    call <- [c \in Caller |->
               IF c \in Lister \/ pc[c] = "idle" THEN "idle"
               ELSE IF pc[c] \in Finished THEN pc[c]
               ELSE IF took[c] THEN "taken" ELSE "called"]
KeepsPromise == Promise!Spec

(* Admit's retries are bounded and nobody waits for somebody who waits:     *)
(* every call returns.                                                      *)
CallsReturn == \A c \in Caller : pc[c] # "idle" ~> pc[c] \in Finished
=============================================================================
