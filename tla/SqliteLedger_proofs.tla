------------------------ MODULE SqliteLedger_proofs ------------------------
(***************************************************************************)
(* For any number of callers, processes, rows and retries: the SQLite      *)
(* ledger, its busy locks, ambiguous commits and readbacks included, keeps *)
(* what OwnershipLedger promises; and for any number of processes and      *)
(* crashes, a ledger that one of them has open was verified.               *)
(*                                                                         *)
(* Of the other file several processes share, the credential vault: for    *)
(* any number of commands, failures and kills, what was committed last can *)
(* be read, and an enrolled profile has a vault.                           *)
(***************************************************************************)
EXTENDS SqliteLedger, LedgerOpen, VaultCommands, TLAPS

\* A transaction about to be committed writes what the rows still call for.
Prepared(c) ==
    pc[c] = "commit" =>
        IF c \in Admitting
        THEN \/ Mine(c) \in db /\ tx[c] = db
             \/ TokenFree(c) /\ HasRoom /\ tx[c] = db \cup {Mine(c)}
        ELSE Mine(c) \in db /\ tx[c] = db \ {Mine(c)}

\* Where each kind of caller can be, and what it has seen of its own effect by then.
Placed(c) ==
    /\ c \in Lister => pc[c] \in {"idle", "list", "listing"} \cup Finished
    /\ pc[c] \in {"list", "listing"} => c \in Lister
    /\ pc[c] \in {"again", "check", "readback"} => c \in Admitting
    /\ pc[c] \in {"check", "succeeding"} => took[c]
    /\ pc[c] = "idle" => ~took[c]
    /\ c \notin Admitting /\ pc[c] \in {"conn", "begin", "work", "commit"} => ~took[c]

CallerInv(c) ==
    /\ pc[c] \in {"work", "commit"} => reserved = c
    /\ Prepared(c)
    /\ Placed(c)

\* The inductive invariant.
LedgerInv == TypeOK /\ \A c \in Caller : CallerInv(c)

----------------------------------------------------------------------------

\* A caller's step says nothing of the others, as it takes the lock only when it is
\* free and changes the rows only while it has it.
Alone(c) ==
    /\ \A d \in Caller \ {c} : pc'[d] = pc[d] /\ tx'[d] = tx[d] /\ took'[d] = took[d]
    /\ reserved' = reserved \/ reserved \in {c, NoCaller}
    /\ db' = db \/ reserved = c

LEMMA OthersKeep ==
    ASSUME LedgerInv, NEW c \in Caller, Alone(c), NEW d \in Caller \ {c}
    PROVE  CallerInv(d)'
<1>1. d # NoCaller
  BY SqliteAssumption
<1>2. CallerInv(d)
  BY DEF LedgerInv
<1>3. pc'[d] = pc[d] /\ tx'[d] = tx[d] /\ took'[d] = took[d]
  BY DEF Alone
<1>4. pc[d] \in {"work", "commit"} => reserved' = d /\ db' = db
  BY <1>1, <1>2 DEF Alone, CallerInv
<1>5. Placed(d)'
  BY <1>2, <1>3 DEF CallerInv, Placed
<1>6. Prepared(d)'
  BY <1>2, <1>3, <1>4 DEF CallerInv, Prepared, TokenFree, HasRoom, Mine
<1>7. QED
  BY <1>3, <1>4, <1>5, <1>6 DEF CallerInv

\* The connections and the locks keep their types.
LEMMA ConnTypes ==
    ASSUME TypeOK, NEW c \in Caller
    PROVE  /\ TakeConn(c) => pool' \in [Process -> Caller \cup {NoCaller}]
           /\ GiveConn(c) => pool' \in [Process -> Caller \cup {NoCaller}]
           /\ EndTransaction(c) => /\ pool' \in [Process -> Caller \cup {NoCaller}]
                                   /\ reserved' \in Caller \cup {NoCaller}
                                   /\ tx' \in [Caller -> SUBSET Record]
                                   /\ \A d \in Caller \ {c} : tx'[d] = tx[d]
                                   /\ reserved' = reserved \/ reserved = c
BY SqliteAssumption DEF TypeOK, TakeConn, GiveConn, EndTransaction

LEMMA FaultType == ASSUME TypeOK, Fault PROVE faults' \in 0..MaxFaults
<1>1. faults \in 0..MaxFaults /\ faults < MaxFaults /\ faults' = faults + 1 /\ MaxFaults \in Nat
  BY SqliteAssumption DEF TypeOK, Fault
<1>2. QED
  BY <1>1

LEMMA StepType ==
    ASSUME TypeOK, NEW c \in Caller, NEW from, NEW to \in Stages, Step(c, from, to)
    PROVE  /\ pc' \in [Caller -> Stages] /\ pc[c] = from /\ pc'[c] = to
           /\ \A d \in Caller \ {c} : pc'[d] = pc[d]
BY DEF TypeOK, Step

\* Every step keeps the types, leaves the others alone and suits the caller.
LEMMA CallerStep ==
    ASSUME LedgerInv, NEW c \in Caller, Call(c) \/ Transaction(c) \/ Loop(c) \/ List(c)
    PROVE  TypeOK' /\ Alone(c) /\ CallerInv(c)'
<1>1. TypeOK /\ CallerInv(c) /\ Mine(c) \in Record
  BY SqliteAssumption DEF LedgerInv, Mine
<1>2. CASE Call(c)
  <2> DEFINE first == IF c \in Lister THEN "list" ELSE "conn"
  <2>1. first \in Stages /\ Step(c, "idle", first)
    BY <1>2 DEF Stages, Call
  <2> HIDE DEF first
  <2>2. pc' \in [Caller -> Stages] /\ pc[c] = "idle" /\ pc'[c] = first
        /\ \A d \in Caller \ {c} : pc'[d] = pc[d]
    BY <1>1, <2>1, StepType
  <2>3. UNCHANGED <<db, pool, reserved, readers, tx, attempt, took, faults>>
    BY <1>2 DEF Call, connVars
  <2>4. first = IF c \in Lister THEN "list" ELSE "conn"
    BY DEF first
  <2>5. CallerInv(c)'
    BY <1>1, <2>2, <2>3, <2>4 DEF CallerInv, Prepared, Placed, Finished
  <2>6. QED
    BY <1>1, <2>2, <2>3, <2>5 DEF TypeOK, Alone
<1>3. CASE GetConn(c)
  <2>1. pc' \in [Caller -> Stages] /\ pc[c] = "conn" /\ pc'[c] = "begin"
        /\ \A d \in Caller \ {c} : pc'[d] = pc[d]
    BY <1>1, <1>3, StepType DEF GetConn, Stages
  <2>2. QED
    BY <1>1, <1>3, <2>1, ConnTypes DEF GetConn, TypeOK, Alone, CallerInv, Prepared, Placed, Finished
<1>4. CASE BeginImmediate(c)
  <2>1. pc' \in [Caller -> Stages] /\ pc[c] = "begin" /\ pc'[c] = "work"
        /\ \A d \in Caller \ {c} : pc'[d] = pc[d]
    BY <1>1, <1>4, StepType DEF BeginImmediate, Stages
  <2>2. QED
    BY <1>1, <1>4, <2>1 DEF BeginImmediate, LockFree, TypeOK, Alone, CallerInv, Prepared, Placed,
       Finished
<1>5. CASE BeginBusy(c)
  <2>1. pc' \in [Caller -> Stages] /\ pc[c] = "begin"
        /\ pc'[c] = (IF c \in Admitting THEN "again" ELSE "error")
        /\ \A d \in Caller \ {c} : pc'[d] = pc[d]
    BY <1>1, <1>5, StepType DEF BeginBusy, Stages, Finished
  <2>2. QED
    BY <1>1, <1>5, <2>1, ConnTypes DEF BeginBusy, TypeOK, Alone, CallerInv, Prepared, Placed, Finished
<1>6. CASE AdmitWork(c)
  <2>1. pc' \in [Caller -> Stages] /\ pc[c] = "work" /\ pc'[c] = "commit"
        /\ \A d \in Caller \ {c} : pc'[d] = pc[d]
    BY <1>1, <1>6, StepType DEF AdmitWork, Stages
  <2>2. /\ tx' \in [Caller -> SUBSET Record] /\ \A d \in Caller \ {c} : tx'[d] = tx[d]
        /\ UNCHANGED <<db, pool, reserved, readers, attempt, took, faults>>
    BY <1>1, <1>6 DEF AdmitWork, TypeOK, connVars
  <2>3. Prepared(c)'
    BY <1>1, <1>6, <2>1 DEF AdmitWork, TypeOK, Prepared, TokenFree, HasRoom, Mine
  <2>4. QED
    BY <1>1, <1>6, <2>1, <2>2, <2>3 DEF AdmitWork, TypeOK, Alone, CallerInv, Placed, Finished
<1>7. CASE AdmitRefused(c)
  <2>1. pc' \in [Caller -> Stages] /\ pc[c] = "work" /\ pc'[c] = "error"
        /\ \A d \in Caller \ {c} : pc'[d] = pc[d]
    BY <1>1, <1>7, StepType DEF AdmitRefused, Stages, Finished
  <2>2. QED
    BY <1>1, <1>7, <2>1, ConnTypes DEF AdmitRefused, TypeOK, Alone, CallerInv, Prepared, Placed,
       Finished
<1>8. CASE DeleteWork(c)
  <2>1. pc' \in [Caller -> Stages] /\ pc[c] = "work" /\ pc'[c] = "commit"
        /\ \A d \in Caller \ {c} : pc'[d] = pc[d]
    BY <1>1, <1>8, StepType DEF DeleteWork, Stages
  <2>2. /\ tx' \in [Caller -> SUBSET Record] /\ \A d \in Caller \ {c} : tx'[d] = tx[d]
        /\ UNCHANGED <<db, pool, reserved, readers, attempt, took, faults>>
    BY <1>1, <1>8 DEF DeleteWork, TypeOK, connVars
  <2>3. Prepared(c)'
    BY <1>1, <1>8, <2>1 DEF DeleteWork, TypeOK, Prepared, Mine
  <2>4. QED
    BY <1>1, <1>8, <2>1, <2>2, <2>3 DEF DeleteWork, TypeOK, Alone, CallerInv, Placed, Finished
<1>9. CASE DeleteMissing(c)
  <2>1. pc' \in [Caller -> Stages] /\ pc[c] = "work" /\ pc'[c] = "error"
        /\ \A d \in Caller \ {c} : pc'[d] = pc[d]
    BY <1>1, <1>9, StepType DEF DeleteMissing, Stages, Finished
  <2>2. QED
    BY <1>1, <1>9, <2>1, ConnTypes DEF DeleteMissing, TypeOK, Alone, CallerInv, Prepared, Placed,
       Finished
<1>10. CASE Commit(c)
  <2>1. pc' \in [Caller -> Stages] /\ pc[c] = "commit"
        /\ pc'[c] = (IF c \in Admitting THEN "check" ELSE "succeeding")
        /\ \A d \in Caller \ {c} : pc'[d] = pc[d]
    BY <1>1, <1>10, StepType DEF Commit, Stages
  <2>2. /\ db' \subseteq Record /\ took' \in [Caller -> BOOLEAN] /\ took'[c]
        /\ \A d \in Caller \ {c} : took'[d] = took[d]
    BY <1>1, <1>10 DEF Commit, TypeOK
  <2>3. QED
    BY <1>1, <1>10, <2>1, <2>2, ConnTypes DEF Commit, TypeOK, Alone, CallerInv, Prepared, Placed,
       Finished
<1>11. CASE CommitFails(c)
  <2>1. pc' \in [Caller -> Stages] /\ pc[c] = "commit"
        /\ pc'[c] = (IF c \in Admitting THEN "readback" ELSE "failing")
        /\ \A d \in Caller \ {c} : pc'[d] = pc[d]
    BY <1>1, <1>11, StepType DEF CommitFails, Stages
  <2>2. /\ db' \subseteq Record /\ took' \in [Caller -> BOOLEAN]
        /\ \A d \in Caller \ {c} : took'[d] = took[d]
    BY <1>1, <1>11 DEF CommitFails, TypeOK
  <2>3. faults' \in 0..MaxFaults
    BY <1>1, <1>11, FaultType DEF CommitFails, TypeOK
  <2>4. QED
    BY <1>1, <1>11, <2>1, <2>2, <2>3, ConnTypes DEF CommitFails, TypeOK, Alone, CallerInv, Prepared,
       Placed, Finished
<1>12. CASE Return(c)
  <2>1. pc' \in [Caller -> Stages] /\ pc[c] \in {"succeeding", "failing"} /\ pc'[c] \in Finished
        /\ \A d \in Caller \ {c} : pc'[d] = pc[d]
    BY <1>1, <1>12 DEF Return, TypeOK, Stages, Finished
  <2>2. QED
    BY <1>1, <1>12, <2>1 DEF Return, TypeOK, connVars, Alone, CallerInv, Prepared, Placed, Finished
<1>13. CASE WorkFault(c)
  <2>1. pc' \in [Caller -> Stages] /\ pc[c] \in {"conn", "begin", "work"} /\ pc'[c] = "error"
        /\ \A d \in Caller \ {c} : pc'[d] = pc[d]
    BY <1>1, <1>13 DEF WorkFault, TypeOK, Stages, Finished
  <2>2. faults' \in 0..MaxFaults
    BY <1>1, <1>13, FaultType DEF WorkFault
  <2>3. QED
    BY <1>1, <1>13, <2>1, <2>2, ConnTypes DEF WorkFault, TypeOK, Alone, CallerInv, Prepared, Placed,
       Finished
<1>14. CASE Readback(c)
  <2>1. pc' \in [Caller -> Stages] /\ pc[c] = "readback"
        /\ pc'[c] = (IF Mine(c) \in db THEN "succeeding" ELSE IF TokenFree(c) THEN "again" ELSE "error")
        /\ \A d \in Caller \ {c} : pc'[d] = pc[d]
    BY <1>1, <1>14, StepType DEF Readback, NotFound, Stages, Finished
  <2>2. (took[c] \/ Mine(c) \in db) \in BOOLEAN
    OBVIOUS
  <2>3. took' \in [Caller -> BOOLEAN] /\ took'[c] = (took[c] \/ Mine(c) \in db)
        /\ \A d \in Caller \ {c} : took'[d] = took[d]
    BY <1>1, <1>14, <2>2 DEF Readback, TypeOK
  <2>4. QED
    BY <1>1, <1>14, <2>1, <2>3 DEF Readback, TypeOK, connVars, Alone, CallerInv, Prepared, Placed,
       Finished
<1>15. CASE RequireExact(c)
  <2>1. pc' \in [Caller -> Stages] /\ pc[c] = "check" /\ pc'[c] \in Finished
        /\ \A d \in Caller \ {c} : pc'[d] = pc[d]
    BY <1>1, <1>15, StepType DEF RequireExact, Stages, Finished
  <2>2. QED
    BY <1>1, <1>15, <2>1 DEF RequireExact, TypeOK, connVars, Alone, CallerInv, Prepared, Placed,
       Finished
<1>16. CASE ReadFault(c)
  <2>1. pc' \in [Caller -> Stages] /\ pc[c] \in {"readback", "check", "again"} /\ pc'[c] = "error"
        /\ \A d \in Caller \ {c} : pc'[d] = pc[d]
    BY <1>1, <1>16 DEF ReadFault, TypeOK, Stages, Finished
  <2>2. faults' \in 0..MaxFaults
    BY <1>1, <1>16, FaultType DEF ReadFault
  <2>3. QED
    BY <1>1, <1>16, <2>1, <2>2 DEF ReadFault, TypeOK, connVars, Alone, CallerInv, Prepared, Placed,
       Finished
<1>17. CASE Again(c)
  <2>1. pc' \in [Caller -> Stages] /\ pc[c] = "again" /\ pc'[c] = "conn"
        /\ \A d \in Caller \ {c} : pc'[d] = pc[d]
    BY <1>1, <1>17, StepType DEF Again, Stages
  <2>2. attempt' \in [Caller -> 0..Retries]
    <3>1. attempt[c] \in 0..Retries /\ attempt[c] < Retries /\ Retries \in Nat
      BY <1>1, <1>17, SqliteAssumption DEF Again, MayRetry, TypeOK
    <3>2. attempt[c] + 1 \in 0..Retries
      BY <3>1
    <3>3. QED
      BY <1>1, <1>17, <3>2 DEF Again, TypeOK
  <2>3. QED
    BY <1>1, <1>17, <2>1, <2>2 DEF Again, TypeOK, connVars, Alone, CallerInv, Prepared, Placed,
       Finished
<1>18. CASE GiveUp(c)
  <2>1. pc' \in [Caller -> Stages] /\ pc[c] = "again" /\ pc'[c] = "error"
        /\ \A d \in Caller \ {c} : pc'[d] = pc[d]
    BY <1>1, <1>18, StepType DEF GiveUp, Stages, Finished
  <2>2. QED
    BY <1>1, <1>18, <2>1 DEF GiveUp, TypeOK, connVars, Alone, CallerInv, Prepared, Placed, Finished
<1>19. CASE List(c)
  <2>1. pc' \in [Caller -> Stages] /\ pc[c] \in {"list", "listing"} /\ pc'[c] \in {"listing", "ok"}
        /\ \A d \in Caller \ {c} : pc'[d] = pc[d]
    BY <1>1, <1>19, StepType DEF List, ListStart, ListEnd, Stages, Finished
  <2>2. /\ pool' \in [Process -> Caller \cup {NoCaller}] /\ readers' \subseteq Caller
        /\ UNCHANGED <<db, reserved, tx, attempt, took, faults>>
    BY <1>1, <1>19, ConnTypes DEF List, ListStart, ListEnd, TypeOK
  <2>3. QED
    BY <1>1, <2>1, <2>2 DEF TypeOK, Alone, CallerInv, Prepared, Placed, Finished
<1>20. QED
  BY <1>2, <1>3, <1>4, <1>5, <1>6, <1>7, <1>8, <1>9, <1>10, <1>11, <1>12, <1>13, <1>14, <1>15, <1>16,
     <1>17, <1>18, <1>19 DEF Transaction, Loop

----------------------------------------------------------------------------

LEMMA LedgerInit == Init => LedgerInv
<1> SUFFICES ASSUME Init
             PROVE  LedgerInv
  OBVIOUS
<1>1. TypeOK
  <2>1. 0 \in 0..MaxFaults /\ 0 \in 0..Retries
    BY SqliteAssumption
  <2>2. QED
    BY <2>1 DEF Init, TypeOK, Stages
<1>2. \A c \in Caller : CallerInv(c)
  BY DEF Init, CallerInv, Prepared, Placed
<1>3. QED
  BY <1>1, <1>2 DEF LedgerInv

LEMMA LedgerStep == LedgerInv /\ [Next]_vars => LedgerInv'
<1> SUFFICES ASSUME LedgerInv, [Next]_vars
             PROVE  LedgerInv'
  OBVIOUS
<1>1. ASSUME NEW c \in Caller, Call(c) \/ Transaction(c) \/ Loop(c) \/ List(c)
      PROVE  LedgerInv'
  <2>1. TypeOK' /\ Alone(c) /\ CallerInv(c)'
    BY <1>1, CallerStep
  <2>2. \A d \in Caller \ {c} : CallerInv(d)'
    BY <2>1, OthersKeep
  <2>3. QED
    BY <2>1, <2>2 DEF LedgerInv
<1>2. CASE UNCHANGED vars
  BY <1>2 DEF vars, LedgerInv, TypeOK, CallerInv, Prepared, Placed, TokenFree, HasRoom, Mine, Stages,
     Finished
<1>3. QED
  BY <1>1, <1>2 DEF Next

THEOREM LedgerInvariant == Spec => []LedgerInv
BY LedgerInit, LedgerStep, PTL DEF Spec

\* Every variable keeps its type.
THEOREM LedgerTypes == Spec => []TypeOK
<1>1. LedgerInv => TypeOK
  BY DEF LedgerInv
<1>2. QED
  BY <1>1, LedgerInvariant, PTL

\* Nothing is written past another caller's transaction, for any number of processes:
\* what a caller is about to commit is what it read under the lock (Admit, Delete).
THEOREM NothingIsLost == Spec => []NoLostUpdate
<1>1. LedgerInv => NoLostUpdate
  BY SqliteAssumption DEF LedgerInv, CallerInv, Prepared, NoLostUpdate, Mine, TypeOK
<1>2. QED
  BY <1>1, LedgerInvariant, PTL

----------------------------------------------------------------------------

\* A caller as OwnershipLedger sees it.
Phase(c) ==
    IF c \in Lister \/ pc[c] = "idle" THEN "idle"
    ELSE IF pc[c] \in Finished THEN pc[c]
    ELSE IF took[c] THEN "taken" ELSE "called"

Phases == [c \in Caller |-> IF c \in Lister \/ pc[c] = "idle" THEN "idle"
                            ELSE IF pc[c] \in Finished THEN pc[c]
                            ELSE IF took[c] THEN "taken" ELSE "called"]

LEMMA PhasesAre == Phases = [c \in Caller |-> Phase(c)]
BY DEF Phases, Phase

\* One caller's step moves that caller only.
LEMMA PhasesMove ==
    ASSUME NEW c \in Caller, Alone(c)
    PROVE  Phases' = [Phases EXCEPT ![c] = Phase(c)']
<1>1. \A d \in Caller \ {c} : Phase(d)' = Phase(d)
  BY DEF Alone, Phase
<1>2. Phases' = [d \in Caller |-> Phase(d)']
  BY DEF Phases, Phase
<1>3. QED
  BY <1>1, <1>2, PhasesAre

\* What a step of the database is in the promise: nothing, or one action of it.
LEMMA StepIsPromised ==
    ASSUME LedgerInv, NEW c \in Caller, Call(c) \/ Transaction(c) \/ Loop(c) \/ List(c)
    PROVE  \/ db' = db /\ Phase(c)' = Phase(c)
           \/ db' = db /\ Phase(c) = "idle" /\ Phase(c)' = "called"
           \/ /\ c \in Admitting /\ Phase(c) \in {"called", "taken"} /\ Phase(c)' = "taken"
              /\ \/ Mine(c) \in db /\ db' = db
                 \/ TokenFree(c) /\ HasRoom /\ db' = db \cup {Mine(c)}
           \/ /\ c \notin Admitting /\ Phase(c) = "called" /\ Phase(c)' = "taken"
              /\ Mine(c) \in db /\ db' = db \ {Mine(c)}
           \/ db' = db /\ Phase(c) = "taken" /\ Phase(c)' = "ok"
           \/ db' = db /\ Phase(c) \in {"called", "taken"} /\ Phase(c)' = "error"
<1>1. TypeOK /\ CallerInv(c) /\ (c \in Lister => c \notin Admitting)
  BY SqliteAssumption DEF LedgerInv
<1>2. CASE List(c)
  BY <1>1, <1>2 DEF List, ListStart, ListEnd, Step, Phase, CallerInv, Placed
<1>3. CASE Call(c)
  BY <1>1, <1>3 DEF Call, Step, Phase, CallerInv, Placed, TypeOK, Finished
<1>4. CASE GetConn(c) \/ BeginImmediate(c) \/ AdmitWork(c) \/ DeleteWork(c) \/ Again(c)
  BY <1>1, <1>4 DEF GetConn, BeginImmediate, AdmitWork, DeleteWork, Again, Step, Phase, CallerInv,
     Placed, TypeOK, Finished, connVars
<1>5. CASE BeginBusy(c) \/ AdmitRefused(c) \/ DeleteMissing(c) \/ WorkFault(c) \/ ReadFault(c)
           \/ GiveUp(c)
  BY <1>1, <1>5 DEF BeginBusy, AdmitRefused, DeleteMissing, WorkFault, ReadFault, GiveUp, Step, Phase,
     CallerInv, Placed, TypeOK, Finished, connVars
<1>6. CASE Commit(c)
  BY <1>1, <1>6 DEF Commit, Step, Phase, CallerInv, Placed, Prepared, TypeOK, Finished
<1>7. CASE CommitFails(c)
  BY <1>1, <1>7 DEF CommitFails, Step, Phase, CallerInv, Placed, Prepared, TypeOK, Finished
<1>8. CASE Return(c)
  BY <1>1, <1>8 DEF Return, Phase, CallerInv, Placed, TypeOK, Finished
<1>9. CASE Readback(c)
  BY <1>1, <1>9 DEF Readback, NotFound, Step, Phase, CallerInv, Placed, TypeOK, Finished, TokenFree,
     Mine, connVars
<1>10. CASE RequireExact(c)
  BY <1>1, <1>10 DEF RequireExact, Step, Phase, CallerInv, Placed, TypeOK, Finished, connVars
<1>11. QED
  BY <1>2, <1>3, <1>4, <1>5, <1>6, <1>7, <1>8, <1>9, <1>10
     DEF Transaction, Loop

\* Both modules take Cardinality from FiniteSets.
LEMMA SameCardinality == \A S : Promise!Cardinality(S) = Cardinality(S)
BY DEF Promise!Cardinality, Cardinality

\* The SQLite ledger implements what its callers rely on: every Admit and every Delete
\* takes effect in one step or not at all and is answered with success only after it,
\* whatever locks, retries, ambiguous commits and faults lie in between.
THEOREM LedgerKeepsPromise == Spec => KeepsPromise
<1>1. Init => Promise!Init
  <2> SUFFICES ASSUME Init
               PROVE  Promise!Init
    OBVIOUS
  <2>1. Phases = [c \in Caller |-> "idle"]
    BY DEF Init, Phases
  <2>2. QED
    BY <2>1, SameCardinality DEF Init, Unique, Phases, Promise!Init
<1>2. LedgerInv /\ [Next]_vars => [Promise!Next]_(Promise!vars)
  <2> SUFFICES ASSUME LedgerInv, [Next]_vars
               PROVE  [Promise!Next]_(Promise!vars)
    OBVIOUS
  <2>1. ASSUME NEW c \in Caller, Call(c) \/ Transaction(c) \/ Loop(c) \/ List(c)
        PROVE  \/ Promise!Invoke(c) \/ Promise!TakeAdmit(c) \/ Promise!TakeDelete(c)
               \/ Promise!Succeed(c) \/ Promise!Err(c)
               \/ db' = db /\ Phases' = Phases
    <3>1. Phases' = [Phases EXCEPT ![c] = Phase(c)'] /\ Phases[c] = Phase(c)
      BY <2>1, CallerStep, PhasesMove, PhasesAre
    <3>2. CASE db' = db /\ Phase(c)' = Phase(c)
      BY <3>1, <3>2, PhasesAre
    <3>3. CASE db' = db /\ Phase(c) = "idle" /\ Phase(c)' = "called"
      BY <3>1, <3>3 DEF Promise!Invoke, Promise!Move, Phases
    <3>4. CASE /\ c \in Admitting /\ Phase(c) \in {"called", "taken"} /\ Phase(c)' = "taken"
               /\ \/ Mine(c) \in db /\ db' = db
                  \/ TokenFree(c) /\ HasRoom /\ db' = db \cup {Mine(c)}
      <4>1. Promise!Move(c, {"called", "taken"}, "taken")
        BY <3>1, <3>4 DEF Promise!Move, Phases
      <4>2. \/ RecordOf[c] \in db /\ db' = db
            \/ /\ \A x \in db : TokenOf[x] # TokenOf[RecordOf[c]]
               /\ Cardinality(db) < MaxRows
               /\ db' = db \cup {RecordOf[c]}
        BY <3>4 DEF Mine, TokenFree, HasRoom
      <4>3. QED
        BY <3>4, <4>1, <4>2, SameCardinality DEF Promise!TakeAdmit
    <3>5. CASE /\ c \notin Admitting /\ Phase(c) = "called" /\ Phase(c)' = "taken"
               /\ Mine(c) \in db /\ db' = db \ {Mine(c)}
      BY <3>1, <3>5 DEF Promise!TakeDelete, Promise!Move, Phases, Mine
    <3>6. CASE db' = db /\ Phase(c) = "taken" /\ Phase(c)' = "ok"
      BY <3>1, <3>6 DEF Promise!Succeed, Promise!Move, Phases
    <3>7. CASE db' = db /\ Phase(c) \in {"called", "taken"} /\ Phase(c)' = "error"
      BY <3>1, <3>7 DEF Promise!Err, Promise!Move, Phases
    <3>8. QED
      BY <2>1, <3>2, <3>3, <3>4, <3>5, <3>6, <3>7, StepIsPromised
  <2>2. CASE UNCHANGED vars
    BY <2>2 DEF vars, Promise!vars
  <2>3. QED
    BY <2>1, <2>2 DEF Next, Promise!Next, Promise!vars, Phases
<1>3. QED
  BY <1>1, <1>2, LedgerInvariant, PTL DEF Spec, KeepsPromise, Promise!Spec


----------------------------------------------------------------------------
\* LedgerOpen.

\* A start-up's connection sets nothing before the file is looked at, and comes to
\* the integrity check of a ledger it made itself only through verify.
Progresses(p) ==
    /\ phase[p] \in {"manage", "stat"} => session[p] = {}
    /\ phase[p] = "integrity" =>
          session[p] = {} \/ (content = InFile /\ session[p] = OfConnection)
    /\ phase[p] = "open" => content = InFile /\ checked[p] /\ session[p] = OfConnection

OpenInv == OpenTypeOK /\ \A p \in Opener : Progresses(p)

\* What the file holds only grows, so a start-up changes nothing that another relies on.
LEMMA OpenKept ==
    ASSUME OpenInv, NEW p \in Opener, content \subseteq content', content' \subseteq InFile,
           \A q \in Opener \ {p} : /\ phase'[q] = phase[q] /\ session'[q] = session[q]
                                   /\ checked'[q] = checked[q],
           OpenTypeOK', Progresses(p)'
    PROVE  OpenInv'
<1>1. content \subseteq InFile
  BY DEF OpenInv, OpenTypeOK
<1>2. content = InFile => content' = InFile
  OBVIOUS
<1>3. ASSUME NEW q \in Opener \ {p} PROVE Progresses(q)'
  BY <1>2 DEF OpenInv, Progresses
<1>4. QED
  BY <1>3 DEF OpenInv

LEMMA MissType == ASSUME OpenTypeOK, misses < MaxOpenFaults PROVE misses + 1 \in 0..MaxOpenFaults
<1>1. misses \in 0..MaxOpenFaults /\ MaxOpenFaults \in Nat
  BY OpenAssumption DEF OpenTypeOK
<1>2. QED
  BY <1>1

LEMMA MovesType ==
    ASSUME OpenTypeOK, NEW p \in Opener, NEW from, NEW to \in OpenStages \cup Settings, Moves(p, from, to)
    PROVE  /\ phase' \in [Opener -> OpenStages \cup Settings]
           /\ phase[p] = from /\ phase'[p] = to
           /\ \A q \in Opener \ {p} : phase'[q] = phase[q]
BY DEF OpenTypeOK, Moves

LEMMA StartKeeps == ASSUME OpenInv, NEW p \in Opener, Start(p) PROVE OpenInv'
<1> DEFINE to == IF p \in managed THEN "manage" ELSE "stat"
<1>1. OpenTypeOK /\ Moves(p, "closed", to) /\ to \in OpenStages \cup Settings
  BY DEF OpenInv, Start, OpenStages
<1> HIDE DEF to
<1>2. /\ phase' \in [Opener -> OpenStages \cup Settings]
      /\ phase'[p] = to
      /\ \A q \in Opener \ {p} : phase'[q] = phase[q]
  BY <1>1, MovesType
<1>3. /\ session' \in [Opener -> SUBSET OfConnection] /\ session'[p] = {}
      /\ checked' \in [Opener -> BOOLEAN]
      /\ \A q \in Opener \ {p} : session'[q] = session[q] /\ checked'[q] = checked[q]
      /\ UNCHANGED <<managed, exists, content, crashes, misses>>
  BY <1>1 DEF Start, OpenTypeOK
<1>4. to \in {"manage", "stat"}
  BY DEF to
<1>5. OpenTypeOK' /\ Progresses(p)'
  BY <1>1, <1>2, <1>3, <1>4 DEF OpenTypeOK, Progresses
<1>6. QED
  BY <1>1, <1>2, <1>3, <1>5, OpenKept DEF OpenTypeOK

LEMMA ManageKeeps == ASSUME OpenInv, NEW p \in Opener, Manage(p) PROVE OpenInv'
<1>1. OpenTypeOK /\ Moves(p, "manage", "stat") /\ "stat" \in OpenStages \cup Settings
  BY DEF OpenInv, Manage, OpenStages
<1>2. /\ phase' \in [Opener -> OpenStages \cup Settings]
      /\ phase[p] = "manage" /\ phase'[p] = "stat"
      /\ \A q \in Opener \ {p} : phase'[q] = phase[q]
  BY <1>1, MovesType
<1>3. exists' = TRUE /\ UNCHANGED <<managed, content, session, checked, crashes, misses>>
  BY DEF Manage
<1>4. OpenTypeOK' /\ Progresses(p)'
  BY <1>1, <1>2, <1>3 DEF OpenInv, OpenTypeOK, Progresses
<1>5. QED
  BY <1>1, <1>2, <1>3, <1>4, OpenKept DEF OpenTypeOK

LEMMA StatFileKeeps == ASSUME OpenInv, NEW p \in Opener, StatFile(p) PROVE OpenInv'
<1> DEFINE to == IF exists THEN "integrity" ELSE First
<1>1. OpenTypeOK /\ Moves(p, "stat", to) /\ to \in OpenStages \cup Settings
  BY DEF OpenInv, StatFile, OpenStages, Settings, OfConnection, First
<1>2. to \in {"integrity", "synchronous"}
  BY DEF First
<1> HIDE DEF to
<1>3. /\ phase' \in [Opener -> OpenStages \cup Settings]
      /\ phase[p] = "stat" /\ phase'[p] = to
      /\ \A q \in Opener \ {p} : phase'[q] = phase[q]
  BY <1>1, MovesType
<1>4. UNCHANGED <<managed, exists, content, session, checked, crashes, misses>>
  BY DEF StatFile
<1>5. OpenTypeOK' /\ Progresses(p)'
  BY <1>1, <1>2, <1>3, <1>4 DEF OpenInv, OpenTypeOK, Progresses
<1>6. QED
  BY <1>1, <1>3, <1>4, <1>5, OpenKept DEF OpenTypeOK

LEMMA InitializeKeeps == ASSUME OpenInv, NEW p \in Opener, Initialize(p) PROVE OpenInv'
<1>1. PICK s \in Settings :
         /\ Moves(p, s, After[s])
         /\ exists' = TRUE
         /\ content' = content \cup KeptIn(s, InFile)
         /\ session' = [session EXCEPT ![p] = @ \cup KeptIn(s, OfConnection)]
         /\ UNCHANGED <<managed, checked, crashes, misses>>
  BY DEF Initialize
<1>2. OpenTypeOK /\ After[s] \in (Settings \cup {"verify"}) /\ "verify" \in OpenStages
  BY <1>1 DEF OpenInv, After, Settings, InFile, OfConnection, OpenStages
<1>3. /\ phase' \in [Opener -> OpenStages \cup Settings]
      /\ phase'[p] = After[s]
      /\ \A q \in Opener \ {p} : phase'[q] = phase[q]
  BY <1>1, <1>2, MovesType
<1>4. /\ session' \in [Opener -> SUBSET OfConnection]
      /\ \A q \in Opener \ {p} : session'[q] = session[q]
      /\ content \subseteq content' /\ content' \subseteq InFile
  BY <1>1, <1>2 DEF OpenTypeOK, KeptIn
<1>5. phase'[p] \notin {"manage", "stat", "integrity", "open"}
  BY <1>2, <1>3 DEF Settings, InFile, OfConnection
<1>6. OpenTypeOK' /\ Progresses(p)'
  BY <1>1, <1>2, <1>3, <1>4, <1>5 DEF OpenTypeOK, Progresses
<1>7. QED
  BY <1>1, <1>3, <1>4, <1>6, OpenKept

\* A start-up that ends, one way or another, leaves the ledger as it is.
LEMMA EndKeeps ==
    ASSUME OpenInv, NEW p \in Opener, InitializeFails(p) \/ IntegrityFails(p) \/ Close(p) \/ Crash(p)
    PROVE  OpenInv'
<1>1. /\ OpenTypeOK
      /\ UNCHANGED <<managed, exists, content, session, checked>>
      /\ \/ phase' = [phase EXCEPT ![p] = "failed"]
         \/ phase' = [phase EXCEPT ![p] = "closed"]
      /\ crashes' = crashes \/ (crashes < MaxCrashes /\ crashes' = crashes + 1)
      /\ misses' = misses \/ (misses < MaxOpenFaults /\ misses' = misses + 1)
  BY DEF OpenInv, InitializeFails, IntegrityFails, Close, Crash, Moves
<1>2. crashes' \in 0..MaxCrashes
  <2>1. crashes \in 0..MaxCrashes /\ MaxCrashes \in Nat
    BY <1>1, OpenAssumption DEF OpenTypeOK
  <2>2. QED
    BY <1>1, <2>1
<1>3. misses' \in 0..MaxOpenFaults
  BY <1>1, MissType DEF OpenTypeOK
<1>4. /\ phase' \in [Opener -> OpenStages \cup Settings] /\ phase'[p] \in {"failed", "closed"}
      /\ \A q \in Opener \ {p} : phase'[q] = phase[q]
  BY <1>1 DEF OpenTypeOK, OpenStages
<1>5. OpenTypeOK' /\ Progresses(p)'
  BY <1>1, <1>2, <1>3, <1>4 DEF OpenTypeOK, Progresses
<1>6. QED
  BY <1>1, <1>4, <1>5, OpenKept DEF OpenTypeOK

LEMMA IntegrityKeeps == ASSUME OpenInv, NEW p \in Opener, Integrity(p) PROVE OpenInv'
<1> DEFINE to == IF session[p] = {} THEN "verify" ELSE "open"
<1>1. OpenTypeOK /\ Moves(p, "integrity", to) /\ to \in OpenStages \cup Settings
  BY DEF OpenInv, Integrity, OpenStages
<1>2. to = "verify" \/ (to = "open" /\ session[p] # {})
  OBVIOUS
<1> HIDE DEF to
<1>3. /\ phase' \in [Opener -> OpenStages \cup Settings]
      /\ phase[p] = "integrity" /\ phase'[p] = to
      /\ \A q \in Opener \ {p} : phase'[q] = phase[q]
  BY <1>1, MovesType
<1>4. /\ checked' \in [Opener -> BOOLEAN] /\ checked'[p]
      /\ \A q \in Opener \ {p} : checked'[q] = checked[q]
      /\ UNCHANGED <<managed, exists, content, session, crashes, misses>>
  BY <1>1 DEF Integrity, OpenTypeOK
<1>5. OpenTypeOK' /\ Progresses(p)'
  BY <1>1, <1>2, <1>3, <1>4 DEF OpenInv, OpenTypeOK, Progresses
<1>6. QED
  BY <1>1, <1>3, <1>4, <1>5, OpenKept DEF OpenTypeOK

LEMMA VerifyKeeps == ASSUME OpenInv, NEW p \in Opener, Verify(p) PROVE OpenInv'
<1> DEFINE to == IF ~Accepts(p) THEN "failed" ELSE IF checked[p] THEN "open" ELSE "integrity"
<1>1. OpenTypeOK /\ Moves(p, "verify", to) /\ to \in OpenStages \cup Settings
  BY DEF OpenInv, Verify, OpenStages
<1>2. to = "failed" \/ (to = "open" /\ Accepts(p) /\ checked[p]) \/ (to = "integrity" /\ Accepts(p))
  OBVIOUS
<1> HIDE DEF to
<1>3. /\ phase' \in [Opener -> OpenStages \cup Settings]
      /\ phase'[p] = to
      /\ \A q \in Opener \ {p} : phase'[q] = phase[q]
  BY <1>1, MovesType
<1>4. UNCHANGED <<managed, exists, content, session, checked, crashes, misses>>
  BY DEF Verify
<1>5. OpenTypeOK' /\ Progresses(p)'
  BY <1>1, <1>2, <1>3, <1>4 DEF OpenTypeOK, Progresses, Accepts
<1>6. QED
  BY <1>1, <1>3, <1>4, <1>5, OpenKept DEF OpenTypeOK

LEMMA InitOpens == OpenInit => OpenInv
<1> SUFFICES ASSUME OpenInit PROVE OpenInv
  OBVIOUS
<1>1. OpenTypeOK
  <2>1. 0 \in 0..MaxCrashes /\ 0 \in 0..MaxOpenFaults
    BY OpenAssumption
  <2>2. managed \subseteq Opener /\ content \subseteq InFile
    BY DEF OpenInit
  <2>3. QED
    BY <2>1, <2>2 DEF OpenInit, OpenTypeOK, OpenStages
<1>2. QED
  BY <1>1 DEF OpenInit, OpenInv, Progresses

LEMMA StepOpens == OpenInv /\ [OpenNext]_openVars => OpenInv'
<1> SUFFICES ASSUME OpenInv, [OpenNext]_openVars PROVE OpenInv'
  OBVIOUS
<1>1. ASSUME NEW p \in Opener, Opening(p) \/ Close(p) \/ Crash(p) PROVE OpenInv'
  BY <1>1, StartKeeps, ManageKeeps, StatFileKeeps, InitializeKeeps, EndKeeps, IntegrityKeeps,
     VerifyKeeps DEF Opening
<1>2. CASE UNCHANGED openVars
  BY <1>2 DEF openVars, OpenInv, OpenTypeOK, Progresses
<1>3. QED
  BY <1>1, <1>2 DEF OpenNext

\* Whatever died or raced half way, a ledger in use is complete, has been checked, and
\* is written with the durability that was asked for.
THEOREM OpenLedgerIsVerified == OpenSpec => []OpenIsVerified
<1>1. OpenInv => OpenIsVerified
  BY DEF OpenInv, Progresses, OpenIsVerified
<1>2. QED
  BY <1>1, InitOpens, StepOpens, PTL DEF OpenSpec

-----------------------------------------------------------------------------
(* The credential vault.  A command that runs alone knows at each step      *)
(* which of the two names holds the credential (Stage); commands that run   *)
(* beside each other without rotating or deleting never make a second name. *)

\* Which commands come to which steps.
AtOwnStep(c) ==
    LET at == cmd[c].pc
    IN /\ at = "create" => cmd[c].kind \in {"setup", "set"}
       /\ at \in Rotating => cmd[c].kind = "rotate"
       /\ at = "save" => cmd[c].kind \in {"setup", "vaultMode", "promptMode"}
       /\ at \in {"delete", "sweep"} => cmd[c].kind \in {"setup", "delete"}

\* A set-up that has made its vault and not yet its profile, and one that undoes it.
Publishing(c) == cmd[c].kind = "setup" /\ cmd[c].pc \in {"save", "delete"}
Undoing(c) == cmd[c].kind = "setup" /\ cmd[c].pc \in {"save", "delete", "sweep"}

\* What a command that runs alone knows at its step.
Stage(c) ==
    LET at == cmd[c].pc
    IN /\ at \in {"clean", "drop", "remove", "unback", "cleanup"} => vault # NoVault
       /\ at = "create" => vault # NoVault \/ rollback = NoVault
       /\ at = "remove" => rollback = vault
       /\ Publishing(c) => vault = c /\ kept = c
       /\ at = "sweep" => kept = NoVault

\* Commands one at a time;
AloneInv == beside = 0 =>
    /\ \A c, d \in Command : Active(c) /\ Active(d) => c = d
    /\ \A c \in Command : Stage(c)
    /\ kept # NoVault => Readable = kept
    /\ Undeleted /\ enrolled = "setup" => Readable # NoVault /\ \A c \in Command : ~Undoing(c)

\* commands beside each other, of which none rotates or deletes.
SharedInv == Undeleted /\ Unrotated =>
    /\ rollback = NoVault /\ vault = kept
    /\ \A c \in Command : Publishing(c) => vault = c
    /\ enrolled = "setup" => vault # NoVault /\ \A c \in Command : ~Publishing(c)

VaultInv == VaultTypeOK /\ (\A c \in Command : AtOwnStep(c)) /\ AloneInv /\ SharedInv

----------------------------------------------------------------------------

\* A command goes to another step, and nobody else does.
CommandState == [kind : Kind, pc : Steps, asked : BOOLEAN]
Goes(c, to) ==
    /\ Active(c) /\ to \in Steps /\ to # "idle"
    /\ cmd' \in [Command -> CommandState]
    /\ cmd'[c].pc = to /\ cmd'[c].kind = cmd[c].kind
    /\ \A d \in Command \ {c} : cmd'[d] = cmd[d]

LEMMA MoveGoes ==
    ASSUME VaultTypeOK, NEW c \in Command, NEW to \in Steps, to # "idle", Active(c),
           cmd' = [cmd EXCEPT ![c].pc = to]
    PROVE  Goes(c, to)
<1>1. cmd \in [Command -> CommandState]
  BY DEF VaultTypeOK, CommandState
<1> DEFINE new == [cmd[c] EXCEPT !.pc = to]
<1>2. new \in CommandState /\ new.pc = to /\ new.kind = cmd[c].kind
  BY <1>1 DEF CommandState
<1>3. cmd' = [cmd EXCEPT ![c] = new]
  BY <1>1
<1> HIDE DEF new
<1> QED
  BY <1>1, <1>2, <1>3 DEF Goes

LEMMA TakesGoes ==
    ASSUME VaultTypeOK, NEW c \in Command, NEW from, NEW to \in Steps, to # "idle",
           from \notin Halted \cup {"idle"}, Takes(c, from, to)
    PROVE  Goes(c, to) /\ cmd[c].pc = from
BY MoveGoes DEF Takes, Active

\* A deletion or rotation that has begun has begun for good.
LEMMA BegunStays ==
    ASSUME NEW c \in Command, NEW to, Goes(c, to)
    PROVE  /\ Undeleted' => Undeleted /\ cmd[c].kind # "delete"
           /\ Unrotated' => Unrotated /\ cmd[c].kind # "rotate"
<1>1. ASSUME NEW d \in Command, NEW k, Began(d, k) PROVE Began(d, k)'
  BY <1>1 DEF Goes, Began
<1>2. ASSUME NEW k, cmd[c].kind = k PROVE Began(c, k)'
  BY <1>2 DEF Goes, Began
<1> QED
  BY <1>1, <1>2 DEF Undeleted, Unrotated

\* Who else is there when commands run one at a time.
LEMMA OthersAtRest ==
    ASSUME VaultInv, beside = 0, NEW c \in Command, NEW to, Goes(c, to),
           NEW d \in Command \ {c}
    PROVE  ~Active(d) /\ ~Active(d)' /\ Stage(d)' /\ ~Undoing(d)'
<1>1. ~Active(d)
  BY DEF Goes, VaultInv, AloneInv
<1>2. cmd'[d] = cmd[d]
  BY DEF Goes
<1>3. cmd'[d].pc \in Halted \cup {"idle"}
  BY <1>1, <1>2 DEF Active
<1> QED
  BY <1>1, <1>2, <1>3 DEF Active, Stage, Publishing, Undoing, Halted

\* A step keeps the invariant if it does for the command that takes it.
LEMMA StepKeeps ==
    ASSUME VaultInv, NEW c \in Command, NEW to, Goes(c, to), VaultTypeOK', beside' = beside,
           AtOwnStep(c)',
           beside = 0 =>
              /\ Stage(c)' /\ (kept' # NoVault => Readable' = kept')
              /\ Undeleted /\ enrolled' = "setup" => Readable' # NoVault /\ ~Undoing(c)',
           Undeleted /\ Unrotated /\ cmd[c].kind \notin {"delete", "rotate"} => SharedInv'
    PROVE  VaultInv'
<1>1. \A d \in Command : AtOwnStep(d)'
  <2>1. \A d \in Command \ {c} : AtOwnStep(d)'
    BY DEF VaultInv, Goes, AtOwnStep
  <2> QED
    BY <2>1
<1>2. AloneInv'
  <2> SUFFICES ASSUME beside' = 0
      PROVE  /\ \A a, b \in Command : Active(a)' /\ Active(b)' => a = b
             /\ \A d \in Command : Stage(d)'
             /\ kept' # NoVault => Readable' = kept'
             /\ Undeleted' /\ enrolled' = "setup" =>
                   Readable' # NoVault /\ \A d \in Command : ~Undoing(d)'
    BY DEF AloneInv
  <2>1. \A d \in Command \ {c} : ~Active(d)' /\ Stage(d)' /\ ~Undoing(d)'
    BY OthersAtRest
  <2>2. Undeleted' => Undeleted
    BY BegunStays
  <2> QED
    BY <2>1, <2>2
<1>3. SharedInv'
  <2> SUFFICES ASSUME Undeleted', Unrotated' PROVE SharedInv'
    BY DEF SharedInv
  <2> QED
    BY BegunStays
<1> QED
  BY <1>1, <1>2, <1>3 DEF VaultInv

\* Where nothing is to be recovered, a step that only loses the second name loses nothing.
LEMMA SharedStays ==
    ASSUME VaultInv, NEW c \in Command, NEW to, Goes(c, to), Undeleted, Unrotated,
           UNCHANGED <<vault, kept>>, rollback' \in {rollback, NoVault},
           enrolled' = "setup" => enrolled = "setup", Publishing(c)' => Publishing(c)
    PROVE  SharedInv'
<1>1. \A d \in Command : Publishing(d)' => Publishing(d)
  <2>1. \A d \in Command \ {c} : Publishing(d)' => Publishing(d)
    BY DEF Goes, Publishing
  <2> QED
    BY <2>1
<1> QED
  BY <1>1 DEF VaultInv, SharedInv

\* A step that leaves the files alone.
LEMMA WalkKeeps ==
    ASSUME VaultInv, NEW c \in Command, NEW to, Goes(c, to), VaultTypeOK',
           UNCHANGED <<enrolled, vault, rollback, kept, beside>>, AtOwnStep(c)',
           beside = 0 => Stage(c)', Undoing(c)' => Undoing(c), Publishing(c)' => Publishing(c)
    PROVE  VaultInv'
<1>1. beside = 0 => /\ Stage(c)' /\ (kept' # NoVault => Readable' = kept')
                    /\ Undeleted /\ enrolled' = "setup" => Readable' # NoVault /\ ~Undoing(c)'
  BY DEF VaultInv, AloneInv, Readable
<1>2. Undeleted /\ Unrotated => SharedInv'
  BY SharedStays
<1> QED
  BY <1>1, <1>2, StepKeeps

\* Prompts, looks and checks.
Quiet == {"asking", "sealing", "look", "lookBack", "check", "deliver", "load", "stat", "open"}
LEMMA QuietKeeps ==
    ASSUME VaultInv, NEW c \in Command, NEW to, Goes(c, to), VaultTypeOK',
           UNCHANGED <<enrolled, vault, rollback, kept, beside>>,
           \/ to \in Halted \cup (Quiet \ {"check"})
           \/ to \in {"check", "backup", "restore"} /\ cmd[c].kind = "rotate"
           \/ to = "clean" /\ vault # NoVault
           \/ to = "relink"
           \/ to = "create" /\ cmd[c].kind \in {"setup", "set"} /\ rollback = NoVault
    PROVE  VaultInv'
<1>1. AtOwnStep(c)' /\ (beside = 0 => Stage(c)')
  BY DEF Goes, AtOwnStep, Stage, Publishing, Quiet, Rotating, Halted
<1>2. ~Undoing(c)' /\ ~Publishing(c)'
  BY DEF Goes, Undoing, Publishing, Quiet, Halted
<1> QED
  BY <1>1, <1>2, WalkKeeps

LEMMA AfterRecoveryIs ==
    ASSUME NEW c \in Command
    PROVE  LET to == AfterRecovery(c)
           IN /\ to \in Steps /\ to # "idle"
              /\ \/ to \in {"stat", "open"}
                 \/ to = "check" /\ cmd[c].kind = "rotate"
                 \/ to = "create" /\ cmd[c].kind \in {"setup", "set"}
BY DEF AfterRecovery, Steps, Rotating

LEMMA PromptsKeep ==
    ASSUME VaultInv, NEW c \in Command, Prompting(c) PROVE VaultInv'
<1>1. VaultTypeOK
  BY DEF VaultInv
<1>2. PICK to \in {"sealing", "look", "failed"} :
          /\ Active(c)
          /\ \/ cmd' = [cmd EXCEPT ![c].pc = to]
             \/ cmd' = [cmd EXCEPT ![c].pc = to, ![c].asked = TRUE]
  BY DEF Prompting, AnswerSetup, AnswerSet, AnswerMaster, Seal, Takes, Active, Halted
<1>3. to \in Steps /\ to # "idle"
  BY DEF Steps, Recovering, Halted
<1>4. Goes(c, to)
  <2>1. cmd \in [Command -> CommandState]
    BY <1>1 DEF VaultTypeOK, CommandState
  <2> DEFINE new == [cmd[c] EXCEPT !.pc = to, !.asked = TRUE]
  <2>2. new \in CommandState /\ new.pc = to /\ new.kind = cmd[c].kind
    BY <2>1, <1>3 DEF CommandState
  <2>3. CASE cmd' = [cmd EXCEPT ![c].pc = to, ![c].asked = TRUE]
    <3>1. cmd' = [cmd EXCEPT ![c] = new]
      BY <2>3, <2>1
    <3> HIDE DEF new
    <3> QED
      BY <3>1, <2>1, <2>2, <1>2, <1>3 DEF Goes
  <2>4. CASE cmd' = [cmd EXCEPT ![c].pc = to]
    BY <2>4, <1>1, <1>2, <1>3, MoveGoes
  <2> QED
    BY <2>3, <2>4, <1>2
<1>5. UNCHANGED <<enrolled, vault, rollback, kept, vaultFaults, kills, beside>>
  BY DEF Prompting, AnswerSetup, AnswerSet, AnswerMaster, Seal, Budgets
<1>6. VaultTypeOK'
  BY <1>1, <1>4, <1>5 DEF VaultTypeOK, Goes, CommandState
<1> QED
  BY <1>4, <1>5, <1>6, QuietKeeps DEF Quiet, Halted

\* What a step that keeps to the bounds has to show of the types.
LEMMA TypesKeep ==
    ASSUME VaultTypeOK, NEW c \in Command, NEW to, Goes(c, to), UNCHANGED Budgets,
           enrolled' \in {"none", "setup", "vaultMode", "promptMode"},
           vault' \in Command \cup {NoVault}, rollback' \in Command \cup {NoVault},
           kept' \in Command \cup {NoVault}
    PROVE  VaultTypeOK' /\ beside' = beside
BY DEF VaultTypeOK, Goes, CommandState, Budgets

LEMMA LookKeeps == ASSUME VaultInv, NEW c \in Command, Look(c) PROVE VaultInv'
<1>1. PICK to \in {"clean", "lookBack"} :
          Takes(c, "look", to) /\ (to = "clean" => vault # NoVault)
  BY DEF Look
<1>2. UNCHANGED <<enrolled, vault, rollback, kept, Budgets>> /\ VaultTypeOK
  BY DEF Look, VaultInv
<1>3. Goes(c, to)
  BY <1>1, <1>2, TakesGoes DEF Steps, Recovering, Halted
<1>4. VaultTypeOK' /\ beside' = beside
  BY <1>2, <1>3, TypesKeep DEF VaultTypeOK
<1> QED
  BY <1>1, <1>2, <1>3, <1>4, QuietKeeps DEF Quiet

LEMMA LookBackKeeps == ASSUME VaultInv, NEW c \in Command, LookBack(c) PROVE VaultInv'
<1>1. PICK to \in {"relink", AfterRecovery(c)} :
          Takes(c, "lookBack", to) /\ (to # "relink" => rollback = NoVault)
  BY DEF LookBack
<1>2. UNCHANGED <<enrolled, vault, rollback, kept, Budgets>> /\ VaultTypeOK
  BY DEF LookBack, VaultInv
<1>3. Goes(c, to)
  BY <1>1, <1>2, TakesGoes, AfterRecoveryIs DEF Steps, Recovering, Halted
<1>4. VaultTypeOK' /\ beside' = beside
  BY <1>2, <1>3, TypesKeep DEF VaultTypeOK
<1> QED
  BY <1>1, <1>2, <1>3, <1>4, QuietKeeps, AfterRecoveryIs DEF Quiet

\* Clean and Drop: what is recovered is under its own name.
LEMMA RecoveredKeeps ==
    ASSUME VaultInv, NEW c \in Command, Clean(c) \/ Drop(c) PROVE VaultInv'
<1> DEFINE to == AfterRecovery(c)
<1>1. \E from \in {"clean", "drop"} : Takes(c, from, to)
  BY DEF Clean, Drop
<1>2. /\ rollback' = NoVault /\ UNCHANGED <<enrolled, vault, kept, Budgets>> /\ VaultTypeOK
  BY DEF Clean, Drop, VaultInv
<1>3. Goes(c, to) /\ cmd[c].pc \in {"clean", "drop"}
  BY <1>1, <1>2, TakesGoes, AfterRecoveryIs DEF Halted
<1>4. VaultTypeOK' /\ beside' = beside
  BY <1>2, <1>3, TypesKeep DEF VaultTypeOK
<1>5. AtOwnStep(c)' /\ ~Publishing(c)' /\ ~Undoing(c)'
  BY <1>3, AfterRecoveryIs DEF AtOwnStep, Goes, Publishing, Undoing, Rotating
<1>6. beside = 0 => vault # NoVault
  BY <1>3 DEF VaultInv, AloneInv, Stage
<1>7. beside = 0 => /\ Stage(c)' /\ (kept' # NoVault => Readable' = kept')
                    /\ Undeleted /\ enrolled' = "setup" => Readable' # NoVault /\ ~Undoing(c)'
  <2> SUFFICES ASSUME beside = 0
      PROVE  /\ Stage(c)' /\ (kept' # NoVault => Readable' = kept')
             /\ Undeleted /\ enrolled' = "setup" => Readable' # NoVault /\ ~Undoing(c)'
    OBVIOUS
  <2>1. Stage(c)'
    BY <1>2, <1>3, <1>5, <1>6, AfterRecoveryIs DEF Stage, Goes
  <2>2. Readable' = Readable /\ Readable # NoVault
    BY <1>2, <1>6 DEF Readable
  <2> QED
    BY <1>2, <1>5, <2>1, <2>2 DEF VaultInv, AloneInv
<1>8. Undeleted /\ Unrotated => SharedInv'
  BY <1>2, <1>3, <1>5, SharedStays
<1> QED
  BY <1>3, <1>4, <1>5, <1>7, <1>8, StepKeeps

LEMMA RelinkKeeps == ASSUME VaultInv, NEW c \in Command, Relink(c) PROVE VaultInv'
<1>1. /\ rollback # NoVault /\ vault = NoVault /\ vault' = rollback
      /\ UNCHANGED <<enrolled, rollback, kept, Budgets>> /\ VaultTypeOK
  BY DEF Relink, VaultInv
<1>2. Goes(c, "drop")
  BY <1>1, TakesGoes DEF Relink, Steps, Recovering, Halted
<1>3. VaultTypeOK' /\ beside' = beside
  BY <1>1, <1>2, TypesKeep DEF VaultTypeOK
<1>4. AtOwnStep(c)' /\ ~Publishing(c)' /\ ~Undoing(c)' /\ Stage(c)'
  BY <1>1, <1>2 DEF AtOwnStep, Goes, Publishing, Undoing, Rotating, Stage
<1>5. Readable' = Readable
  BY <1>1 DEF Readable
<1>6. Undeleted /\ Unrotated => SharedInv'
  BY <1>1 DEF VaultInv, SharedInv
<1> QED
  BY <1>1, <1>2, <1>3, <1>4, <1>5, <1>6, StepKeeps DEF VaultInv, AloneInv

----------------------------------------------------------------------------

\* The link is the commit: the new vault is the credential to keep.
LEMMA CreateKeeps == ASSUME VaultInv, NEW c \in Command, Create(c) PROVE VaultInv'
<1> DEFINE to == IF cmd[c].kind = "setup" THEN "save" ELSE "deliver"
<1>1. /\ Takes(c, "create", to) /\ vault = NoVault /\ vault' = c /\ kept' = c
      /\ UNCHANGED <<enrolled, rollback, Budgets>> /\ VaultTypeOK
  BY DEF Create, VaultInv
<1>2. Goes(c, to) /\ cmd[c].pc = "create"
  BY <1>1, TakesGoes DEF Steps, Halted
<1>3. VaultTypeOK' /\ beside' = beside
  BY <1>1, <1>2, TypesKeep DEF VaultTypeOK
<1>4. /\ c # NoVault /\ cmd[c].kind \in {"setup", "set"}
  BY <1>2, VaultAssumption DEF VaultInv, AtOwnStep
<1>5. AtOwnStep(c)' /\ Stage(c)'
  BY <1>1, <1>2, <1>4 DEF AtOwnStep, Goes, Rotating, Stage, Publishing
<1>6. Readable' = c
  BY <1>1, <1>4 DEF Readable
<1>7. beside = 0 /\ Undeleted => enrolled' # "setup"
  BY <1>1, <1>2 DEF VaultInv, AloneInv, Stage, Readable
<1>8. ASSUME Undeleted, Unrotated PROVE SharedInv'
  <2>1. rollback = NoVault /\ enrolled # "setup" /\ \A d \in Command : ~Publishing(d)
    BY <1>1, <1>8, VaultAssumption DEF VaultInv, SharedInv
  <2>2. \A d \in Command \ {c} : ~Publishing(d)'
    BY <1>2, <2>1 DEF Goes, Publishing
  <2> QED
    BY <1>1, <2>1, <2>2 DEF SharedInv
<1> QED
  BY <1>1, <1>2, <1>3, <1>4, <1>5, <1>6, <1>7, <1>8, StepKeeps

\* The steps of a rotation, which runs alone: after each the credential is under one of
\* the two names.
LEMMA RotationKeeps ==
    ASSUME VaultInv, NEW c \in Command, NEW to, Goes(c, to), cmd[c].kind = "rotate",
           to \in Rotating \cup {"deliver", "failed"}, VaultTypeOK', beside' = beside,
           enrolled' = enrolled,
           beside = 0 => /\ to \in {"remove", "unback", "cleanup"} => vault' # NoVault
                         /\ to = "remove" => rollback' = vault'
                         /\ kept' # NoVault => Readable' = kept'
                         /\ Readable # NoVault => Readable' # NoVault
    PROVE  VaultInv'
<1>1. AtOwnStep(c)' /\ ~Publishing(c)' /\ ~Undoing(c)'
  BY DEF Goes, AtOwnStep, Publishing, Undoing, Rotating
<1>2. beside = 0 => Stage(c)'
  BY <1>1 DEF Goes, Stage, Rotating
<1> QED
  BY <1>1, <1>2, StepKeeps DEF VaultInv, AloneInv

LEMMA BackUpKeeps == ASSUME VaultInv, NEW c \in Command, BackUp(c) PROVE VaultInv'
<1>1. /\ vault # NoVault /\ rollback' = vault
      /\ UNCHANGED <<enrolled, vault, kept, Budgets>> /\ VaultTypeOK
  BY DEF BackUp, VaultInv
<1>2. Goes(c, "remove") /\ cmd[c].pc = "backup"
  BY <1>1, TakesGoes DEF BackUp, Steps, Rotating, Halted
<1>3. VaultTypeOK' /\ beside' = beside /\ cmd[c].kind = "rotate"
  BY <1>1, <1>2, TypesKeep DEF VaultTypeOK, VaultInv, AtOwnStep, Rotating
<1>4. Readable' = Readable
  BY <1>1 DEF Readable
<1> QED
  BY <1>1, <1>2, <1>3, <1>4, RotationKeeps DEF VaultInv, AloneInv, Rotating

LEMMA RemoveOldKeeps == ASSUME VaultInv, NEW c \in Command, RemoveOld(c) PROVE VaultInv'
<1>1. /\ vault # NoVault /\ vault' = NoVault
      /\ UNCHANGED <<enrolled, rollback, kept, Budgets>> /\ VaultTypeOK
  BY DEF RemoveOld, VaultInv
<1>2. Goes(c, "publish") /\ cmd[c].pc = "remove"
  BY <1>1, TakesGoes DEF RemoveOld, Steps, Rotating, Halted
<1>3. VaultTypeOK' /\ beside' = beside /\ cmd[c].kind = "rotate"
  BY <1>1, <1>2, TypesKeep DEF VaultTypeOK, VaultInv, AtOwnStep, Rotating
<1>4. beside = 0 => Readable' = Readable
  BY <1>1, <1>2 DEF Readable, VaultInv, AloneInv, Stage
<1> QED
  BY <1>1, <1>2, <1>3, <1>4, RotationKeeps DEF VaultInv, AloneInv, Rotating

LEMMA UnbackKeeps == ASSUME VaultInv, NEW c \in Command, Unback(c) PROVE VaultInv'
<1>1. /\ rollback' = NoVault /\ UNCHANGED <<enrolled, vault, kept, Budgets>> /\ VaultTypeOK
  BY DEF Unback, VaultInv
<1>2. Goes(c, "failed") /\ cmd[c].pc = "unback"
  BY <1>1, TakesGoes DEF Unback, Steps, Rotating, Halted
<1>3. VaultTypeOK' /\ beside' = beside /\ cmd[c].kind = "rotate"
  BY <1>1, <1>2, TypesKeep DEF VaultTypeOK, VaultInv, AtOwnStep, Rotating
<1>4. beside = 0 => Readable' = Readable
  BY <1>1, <1>2 DEF Readable, VaultInv, AloneInv, Stage
<1> QED
  BY <1>1, <1>2, <1>3, <1>4, RotationKeeps DEF VaultInv, AloneInv

LEMMA PublishNewKeeps == ASSUME VaultInv, NEW c \in Command, PublishNew(c) PROVE VaultInv'
<1>1. /\ vault' = c /\ kept' = c /\ UNCHANGED <<enrolled, rollback, Budgets>> /\ VaultTypeOK
  BY DEF PublishNew, VaultInv
<1>2. Goes(c, "cleanup") /\ cmd[c].pc = "publish"
  BY <1>1, TakesGoes DEF PublishNew, Steps, Rotating, Halted
<1>3. VaultTypeOK' /\ beside' = beside /\ cmd[c].kind = "rotate"
  BY <1>1, <1>2, TypesKeep DEF VaultTypeOK, VaultInv, AtOwnStep, Rotating
<1>4. Readable' = c /\ c # NoVault
  BY <1>1, VaultAssumption DEF Readable
<1> QED
  BY <1>1, <1>2, <1>3, <1>4, RotationKeeps DEF Rotating

LEMMA RestoreOldKeeps == ASSUME VaultInv, NEW c \in Command, RestoreOld(c) PROVE VaultInv'
<1>1. /\ vault = NoVault /\ vault' = rollback
      /\ UNCHANGED <<enrolled, rollback, kept, Budgets>> /\ VaultTypeOK
  BY DEF RestoreOld, VaultInv
<1>2. Goes(c, "failed") /\ cmd[c].pc = "restore"
  BY <1>1, TakesGoes DEF RestoreOld, Steps, Rotating, Halted
<1>3. VaultTypeOK' /\ beside' = beside /\ cmd[c].kind = "rotate"
  BY <1>1, <1>2, TypesKeep DEF VaultTypeOK, VaultInv, AtOwnStep, Rotating
<1>4. Readable' = Readable
  BY <1>1 DEF Readable
<1> QED
  BY <1>1, <1>2, <1>3, <1>4, RotationKeeps DEF VaultInv, AloneInv

LEMMA CleanUpKeeps == ASSUME VaultInv, NEW c \in Command, CleanUp(c) PROVE VaultInv'
<1>1. /\ rollback' = NoVault /\ UNCHANGED <<enrolled, vault, kept, Budgets>> /\ VaultTypeOK
  BY DEF CleanUp, VaultInv
<1>2. Goes(c, "deliver") /\ cmd[c].pc = "cleanup"
  BY <1>1, TakesGoes DEF CleanUp, Steps, Rotating, Halted
<1>3. VaultTypeOK' /\ beside' = beside /\ cmd[c].kind = "rotate"
  BY <1>1, <1>2, TypesKeep DEF VaultTypeOK, VaultInv, AtOwnStep, Rotating
<1>4. beside = 0 => Readable' = Readable
  BY <1>1, <1>2 DEF Readable, VaultInv, AloneInv, Stage
<1> QED
  BY <1>1, <1>2, <1>3, <1>4, RotationKeeps DEF VaultInv, AloneInv

----------------------------------------------------------------------------
\* The profile and the deletion.

LEMMA SaveProfileKeeps == ASSUME VaultInv, NEW c \in Command, SaveProfile(c) PROVE VaultInv'
<1>1. /\ cmd[c].kind = "setup" /\ enrolled' = "setup"
      /\ UNCHANGED <<vault, rollback, kept, Budgets>> /\ VaultTypeOK
  BY DEF SaveProfile, VaultInv
<1>2. Goes(c, "deliver") /\ cmd[c].pc = "save"
  BY <1>1, TakesGoes DEF SaveProfile, Steps, Halted
<1>3. VaultTypeOK' /\ beside' = beside
  BY <1>1, <1>2, TypesKeep DEF VaultTypeOK
<1>4. AtOwnStep(c)' /\ ~Publishing(c)' /\ ~Undoing(c)' /\ Stage(c)'
  BY <1>2 DEF AtOwnStep, Goes, Publishing, Undoing, Rotating, Stage
<1>5. Publishing(c) /\ c # NoVault
  BY <1>1, <1>2, VaultAssumption DEF Publishing
<1>6. beside = 0 => Readable' = c /\ kept' = c
  BY <1>1, <1>5 DEF VaultInv, AloneInv, Stage, Readable
<1>7. ASSUME Undeleted, Unrotated PROVE SharedInv'
  <2>1. vault = c /\ rollback = NoVault /\ vault = kept
    BY <1>5, <1>7 DEF VaultInv, SharedInv
  <2>2. \A d \in Command \ {c} : ~Publishing(d)
    BY <1>7, <2>1 DEF VaultInv, SharedInv
  <2>3. \A d \in Command : ~Publishing(d)'
    <3>1. \A d \in Command \ {c} : ~Publishing(d)'
      BY <1>2, <2>2 DEF Goes, Publishing
    <3> QED
      BY <3>1, <1>4
  <2> QED
    BY <1>1, <1>5, <2>1, <2>3 DEF SharedInv
<1> QED
  BY <1>2, <1>3, <1>4, <1>5, <1>6, <1>7, StepKeeps

LEMMA ConfigureKeeps == ASSUME VaultInv, NEW c \in Command, Configure(c) PROVE VaultInv'
<1>1. /\ cmd[c].kind \in {"vaultMode", "promptMode"} /\ enrolled' = cmd[c].kind
      /\ UNCHANGED <<vault, rollback, kept, Budgets>> /\ VaultTypeOK
  BY DEF Configure, VaultInv
<1>2. Goes(c, "done")
  BY <1>1, TakesGoes DEF Configure, Steps, Halted
<1>3. VaultTypeOK' /\ beside' = beside
  BY <1>1, <1>2, TypesKeep DEF VaultTypeOK
<1>4. AtOwnStep(c)' /\ ~Publishing(c)' /\ ~Undoing(c)' /\ Stage(c)'
  BY <1>2 DEF AtOwnStep, Goes, Publishing, Undoing, Rotating, Stage
<1>5. Readable' = Readable
  BY <1>1 DEF Readable
<1>6. Undeleted /\ Unrotated => SharedInv'
  BY <1>1, <1>2, <1>4, SharedStays
<1> QED
  BY <1>1, <1>2, <1>3, <1>4, <1>5, <1>6, StepKeeps DEF VaultInv, AloneInv

LEMMA DeleteVaultKeeps == ASSUME VaultInv, NEW c \in Command, DeleteVault(c) PROVE VaultInv'
<1>1. /\ vault' = NoVault
      /\ kept' = (IF cmd[c].kind = "delete" \/ kept = c THEN NoVault ELSE kept)
      /\ UNCHANGED <<enrolled, rollback, Budgets>> /\ VaultTypeOK
  BY DEF DeleteVault, VaultInv
<1>2. Goes(c, "sweep") /\ cmd[c].pc = "delete"
  BY <1>1, TakesGoes DEF DeleteVault, Steps, Halted
<1>3. VaultTypeOK' /\ beside' = beside
  BY <1>1, <1>2, TypesKeep DEF VaultTypeOK
<1>4. cmd[c].kind = "delete" \/ Publishing(c)
  BY <1>2 DEF VaultInv, AtOwnStep, Publishing
<1>5. AtOwnStep(c)' /\ ~Publishing(c)'
  BY <1>2, <1>4 DEF AtOwnStep, Goes, Publishing, Rotating
<1>6. beside = 0 => kept' = NoVault
  BY <1>1, <1>4 DEF VaultInv, AloneInv, Stage
<1>7. beside = 0 => Stage(c)'
  BY <1>2, <1>5, <1>6 DEF Goes, Stage
<1>8. beside = 0 /\ Undeleted => enrolled' # "setup"
  <2>1. Undeleted => Undoing(c)
    BY <1>2, <1>4 DEF Undeleted, Began, Publishing, Undoing
  <2> QED
    BY <1>1, <2>1 DEF VaultInv, AloneInv
<1>9. ASSUME Undeleted, Unrotated, cmd[c].kind # "delete" PROVE SharedInv'
  <2>1. vault = c /\ kept = c /\ rollback = NoVault /\ enrolled # "setup"
    BY <1>4, <1>9 DEF VaultInv, SharedInv
  <2>2. \A d \in Command : ~Publishing(d)'
    <3>1. \A d \in Command \ {c} : ~Publishing(d)
      BY <1>9, <2>1 DEF VaultInv, SharedInv
    <3>2. \A d \in Command \ {c} : ~Publishing(d)'
      BY <1>2, <3>1 DEF Goes, Publishing
    <3> QED
      BY <3>2, <1>5
  <2> QED
    BY <1>1, <2>1, <2>2 DEF SharedInv
<1> QED
  BY <1>2, <1>3, <1>5, <1>6, <1>7, <1>8, <1>9, StepKeeps

LEMMA SweepKeeps == ASSUME VaultInv, NEW c \in Command, Sweep(c) PROVE VaultInv'
<1> DEFINE to == AfterDeletion(c)
<1>1. /\ rollback' = NoVault /\ UNCHANGED <<enrolled, vault, kept, Budgets>> /\ VaultTypeOK
  BY DEF Sweep, VaultInv
<1>2. to \in {"failed", "done"}
  BY DEF AfterDeletion
<1>3. Goes(c, to) /\ cmd[c].pc = "sweep"
  BY <1>1, <1>2, TakesGoes DEF Sweep, Steps, Halted
<1>4. VaultTypeOK' /\ beside' = beside
  BY <1>1, <1>3, TypesKeep DEF VaultTypeOK
<1>5. AtOwnStep(c)' /\ ~Publishing(c)' /\ ~Undoing(c)' /\ Stage(c)'
  BY <1>2, <1>3 DEF AtOwnStep, Goes, Publishing, Undoing, Rotating, Stage
<1>6. beside = 0 => kept' = NoVault
  BY <1>1, <1>3 DEF VaultInv, AloneInv, Stage
<1>7. beside = 0 /\ Undeleted => enrolled' # "setup"
  <2>1. Undeleted => Undoing(c)
    BY <1>3 DEF Undeleted, Began, Undoing, VaultInv, AtOwnStep
  <2> QED
    BY <1>1, <2>1 DEF VaultInv, AloneInv
<1>8. Undeleted /\ Unrotated => SharedInv'
  BY <1>1, <1>3, <1>5, SharedStays
<1> QED
  BY <1>3, <1>4, <1>5, <1>6, <1>7, <1>8, StepKeeps

----------------------------------------------------------------------------

\* The steps that only look at the files or the terminal.
LEMMA LookersKeep ==
    ASSUME VaultInv, NEW c \in Command,
           CheckExists(c) \/ Deliver(c) \/ LoadProfile(c) \/ Stat(c) \/ Open(c)
    PROVE  VaultInv'
<1>1. PICK from \in Quiet, to \in Halted \cup {"backup", "look", "asking"} :
          Takes(c, from, to) /\ (to = "backup" => from = "check")
  BY DEF CheckExists, Deliver, LoadProfile, Stat, Open, Halted, Quiet
<1>2. UNCHANGED <<enrolled, vault, rollback, kept, Budgets>> /\ VaultTypeOK
  BY DEF CheckExists, Deliver, LoadProfile, Stat, Open, VaultInv
<1>3. Goes(c, to) /\ cmd[c].pc = from
  BY <1>1, <1>2, TakesGoes DEF Steps, Recovering, Rotating, Halted, Quiet
<1>4. VaultTypeOK' /\ beside' = beside
  BY <1>2, <1>3, TypesKeep DEF VaultTypeOK
<1>5. to = "backup" => cmd[c].kind = "rotate"
  BY <1>1, <1>3 DEF VaultInv, AtOwnStep, Rotating
<1> QED
  BY <1>1, <1>2, <1>3, <1>4, <1>5, QuietKeeps DEF Quiet

LEMMA ErrorsLead ==
    ASSUME NEW c \in Command
    PROVE  OnError(c) \in {"unback", "restore", "deliver", "delete", "failed", "done"}
BY DEF OnError, AfterDeletion

LEMMA FailKeeps == ASSUME VaultInv, NEW c \in Command, Fail(c) PROVE VaultInv'
<1> DEFINE to == OnError(c)
<1>1. /\ cmd[c].pc \in Operations /\ cmd' = [cmd EXCEPT ![c].pc = to]
      /\ UNCHANGED <<enrolled, vault, rollback, kept, kills, beside>>
      /\ vaultFaults' \in 0..MaxVaultFaults /\ VaultTypeOK
  BY VaultAssumption DEF Fail, VaultInv, VaultTypeOK
<1>2. to \in Steps /\ to # "idle" /\ Active(c)
  BY <1>1, ErrorsLead DEF Steps, Halted, Rotating, Active, Operations, Recovering
<1>3. Goes(c, to)
  BY <1>1, <1>2, MoveGoes
<1>4. VaultTypeOK'
  BY <1>1, <1>3 DEF VaultTypeOK, Goes, CommandState
<1>5. /\ to = "unback" => cmd[c].pc = "remove"
      /\ to = "restore" => cmd[c].pc = "publish"
      /\ to = "delete" => cmd[c].pc = "save" /\ cmd[c].kind = "setup"
  BY DEF OnError, AfterDeletion
<1>6. CASE to \in {"deliver", "failed", "done"}
  BY <1>1, <1>3, <1>4, <1>6, QuietKeeps DEF Quiet, Halted
<1>7. CASE to = "restore"
  <2>1. cmd[c].kind = "rotate"
    BY <1>5, <1>7 DEF VaultInv, AtOwnStep, Rotating
  <2> QED
    BY <1>1, <1>3, <1>4, <1>7, <2>1, QuietKeeps
<1>8. CASE to = "unback"
  <2>1. cmd[c].kind = "rotate" /\ (beside = 0 => vault # NoVault)
    BY <1>5, <1>8 DEF VaultInv, AtOwnStep, Rotating, AloneInv, Stage
  <2>2. beside = 0 => Readable' = Readable
    BY <1>1 DEF Readable
  <2> QED
    BY <1>1, <1>3, <1>4, <1>8, <2>1, <2>2, RotationKeeps DEF Rotating, VaultInv, AloneInv
<1>9. CASE to = "delete"
  <2>1. Publishing(c) /\ Undoing(c) /\ cmd[c].kind = "setup"
    BY <1>5, <1>9 DEF Publishing, Undoing
  <2>2. AtOwnStep(c)' /\ (beside = 0 => Stage(c)')
    BY <1>1, <1>3, <1>9, <2>1 DEF AtOwnStep, Goes, Rotating, Stage, Publishing, VaultInv, AloneInv
  <2> QED
    BY <1>1, <1>3, <1>4, <2>1, <2>2, WalkKeeps
<1> QED
  BY <1>6, <1>7, <1>8, <1>9, ErrorsLead

LEMMA KillKeeps == ASSUME VaultInv, NEW c \in Command, Kill(c) PROVE VaultInv'
<1>1. /\ Active(c) /\ cmd' = [cmd EXCEPT ![c].pc = "killed"]
      /\ UNCHANGED <<enrolled, vault, rollback, kept, vaultFaults, beside>>
      /\ kills' \in 0..MaxKills /\ VaultTypeOK
  BY VaultAssumption DEF Kill, VaultInv, VaultTypeOK
<1>2. Goes(c, "killed")
  BY <1>1, MoveGoes DEF Steps, Halted
<1>3. VaultTypeOK'
  BY <1>1, <1>2 DEF VaultTypeOK, Goes, CommandState
<1> QED
  BY <1>1, <1>2, <1>3, QuietKeeps DEF Halted

LEMMA BeginKeeps ==
    ASSUME VaultInv, NEW c \in Command, NEW k \in Kind, Begin(c, k) PROVE VaultInv'
<1> DEFINE new == [cmd[c] EXCEPT !.kind = k, !.pc = FirstStep[k]]
<1>1. /\ cmd[c].pc = "idle" /\ cmd \in [Command -> CommandState]
      /\ UNCHANGED <<enrolled, vault, rollback, kept, vaultFaults, kills>> /\ VaultTypeOK
  BY DEF Begin, VaultInv, VaultTypeOK, CommandState
<1>2. /\ FirstStep[k] \in Steps \cap {"asking", "save", "look", "delete", "load"}
      /\ FirstStep[k] = "save" => k \in {"vaultMode", "promptMode"}
      /\ FirstStep[k] = "delete" => k = "delete"
  BY DEF FirstStep, Kind, Steps, Recovering
<1>3. new \in CommandState /\ new.pc = FirstStep[k] /\ new.kind = k
  BY <1>1, <1>2 DEF CommandState
<1>4. cmd' = [cmd EXCEPT ![c] = new]
  BY <1>1 DEF Begin
<1> HIDE DEF new
<1>5. /\ cmd'[c].pc = FirstStep[k] /\ cmd'[c].kind = k
      /\ \A d \in Command \ {c} : cmd'[d] = cmd[d]
  BY <1>1, <1>3, <1>4
<1>6. beside' \in 0..MaxBeside /\ (beside' = 0 => beside = 0 /\ \A d \in Command : ~Active(d))
  BY <1>1, VaultAssumption DEF Begin, VaultTypeOK
<1>7. VaultTypeOK'
  BY <1>1, <1>3, <1>4, <1>6 DEF VaultTypeOK, CommandState
<1>8. AtOwnStep(c)' /\ ~Publishing(c)' /\ ~Undoing(c)' /\ Stage(c)'
  BY <1>2, <1>5 DEF AtOwnStep, Publishing, Undoing, Stage, Rotating
<1>9. \A d \in Command : AtOwnStep(d)'
  <2>1. \A d \in Command \ {c} : AtOwnStep(d)'
    BY <1>5 DEF VaultInv, AtOwnStep
  <2> QED
    BY <2>1, <1>8
<1>10. /\ Undeleted' => Undeleted
       /\ Unrotated' => Unrotated
  <2>1. ASSUME NEW d \in Command, NEW j, Began(d, j) PROVE Began(d, j)'
    BY <2>1, <1>1, <1>5 DEF Began
  <2> QED
    BY <2>1 DEF Undeleted, Unrotated
<1>11. Readable' = Readable
  BY <1>1 DEF Readable
<1>12. AloneInv'
  <2> SUFFICES ASSUME beside' = 0
      PROVE  /\ \A a, b \in Command : Active(a)' /\ Active(b)' => a = b
             /\ \A d \in Command : Stage(d)'
             /\ kept' # NoVault => Readable' = kept'
             /\ Undeleted' /\ enrolled' = "setup" =>
                   Readable' # NoVault /\ \A d \in Command : ~Undoing(d)'
    BY DEF AloneInv
  <2>1. \A d \in Command \ {c} : ~Active(d)'
    BY <1>5, <1>6 DEF Active
  <2>2. \A d \in Command \ {c} : Stage(d)' /\ (Undoing(d)' => Undoing(d))
    BY <1>1, <1>5, <1>6 DEF VaultInv, AloneInv, Stage, Publishing, Undoing
  <2> QED
    BY <1>1, <1>6, <1>8, <1>10, <1>11, <2>1, <2>2 DEF VaultInv, AloneInv
<1>13. SharedInv'
  <2>1. \A d \in Command : Publishing(d)' => Publishing(d)
    <3>1. \A d \in Command \ {c} : Publishing(d)' => Publishing(d)
      BY <1>5 DEF Publishing
    <3> QED
      BY <3>1, <1>8
  <2> QED
    BY <1>1, <1>10, <2>1 DEF VaultInv, SharedInv
<1> QED
  BY <1>7, <1>9, <1>12, <1>13 DEF VaultInv

LEMMA VaultBegins == VaultInit => VaultInv
<1> SUFFICES ASSUME VaultInit PROVE VaultInv
  OBVIOUS
<1>1. 0 \in 0..MaxVaultFaults /\ 0 \in 0..MaxKills /\ 0 \in 0..MaxBeside
  BY VaultAssumption
<1>2. [kind |-> "status", pc |-> "idle", asked |-> FALSE] \in CommandState
  BY DEF CommandState, Kind, FirstStep, Steps
<1>3. VaultTypeOK
  BY <1>1, <1>2 DEF VaultInit, VaultTypeOK, CommandState
<1>4. \A c \in Command : cmd[c].pc = "idle"
  BY DEF VaultInit
<1>5. \A c \in Command : AtOwnStep(c) /\ Stage(c) /\ ~Active(c) /\ ~Publishing(c) /\ ~Undoing(c)
  BY <1>4 DEF AtOwnStep, Stage, Active, Publishing, Undoing, Rotating
<1> QED
  BY <1>3, <1>5 DEF VaultInit, VaultInv, AloneInv, SharedInv

LEMMA VaultGoesOn == VaultInv /\ [VaultNext]_vaultVars => VaultInv'
<1> SUFFICES ASSUME VaultInv, [VaultNext]_vaultVars PROVE VaultInv'
  OBVIOUS
<1>1. ASSUME NEW c \in Command, Prompting(c) \/ Recovery(c) PROVE VaultInv'
  BY <1>1, PromptsKeep, LookKeeps, LookBackKeeps, RecoveredKeeps, RelinkKeeps DEF Recovery
<1>2. ASSUME NEW c \in Command, Publication(c) PROVE VaultInv'
  BY <1>2, CreateKeeps, LookersKeep, BackUpKeeps, RemoveOldKeeps, UnbackKeeps,
     PublishNewKeeps, RestoreOldKeeps, CleanUpKeeps DEF Publication
<1>3. ASSUME NEW c \in Command, Handling(c) PROVE VaultInv'
  BY <1>3, SaveProfileKeeps, ConfigureKeeps, DeleteVaultKeeps, SweepKeeps, LookersKeep
     DEF Handling
<1>4. CASE UNCHANGED vaultVars
  BY <1>4 DEF vaultVars, VaultInv, VaultTypeOK, AtOwnStep, AloneInv, SharedInv, Stage, Publishing,
     Undoing, Active, Readable, Undeleted, Unrotated, Began
<1> QED
  BY <1>1, <1>2, <1>3, <1>4, BeginKeeps, FailKeeps, KillKeeps DEF VaultNext

LEMMA VaultInvariant == VaultSpec => []VaultInv
BY VaultBegins, VaultGoesOn, PTL DEF VaultSpec

(* Whatever fails and wherever a command is killed, the credential that was *)
(* committed last can be read (publish and recover of credential.Store), as *)
(* long as commands run one at a time, or nobody rotates or deletes.        *)
THEOREM CredentialIsKept == VaultSpec => []CredentialSurvives
<1>1. VaultInv => CredentialSurvives
  BY DEF VaultInv, AloneInv, SharedInv, CredentialSurvives, Undisturbed, Readable
<1> QED
  BY <1>1, VaultInvariant, PTL

(* A profile that the set-up enrolled has a vault: it is made first, and    *)
(* undone only by the set-up whose own profile was refused (runSetup).      *)
THEOREM EnrolledHasVault == VaultSpec => []ProfileHasVault
<1>1. VaultInv => ProfileHasVault
  BY DEF VaultInv, AloneInv, SharedInv, ProfileHasVault, Undisturbed, Readable
<1> QED
  BY <1>1, VaultInvariant, PTL
=============================================================================
