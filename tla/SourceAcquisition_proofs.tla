---------------------- MODULE SourceAcquisition_proofs ----------------------
(* Theorems about SourceAcquisition, for every number of requests and       *)
(* processes, and every bound on overlaps, failures and crashes.            *)
EXTENDS SourceAcquisition, FiniteSetTheorems, TLAPS

(* Past "open" a request has a connection and its own record. *)
Equipped ==
    \A r \in Request : pc[r] \in AcquireStages \ {"open"} =>
        /\ conn[r] \in Target
        /\ record[r] \in Row
        /\ record[r].token = r

(* A step spends at most one failure. *)
LEMMA FaultCounted ==
  ASSUME faults \in 0..MaxFaults, Fault \/ NoFault
  PROVE  faults' \in 0..MaxFaults /\ UNCHANGED <<crashes, edits, overlaps>>
BY ConstantsAssumption DEF Fault, NoFault, budgets

(* Type correctness: every variable of Acquire, Recover and the ledger      *)
(* stays in its type, and requests and processes in their own stages.       *)
THEOREM TypeCorrect == Spec => [](TypeOK /\ Equipped)
<1> USE ConstantsAssumption
<1> DEFINE Inv == TypeOK /\ Equipped
<1>1. Init => Inv
  BY DEF Init, TypeOK, Equipped, AcquireStages, CleanupStages, Actor, Path, RequestStages, ProcessStages, RecoveryStages,
         FileState
<1>2. Inv /\ [Next]_vars => Inv'
  <2> SUFFICES ASSUME Inv, [Next]_vars PROVE Inv'
    OBVIOUS
  <2> USE DEF TypeOK, Equipped, Actor, RequestStages, ProcessStages, RecoveryStages,
              AcquireStages, CleanupStages
  <2>1. ASSUME NEW a \in Actor, Recover(a) PROVE Inv'
    <3> USE DEF Step, Goto, NoFault, budgets, remoteVars, settings, requestVars,
                localVars, gateVars, GatePassed, GateFailed
    <3>1. CASE RecoverList(a)
      BY <3>1 DEF RecoverList, ListRecovery
    <3>2. CASE RecoverGuard(a)
      BY <3>2 DEF RecoverGuard
    <3>3. CASE RecoverRefuse(a)
      BY <3>3 DEF RecoverRefuse
    <3>4. CASE RecoverFault(a)
      BY <3>4 DEF RecoverFault, Fault
    <3> QED
      BY <2>1, <3>1, <3>2, <3>3, <3>4 DEF Recover
  <2>2. ASSUME NEW a \in Actor, Reclaim(a) PROVE Inv'
    <3> USE DEF Step, Goto, NoFault, Fault, budgets, remoteVars, settings, requestVars,
                localVars, gateVars, GatePassed, GateFailed, Recovering, Advance,
                Abandon, Retract, FileState
    <3>1. CASE RemoveTemporary(a)
      <4>1. files' \in [Path -> FileState]
        BY <3>1 DEF RemoveTemporary
      <4>2. /\ pc' \in [Actor -> RequestStages \cup ProcessStages]
            /\ \A r \in Request : pc'[r] \in RequestStages
            /\ \A p \in Process : pc'[p] \in ProcessStages
        BY <3>1 DEF RemoveTemporary
      <4>3. removeErr' = [removeErr EXCEPT ![a] = FALSE]
              \/ removeErr' = [removeErr EXCEPT ![a] = TRUE]
        BY <3>1 DEF RemoveTemporary
      <4>4. removeErr' \in [Actor -> BOOLEAN]
        <5>1. removeErr \in [Actor -> BOOLEAN]
          OBVIOUS
        <5>2. TRUE \in BOOLEAN /\ FALSE \in BOOLEAN
          OBVIOUS
        <5> HIDE DEF TypeOK, Equipped
        <5> QED
          BY <4>3, <5>1, <5>2, Zenon
      <4>5. faults' \in 0..MaxFaults
        BY <3>1 DEF RemoveTemporary
      <4> QED
        BY <3>1, <4>1, <4>2, <4>4, <4>5 DEF RemoveTemporary
    <3>2. CASE ConfirmRemoved(a)
      BY <3>2 DEF ConfirmRemoved
    <3>3. CASE ConfirmFails(a)
      BY <3>3 DEF ConfirmFails
    <3>4. CASE DeleteRow(a)
      BY <3>4 DEF DeleteRow
    <3>5. CASE DeleteFails(a)
      BY <3>5 DEF DeleteFails
    <3> QED
      BY <2>2, <3>1, <3>2, <3>3, <3>4, <3>5 DEF Reclaim
  <2>3. ASSUME NEW r \in Request, Begin(r) PROVE Inv'
    <3>1. overlaps' \in 0..MaxOverlaps /\ UNCHANGED <<faults, crashes, edits>>
      BY <2>3 DEF Begin, Enter, NoFault, budgets
    <3> QED
      BY <2>3, <3>1 DEF Begin, Step, Goto, remoteVars, settings,
                        requestVars, localVars, gateVars
  <2>4. ASSUME NEW r \in Request, Acquire(r) PROVE Inv'
    <3> USE DEF Step, Goto, NoFault, Fault, budgets, remoteVars, settings,
                requestVars, localVars, gateVars, FileState
    <3>1. CASE Open(r)
      BY <3>1 DEF Open, Row
    <3>2. CASE EarlyFault(r)
      BY <3>2 DEF EarlyFault
    <3>3. CASE Admit(r)
      BY <3>3 DEF Admit
    <3>4. CASE AdmitFull(r)
      BY <3>4 DEF AdmitFull
    <3>5. CASE Readback(r)
      BY <3>5 DEF Readback
    <3>6. CASE Create(r)
      <4>1. files' \in [Path -> FileState]
        BY <3>6 DEF Create
      <4>2. pc' = [pc EXCEPT ![r] = "copy"] \/ pc' = [pc EXCEPT ![r] = "close"]
        BY <3>6 DEF Create
      <4>3. faults' \in 0..MaxFaults /\ crashes' = crashes /\ edits' = edits
        BY <3>6 DEF Create
      <4> QED
        BY <3>6, <4>1, <4>2, <4>3 DEF Create
    <3>7. CASE StartCopy(r)
      BY <3>7 DEF StartCopy
    <3>8. CASE CopyReturns(r)
      BY <3>8 DEF CopyReturns, AfterCopy
    <3>9. CASE CopyFault(r)
      BY <3>9 DEF CopyFault, EndJobsOf
    <3>10. CASE Stat(r)
      BY <3>10 DEF Stat, Mine, Path
    <3>11. CASE Download(r)
      BY <3>11 DEF Download
    <3>12. CASE ReadFault(r)
      BY <3>12 DEF ReadFault
    <3>13. CASE CleanupOpen(r)
      BY <3>13 DEF CleanupOpen
    <3>14. CASE CleanupFault(r)
      BY <3>14 DEF CleanupFault, Abandon, Retract, Recovering
    <3>15. CASE Close(r)
      BY <3>15 DEF Close
    <3> QED
      BY <2>4, <3>1, <3>2, <3>3, <3>4, <3>5, <3>6, <3>7, <3>8, <3>9, <3>10,
         <3>11, <3>12, <3>13, <3>14, <3>15 DEF Acquire
  <2>5. ASSUME NEW f \in Path, Job(f) PROVE Inv'
    <3> USE DEF NoFault, Fault, budgets, settings, localVars, requestVars,
                gateVars, FileState, Path
    <3>1. CASE JobOpens(f)
      BY <3>1 DEF JobOpens
    <3>2. CASE JobEnds(f)
      <4>1. f[2] \in Request
        OBVIOUS
      <4>2. files' \in [Path -> FileState]
        <5>1. CASE files' = files
          BY <5>1
        <5>2. CASE files' = [files EXCEPT ![f] = IF @ = "absent" THEN "absent" ELSE "full"]
          BY <5>2
        <5> QED
          BY <3>2, <5>1, <5>2 DEF JobEnds
      <4>3. copied' \in [Request -> {"pending", "ok", "failed"}]
        BY <3>2, <4>1 DEF JobEnds
      <4>4. faults' \in 0..MaxFaults /\ crashes' = crashes /\ edits' = edits
        BY <3>2 DEF JobEnds
      <4> QED
        BY <3>2, <4>2, <4>3, <4>4 DEF JobEnds
    <3> QED
      BY <2>5, <3>1, <3>2 DEF Job
  <2>6. ASSUME NEW p \in Process, StartProcess(p) \/ StopProcess(p) \/ Crash(p)
        PROVE  Inv'
    <3> USE DEF Step, Goto, NoFault, budgets, remoteVars, settings, requestVars,
                localVars, gateVars
    <3>1. CASE StartProcess(p)
      <4>1. overlaps' \in 0..MaxOverlaps /\ UNCHANGED <<faults, crashes, edits>>
        BY <3>1 DEF StartProcess, Enter
      <4> QED
        BY <3>1, <4>1 DEF StartProcess
    <3>2. CASE StopProcess(p)
      BY <3>2 DEF StopProcess
    <3>3. CASE Crash(p)
      BY <3>3 DEF Crash, EndJobsOf, InFlight
    <3> QED
      BY <2>6, <3>1, <3>2, <3>3
  <2>7. CASE EditProfile
    BY <2>7 DEF EditProfile, remoteVars, localVars, requestVars, gateVars
  <2>8. CASE UNCHANGED vars
    BY <2>8 DEF vars
  <2> QED
    BY <2>1, <2>2, <2>3, <2>4, <2>5, <2>6, <2>7, <2>8 DEF Next
<1> QED
  BY <1>1, <1>2, PTL DEF Spec
(* What was edited, or overlapped, stays so.                                *)
LEMMA BudgetsGrow ==
  ASSUME TypeOK, [Next]_vars
  PROVE  (edits' = 0 => edits = 0) /\ (overlaps' = 0 => overlaps = 0)
<1>1. edits \in Nat /\ overlaps \in Nat
  BY ConstantsAssumption DEF TypeOK
<1>2. (edits' = edits \/ edits' = edits + 1) /\ (overlaps' = overlaps \/ overlaps' = overlaps + 1)
  BY DEF Next, vars, budgets, Fault, NoFault, Enter, Open, Recover, RecoverList, RecoverGuard,
         RecoverRefuse, RecoverFault, Reclaim, RemoveTemporary, ConfirmRemoved, ConfirmFails,
         DeleteRow, DeleteFails, Acquire, EarlyFault, Admit, AdmitFull, Readback, Create,
         StartCopy, CopyReturns, CopyFault, Stat, Download, ReadFault, CleanupOpen,
         CleanupFault, Close, Begin, Job, JobOpens, JobEnds, StartProcess,
         StopProcess, Crash, EditProfile
<1> QED
  BY <1>1, <1>2

-----------------------------------------------------------------------------
(* While the profile is not edited, published snapshots have left nothing   *)
(* behind, whatever the clients, the other processes, the network and the   *)
(* ledger do, and even if copy jobs outlive their sessions.                 *)
(*                                                                         *)
(* The argument: a request's file can come into being only through its own *)
(* Create and its own copy job.  A snapshot exists only after the job has  *)
(* reported success, so nothing can write the file any more when cleanup   *)
(* finds it gone; and only the request itself admits its row.              *)

Unedited ==
    /\ profile = FirstTarget
    /\ \A p \in Process : startTarget[p] = FirstTarget
    /\ \A row \in ledger : row.target = FirstTarget

OwnRow(r) == [token |-> r, target |-> FirstTarget]
Own(r) == <<FirstTarget, r>>

BeforeCopy == RecoveryStages \cup {"idle", "open", "admit", "readback", "create", "copy"}
BeforeDownload == BeforeCopy \cup {"copying", "stat", "download"}

(* A request works at one target and for one row. *)
AtHome(r) ==
    /\ pc[r] \in AcquireStages \ {"open"} => conn[r] = FirstTarget /\ record[r] = OwnRow(r)
    /\ \A t \in Target \ {FirstTarget} :
          files[<<t, r>>] = "absent" /\ jobs[<<t, r>>] = "none"

(* There is one copy job; once it has reported, nothing writes the file.    *)
OneCopy(r) ==
    /\ pc[r] \in BeforeCopy => copied[r] = "pending" /\ jobs[Own(r)] = "none"
    /\ copied[r] # "pending" => jobs[Own(r)] = "none"
    /\ copied[r] = "ok" => files[Own(r)] # "partial"
    /\ pc[r] \in {"stat", "download"} => copied[r] = "ok"

(* A snapshot is there only after a complete copy, and is kept only if the  *)
(* file and then the row were confirmed gone.                               *)
SnapshotKept(r) ==
    /\ pc[r] \in BeforeDownload => snap[r] = "absent"
    /\ snap[r] # "absent" => snap[r] = "full" /\ copied[r] = "ok"
    /\ pc[r] \in {"cDelete", "close", "done"} /\ snap[r] # "absent"
          => files[Own(r)] = "absent"
    /\ pc[r] \in {"close", "done"} /\ snap[r] # "absent" => OwnRow(r) \notin ledger
    /\ pc[r] = "done" => snap[r] # "absent"

PublishInv == Unedited /\ \A r \in Request : AtHome(r) /\ OneCopy(r) /\ SnapshotKept(r)

LEMMA PublishStep ==
  ASSUME edits' = 0, TypeOK, Equipped, PublishInv, [Next]_vars
  PROVE  PublishInv'
<1> USE ConstantsAssumption
<1>1. ~EditProfile
  BY DEF EditProfile, TypeOK
<1>2. Unedited'
  <2> USE DEF Unedited, PublishInv
  <2>1. ASSUME NEW r \in Request, Admit(r) PROVE Unedited'
    <3>1. record[r].target = FirstTarget
      <4>1. pc[r] = "admit"
        BY <2>1 DEF Admit, Step
      <4>2. record[r] = OwnRow(r)
        BY <4>1 DEF AtHome, AcquireStages
      <4> QED
        BY <4>2 DEF OwnRow
    <3> QED
      BY <2>1, <3>1 DEF Admit, settings
  <2>2. CASE UNCHANGED <<profile, startTarget>> /\ ledger' \subseteq ledger
    BY <2>2
  <2>3. CASE \E p \in Process : StartProcess(p)
    BY <2>3 DEF StartProcess, TypeOK
  <2> QED
    BY <1>1, <2>1, <2>2, <2>3
       DEF Next, vars, settings, Open, Recover, RecoverList, RecoverGuard, RecoverRefuse,
           RecoverFault, Reclaim, RemoveTemporary, ConfirmRemoved, ConfirmFails,
           DeleteRow, DeleteFails, Acquire, EarlyFault, AdmitFull, Readback, Create,
           StartCopy, CopyReturns, CopyFault, Stat, Download, ReadFault, CleanupOpen,
           CleanupFault, Close, Begin, Job, JobOpens, JobEnds, StopProcess, Crash
<1>3. ASSUME NEW q \in Request PROVE (AtHome(q) /\ OneCopy(q) /\ SnapshotKept(q))'
  <2>1. AtHome(q) /\ OneCopy(q) /\ SnapshotKept(q) /\ Unedited
    BY DEF PublishInv
  <2> USE DEF AtHome, OneCopy, SnapshotKept, Own, OwnRow, BeforeCopy, BeforeDownload,
              RecoveryStages, AcquireStages, CleanupStages, Goto, Step
  <2>2. CASE UNCHANGED vars
    BY <2>1, <2>2 DEF vars
  <2>3. ASSUME NEW a \in Actor, Recover(a)
        PROVE  (AtHome(q) /\ OneCopy(q) /\ SnapshotKept(q))'
    <3> USE DEF TypeOK, Actor, RequestStages, ProcessStages, settings, requestVars, remoteVars, localVars, gateVars, GatePassed, GateFailed
    <3>1. CASE RecoverList(a)
      BY <2>1, <3>1 DEF RecoverList, ListRecovery
    <3>2. CASE RecoverGuard(a)
      BY <2>1, <3>2 DEF RecoverGuard
    <3>3. CASE RecoverRefuse(a)
      BY <2>1, <3>3 DEF RecoverRefuse
    <3>4. CASE RecoverFault(a)
      BY <2>1, <3>4 DEF RecoverFault
    <3> QED
      BY <2>3, <3>1, <3>2, <3>3, <3>4 DEF Recover
  <2>4. ASSUME NEW a \in Actor, Reclaim(a)
        PROVE  (AtHome(q) /\ OneCopy(q) /\ SnapshotKept(q))'
    <3> USE DEF TypeOK, Actor, RequestStages, ProcessStages, settings, requestVars, remoteVars, localVars, gateVars, GatePassed, GateFailed,
               Advance, Abandon, Retract, Recovering
    <3>1. CASE RemoveTemporary(a)
      <4>1. \A f \in Path : files'[f] = files[f] \/ files'[f] = "absent"
        BY <3>1 DEF RemoveTemporary
      <4>2. UNCHANGED <<ledger, jobs, conn, record, copied, snap>>
        BY <3>1 DEF RemoveTemporary
      <4>3. pc' = [pc EXCEPT ![a] = IF pc[a] = "remove" THEN "confirm" ELSE "cConfirm"]
            /\ pc[a] \in {"remove", "cRemove"}
        BY <3>1 DEF RemoveTemporary
      <4> QED
        BY <2>1, <4>1, <4>2, <4>3 DEF Path
    <3>2. CASE ConfirmRemoved(a)
      BY <2>1, <3>2 DEF ConfirmRemoved, Gone, Temporary
    <3>3. CASE ConfirmFails(a)
      BY <2>1, <3>3 DEF ConfirmFails
    <3>4. CASE DeleteRow(a)
      BY <2>1, <3>4 DEF DeleteRow
    <3>5. CASE DeleteFails(a)
      BY <2>1, <3>5 DEF DeleteFails
    <3> QED
      BY <2>4, <3>1, <3>2, <3>3, <3>4, <3>5 DEF Reclaim
  <2>5. ASSUME NEW r \in Request, Acquire(r)
        PROVE  (AtHome(q) /\ OneCopy(q) /\ SnapshotKept(q))'
    <3> USE DEF TypeOK, Actor, RequestStages, ProcessStages, settings, requestVars, remoteVars, localVars, gateVars
    <3>1. CASE Open(r)
      BY <2>1, <3>1 DEF Open, Unedited
    <3>2. CASE EarlyFault(r)
      BY <2>1, <3>2 DEF EarlyFault
    <3>3. CASE Admit(r)
      <4>1. pc[r] = "admit" /\ record[r] = OwnRow(r)
        BY <3>3 DEF Admit, PublishInv
      <4>2. CASE q = r
        BY <2>1, <3>3, <4>1, <4>2 DEF Admit
      <4>3. CASE q # r
        <5>1. OwnRow(q) \in ledger' => OwnRow(q) \in ledger
          BY <3>3, <4>1, <4>3 DEF Admit
        <5> QED
          BY <2>1, <3>3, <4>3, <5>1 DEF Admit
      <4> QED
        BY <4>2, <4>3
    <3>4. CASE AdmitFull(r)
      BY <2>1, <3>4 DEF AdmitFull
    <3>5. CASE Readback(r)
      BY <2>1, <3>5 DEF Readback
    <3>6. CASE Create(r)
      BY <2>1, <3>6 DEF Create, Mine
    <3>7. CASE StartCopy(r)
      BY <2>1, <3>7 DEF StartCopy, Mine
    <3>8. CASE CopyReturns(r)
      BY <2>1, <3>8 DEF CopyReturns, AfterCopy
    <3>9. CASE CopyFault(r)
      BY <2>1, <3>9 DEF CopyFault, EndJobsOf, Path
    <3>10. CASE Stat(r)
      BY <2>1, <3>10 DEF Stat, Mine
    <3>11. CASE Download(r)
      <4>1. CASE q # r
        BY <2>1, <3>11, <4>1 DEF Download
      <4>2. CASE q = r
        <5>1. pc[q] = "download" /\ Mine(q) = Own(q) /\ files[Own(q)] \in {"absent", "full"}
          BY <2>1, <3>11, <4>2 DEF Download, Mine, Path, FileState
        <5>2. snap'[q] \in {"absent", "full"}
          BY <3>11, <4>2, <5>1 DEF Download
        <5> QED
          BY <2>1, <3>11, <4>2, <5>1, <5>2 DEF Download
      <4> QED
        BY <4>1, <4>2
    <3>12. CASE ReadFault(r)
      BY <2>1, <3>12 DEF ReadFault
    <3>13. CASE CleanupOpen(r)
      BY <2>1, <3>13 DEF CleanupOpen, Unedited
    <3>14. CASE CleanupFault(r)
      BY <2>1, <3>14 DEF CleanupFault, Abandon, Retract, Recovering
    <3>15. CASE Close(r)
      BY <2>1, <3>15 DEF Close
    <3> QED
      BY <2>5, <3>1, <3>2, <3>3, <3>4, <3>5, <3>6, <3>7, <3>8, <3>9, <3>10, <3>11, <3>12, <3>13, <3>14, <3>15 DEF Acquire
  <2>6. ASSUME NEW r \in Request, Begin(r)
        PROVE  (AtHome(q) /\ OneCopy(q) /\ SnapshotKept(q))'
    BY <2>1, <2>6 DEF Begin, TypeOK, Actor, RequestStages, ProcessStages, settings, requestVars, remoteVars, localVars, gateVars
  <2>7. ASSUME NEW f \in Path, Job(f)
        PROVE  (AtHome(q) /\ OneCopy(q) /\ SnapshotKept(q))'
    <3> USE DEF TypeOK, Actor, RequestStages, ProcessStages, settings, requestVars, remoteVars, localVars, gateVars, Path
    <3>1. CASE JobOpens(f)
      BY <2>1, <3>1 DEF JobOpens
    <3>2. CASE JobEnds(f)
      <4>1. PICK t \in Target, r \in Request : f = <<t, r>>
        OBVIOUS
      <4>2. f[2] = r
        BY <4>1
      <4>3. jobs[f] = "writing" /\ jobs' = [jobs EXCEPT ![f] = "none"]
            /\ UNCHANGED <<pc, conn, record, ledger, snap>>
        BY <3>2 DEF JobEnds
      <4>4. CASE q # r
        <5>1. copied'[q] = copied[q] /\ \A u \in Target : files'[<<u, q>>] = files[<<u, q>>]
          BY <3>2, <4>1, <4>2, <4>4 DEF JobEnds
        <5> QED
          BY <2>1, <4>1, <4>3, <4>4, <5>1
      <4>5. CASE q = r
        <5>1. t = FirstTarget /\ f = Own(q)
          BY <2>1, <4>1, <4>3, <4>5
        <5>2. copied[q] = "pending" /\ pc[q] \notin BeforeCopy /\ snap[q] = "absent"
              /\ pc[q] \notin {"stat", "download", "done"}
          BY <2>1, <4>3, <5>1
        <5>3. \A u \in Target \ {FirstTarget} : files'[<<u, q>>] = files[<<u, q>>]
          BY <3>2, <5>1 DEF JobEnds
        <5>4. copied'[q] = "ok" => files'[f] # "partial"
          <6>1. CASE copied' = [copied EXCEPT ![f[2]] = "failed"]
            BY <6>1, <4>2, <4>5
          <6>2. CASE files' = [files EXCEPT ![f] = IF @ = "absent" THEN "absent" ELSE "full"]
            BY <6>2
          <6> QED
            BY <3>2, <6>1, <6>2 DEF JobEnds
        <5> QED
          BY <2>1, <4>3, <5>1, <5>2, <5>3, <5>4
      <4> QED
        BY <4>4, <4>5
    <3> QED
      BY <2>7, <3>1, <3>2 DEF Job
  <2>8. ASSUME NEW p \in Process, StartProcess(p) \/ StopProcess(p) \/ Crash(p)
        PROVE  (AtHome(q) /\ OneCopy(q) /\ SnapshotKept(q))'
    <3> USE DEF TypeOK, Actor, RequestStages, ProcessStages, settings, requestVars, remoteVars, localVars, gateVars
    <3>1. CASE StartProcess(p)
      BY <2>1, <3>1 DEF StartProcess
    <3>2. CASE StopProcess(p)
      BY <2>1, <3>2 DEF StopProcess
    <3>3. CASE Crash(p)
      BY <2>1, <3>3 DEF Crash, EndJobsOf, InFlight, Active, Path
    <3> QED
      BY <2>8, <3>1, <3>2, <3>3
  <2> QED
    BY <1>1, <2>2, <2>3, <2>4, <2>5, <2>6, <2>7, <2>8 DEF Next
<1> QED
  BY <1>2, <1>3 DEF PublishInv

LEMMA PublishedFollows ==
  ASSUME TypeOK, PublishInv
  PROVE  PublishedClean
<1> SUFFICES ASSUME NEW r \in Request, pc[r] = "done"
             PROVE  /\ \A t \in Target : files[<<t, r>>] = "absent" /\ jobs[<<t, r>>] = "none"
                    /\ \A row \in ledger : row.token # r
  BY DEF PublishedClean
<1>1. snap[r] = "full" /\ copied[r] = "ok" /\ files[Own(r)] = "absent" /\ OwnRow(r) \notin ledger
  BY DEF PublishInv, SnapshotKept
<1>2. \A t \in Target : files[<<t, r>>] = "absent" /\ jobs[<<t, r>>] = "none"
  BY <1>1 DEF PublishInv, AtHome, OneCopy, Own
<1>3. ASSUME NEW row \in ledger, row.token = r PROVE FALSE
  <2>1. row.target = FirstTarget /\ row \in Row
    BY DEF PublishInv, Unedited, TypeOK
  <2>2. row = OwnRow(r)
    BY <1>3, <2>1 DEF Row, OwnRow
  <2> QED
    BY <1>1, <2>2
<1> QED
  BY <1>1, <1>2, <1>3

LEMMA PublishInit ==
  ASSUME Init
  PROVE  PublishInv
BY ConstantsAssumption
   DEF Init, PublishInv, Unedited, AtHome, OneCopy, SnapshotKept, Own, OwnRow, Path,
       Actor, BeforeCopy, BeforeDownload, RecoveryStages, AcquireStages, CleanupStages

LEMMA Publishing == Spec => [](edits = 0 => PublishInv)
<1>1. Init => (edits = 0 => PublishInv)
  BY PublishInit
<1>2. TypeOK /\ Equipped /\ (edits = 0 => PublishInv) /\ [Next]_vars => (edits = 0 => PublishInv)'
  BY PublishStep, BudgetsGrow
<1> QED
  BY <1>1, <1>2, TypeCorrect, PTL DEF Spec

(* While nobody edits the profile, a snapshot that is handed to the service *)
(* has left neither file nor job nor row behind (Acquire's deferred cleanup). *)
THEOREM PublicationIsClean == Spec => []PublishedClean
<1>1. TypeOK /\ (edits = 0 => PublishInv) => PublishedClean
  BY PublishedFollows DEF PublishedClean
<1> QED
  BY <1>1, Publishing, TypeCorrect, PTL

-----------------------------------------------------------------------------
(* What is published is a complete copy, even if the profile is edited: the *)
(* connection a request copies, looks and downloads over is one and the     *)
(* same, and the one copy job of the request has reported by then.          *)
Whole(r) ==
    /\ pc[r] \in BeforeCopy =>
          copied[r] = "pending" /\ \A t \in Target : jobs[<<t, r>>] = "none"
    /\ \A t \in Target : jobs[<<t, r>>] # "none" =>
          /\ copied[r] = "pending"
          /\ pc[r] = "copying" => t = conn[r]
          /\ \A u \in Target : jobs[<<u, r>>] # "none" => u = t
    /\ pc[r] = "copying" /\ copied[r] = "ok" => files[Mine(r)] # "partial"
    /\ pc[r] \in {"stat", "download"} => copied[r] = "ok" /\ files[Mine(r)] # "partial"
    /\ snap[r] # "partial"
    /\ pc[r] = "done" => snap[r] # "absent"

WholeInv == \A r \in Request : Whole(r)

LEMMA WholeStep ==
  ASSUME TypeOK, Equipped, WholeInv, [Next]_vars
  PROVE  WholeInv'
<1> USE ConstantsAssumption
<1>1. ASSUME NEW q \in Request PROVE Whole(q)'
  <2>1. Whole(q) /\ (pc[q] \in AcquireStages \ {"open"} => conn[q] \in Target)
    BY DEF WholeInv, Equipped
  <2> USE DEF Whole, BeforeCopy, Mine, Path,
              RecoveryStages, AcquireStages, CleanupStages, Goto, Step
  <2>2. CASE UNCHANGED vars
    BY <2>1, <2>2 DEF vars
  <2> USE DEF TypeOK, Actor, RequestStages, ProcessStages, settings, requestVars, remoteVars,
              localVars, gateVars, GatePassed, GateFailed
  <2>3. ASSUME NEW a \in Actor, Recover(a) PROVE Whole(q)'
    <3>1. CASE RecoverList(a)
      BY <2>1, <3>1 DEF RecoverList, ListRecovery
    <3>2. CASE RecoverGuard(a)
      BY <2>1, <3>2 DEF RecoverGuard
    <3>3. CASE RecoverRefuse(a)
      BY <2>1, <3>3 DEF RecoverRefuse
    <3>4. CASE RecoverFault(a)
      BY <2>1, <3>4 DEF RecoverFault
    <3> QED
      BY <2>3, <3>1, <3>2, <3>3, <3>4 DEF Recover
  <2>4. ASSUME NEW a \in Actor, Reclaim(a) PROVE Whole(q)'
    <3> USE DEF Advance, Abandon, Retract, Recovering
    <3>1. CASE RemoveTemporary(a)
      <4>1. \A f \in Path : files'[f] = files[f] \/ files'[f] = "absent"
        BY <3>1 DEF RemoveTemporary
      <4>2. UNCHANGED <<jobs, conn, copied, snap>>
        BY <3>1 DEF RemoveTemporary
      <4>3. pc' = [pc EXCEPT ![a] = IF pc[a] = "remove" THEN "confirm" ELSE "cConfirm"]
            /\ pc[a] \in {"remove", "cRemove"}
        BY <3>1 DEF RemoveTemporary
      <4> QED
        BY <2>1, <4>1, <4>2, <4>3
    <3>2. CASE ConfirmRemoved(a)
      BY <2>1, <3>2 DEF ConfirmRemoved
    <3>3. CASE ConfirmFails(a)
      BY <2>1, <3>3 DEF ConfirmFails
    <3>4. CASE DeleteRow(a)
      BY <2>1, <3>4 DEF DeleteRow
    <3>5. CASE DeleteFails(a)
      BY <2>1, <3>5 DEF DeleteFails
    <3> QED
      BY <2>4, <3>1, <3>2, <3>3, <3>4, <3>5 DEF Reclaim
  <2>5. ASSUME NEW r \in Request, Acquire(r) PROVE Whole(q)'
    <3>1. CASE Open(r)
      BY <2>1, <3>1 DEF Open
    <3>2. CASE EarlyFault(r)
      BY <2>1, <3>2 DEF EarlyFault
    <3>3. CASE Admit(r)
      BY <2>1, <3>3 DEF Admit
    <3>4. CASE AdmitFull(r)
      BY <2>1, <3>4 DEF AdmitFull
    <3>5. CASE Readback(r)
      BY <2>1, <3>5 DEF Readback
    <3>6. CASE Create(r)
      BY <2>1, <3>6 DEF Create
    <3>7. CASE StartCopy(r)
      BY <2>1, <3>7 DEF StartCopy
    <3>8. CASE CopyReturns(r)
      BY <2>1, <3>8 DEF CopyReturns, AfterCopy
    <3>9. CASE CopyFault(r)
      BY <2>1, <3>9 DEF CopyFault, EndJobsOf, Path
    <3>10. CASE Stat(r)
      BY <2>1, <3>10 DEF Stat
    <3>11. CASE Download(r)
      <4>1. pc[r] = "download" /\ pc' = [pc EXCEPT ![r] = "cOpen"]
            /\ UNCHANGED <<files, jobs, conn, copied>>
        BY <3>11 DEF Download
      <4>2. CASE q # r
        BY <2>1, <3>11, <4>1, <4>2 DEF Download
      <4>3. CASE q = r
        <5>1. files[Mine(q)] # "partial"
          BY <2>1, <4>1, <4>3
        <5>2. snap'[q] \in {files[Mine(q)], "absent"}
          BY <3>11, <4>3 DEF Download
        <5> QED
          BY <2>1, <4>1, <4>3, <5>1, <5>2
      <4> QED
        BY <4>2, <4>3
    <3>12. CASE ReadFault(r)
      BY <2>1, <3>12 DEF ReadFault
    <3>13. CASE CleanupOpen(r)
      BY <2>1, <3>13 DEF CleanupOpen
    <3>14. CASE CleanupFault(r)
      BY <2>1, <3>14 DEF CleanupFault, Abandon, Retract, Recovering
    <3>15. CASE Close(r)
      BY <2>1, <3>15 DEF Close
    <3> QED
      BY <2>5, <3>1, <3>2, <3>3, <3>4, <3>5, <3>6, <3>7, <3>8, <3>9, <3>10, <3>11, <3>12, <3>13, <3>14, <3>15 DEF Acquire
  <2>6. ASSUME NEW r \in Request, Begin(r) PROVE Whole(q)'
    BY <2>1, <2>6 DEF Begin
  <2>7. ASSUME NEW f \in Path, Job(f) PROVE Whole(q)'
    <3>1. CASE JobOpens(f)
      BY <2>1, <3>1 DEF JobOpens
    <3>2. CASE JobEnds(f)
      <4>1. PICK t \in Target, r \in Request : f = <<t, r>>
        OBVIOUS
      <4>2. jobs[f] = "writing" /\ jobs' = [jobs EXCEPT ![f] = "none"]
            /\ UNCHANGED <<pc, conn, snap>> /\ f[2] = r
        BY <3>2, <4>1 DEF JobEnds
      <4>3. CASE q # r
        <5>1. copied'[q] = copied[q] /\ \A u \in Target : files'[<<u, q>>] = files[<<u, q>>]
          BY <3>2, <4>1, <4>2, <4>3 DEF JobEnds
        <5> QED
          BY <2>1, <4>1, <4>2, <4>3, <5>1
      <4>4. CASE q = r
        <5>1. \A u \in Target : jobs'[<<u, q>>] = "none"
          BY <2>1, <4>1, <4>2, <4>4
        <5>2. copied[q] = "pending" /\ pc[q] \notin BeforeCopy
              /\ pc[q] \notin {"stat", "download"}
          BY <2>1, <4>1, <4>2, <4>4
        <5>3. copied'[q] = "ok" => files'[f] # "partial"
          <6>1. CASE copied' = [copied EXCEPT ![f[2]] = "failed"]
            BY <6>1, <4>2, <4>4
          <6>2. CASE files' = [files EXCEPT ![f] = IF @ = "absent" THEN "absent" ELSE "full"]
            <7>1. files[f] # "absent" => files'[f] = "full"
              BY <6>2
            <7> QED
              BY <6>2, <7>1
          <6> QED
            BY <3>2, <6>1, <6>2 DEF JobEnds
        <5>4. pc[q] = "copying" => f = Mine(q)
          BY <2>1, <4>1, <4>2, <4>4
        <5> QED
          BY <2>1, <4>2, <5>1, <5>2, <5>3, <5>4
      <4> QED
        BY <4>3, <4>4
    <3> QED
      BY <2>7, <3>1, <3>2 DEF Job
  <2>8. ASSUME NEW p \in Process, StartProcess(p) \/ StopProcess(p) \/ Crash(p)
        PROVE  Whole(q)'
    <3>1. CASE StartProcess(p)
      BY <2>1, <3>1 DEF StartProcess
    <3>2. CASE StopProcess(p)
      BY <2>1, <3>2 DEF StopProcess
    <3>3. CASE Crash(p)
      BY <2>1, <3>3 DEF Crash, EndJobsOf, InFlight, Active
    <3> QED
      BY <2>8, <3>1, <3>2, <3>3
  <2>9. CASE EditProfile
    BY <2>1, <2>9 DEF EditProfile
  <2> QED
    BY <2>2, <2>3, <2>4, <2>5, <2>6, <2>7, <2>8, <2>9 DEF Next
<1> QED
  BY <1>1 DEF WholeInv

(* Only complete copies are handed to the service, whatever is edited,      *)
(* overlaps, fails or crashes.                                              *)
THEOREM PublicationIsComplete == Spec => []PublishedComplete
<1>1. Init => WholeInv
  BY ConstantsAssumption DEF Init, WholeInv, Whole, BeforeCopy, RecoveryStages, Actor, Path
<1>2. TypeOK /\ Equipped /\ WholeInv /\ [Next]_vars => WholeInv'
  BY WholeStep
<1>3. TypeOK /\ WholeInv => PublishedComplete
  BY DEF TypeOK, FileState, WholeInv, Whole, PublishedComplete
<1> QED
  BY <1>1, <1>2, <1>3, TypeCorrect, PTL DEF Spec

(* What Acquire hands to the service is complete and, while nobody edits    *)
(* the profile, has left nothing behind.                                    *)
THEOREM PublicationIsSound == Spec => []PublishedIsSound
<1>1. PublishedClean /\ PublishedComplete => PublishedIsSound
  BY DEF PublishedIsSound
<1> QED
  BY <1>1, PublicationIsClean, PublicationIsComplete, PTL

-----------------------------------------------------------------------------
(* The ledger never holds more rows than recovery can list, whoever admits  *)
(* concurrently: the count and the insertion are one transaction.           *)
THEOREM LedgerStaysBounded == Spec => []LedgerBounded
<1> USE ConstantsAssumption
<1> DEFINE Inv == IsFiniteSet(ledger) /\ LedgerBounded
<1>1. Init => Inv
  BY FS_EmptySet DEF Init, LedgerBounded
<1>2. Inv /\ [Next]_vars => Inv'
  <2> SUFFICES ASSUME Inv, [Next]_vars PROVE Inv'
    OBVIOUS
  <2>1. ASSUME NEW r \in Request, Admit(r) PROVE Inv'
    <3>1. ledger' = ledger \cup {record[r]} /\ Cardinality(ledger) < MaxRows
      BY <2>1 DEF Admit, HasRoom
    <3>2. Cardinality(ledger) \in Nat
      BY FS_CardinalityType
    <3>3. IsFiniteSet(ledger') /\ Cardinality(ledger') <= Cardinality(ledger) + 1
      <4>1. /\ IsFiniteSet(ledger \cup {record[r]})
            /\ Cardinality(ledger \cup {record[r]}) =
                 IF record[r] \in ledger THEN Cardinality(ledger) ELSE Cardinality(ledger) + 1
        BY FS_AddElement
      <4> QED
        BY <3>1, <3>2, <4>1
    <3>4. Cardinality(ledger') \in Nat
      BY <3>3, FS_CardinalityType
    <3> QED
      BY <3>1, <3>2, <3>3, <3>4 DEF LedgerBounded
  <2>2. CASE ledger' \subseteq ledger
    <3>1. IsFiniteSet(ledger') /\ Cardinality(ledger') <= Cardinality(ledger)
      BY <2>2, FS_Subset
    <3> QED
      BY <3>1, FS_CardinalityType DEF LedgerBounded
  <2>3. (\E r \in Request : Admit(r)) \/ ledger' \subseteq ledger
    BY DEF Next, vars, settings, Open, Recover, RecoverList, RecoverGuard, RecoverRefuse,
           RecoverFault, Reclaim, RemoveTemporary, ConfirmRemoved, ConfirmFails,
           DeleteRow, DeleteFails, Acquire, EarlyFault, AdmitFull, Readback, Create,
           StartCopy, CopyReturns, CopyFault, Stat, Download, ReadFault, CleanupOpen,
           CleanupFault, Close, Begin, Job, JobOpens, JobEnds, StartProcess,
           StopProcess, Crash, EditProfile
  <2> QED
    BY <2>1, <2>2, <2>3
<1> QED
  BY <1>1, <1>2, PTL DEF Spec
-----------------------------------------------------------------------------
(* No acquisition and no start-up beside another, with copy jobs that end   *)
(* with their sessions: the case the recovery protocol is written for.      *)
(* Then nothing but the file's own acquisition can bring it into being      *)
(* while recovery or cleanup is between confirming it gone and deleting its *)
(* row, and nobody deletes the row of an acquisition that is under way.     *)

(* One worker at most: an acquisition, or a process in its start-up.        *)
AloneInv == \A a, b \in Actor : Working(a) /\ Working(b) => a = b

(* A job belongs to a request that waits for it, over the connection it has. *)
JobInv ==
    \A r \in Request :
        /\ pc[r] \in BeforeCopy => copied[r] = "pending"
        /\ \A t \in Target : jobs[<<t, r>>] # "none"
              => pc[r] = "copying" /\ copied[r] = "pending" /\ t = conn[r]

(* Recovery works on the target its row names, and deletes the row after    *)
(* the file.                                                                *)
RecoverInv ==
    \A a \in Actor :
        /\ pc[a] \in {"remove", "confirm", "delete"}
              => record[a] \in Row /\ conn[a] = record[a].target
        /\ pc[a] = "delete" => files[<<record[a].target, record[a].token>>] = "absent"

SerialInv == AloneInv /\ JobInv /\ RecoverInv

LEMMA AloneStep ==
  ASSUME overlaps' = 0, TypeOK, AloneInv, [Next]_vars
  PROVE  AloneInv'
<1> USE ConstantsAssumption
<1> USE DEF AloneInv, Working, Active, TypeOK, Actor, RequestStages, ProcessStages,
            RecoveryStages, AcquireStages, CleanupStages, Goto, Step
<1>1. ASSUME NEW a \in Actor, NEW st, Enter, pc' = [pc EXCEPT ![a] = st]
      PROVE  AloneInv'
  <2>1. \A b \in Actor : ~Working(b)
    <3>1. overlaps \in Nat
      OBVIOUS
    <3> QED
      BY <1>1, <3>1 DEF Enter
  <2>2. \A b \in Actor \ {a} : pc'[b] = pc[b]
    BY <1>1
  <2> QED
    BY <2>1, <2>2
<1>2. ASSUME NEW a \in Actor, NEW st, Working(a), pc' = [pc EXCEPT ![a] = st]
      PROVE  AloneInv'
  <2>1. \A b \in Actor \ {a} : pc'[b] = pc[b] /\ ~Working(b)
    BY <1>2
  <2> QED
    BY <2>1
<1>3. ASSUME NEW a \in Actor, Recover(a) \/ Reclaim(a) PROVE AloneInv'
  <2>1. \E st : pc' = [pc EXCEPT ![a] = st]
    BY <1>3 DEF Recover, RecoverList, RecoverGuard, RecoverRefuse, RecoverFault,
                Reclaim, RemoveTemporary, ConfirmRemoved, ConfirmFails, DeleteRow,
                DeleteFails, Advance, Abandon
  <2>2. pc[a] \in RecoveryStages \cup CleanupStages
    BY <1>3 DEF Recover, RecoverList, RecoverGuard, RecoverRefuse, RecoverFault,
                Reclaim, RemoveTemporary, ConfirmRemoved, ConfirmFails, DeleteRow,
                DeleteFails
  <2>3. PICK st : pc' = [pc EXCEPT ![a] = st]
    BY <2>1
  <2>4. a \in Process => pc[a] \in RecoveryStages
    BY <2>2, ConstantsAssumption
  <2>5. Working(a)
    BY <2>2, <2>4
  <2> QED
    BY <1>2, <2>3, <2>5
<1>4. ASSUME NEW r \in Request, Acquire(r) PROVE AloneInv'
  <2>1. (\E st : pc' = [pc EXCEPT ![r] = st]) /\ Active(r)
    BY <1>4 DEF Acquire, Open, EarlyFault, Admit, AdmitFull, Readback, Create, StartCopy,
                CopyReturns, CopyFault, Stat, Download, ReadFault, CleanupOpen,
                CleanupFault, Close, Abandon
  <2> QED
    BY <1>2, <2>1
<1>5. ASSUME NEW r \in Request, Begin(r) PROVE AloneInv'
  BY <1>1, <1>5 DEF Begin
<1>6. ASSUME NEW p \in Process, StartProcess(p) PROVE AloneInv'
  BY <1>1, <1>6 DEF StartProcess
<1>7. ASSUME NEW p \in Process, StopProcess(p) \/ Crash(p) PROVE AloneInv'
  <2>1. \A a \in Actor : pc'[a] = pc[a] \/ pc'[a] \in {"down", "failed"}
    BY <1>7 DEF StopProcess, Crash
  <2>2. \A a \in Process : pc'[a] = pc[a] \/ pc'[a] = "down"
    BY <1>7 DEF StopProcess, Crash, InFlight
  <2>3. \A a \in Request : pc'[a] = pc[a] \/ pc'[a] = "failed"
    BY <1>7 DEF StopProcess, Crash
  <2>4. \A a \in Actor : Working(a)' => Working(a)
    BY <2>2, <2>3
  <2> QED
    BY <2>4
<1>8. CASE UNCHANGED pc
  BY <1>8
<1> QED
  BY <1>3, <1>4, <1>5, <1>6, <1>7, <1>8 DEF Next, Job, JobOpens, JobEnds, EditProfile, vars

(* Whoever recovers, cleans up or deletes is the one that is active.        *)
LEMMA OneWorker ==
  ASSUME TypeOK, AloneInv, NEW a \in Actor, pc[a] \in RecoveryStages \cup CleanupStages,
         NEW r \in Request, Active(r)
  PROVE  a = r
BY ConstantsAssumption
   DEF AloneInv, Working, Active, Actor, RecoveryStages, CleanupStages, TypeOK, ProcessStages

LEMMA JobStep ==
  ASSUME ~JobSurvivesClose, TypeOK, JobInv, [Next]_vars
  PROVE  JobInv'
<1> USE ConstantsAssumption
<1> USE DEF JobInv, TypeOK, Path, Goto, Step, BeforeCopy, RecoveryStages
<1>1. ASSUME NEW r \in Request, StartCopy(r) PROVE JobInv'
  <2>1. pc[r] = "copy" /\ pc' = [pc EXCEPT ![r] = "copying"] /\ copied[r] = "pending"
        /\ jobs' = [jobs EXCEPT ![<<conn[r], r>>] = "queued"]
        /\ copied' = copied /\ conn' = conn
    BY <1>1 DEF StartCopy, Mine, localVars, gateVars, requestVars
  <2> QED
    BY <2>1 DEF Actor
<1>2. ASSUME NEW r \in Request, CopyFault(r) PROVE JobInv'
  <2>1. /\ pc' = [pc EXCEPT ![r] = "cOpen"]
        /\ jobs' = [f \in Path |-> IF f[2] = r THEN "none" ELSE jobs[f]]
        /\ copied' = copied /\ conn' = conn
    BY <1>2 DEF CopyFault, EndJobsOf, localVars, gateVars, requestVars
  <2> QED
    BY <2>1 DEF Actor
<1>3. ASSUME NEW p \in Process, Crash(p) PROVE JobInv'
  <2> DEFINE lost == {r \in InFlight : ProcessOf[r] = p}
  <2>1. /\ pc' = [a \in Actor |-> IF a = p THEN "down"
                                  ELSE IF a \in lost THEN "failed" ELSE pc[a]]
        /\ jobs' = [f \in Path |-> IF f[2] \in lost THEN "none" ELSE jobs[f]]
        /\ copied' = copied /\ conn' = conn
    BY <1>3 DEF Crash, EndJobsOf, localVars, gateVars, requestVars
  <2> QED
    BY <2>1 DEF Actor
<1>4. ASSUME NEW f \in Path, JobOpens(f) PROVE JobInv'
  BY <1>4 DEF JobOpens, localVars, gateVars, requestVars
<1>5. ASSUME NEW f \in Path, JobEnds(f) PROVE JobInv'
  <2>1. PICK t \in Target, r \in Request : f = <<t, r>>
    OBVIOUS
  <2>2. /\ jobs[<<t, r>>] # "none" /\ jobs' = [jobs EXCEPT ![<<t, r>>] = "none"]
        /\ \A q \in Request \ {r} : copied'[q] = copied[q]
        /\ UNCHANGED <<pc, conn>>
    BY <1>5, <2>1 DEF JobEnds, gateVars
  <2>3. pc[r] = "copying" /\ t = conn[r]
    BY <2>2
  <2> QED
    BY <2>2, <2>3
<1>6. ASSUME NEW r \in Request, CopyReturns(r) PROVE JobInv'
  <2>1. /\ copied[r] # "pending" /\ pc' = [pc EXCEPT ![r] = AfterCopy(r)]
        /\ AfterCopy(r) \in {"stat", "cOpen"}
        /\ UNCHANGED <<jobs, copied, conn>>
    BY <1>6 DEF CopyReturns, AfterCopy, remoteVars, localVars, gateVars, requestVars
  <2> QED
    BY <2>1 DEF Actor
<1>7. ASSUME NEW a \in Actor, jobs' = jobs, copied' = copied,
             pc[a] # "copying", NEW st, pc' = [pc EXCEPT ![a] = st],
             a \in Request /\ st \in BeforeCopy => pc[a] \in BeforeCopy,
             \A r \in Request \ {a} : conn'[r] = conn[r]
      PROVE  JobInv'
  <2>1. \A r \in Request : pc'[r] \in BeforeCopy => pc[r] \in BeforeCopy
    BY <1>7 DEF Actor
  <2>2. \A r \in Request : pc[r] = "copying" => pc'[r] = "copying" /\ conn'[r] = conn[r]
    BY <1>7 DEF Actor
  <2> QED
    BY <1>7, <2>1, <2>2
<1>8. ASSUME NEW a \in Actor, Recover(a) PROVE JobInv'
  <2>1. /\ jobs' = jobs /\ copied' = copied /\ pc[a] \in {"list", "guard"}
        /\ conn' = conn \/ conn' = [conn EXCEPT ![a] = profile]
        /\ \E st : pc' = [pc EXCEPT ![a] = st]
    BY <1>8 DEF Recover, RecoverList, RecoverGuard, RecoverRefuse, RecoverFault,
                remoteVars, localVars, gateVars, requestVars
  <2> QED
    BY <2>1, <1>7 DEF Actor
<1>9. ASSUME NEW a \in Actor, Reclaim(a) PROVE JobInv'
  <2>1. /\ jobs' = jobs /\ copied' = copied /\ conn' = conn
        /\ \E st : /\ pc' = [pc EXCEPT ![a] = st]
                   /\ pc[a] \in RecoveryStages \/ st \in {"cConfirm", "cDelete", "close"}
    BY <1>9 DEF Reclaim, RemoveTemporary, ConfirmRemoved, ConfirmFails, DeleteRow,
                DeleteFails, Advance, Abandon, Recovering, remoteVars, gateVars, requestVars
  <2>2. pc[a] \in RecoveryStages \cup CleanupStages
    BY <1>9 DEF Reclaim, RemoveTemporary, ConfirmRemoved, ConfirmFails, DeleteRow,
                DeleteFails, CleanupStages
  <2>3. pc[a] # "copying"
    BY <2>2 DEF CleanupStages
  <2> QED
    BY <2>1, <2>3, <1>7
<1>10. ASSUME NEW r \in Request, Begin(r) \/ Acquire(r), ~StartCopy(r), ~CopyFault(r),
             ~CopyReturns(r)
      PROVE  JobInv'
  <2>1. /\ jobs' = jobs /\ copied' = copied /\ pc[r] # "copying"
        /\ conn' = conn \/ conn' = [conn EXCEPT ![r] = profile]
    BY <1>10 DEF Begin, Acquire, Open, EarlyFault, Admit, AdmitFull, Readback, Create,
                Stat, Download, ReadFault, CleanupOpen, CleanupFault, Close, Abandon,
                remoteVars, localVars, gateVars, requestVars
  <2>2. PICK st : pc' = [pc EXCEPT ![r] = st]
    BY <1>10 DEF Begin, Acquire, Open, EarlyFault, Admit, AdmitFull, Readback, Create,
                Stat, Download, ReadFault, CleanupOpen, CleanupFault, Close, Abandon
  <2>3. CASE pc[r] \in BeforeCopy
    BY <2>1, <2>2, <2>3, <1>7 DEF Actor
  <2>4. CASE pc[r] \notin BeforeCopy
    <3>1. Stat(r) \/ Download(r) \/ ReadFault(r) \/ CleanupOpen(r) \/ CleanupFault(r) \/ Close(r)
      BY <1>10, <2>4 DEF Begin, Acquire, Open, EarlyFault, Admit, AdmitFull, Readback, Create
    <3>2. pc'[r] \notin BeforeCopy
      BY <3>1 DEF Stat, Download, ReadFault, CleanupOpen, CleanupFault, Close, Abandon,
                  Recovering, Actor
    <3> QED
      BY <2>1, <2>2, <3>2, <1>7 DEF Actor
  <2> QED
    BY <2>3, <2>4
<1>11. ASSUME NEW p \in Process, StartProcess(p) \/ StopProcess(p) PROVE JobInv'
  <2>1. /\ jobs' = jobs /\ copied' = copied /\ conn' = conn /\ pc[p] # "copying"
        /\ \E st : pc' = [pc EXCEPT ![p] = st]
    BY <1>11 DEF StartProcess, StopProcess, remoteVars, localVars, gateVars, requestVars
  <2> QED
    BY <2>1, <1>7 DEF Actor
<1>12. CASE EditProfile \/ UNCHANGED vars
  BY <1>12 DEF EditProfile, remoteVars, localVars, gateVars, requestVars, vars
<1> QED
  BY <1>1, <1>2, <1>3, <1>4, <1>5, <1>6, <1>8, <1>9, <1>10, <1>11, <1>12 DEF Next, Job

(* A file comes into being only through its own request, as it creates it   *)
(* or waits for the copy.                                                   *)
LEMMA FileStep ==
  ASSUME TypeOK, JobInv, [Next]_vars, NEW t \in Target, NEW q \in Request,
         files[<<t, q>>] = "absent", files'[<<t, q>>] # "absent"
  PROVE  pc[q] \in {"create", "copying"} /\ t = conn[q] /\ UNCHANGED <<ledger, record, conn>>
<1> USE ConstantsAssumption
<1> USE DEF TypeOK, Path
<1>1. ASSUME NEW r \in Request, Create(r)
      PROVE  pc[q] \in {"create", "copying"} /\ t = conn[q] /\ UNCHANGED <<ledger, record, conn>>
  BY <1>1 DEF Create, Mine, localVars, gateVars
<1>2. ASSUME NEW f \in Path, JobOpens(f)
      PROVE  pc[q] \in {"create", "copying"} /\ t = conn[q] /\ UNCHANGED <<ledger, record, conn>>
  <2>1. f = <<t, q>> /\ jobs[f] # "none"
    BY <1>2 DEF JobOpens
  <2> QED
    BY <1>2, <2>1 DEF JobInv, JobOpens, localVars, gateVars
<1>3. CASE UNCHANGED files
  BY <1>3
<1>4. ASSUME NEW a \in Actor, RemoveTemporary(a) PROVE FALSE
  BY <1>4 DEF RemoveTemporary
<1>5. ASSUME NEW f \in Path, JobEnds(f) PROVE FALSE
  <2>1. \/ files' = files
        \/ files' = [files EXCEPT ![f] = IF @ = "absent" THEN "absent" ELSE "full"]
    BY <1>5 DEF JobEnds
  <2> QED
    BY <2>1
<1> QED
  BY <1>1, <1>2, <1>3, <1>4, <1>5
     DEF Next, vars, remoteVars, Recover, RecoverList, RecoverGuard, RecoverRefuse,
         RecoverFault, Reclaim, ConfirmRemoved, ConfirmFails, DeleteRow, DeleteFails,
         Acquire, Open, EarlyFault, Admit, AdmitFull, Readback, StartCopy, CopyReturns,
         CopyFault, Stat, Download, ReadFault, CleanupOpen, CleanupFault, Close, Begin,
         Job, StartProcess, StopProcess, Crash, EditProfile

Targeted(a) == pc[a] \in {"remove", "confirm", "delete"}

LEMMA RecoverStep ==
  ASSUME TypeOK, AloneInv, JobInv, RecoverInv, [Next]_vars
  PROVE  RecoverInv'
<1> USE ConstantsAssumption
<1> SUFFICES ASSUME NEW a \in Actor, Targeted(a)'
             PROVE  /\ record'[a] \in Row /\ conn'[a] = record'[a].target
                    /\ pc'[a] = "delete"
                         => files'[<<record'[a].target, record'[a].token>>] = "absent"
  BY DEF RecoverInv, Targeted
<1> USE DEF Goto, Step
<1>1. CASE RecoverGuard(a)
  <2>1. PICK row \in todo[a] : /\ row.target = profile
                               /\ record' = [record EXCEPT ![a] = row]
                               /\ conn' = [conn EXCEPT ![a] = profile]
                               /\ pc' = [pc EXCEPT ![a] = "remove"]
    BY <1>1 DEF RecoverGuard, BoundTo
  <2> QED
    BY <2>1 DEF TypeOK
<1>2. CASE ~RecoverGuard(a)
  <2>1. /\ Targeted(a) /\ record'[a] = record[a] /\ conn'[a] = conn[a]
        /\ pc'[a] = "delete" => pc[a] = "delete" \/ ConfirmRemoved(a)
    <3> USE <1>2 DEF TypeOK, Targeted, remoteVars, settings, localVars, gateVars,
                     requestVars, Actor
    <3>1. ASSUME NEW b \in Actor, Recover(b)
          PROVE  /\ Targeted(a) /\ record'[a] = record[a] /\ conn'[a] = conn[a]
                 /\ pc'[a] = "delete" => pc[a] = "delete" \/ ConfirmRemoved(a)
      BY <3>1 DEF Recover, RecoverList, RecoverGuard, RecoverRefuse, RecoverFault,
                  GatePassed, GateFailed
    <3>2. ASSUME NEW b \in Actor, Reclaim(b)
          PROVE  /\ Targeted(a) /\ record'[a] = record[a] /\ conn'[a] = conn[a]
                 /\ pc'[a] = "delete" => pc[a] = "delete" \/ ConfirmRemoved(a)
      <4>1. record' = record /\ conn' = conn
        BY <3>2 DEF Reclaim, RemoveTemporary, ConfirmRemoved, ConfirmFails, DeleteRow,
                    DeleteFails
      <4>2. CASE b # a
        <5>1. pc'[a] = pc[a]
          BY <3>2, <4>2 DEF Reclaim, RemoveTemporary, ConfirmRemoved, ConfirmFails,
                     DeleteRow, DeleteFails, Advance, Abandon
        <5> QED
          BY <4>1, <5>1
      <4>3. CASE b = a
        BY <3>2, <4>1, <4>3
           DEF Reclaim, RemoveTemporary, ConfirmRemoved, ConfirmFails, DeleteRow,
               DeleteFails, Advance, Abandon, GatePassed, GateFailed, Recovering, RecoveryStages
      <4> QED
        BY <4>2, <4>3
    <3>3. ASSUME NEW r \in Request, Begin(r) \/ Acquire(r)
          PROVE  /\ Targeted(a) /\ record'[a] = record[a] /\ conn'[a] = conn[a]
                 /\ pc'[a] = "delete" => pc[a] = "delete"
      BY <3>3 DEF Begin, Acquire, Open, EarlyFault, Admit, AdmitFull, Readback, Create,
                  StartCopy, CopyReturns, AfterCopy, CopyFault, Stat, Download, ReadFault,
                  CleanupOpen, CleanupFault, Close, Abandon, Recovering, RecoveryStages
    <3>4. ASSUME NEW p \in Process, StartProcess(p) \/ StopProcess(p) \/ Crash(p)
          PROVE  /\ Targeted(a) /\ record'[a] = record[a] /\ conn'[a] = conn[a]
                 /\ pc'[a] = "delete" => pc[a] = "delete"
      BY <3>4 DEF StartProcess, StopProcess, Crash
    <3>5. CASE UNCHANGED <<pc, record, conn>>
      BY <3>5
    <3> QED
      BY <3>1, <3>2, <3>3, <3>4, <3>5
         DEF Next, Job, JobOpens, JobEnds, EditProfile, vars
  <2>2. record[a] \in Row /\ conn[a] = record[a].target
    BY <2>1 DEF RecoverInv, Targeted
  <2>3. record[a].target \in Target /\ record[a].token \in Request
    BY <2>2 DEF Row
  <2> DEFINE t == record[a].target
             q == record[a].token
  <2>4. ASSUME pc'[a] = "delete" PROVE files'[<<t, q>>] = "absent"
    <3>1. pc[a] \in RecoveryStages \cup CleanupStages /\ pc[a] \notin {"create", "copying"}
      BY <2>1 DEF Targeted, RecoveryStages
    <3>2. files[<<t, q>>] = "absent"
      <4>1. CASE pc[a] = "delete"
        BY <4>1 DEF RecoverInv
      <4>2. CASE ConfirmRemoved(a)
        BY <2>2, <4>2 DEF ConfirmRemoved, Gone, Temporary
      <4> QED
        BY <2>1, <2>4, <4>1, <4>2
    <3>3. pc[q] \notin {"create", "copying"}
      <4>1. Active(q) => a = q
        BY <2>3, <3>1, OneWorker
      <4> QED
        BY <3>1, <4>1 DEF Active
    <3> QED
      BY <2>3, <3>2, <3>3, FileStep
  <2> QED
    BY <2>1, <2>2, <2>4
<1> QED
  BY <1>1, <1>2

LEMMA SerialStep ==
  ASSUME ~JobSurvivesClose, overlaps' = 0, TypeOK, SerialInv, [Next]_vars
  PROVE  SerialInv'
BY AloneStep, JobStep, RecoverStep DEF SerialInv

LEMMA SerialInit ==
  ASSUME Init
  PROVE  SerialInv
BY ConstantsAssumption
   DEF Init, SerialInv, AloneInv, JobInv, RecoverInv, Working, Active, RecoveryStages, Actor, Path,
       BeforeCopy

LEMMA Serving ==
  ASSUME ~JobSurvivesClose
  PROVE  Spec => [](overlaps = 0 => SerialInv)
<1>1. Init => (overlaps = 0 => SerialInv)
  BY SerialInit
<1>2. TypeOK /\ (overlaps = 0 => SerialInv) /\ [Next]_vars => (overlaps = 0 => SerialInv)'
  BY SerialStep, BudgetsGrow
<1> QED
  BY <1>1, <1>2, TypeCorrect, PTL DEF Spec

(* While nothing overlaps, recovery deletes a row only when the file is     *)
(* gone from the target the row was admitted for, however often the profile *)
(* is edited (the digest comparison and removeConfirmed of                  *)
(* recoverOwnershipRecord).                                                 *)
THEOREM RecoveryLosesNothing ==
  ASSUME ~JobSurvivesClose
  PROVE  Spec => RecoveryDropsClean
<1>1. (overlaps = 0 => SerialInv) /\ [Next]_vars =>
        [\A a \in Actor :
           overlaps = 0 /\ pc[a] = "delete" /\ record[a] \in ledger \ ledger'
             => files[<<record[a].target, record[a].token>>] = "absent"]_vars
  BY DEF SerialInv, RecoverInv
<1> QED
  BY <1>1, Serving, PTL DEF Spec, RecoveryDropsClean

(* The rows that the steps of an acquisition rely on, and the order of file *)
(* and row in its cleanup.                                                  *)
RowHeld(r) ==
    /\ pc[r] \in {"create", "copy", "copying"} => OwnRow(r) \in ledger
    /\ files[Own(r)] # "absent" => OwnRow(r) \in ledger
    /\ pc[r] = "cDelete" => files[Own(r)] = "absent"

OwnInv == \A r \in Request : RowHeld(r)

(* A row that is deleted is the one of a file that is gone, and of no       *)
(* acquisition that relies on it.                                           *)
LEMMA DroppedRow ==
  ASSUME TypeOK, PublishInv, SerialInv, OwnInv,
         NEW a \in Actor, DeleteRow(a) \/ DeleteFails(a),
         NEW q \in Request, OwnRow(q) \in ledger \ ledger'
  PROVE  files[Own(q)] = "absent" /\ pc[q] \notin {"create", "copy", "copying"}
<1> USE ConstantsAssumption
<1>1. record[a] = OwnRow(q) /\ pc[a] \in {"delete", "cDelete"}
  BY DEF DeleteRow, DeleteFails
<1>2. pc[a] \in RecoveryStages \cup CleanupStages
  BY <1>1 DEF RecoveryStages, CleanupStages
<1>3. pc[q] \notin {"create", "copy", "copying"}
  <2>1. Active(q) => a = q
    BY <1>2, OneWorker DEF SerialInv
  <2> QED
    BY <1>1, <2>1 DEF Active
<1>4. CASE pc[a] = "delete"
  BY <1>1, <1>3, <1>4 DEF SerialInv, RecoverInv, OwnRow, Own
<1>5. CASE pc[a] = "cDelete"
  <2>1. a \in Request
    BY <1>5 DEF TypeOK, Actor, ProcessStages, RecoveryStages
  <2>2. record[a] = OwnRow(a)
    BY <1>5, <2>1 DEF PublishInv, AtHome, AcquireStages, CleanupStages
  <2>3. a = q
    BY <1>1, <2>2 DEF OwnRow
  <2> QED
    BY <1>3, <1>5, <2>1, <2>3 DEF OwnInv, RowHeld
<1> QED
  BY <1>1, <1>4, <1>5

LEMMA OwnStep ==
  ASSUME TypeOK, PublishInv, SerialInv, OwnInv, [Next]_vars
  PROVE  OwnInv'
<1> USE ConstantsAssumption
<1> USE DEF Goto, Step
<1> SUFFICES ASSUME NEW q \in Request PROVE RowHeld(q)'
  BY DEF OwnInv
<1>1. RowHeld(q) /\ AtHome(q)
  BY DEF OwnInv, PublishInv
<1>2. Own(q) = <<FirstTarget, q>> /\ FirstTarget \in Target
  BY DEF Own
<1>3. files'[Own(q)] # "absent" =>
        \/ files[Own(q)] # "absent"
        \/ pc[q] \in {"create", "copying"} /\ ledger' = ledger
  BY <1>2, FileStep DEF SerialInv
<1>4. OwnRow(q) \in ledger \ ledger' =>
        files[Own(q)] = "absent" /\ pc[q] \notin {"create", "copy", "copying"}
  <2>1. OwnRow(q) \in ledger \ ledger' => \E a \in Actor : DeleteRow(a) \/ DeleteFails(a)
    BY DEF Next, vars, settings, Open, Recover, RecoverList, RecoverGuard, RecoverRefuse,
           RecoverFault, Reclaim, RemoveTemporary, ConfirmRemoved, ConfirmFails,
           Acquire, EarlyFault, Admit, AdmitFull, Readback, Create,
           StartCopy, CopyReturns, CopyFault, Stat, Download, ReadFault, CleanupOpen,
           CleanupFault, Close, Begin, Job, JobOpens, JobEnds, StartProcess,
           StopProcess, Crash, EditProfile
  <2> QED
    BY <2>1, DroppedRow
<1>5. /\ pc'[q] = "create" => pc[q] = "create" \/ Readback(q)
      /\ pc'[q] \in {"copy", "copying"} => pc[q] \in {"create", "copy", "copying"}
      /\ pc'[q] = "cDelete" => pc[q] = "cDelete" \/ ConfirmRemoved(q)
  <2> USE DEF TypeOK, Actor
  <2>1. CASE pc'[q] = pc[q]
    BY <2>1
  <2>2. CASE Recover(q)
    BY <2>2 DEF Recover, RecoverList, RecoverGuard, RecoverRefuse, RecoverFault,
                GatePassed, GateFailed
  <2>3. CASE Reclaim(q)
    BY <2>3 DEF Reclaim, RemoveTemporary, ConfirmRemoved, ConfirmFails, DeleteRow,
                DeleteFails, Advance, Abandon, GatePassed, GateFailed
  <2>4. CASE Acquire(q) \/ Begin(q)
    BY <2>4 DEF Begin, Acquire, Open, EarlyFault, Admit, AdmitFull, Readback, Create,
                StartCopy, CopyReturns, AfterCopy, CopyFault, Stat, Download, ReadFault,
                CleanupOpen, CleanupFault, Close, Abandon, GateFailed
  <2>5. ASSUME NEW p \in Process, Crash(p), pc'[q] # pc[q] PROVE pc'[q] = "failed"
    BY <2>5 DEF Crash
  <2>6. ASSUME NEW a \in Actor, a # q, Recover(a) \/ Reclaim(a) PROVE pc'[q] = pc[q]
    BY <2>6 DEF Recover, RecoverList, RecoverGuard, RecoverRefuse, RecoverFault, Reclaim,
                RemoveTemporary, ConfirmRemoved, ConfirmFails, DeleteRow,
                DeleteFails, Advance, Abandon
  <2>7. ASSUME NEW a \in Request, a # q, Begin(a) \/ Acquire(a) PROVE pc'[q] = pc[q]
    BY <2>7 DEF Begin, Acquire, Open, EarlyFault, Admit, AdmitFull, Readback, Create,
                StartCopy, CopyReturns, CopyFault, Stat, Download, ReadFault,
                CleanupOpen, CleanupFault, Close, Abandon
  <2>8. ASSUME NEW p \in Process, StartProcess(p) \/ StopProcess(p) PROVE pc'[q] = pc[q]
    BY <2>8 DEF StartProcess, StopProcess
  <2> QED
    BY <2>1, <2>2, <2>3, <2>4, <2>5, <2>6, <2>7, <2>8
       DEF Next, Job, JobOpens, JobEnds, EditProfile, vars
<1>6. Readback(q) /\ pc'[q] = "create" => OwnRow(q) \in ledger /\ ledger' = ledger
  <2>1. ASSUME Readback(q), pc'[q] = "create" PROVE record[q] \in ledger /\ pc[q] = "readback"
    BY <2>1 DEF Readback, TypeOK, Actor
  <2> QED
    BY <1>1, <2>1 DEF AtHome, AcquireStages, Readback
<1>7. ConfirmRemoved(q) /\ pc'[q] = "cDelete"
        => files'[Own(q)] = "absent"
  <2>1. ASSUME ConfirmRemoved(q), pc'[q] = "cDelete" PROVE pc[q] = "cConfirm"
    BY <2>1 DEF ConfirmRemoved, Advance, Recovering, RecoveryStages, TypeOK, Actor
  <2> QED
    BY <1>1, <2>1 DEF ConfirmRemoved, Gone, Temporary, remoteVars, AtHome, AcquireStages,
                      CleanupStages, OwnRow, Own
<1>8. pc'[q] \in {"create", "copy", "copying"} => OwnRow(q) \in ledger'
  BY <1>1, <1>4, <1>5, <1>6 DEF RowHeld
<1>9. files'[Own(q)] # "absent" => OwnRow(q) \in ledger'
  BY <1>1, <1>3, <1>4 DEF RowHeld
<1>10. pc'[q] = "cDelete" => files'[Own(q)] = "absent"
  BY <1>1, <1>3, <1>5, <1>7 DEF RowHeld
<1> QED
  BY <1>8, <1>9, <1>10 DEF RowHeld, Own, OwnRow

(* While nothing overlaps and nobody edits the profile, every temporary     *)
(* file has a row, whatever fails and whenever a process dies: what it      *)
(* leaves can be found (Acquire admits before it creates; cleanup and       *)
(* recovery delete the row after the file).                                 *)
THEOREM EveryFileIsOwned ==
  ASSUME ~JobSurvivesClose
  PROVE  Spec => []OwnedFiles
<1> DEFINE Alone == edits = 0 /\ overlaps = 0
<1>1. Init => (Alone => OwnInv)
  BY ConstantsAssumption
     DEF Init, Own, Path, Actor, OwnInv, RowHeld
<1>2. /\ TypeOK /\ (edits = 0 => PublishInv) /\ (overlaps = 0 => SerialInv)
      /\ (Alone => OwnInv) /\ [Next]_vars
      => (Alone => OwnInv)'
  BY OwnStep, BudgetsGrow
<1>3. TypeOK /\ (edits = 0 => PublishInv) /\ (Alone => OwnInv) => OwnedFiles
  <2> SUFFICES ASSUME TypeOK, PublishInv, OwnInv, NEW f \in Path, files[f] # "absent"
               PROVE  [token |-> f[2], target |-> f[1]] \in ledger
    BY DEF OwnedFiles
  <2>1. PICK t \in Target, r \in Request : f = <<t, r>>
    BY DEF Path
  <2>2. t = FirstTarget
    BY <2>1 DEF PublishInv, AtHome
  <2> QED
    BY <2>1, <2>2 DEF OwnInv, RowHeld, Own, OwnRow
<1> QED
  BY <1>1, <1>2, <1>3, TypeCorrect, Publishing, Serving, PTL DEF Spec
=============================================================================
