------------------------- MODULE SourceAcquisition -------------------------
(***************************************************************************)
(* The life of a source snapshot's remote temporary file.                  *)
(*                                                                         *)
(* source.Acquirer.Acquire copies an IBM i source member to a temporary    *)
(* file in the user's IFS home, downloads it and removes it.  A row of the *)
(* durable ownership ledger is committed before the file exists and is     *)
(* deleted after the file is confirmed gone, so that a crash leaves        *)
(* something for source.RecoveryCoordinator to find.  Recovery runs at     *)
(* process start-up and as a gate in front of every acquisition.           *)
(*                                                                         *)
(* A Request is one call of Acquire.  Its random 128-bit token is used     *)
(* once and never again, so the request itself stands for its token and    *)
(* for the path made of it.  A Process is one `nexus serve`; all processes *)
(* of a user share one ledger.  A Target is what a profile points at: the  *)
(* host, port, user and pin that TargetDigest digests.                     *)
(*                                                                         *)
(* Ledger transactions are single steps here; their locks, retries and     *)
(* ambiguous commits are the subject of the ledger's own module.           *)
(***************************************************************************)
EXTENDS Naturals, FiniteSets

CONSTANTS
    Request,            \* acquisitions, each with its own token
    Process,            \* nexus serve processes that share the ledger
    ProcessOf,          \* the process that serves a request
    Target,             \* what a profile can point at
    NoTarget,           \* no connection is open
    NoRow,              \* no ownership record is being worked on
    FirstTarget,        \* what the profile points at initially
    MaxRows,            \* rows the ledger admits: 64 in the code
    MaxOverlaps,        \* bound: calls and start-ups that begin beside another
    MaxFaults,          \* bound: failed remote or ledger calls, cancellations
    MaxCrashes,         \* bound: process crashes
    MaxEdits,           \* bound: edits of the profile by nexus configure
    JobSurvivesClose    \* may a CPYTOSTMF job outlive its SSH session?

ASSUME ConstantsAssumption ==
    /\ Request \cap Process = {}
    /\ ProcessOf \in [Request -> Process]
    /\ FirstTarget \in Target
    /\ NoTarget \notin Target
    /\ NoRow \notin [token : Request, target : Target]
    /\ MaxRows \in Nat
    /\ MaxOverlaps \in Nat
    /\ MaxFaults \in Nat
    /\ MaxCrashes \in Nat
    /\ MaxEdits \in Nat
    /\ JobSurvivesClose \in BOOLEAN

Actor == Request \cup Process
Path  == Target \X Request
Row   == [token : Request, target : Target]

FileState == {"absent", "partial", "full"}

VARIABLES
    pc,           \* where an actor is in Acquire, in Recover, or in serve
    ledger,       \* the rows of the ownership table
    files,        \* the remote temporary files
    jobs,         \* the CPYTOSTMF job on a path: none, queued or writing
    profile,      \* the target the stored profile points at now
    startTarget,  \* per process, the target loaded at its start
    conn,         \* per actor, the target its connection leads to
    todo,         \* per actor, the rows that recovery still has to visit
    record,       \* per actor, the row it recovers, or admits and cleans up
    removeErr,    \* per actor, Remove failed other than by not-found
    copied,       \* per request, the outcome of its copy command
    seen,         \* per request, the file's state when Stat was answered
    snap,         \* per request, what was downloaded, or none
    faults, crashes, edits, overlaps

remoteVars == <<files, jobs>>
requestVars == <<copied, seen, snap>>
gateVars == <<conn, todo, record, removeErr>>
localVars == <<requestVars, gateVars>>
settings == <<profile, startTarget>>
budgets == <<faults, crashes, edits, overlaps>>
vars == <<pc, ledger, files, jobs, profile, startTarget, conn, todo,
          record, removeErr, copied, seen, snap, faults, crashes, edits, overlaps>>

RecoveryStages == {"list", "guard", "remove", "confirm", "delete"}
ProcessStages == RecoveryStages \cup {"down", "serving"}
CleanupStages == {"cOpen", "cRemove", "cConfirm", "cDelete"}
AcquireStages == {"open", "admit", "readback", "create", "copy", "copying",
                  "stat", "download", "close"} \cup CleanupStages
RequestStages == RecoveryStages \cup AcquireStages
                   \cup {"idle", "done", "failed"}

TypeOK ==
    /\ pc \in [Actor -> RequestStages \cup ProcessStages]
    /\ \A r \in Request : pc[r] \in RequestStages
    /\ \A p \in Process : pc[p] \in ProcessStages
    /\ ledger \subseteq Row
    /\ files \in [Path -> FileState]
    /\ jobs \in [Path -> {"none", "queued", "writing"}]
    /\ profile \in Target
    /\ startTarget \in [Process -> Target]
    /\ conn \in [Actor -> Target \cup {NoTarget}]
    /\ todo \in [Actor -> SUBSET Row]
    /\ record \in [Actor -> Row \cup {NoRow}]
    /\ removeErr \in [Actor -> BOOLEAN]
    /\ copied \in [Request -> {"pending", "ok", "failed"}]
    /\ seen \in [Request -> FileState]
    /\ snap \in [Request -> FileState]
    /\ faults \in 0..MaxFaults
    /\ crashes \in 0..MaxCrashes
    /\ edits \in 0..MaxEdits
    /\ overlaps \in 0..MaxOverlaps

Init ==
    /\ pc = [a \in Actor |-> IF a \in Process THEN "down" ELSE "idle"]
    /\ ledger = {}
    /\ files = [f \in Path |-> "absent"]
    /\ jobs = [f \in Path |-> "none"]
    /\ profile = FirstTarget
    /\ startTarget = [p \in Process |-> FirstTarget]
    /\ conn = [a \in Actor |-> NoTarget]
    /\ todo = [a \in Actor |-> {}]
    /\ record = [a \in Actor |-> NoRow]
    /\ removeErr = [a \in Actor |-> FALSE]
    /\ copied = [r \in Request |-> "pending"]
    /\ seen = [r \in Request |-> "absent"]
    /\ snap = [r \in Request |-> "absent"]
    /\ faults = 0 /\ crashes = 0 /\ edits = 0 /\ overlaps = 0

-----------------------------------------------------------------------------
(* Control. *)

Active(r) == pc[r] \notin {"idle", "done", "failed"}
InFlight == {r \in Request : Active(r)}

Goto(a, stage) == pc' = [pc EXCEPT ![a] = stage]
Step(a, from, to) == pc[a] = from /\ Goto(a, to)

(* A call fails: by the network, by the ledger, by a cancelled context.  *)
Fault ==
    /\ faults < MaxFaults
    /\ faults' = faults + 1
    /\ UNCHANGED <<crashes, edits, overlaps>>
NoFault == UNCHANGED budgets

(* Every acquisition recovers before it starts, and so does a process. One  *)
(* that begins while another is at work may meet the other's rows.          *)
Working(a) == IF a \in Process THEN pc[a] \in RecoveryStages ELSE Active(a)

Enter ==
    \/ (\A a \in Actor : ~Working(a)) /\ NoFault
    \/ /\ \E a \in Actor : Working(a)
       /\ overlaps < MaxOverlaps
       /\ overlaps' = overlaps + 1
       /\ UNCHANGED <<faults, crashes, edits>>

-----------------------------------------------------------------------------
(* RecoveryCoordinator.Recover, for a starting process or a request's gate. *)

GatePassed(a) == IF a \in Process THEN "serving" ELSE "open"
GateFailed(a) == IF a \in Process THEN "down" ELSE "failed"

(* Mutant: recovery finds no rows to recover. *)
ListNothing == {}
ListRecovery == ledger

RecoverList(a) ==
    /\ Cardinality(ledger) <= MaxRows
    /\ todo' = [todo EXCEPT ![a] = ListRecovery]
    /\ Step(a, "list", IF ListRecovery = {} THEN GatePassed(a) ELSE "guard")
    /\ NoFault
    /\ UNCHANGED <<ledger, remoteVars, settings, conn, record, removeErr,
                   requestVars>>

(* Mutant: the digest is not compared. *)
AnyTarget(row) == TRUE
(* The row's target must be the one the stored profile has now.             *)
BoundTo(row) == row.target = profile

(* Rows are visited one after another, each over a connection opened with   *)
(* the profile its target was compared with.                                *)
RecoverGuard(a) ==
    \E row \in todo[a] :
        /\ BoundTo(row)
        /\ Step(a, "guard", "remove")
        /\ record' = [record EXCEPT ![a] = row]
        /\ conn' = [conn EXCEPT ![a] = profile]
        /\ NoFault
        /\ UNCHANGED <<ledger, remoteVars, settings, todo, removeErr,
                       requestVars>>

(* A row bound to another target stops recovery, and with it the start-up   *)
(* or the acquisition, for as long as the profile stays as it is.           *)
RecoverRefuse(a) ==
    /\ \E row \in todo[a] : ~BoundTo(row)
    /\ Step(a, "guard", GateFailed(a))
    /\ NoFault
    /\ UNCHANGED <<ledger, remoteVars, settings, localVars>>

RecoverFault(a) ==
    /\ pc[a] \in {"list", "guard"}
    /\ Goto(a, GateFailed(a))
    /\ Fault
    /\ UNCHANGED <<ledger, remoteVars, settings, localVars>>

-----------------------------------------------------------------------------
(* removeConfirmed and the ledger's Delete, shared by recovery and cleanup. *)

Temporary(a) == <<conn[a], record[a].token>>
Recovering(a) == pc[a] \in RecoveryStages

(* Mutant: an error of the cleanup does not take the snapshot back. *)
KeepSnapshot(a) == snap
Retract(a) == [r \in Request |-> IF r = a THEN "absent" ELSE snap[r]]

(* An error while a row is recovered ends the gate; one during cleanup      *)
(* takes the snapshot back and leaves the row for a later recovery.         *)
Abandon(a) ==
    /\ Goto(a, IF Recovering(a) THEN GateFailed(a) ELSE "close")
    /\ snap' = Retract(a)
    /\ UNCHANGED <<copied, seen>>

Advance(a, recovery, cleanup) ==
    /\ Goto(a, IF Recovering(a) THEN recovery ELSE cleanup)
    /\ UNCHANGED requestVars

(* Remove succeeds, finds nothing, or fails with or without its effect.     *)
RemoveTemporary(a) ==
    /\ pc[a] \in {"remove", "cRemove"}
    /\ Advance(a, "confirm", "cConfirm")
    /\ \/ /\ files' = [files EXCEPT ![Temporary(a)] = "absent"]
          /\ removeErr' = [removeErr EXCEPT ![a] = FALSE]
          /\ NoFault
       \/ /\ files' \in {files, [files EXCEPT ![Temporary(a)] = "absent"]}
          /\ removeErr' = [removeErr EXCEPT ![a] = TRUE]
          /\ Fault
    /\ UNCHANGED <<ledger, jobs, settings, conn, todo, record>>

(* Mutant: whatever Remove and Stat answered, the file counts as gone. *)
AssumedGone(a) == TRUE
(* Only a Remove that worked and a Stat that finds nothing confirm.         *)
Gone(a) == files[Temporary(a)] = "absent" /\ ~removeErr[a]

ConfirmRemoved(a) ==
    /\ pc[a] \in {"confirm", "cConfirm"}
    /\ Gone(a)
    /\ Advance(a, "delete", "cDelete")
    /\ NoFault
    /\ UNCHANGED <<ledger, remoteVars, settings, gateVars>>

ConfirmFails(a) ==
    /\ pc[a] \in {"confirm", "cConfirm"}
    /\ \/ ~Gone(a) /\ NoFault
       \/ Fault
    /\ Abandon(a)
    /\ UNCHANGED <<ledger, remoteVars, settings, gateVars>>

DeleteRow(a) ==
    /\ pc[a] \in {"delete", "cDelete"}
    /\ record[a] \in ledger
    /\ ledger' = ledger \ {record[a]}
    /\ todo' = [todo EXCEPT ![a] = @ \ {record[a]}]
    /\ Advance(a, IF todo[a] = {record[a]} THEN GatePassed(a) ELSE "guard",
               "close")
    /\ NoFault
    /\ UNCHANGED <<remoteVars, settings, conn, record, removeErr>>

(* Somebody else deleted the row, or the ledger failed; a failed COMMIT may *)
(* be durable.                                                              *)
DeleteFails(a) ==
    /\ pc[a] \in {"delete", "cDelete"}
    /\ \/ record[a] \notin ledger /\ ledger' = ledger /\ NoFault
       \/ ledger' \in {ledger, ledger \ {record[a]}} /\ Fault
    /\ Abandon(a)
    /\ UNCHANGED <<remoteVars, settings, gateVars>>

-----------------------------------------------------------------------------
(* Acquirer.Acquire after its gate. *)

Begin(r) ==
    /\ pc[ProcessOf[r]] = "serving"
    /\ Step(r, "idle", "list")
    /\ Enter
    /\ UNCHANGED <<ledger, remoteVars, settings, localVars>>

(* Every failure before the ownership of the file is settled: return, after *)
(* closing the connection if there is one.                                  *)
EarlyFault(r) ==
    /\ pc[r] \in {"open", "admit", "readback", "create"}
    /\ Goto(r, IF pc[r] = "open" THEN "failed" ELSE "close")
    /\ Fault
    /\ UNCHANGED <<ledger, remoteVars, settings, localVars>>

(* A fresh profile is loaded, the connection opened, the private directory  *)
(* prepared, the token drawn.  The record carries the digest of the profile *)
(* the process loaded when it started.                                      *)
Open(r) ==
    /\ Step(r, "open", "admit")
    /\ conn' = [conn EXCEPT ![r] = profile]
    /\ record' = [record EXCEPT ![r] =
                    [token |-> r, target |-> startTarget[ProcessOf[r]]]]
    /\ NoFault
    /\ UNCHANGED <<ledger, remoteVars, settings, todo, removeErr, requestVars>>

HasRoom == Cardinality(ledger) < MaxRows

Admit(r) ==
    /\ HasRoom
    /\ ledger' = ledger \cup {record[r]}
    /\ \/ Step(r, "admit", "readback") /\ NoFault
       \/ Step(r, "admit", "close") /\ Fault   \* committed, readback failed
    /\ UNCHANGED <<remoteVars, settings, localVars>>

AdmitFull(r) ==
    /\ ~HasRoom
    /\ Step(r, "admit", "close")
    /\ NoFault
    /\ UNCHANGED <<ledger, remoteVars, settings, localVars>>

Readback(r) ==
    /\ Step(r, "readback", IF record[r] \in ledger THEN "create" ELSE "close")
    /\ NoFault
    /\ UNCHANGED <<ledger, remoteVars, settings, localVars>>

Mine(r) == <<conn[r], r>>

(* CreateExclusive and the Lstat of its result.                             *)
Create(r) ==
    /\ pc[r] = "create"
    /\ files[Mine(r)] = "absent"
    /\ files' = [files EXCEPT ![Mine(r)] = "partial"]
    /\ \/ Goto(r, "copy") /\ NoFault
       \/ Goto(r, "close") /\ Fault  \* created, but not confirmed
    /\ UNCHANGED <<ledger, jobs, settings, localVars>>

(* From here on the deferred cleanup runs whatever happens. *)

StartCopy(r) ==
    /\ Step(r, "copy", "copying")
    /\ jobs' = [jobs EXCEPT ![Mine(r)] = "queued"]
    /\ NoFault
    /\ UNCHANGED <<ledger, files, settings, localVars>>

(* The job opens the path, creating it if need be, and empties it.          *)
JobOpens(f) ==
    /\ jobs[f] = "queued"
    /\ jobs' = [jobs EXCEPT ![f] = "writing"]
    /\ files' = [files EXCEPT ![f] = "partial"]
    /\ NoFault
    /\ UNCHANGED <<pc, ledger, settings, localVars>>

(* The job ends.  A file unlinked in the meantime does not come back.       *)
JobEnds(f) ==
    /\ jobs[f] = "writing"
    /\ jobs' = [jobs EXCEPT ![f] = "none"]
    /\ \/ /\ files' = [files EXCEPT ![f] =
                         IF @ = "absent" THEN "absent" ELSE "full"]
          /\ copied' = [copied EXCEPT ![f[2]] = "ok"]
          /\ NoFault
       \/ /\ files' = files
          /\ copied' = [copied EXCEPT ![f[2]] = "failed"]
          /\ Fault
    /\ UNCHANGED <<pc, ledger, settings, gateVars, seen, snap>>

(* Mutant: the exit status of the copy command is not looked at. *)
AfterAnyCopy(r) == "stat"
AfterCopy(r) == IF copied[r] = "ok" THEN "stat" ELSE "cOpen"

CopyReturns(r) ==
    /\ copied[r] # "pending"
    /\ Step(r, "copying", AfterCopy(r))
    /\ NoFault
    /\ UNCHANGED <<ledger, remoteVars, settings, localVars>>

(* Closing a session ends its command on the host, or does not.             *)
EndJobsOf(rs) ==
    jobs' = [f \in Path |-> IF f[2] \in rs /\ ~JobSurvivesClose
                            THEN "none" ELSE jobs[f]]

(* The copy is refused, the request is cancelled, the connection is lost.   *)
CopyFault(r) ==
    /\ pc[r] \in {"copy", "copying"}
    /\ Goto(r, "cOpen")
    /\ EndJobsOf({r})
    /\ Fault
    /\ UNCHANGED <<ledger, files, settings, localVars>>

Stat(r) ==
    /\ pc[r] = "stat"
    /\ seen' = [seen EXCEPT ![r] = files[Mine(r)]]
    /\ Goto(r, IF files[Mine(r)] = "absent" THEN "cOpen" ELSE "download")
    /\ NoFault
    /\ UNCHANGED <<ledger, remoteVars, settings, gateVars, copied, snap>>

(* The length of the download must be the one Stat answered.                *)
Download(r) ==
    /\ pc[r] = "download"
    /\ snap' = [snap EXCEPT ![r] =
                  IF files[Mine(r)] = seen[r] THEN seen[r] ELSE "absent"]
    /\ Goto(r, "cOpen")
    /\ NoFault
    /\ UNCHANGED <<ledger, remoteVars, settings, gateVars, copied, seen>>

(* Too large, not regular, unreadable, not UTF-8, cancelled.                *)
ReadFault(r) ==
    /\ pc[r] \in {"stat", "download"}
    /\ Goto(r, "cOpen")
    /\ Fault
    /\ UNCHANGED <<ledger, remoteVars, settings, localVars>>

(* Cleanup connects anew, again with the profile as it is then.             *)
CleanupOpen(r) ==
    /\ Step(r, "cOpen", "cRemove")
    /\ conn' = [conn EXCEPT ![r] = profile]
    /\ NoFault
    /\ UNCHANGED <<ledger, remoteVars, settings, todo, record, removeErr,
                   requestVars>>

CleanupFault(r) ==
    /\ pc[r] = "cOpen"
    /\ Abandon(r)
    /\ Fault
    /\ UNCHANGED <<ledger, remoteVars, settings, gateVars>>

(* The acquisition's own connection is closed last; an error of Close takes *)
(* the snapshot back.  "done" is a published snapshot.                      *)
Close(r) ==
    /\ \/ /\ Step(r, "close", IF snap[r] = "absent" THEN "failed" ELSE "done")
          /\ NoFault
       \/ Step(r, "close", "failed") /\ Fault
    /\ UNCHANGED <<ledger, remoteVars, settings, localVars>>

-----------------------------------------------------------------------------
(* Processes, crashes and the operator. *)

StartProcess(p) ==
    /\ Step(p, "down", "list")
    /\ startTarget' = [startTarget EXCEPT ![p] = profile]
    /\ Enter
    /\ UNCHANGED <<ledger, remoteVars, profile, localVars>>

(* Shutdown waits for the handlers that are running.                        *)
StopProcess(p) ==
    /\ \A r \in InFlight : ProcessOf[r] # p
    /\ Step(p, "serving", "down")
    /\ NoFault
    /\ UNCHANGED <<ledger, remoteVars, settings, localVars>>

Crash(p) ==
    LET lost == {r \in InFlight : ProcessOf[r] = p}
    IN  /\ pc[p] # "down"
        /\ crashes < MaxCrashes
        /\ crashes' = crashes + 1
        /\ pc' = [a \in Actor |-> IF a = p THEN "down"
                                  ELSE IF a \in lost THEN "failed" ELSE pc[a]]
        /\ EndJobsOf(lost)
        /\ UNCHANGED <<ledger, files, settings, localVars, faults, edits, overlaps>>

EditProfile ==
    /\ edits < MaxEdits
    /\ edits' = edits + 1
    /\ profile' \in Target \ {profile}
    /\ UNCHANGED <<pc, ledger, remoteVars, startTarget, localVars,
                   faults, crashes, overlaps>>

-----------------------------------------------------------------------------

Recover(a) ==
    \/ RecoverList(a) \/ RecoverGuard(a) \/ RecoverRefuse(a) \/ RecoverFault(a)

Reclaim(a) ==
    \/ RemoveTemporary(a)
    \/ ConfirmRemoved(a) \/ ConfirmFails(a)
    \/ DeleteRow(a) \/ DeleteFails(a)

Acquire(r) ==
    \/ Open(r) \/ EarlyFault(r)
    \/ Admit(r) \/ AdmitFull(r) \/ Readback(r) \/ Create(r)
    \/ StartCopy(r) \/ CopyReturns(r) \/ CopyFault(r)
    \/ Stat(r) \/ Download(r) \/ ReadFault(r)
    \/ CleanupOpen(r) \/ CleanupFault(r) \/ Close(r)

Job(f) == JobOpens(f) \/ JobEnds(f)

Next ==
    \/ \E a \in Actor : Recover(a) \/ Reclaim(a)
    \/ \E r \in Request : Begin(r) \/ Acquire(r)
    \/ \E f \in Path : Job(f)
    \/ \E p \in Process : StartProcess(p) \/ StopProcess(p) \/ Crash(p)
    \/ EditProfile

Spec == Init /\ [][Next]_vars

(* What has begun goes on; jobs end; sessions end and new ones begin.       *)
Fairness ==
    /\ \A a \in Actor : WF_vars(Recover(a) \/ Reclaim(a))
    /\ \A r \in Request : WF_vars(Acquire(r))
    /\ \A f \in Path : WF_vars(Job(f))
    /\ \A p \in Process : WF_vars(StartProcess(p)) /\ WF_vars(StopProcess(p))

FairSpec == Spec /\ Fairness

-----------------------------------------------------------------------------
(* Properties. *)

(* No remote temporary file without a ledger row bound to the target it is  *)
(* on: what makes every crash recoverable (Acquire admits before it         *)
(* creates, Recover and cleanup delete the row after the file).  Like the   *)
(* next one it is about a profile nobody edits while Nexus runs, and it     *)
(* says nothing of calls that overlap: one may recover another's row.       *)
OwnedFiles == edits = 0 /\ overlaps = 0 =>
    \A f \in Path : files[f] # "absent" => [token |-> f[2], target |-> f[1]] \in ledger

(* A published snapshot has left nothing behind: no file on any target, no  *)
(* job that may still write one, no row (the deferred cleanup of Acquire).  *)
PublishedClean == edits = 0 =>
    \A r \in Request : pc[r] = "done" =>
        /\ \A t \in Target : files[<<t, r>>] = "absent" /\ jobs[<<t, r>>] = "none"
        /\ \A row \in ledger : row.token # r

(* Only a complete copy is ever published: a concurrent removal or a        *)
(* truncated job shows as an error of Acquire, not as a short snapshot.     *)
PublishedComplete ==
    \A r \in Request : pc[r] = "done" => snap[r] = "full"

(* A snapshot that Acquire returns is complete and left nothing behind.     *)
PublishedIsSound == PublishedClean /\ PublishedComplete

(* The ledger stays within the bound that recovery can list.                *)
LedgerBounded == Cardinality(ledger) <= MaxRows

(* Recovery, unlike cleanup, cannot be misled by a profile edited while     *)
(* Nexus runs: alone, it drops a row only when the file is gone from the    *)
(* target the row was admitted for (the digest comparison of                *)
(* recoverOwnershipRecord).                                                 *)
RecoveryDropsClean ==
    [][\A a \in Actor :
         overlaps = 0 /\ pc[a] = "delete" /\ record[a] \in ledger \ ledger'
           => files[<<record[a].target, record[a].token>>] = "absent"]_vars

(* When failures stop, sessions come and go, and clients stop asking, every *)
(* temporary file and every row is eventually gone, for good.               *)
EventuallyClean == [](edits = 0 /\ overlaps = 0) =>
    <>[](ledger = {} /\ \A f \in Path : files[f] = "absent")
=============================================================================
