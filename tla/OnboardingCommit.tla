--------------------------- MODULE OnboardingCommit ---------------------------
(***************************************************************************)
(* profile.OnboardingCommit with the callbacks that nexus configure gives  *)
(* it, for one profile name: password, profile file, eligibility record    *)
(* and committed audit are written one after the other under the           *)
(* prepared-create lock, and taken back in reverse when a step fails.      *)
(*                                                                         *)
(* A call is one run of the transaction in a nexus configure process; a    *)
(* durable value is named by the call that wrote it.  Every callback may   *)
(* fail, before or after its effect where the code makes both possible,    *)
(* and the process may die between any two.  All calls describe the same   *)
(* identity (the onboarding service refuses another), so that an           *)
(* eligibility always matches the profile.  Every supported platform has a *)
(* keyring, and the pin is part of the profile: its callbacks do nothing.  *)
(***************************************************************************)
EXTENDS Naturals

CONSTANTS
    Call,
    Nobody,            \* the writer of what is not there
    MaxFaults,         \* bound: callbacks that fail
    MaxCrashes,        \* bound: processes killed
    MaxDeletes         \* bound: deletions of the profile by the operator

ASSUME CommitAssumption ==
    /\ Nobody \notin Call
    /\ MaxFaults \in Nat /\ MaxCrashes \in Nat /\ MaxDeletes \in Nat

Writer == Call \cup {Nobody}

VARIABLES
    locked,        \* the lock file is there
    journal,       \* the prepared-create journal is there
    live, backup,  \* the profile file and its backup
    credential,    \* the password in the keyring
    eligibility,
    audited,       \* the calls whose identity_pin_committed is on disk
    pc,            \* per call
    existing,      \* per call, Prepare found a profile
    prior,         \* per call, the eligibility it revoked
    flawed,        \* per call, a compensation failed
    result,        \* per call
    cancelled,     \* the calls whose context is cancelled
    latest,        \* history: the last call past Prepare
    faults, crashes, deletes

durable == <<journal, live, backup, credential, eligibility, audited>>
local == <<existing, prior, flawed, result>>
budget == <<faults, crashes, deletes>>
vars == <<locked, durable, pc, local, cancelled, latest, budget>>

Forward == {"prepare", "revoke", "keyring", "profile", "publish", "eligibility",
            "audit", "clear"}
Backward == {"undoEligibility", "undoProfile", "undoKeyring", "restore", "undoClear"}
Holding == Forward \cup Backward \cup {"unlock"}
Ended == {"done", "dead"}

TypeOK ==
    /\ locked \in BOOLEAN /\ journal \in BOOLEAN
    /\ {live, backup, credential, eligibility, latest} \subseteq Writer
    /\ audited \subseteq Call
    /\ pc \in [Call -> {"idle", "waiting"} \cup Holding \cup Ended]
    /\ existing \in [Call -> BOOLEAN] /\ flawed \in [Call -> BOOLEAN]
    /\ prior \in [Call -> Writer]
    /\ result \in [Call -> {"none", "refused", "saved", "failed", "cleanup"}]
    /\ \A c \in Call : pc[c] = "done" => result[c] # "none"
    /\ cancelled \subseteq Call
    /\ faults \in 0..MaxFaults /\ crashes \in 0..MaxCrashes /\ deletes \in 0..MaxDeletes

Init ==
    /\ locked = FALSE /\ journal = FALSE
    /\ live = Nobody /\ backup = Nobody
    /\ credential = Nobody /\ eligibility = Nobody
    /\ audited = {}
    /\ pc = [c \in Call |-> "idle"]
    /\ existing = [c \in Call |-> FALSE] /\ flawed = [c \in Call |-> FALSE]
    /\ prior = [c \in Call |-> Nobody]
    /\ result = [c \in Call |-> "none"]
    /\ cancelled = {} /\ latest = Nobody
    /\ faults = 0 /\ crashes = 0 /\ deletes = 0

-----------------------------------------------------------------------------

Step(c, from, to) == pc[c] = from /\ pc' = [pc EXCEPT ![c] = to]
Fault == faults < MaxFaults /\ faults' = faults + 1 /\ UNCHANGED <<crashes, deletes>>
NoFault == UNCHANGED budget

Conclude(c, r) == result' = [result EXCEPT ![c] = r]

(* WithPreparedCreateLock: O_EXCL, tried again until the context ends.      *)
Start(c) ==
    /\ Step(c, "idle", "waiting")
    /\ NoFault /\ UNCHANGED <<locked, durable, local, cancelled, latest>>

(* Mutant: the lock file is opened without O_EXCL. *)
IgnoreLock == TRUE
LockFree == ~locked

Lock(c) ==
    /\ LockFree
    /\ c \notin cancelled
    /\ Step(c, "waiting", "prepare")
    /\ locked' = TRUE
    /\ NoFault /\ UNCHANGED <<durable, local, cancelled, latest>>

GiveUp(c) ==
    /\ c \in cancelled
    /\ Step(c, "waiting", "done")
    /\ Conclude(c, "refused")
    /\ NoFault
    /\ UNCHANGED <<locked, durable, existing, prior, flawed, cancelled, latest>>

(* The lock file is removed in a defer, whose error is dropped.             *)
Unlock(c) ==
    /\ Step(c, "unlock", "done")
    /\ \/ locked' = FALSE /\ NoFault
       \/ locked' = locked /\ Fault
    /\ UNCHANGED <<durable, local, cancelled, latest>>

-----------------------------------------------------------------------------
(* Forward. *)

(* A journal left by an earlier call is overwritten.                        *)
Prepare(c) ==
    /\ c \notin cancelled
    /\ Step(c, "prepare", "revoke")
    /\ existing' = [existing EXCEPT ![c] = live # Nobody]
    /\ journal' = TRUE
    /\ latest' = c
    /\ NoFault
    /\ UNCHANGED <<locked, live, backup, credential, eligibility, audited, prior,
                   flawed, result, cancelled>>

PrepareFails(c) ==
    /\ Step(c, "prepare", "unlock")
    /\ Conclude(c, "refused")
    /\ IF c \in cancelled THEN NoFault ELSE Fault
    /\ UNCHANGED <<locked, durable, existing, prior, flawed, cancelled, latest>>

(* Mutant: the eligibility in force stays until it is replaced. *)
StaysInForce == eligibility
Revoked == Nobody

RevokePrior(c) ==
    /\ Step(c, "revoke", "keyring")
    /\ prior' = [prior EXCEPT ![c] = eligibility]
    /\ eligibility' = Revoked
    /\ NoFault
    /\ UNCHANGED <<locked, journal, live, backup, credential, audited, existing,
                   flawed, result, cancelled, latest>>

(* The only failure that ends the call without compensation.                *)
RevokeFails(c) ==
    /\ Step(c, "revoke", "unlock")
    /\ eligibility' \in {eligibility, Revoked}
    /\ Conclude(c, "cleanup")
    /\ Fault
    /\ UNCHANGED <<locked, journal, live, backup, credential, audited, existing,
                   prior, flawed, cancelled, latest>>

(* Before each write the context is looked at; what was written is undone.  *)
Interrupted(c) ==
    /\ c \in cancelled
    /\ \/ Step(c, "keyring", "restore")
       \/ Step(c, "profile", "undoKeyring")
       \/ Step(c, "eligibility", "undoProfile")
       \/ Step(c, "audit", "undoEligibility")
    /\ NoFault /\ UNCHANGED <<locked, durable, local, cancelled, latest>>

StoreKeyring(c) ==
    /\ c \notin cancelled
    /\ Step(c, "keyring", "profile")
    /\ credential' = c
    /\ NoFault
    /\ UNCHANGED <<locked, journal, live, backup, eligibility, audited, local,
                   cancelled, latest>>

(* Mutant: a write that failed is taken to have left nothing. *)
NothingStored == "restore"
UndoFromKeyring == "undoKeyring"

StoreKeyringFails(c) ==
    /\ c \notin cancelled
    /\ Step(c, "keyring", UndoFromKeyring)
    /\ credential' \in {credential, c}
    /\ Fault
    /\ UNCHANGED <<locked, journal, live, backup, eligibility, audited, local,
                   cancelled, latest>>

(* Store.Save links a new file.                                             *)
Save(c) ==
    /\ c \notin cancelled
    /\ ~existing[c] /\ live = Nobody
    /\ Step(c, "profile", "eligibility")
    /\ live' = c
    /\ NoFault
    /\ UNCHANGED <<locked, journal, backup, credential, eligibility, audited,
                   local, cancelled, latest>>

(* Store.Update renames the live file to the backup, and then the new one   *)
(* into its place.                                                          *)
MoveAside(c) ==
    /\ c \notin cancelled
    /\ existing[c] /\ live # Nobody
    /\ Step(c, "profile", "publish")
    /\ backup' = live /\ live' = Nobody
    /\ NoFault
    /\ UNCHANGED <<locked, journal, credential, eligibility, audited, local,
                   cancelled, latest>>

Publish(c) ==
    /\ Step(c, "publish", "eligibility")
    /\ live' = c
    /\ NoFault
    /\ UNCHANGED <<locked, journal, backup, credential, eligibility, audited,
                   local, cancelled, latest>>

(* The profile disappeared since Prepare, or a file operation fails.        *)
SaveFails(c) ==
    /\ c \notin cancelled
    /\ Step(c, "profile", "undoKeyring")
    /\ IF existing[c] = (live # Nobody) THEN Fault ELSE NoFault
    /\ UNCHANGED <<locked, durable, local, cancelled, latest>>

(* Update moves the backup back, which may fail too; if only the backup's   *)
(* mode cannot be set the new file stays.                                   *)
PublishFails(c) ==
    /\ Step(c, "publish", "undoKeyring")
    /\ \/ live' = backup /\ backup' = Nobody
       \/ live' = Nobody /\ backup' = backup
       \/ live' = c /\ backup' = backup
    /\ Fault
    /\ UNCHANGED <<locked, journal, credential, eligibility, audited, local,
                   cancelled, latest>>

SaveEligibility(c) ==
    /\ c \notin cancelled
    /\ Step(c, "eligibility", "audit")
    /\ eligibility' = c
    /\ NoFault
    /\ UNCHANGED <<locked, journal, live, backup, credential, audited, local,
                   cancelled, latest>>

SaveEligibilityFails(c) ==
    /\ c \notin cancelled
    /\ Step(c, "eligibility", "undoEligibility")
    /\ eligibility' \in {eligibility, c}
    /\ Fault
    /\ UNCHANGED <<locked, journal, live, backup, credential, audited, local,
                   cancelled, latest>>

AuditCommitted(c) ==
    /\ c \notin cancelled
    /\ Step(c, "audit", "clear")
    /\ audited' = audited \cup {c}
    /\ NoFault
    /\ UNCHANGED <<locked, journal, live, backup, credential, eligibility, local,
                   cancelled, latest>>

(* The record may be on disk although its sync failed.                      *)
AuditFails(c) ==
    /\ c \notin cancelled
    /\ Step(c, "audit", "undoEligibility")
    /\ audited' \in {audited, audited \cup {c}}
    /\ Fault
    /\ UNCHANGED <<locked, journal, live, backup, credential, eligibility, local,
                   cancelled, latest>>

ClearJournal(c, stage, r) ==
    /\ Step(c, stage, "unlock")
    /\ \/ journal' = FALSE /\ Conclude(c, r) /\ NoFault
       \/ journal' = journal /\ Conclude(c, "cleanup") /\ Fault
    /\ UNCHANGED <<locked, live, backup, credential, eligibility, audited, existing,
                   prior, flawed, cancelled, latest>>

-----------------------------------------------------------------------------
(* Backward: every compensation is tried, whatever the others did.          *)

Undone(c, ok) == flawed' = [flawed EXCEPT ![c] = @ \/ ~ok]

(* A callback that finds nothing to take back is an error as well.          *)
UndoEligibility(c) ==
    /\ Step(c, "undoEligibility", "undoProfile")
    /\ \/ eligibility # Nobody /\ eligibility' = Nobody /\ Undone(c, TRUE) /\ NoFault
       \/ eligibility = Nobody /\ UNCHANGED eligibility /\ Undone(c, FALSE) /\ NoFault
       \/ eligibility' \in {eligibility, Nobody} /\ Undone(c, FALSE) /\ Fault
    /\ UNCHANGED <<locked, journal, live, backup, credential, audited, existing,
                   prior, result, cancelled, latest>>

(* Restore for a profile that was there before, Delete for a new one: each  *)
(* moves one file over the other.                                           *)
UndoProfile(c) ==
    /\ Step(c, "undoProfile", "undoKeyring")
    /\ LET from == IF existing[c] THEN backup ELSE live
       IN  \/ /\ from # Nobody
              /\ live' = IF existing[c] THEN backup ELSE Nobody
              /\ backup' = IF existing[c] THEN Nobody ELSE live
              /\ Undone(c, TRUE) /\ NoFault
           \/ from = Nobody /\ UNCHANGED <<live, backup>> /\ Undone(c, FALSE) /\ NoFault
           \/ UNCHANGED <<live, backup>> /\ Undone(c, FALSE) /\ Fault
    /\ UNCHANGED <<locked, journal, credential, eligibility, audited, existing,
                   prior, result, cancelled, latest>>

(* Mutant: the deletion is tried until it succeeds. *)
UntilDeleted(ok) == IF ok THEN "restore" ELSE "undoKeyring"
AfterDeletion(ok) == "restore"

(* The keyring has one password per profile: an earlier one is not restored.*)
UndoKeyring(c) ==
    /\ \E ok \in BOOLEAN :
          /\ Step(c, "undoKeyring", AfterDeletion(ok))
          /\ Undone(c, ok)
          /\ \/ ok /\ credential # Nobody /\ credential' = Nobody /\ NoFault
             \/ ~ok /\ credential = Nobody /\ UNCHANGED credential /\ NoFault
             \/ ~ok /\ credential' \in {credential, Nobody} /\ Fault
    /\ UNCHANGED <<locked, journal, live, backup, eligibility, audited, existing,
                   prior, result, cancelled, latest>>

RestorePrior(c) ==
    /\ ~flawed[c]
    /\ Step(c, "restore", "undoClear")
    /\ eligibility' = IF prior[c] = Nobody THEN eligibility ELSE prior[c]
    /\ NoFault
    /\ UNCHANGED <<locked, journal, live, backup, credential, audited, local,
                   cancelled, latest>>

RestoreFails(c) ==
    /\ Step(c, "restore", "unlock")
    /\ Conclude(c, "cleanup")
    /\ IF flawed[c] THEN NoFault /\ UNCHANGED eligibility
       ELSE prior[c] # Nobody /\ Fault /\ eligibility' \in {eligibility, prior[c]}
    /\ UNCHANGED <<locked, journal, live, backup, credential, audited, existing,
                   prior, flawed, cancelled, latest>>

-----------------------------------------------------------------------------

Cancel(c) ==
    /\ pc[c] \in {"waiting"} \cup Holding
    /\ cancelled' = cancelled \cup {c}
    /\ UNCHANGED <<locked, durable, pc, local, latest, budget>>

Crash(c) ==
    /\ crashes < MaxCrashes /\ crashes' = crashes + 1
    /\ pc[c] \in {"waiting"} \cup Holding
    /\ pc' = [pc EXCEPT ![c] = "dead"]
    /\ UNCHANGED <<locked, durable, local, cancelled, latest, faults, deletes>>

(* The profile list of any nexus configure deletes without the lock.        *)
DeleteProfile ==
    /\ deletes < MaxDeletes /\ deletes' = deletes + 1
    /\ live # Nobody
    /\ backup' = live /\ live' = Nobody
    /\ UNCHANGED <<locked, journal, credential, eligibility, audited, pc, local,
                   cancelled, latest, faults, crashes>>

Quiet == \A c \in Call : pc[c] \notin Holding
Stale == locked /\ Quiet

(* Nothing in the program removes the lock of a process that died.          *)
RemoveLock ==
    /\ Stale
    /\ locked' = FALSE
    /\ UNCHANGED <<durable, pc, local, cancelled, latest, budget>>

Commit(c) ==
    \/ Lock(c) \/ GiveUp(c) \/ Prepare(c) \/ PrepareFails(c)
    \/ RevokePrior(c) \/ RevokeFails(c) \/ Interrupted(c)
    \/ StoreKeyring(c) \/ StoreKeyringFails(c)
    \/ Save(c) \/ MoveAside(c) \/ SaveFails(c) \/ Publish(c) \/ PublishFails(c)
    \/ SaveEligibility(c) \/ SaveEligibilityFails(c)
    \/ AuditCommitted(c) \/ AuditFails(c) \/ ClearJournal(c, "clear", "saved")
    \/ UndoEligibility(c) \/ UndoProfile(c) \/ UndoKeyring(c)
    \/ RestorePrior(c) \/ RestoreFails(c) \/ ClearJournal(c, "undoClear", "failed")
    \/ Unlock(c)

Next ==
    \/ \E c \in Call : Start(c) \/ Commit(c) \/ Cancel(c) \/ Crash(c)
    \/ DeleteProfile \/ RemoveLock

Spec == Init /\ [][Next]_vars

(* A process that lives goes on: each callback returns.                     *)
FairSpec == Spec /\ \A c \in Call : WF_vars(Commit(c))

-----------------------------------------------------------------------------
(* Properties. *)

(* Until another call begins, what a call reported as saved is all there:   *)
(* its password, its profile (unless deleted since), its eligibility and    *)
(* the audit that allows it, whatever earlier calls left half done.         *)
SavedIsWhole ==
    \A c \in Call : result[c] = "saved" /\ latest = c =>
        /\ credential = c /\ eligibility = c
        /\ deletes = 0 => live = c
        /\ c \in audited
        /\ ~journal

(* A call that failed and did not ask for a cleanup left nothing of its     *)
(* own, no journal, and the eligibility that was in force before it.  Of a  *)
(* profile it replaced only the identity is known.                          *)
FailedIsClean ==
    \A c \in Call : result[c] = "failed" /\ latest = c =>
        /\ credential # c
        /\ eligibility = prior[c]
        /\ ~existing[c] => live # c
        /\ ~journal

(* A password is stored only while the profile is not served: the record    *)
(* that lets serve use the old one has been revoked.                        *)
RevokedBeforeReplaced ==
    [][credential' \notin {credential, Nobody} => eligibility = Nobody]_vars

(* Every call that gets in line returns, as long as no lock was left behind.*)
CommitsReturn ==
    []~Stale => \A c \in Call : pc[c] = "waiting" ~> pc[c] \in Ended
=============================================================================
