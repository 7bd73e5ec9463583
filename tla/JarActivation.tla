--------------------------- MODULE JarActivation ---------------------------
(***************************************************************************)
(* The activation of the pinned Mapepire server JAR on the IBM i host      *)
(* (internal/connectors/ibmi/mapepirestdio/artifact.go).  An activation    *)
(* uploads the locally verified JAR under a random name, keeps a verified  *)
(* copy of the file it replaces, removes that file, renames the upload     *)
(* into place and hashes the result; whatever goes wrong runs the deferred *)
(* clean-up.  Activations of several processes share the one fixed path.   *)
(*                                                                         *)
(* Every remote call may be refused (no effect) or lose its connection     *)
(* (with or without effect, and no later call gets through); a process may *)
(* die at any step, and then nothing is cleaned up.                        *)
(***************************************************************************)
EXTENDS FiniteSets, Integers

CONSTANTS
    Activation,     \* calls of EnsureServerJAR, over all processes
    MaxFaults,      \* bound on refused and lost calls
    MaxCrashes      \* bound on processes that die

ASSUME JarAssumption == MaxFaults \in Nat /\ MaxCrashes \in Nat

VARIABLES
    files,          \* the remote files: the fixed path and each activation's own two
    initial,        \* what the fixed path held at the beginning (never changes)
    local,          \* the local JAR file: "Good" until someone edits it
    run,            \* the activations
    faults, crashes

jarVars == <<files, initial, local, run, faults, crashes>>

\* "Good" is the content whose SHA-256 is pinned; "Old" any other regular file
\* within the size limit; "Odd" no such file; "Bad" an upload that went wrong.
Content == {"None", "Good", "Old", "Odd", "Bad"}

Jar == <<"jar">>
Temp(a) == <<"temp", a>>
Backup(a) == <<"backup", a>>
Path == {Jar} \cup {Temp(a) : a \in Activation} \cup {Backup(a) : a \in Activation}

Exists(p) == files[p] # "None"

Steps == {"idle", "prepare", "inspect", "create", "transfer", "verifyTemp", "backup",
          "copyBackup", "checkBackup", "removePrior", "rename", "verify", "removeBad", "restore",
          "dropBackup", "undoBackup", "cleanBackup", "cleanTemp", "done", "failed", "dead",
          "admitted", "started"}

\* The closed vocabulary of diagnostics: remote_home is part of directory_prepare.
ArtifactStage == {"directory_prepare", "inspect_existing", "create_temporary", "transfer",
                  "verify_temporary_hash", "backup", "activate", "verify_activated",
                  "cleanup_rollback"}

\* Where a call that fails leads: a failed rename and a failed verification put
\* the previous file back, a failed copy removes itself, and every other
\* failure returns through the deferred clean-up.
OnFailure ==
    [s \in Steps |->
        CASE s \in {"rename", "removeBad"}         -> "restore"
          [] s = "verify"                          -> "removeBad"
          [] s \in {"copyBackup", "checkBackup"}   -> "undoBackup"
          [] s = "cleanBackup"                     -> "cleanTemp"
          [] s \in {"cleanTemp", "done", "admitted"} -> "failed"
          [] OTHER                                 -> "cleanBackup"]

\* The diagnostic each step's failure carries.
StageOf ==
    [s \in Steps |->
        CASE s = "prepare"                                  -> "directory_prepare"
          [] s = "inspect"                                  -> "inspect_existing"
          [] s = "create"                                   -> "create_temporary"
          [] s = "transfer"                                 -> "transfer"
          [] s = "verifyTemp"                               -> "verify_temporary_hash"
          [] s \in {"backup", "copyBackup", "checkBackup", "undoBackup"} -> "backup"
          [] s \in {"removePrior", "rename"}                -> "activate"
          [] s = "verify"                                   -> "verify_activated"
          [] s = "dropBackup"                               -> "cleanup_rollback"
          [] OTHER                                          -> ""]

Idle == [pc |-> "idle", prior |-> "None", ownTemp |-> FALSE, ownBackup |-> FALSE,
         stage |-> "", up |-> TRUE, hit |-> FALSE, verified |-> FALSE,
         alone |-> FALSE, ran |-> "None"]

JarInit ==
    /\ initial \in {"None", "Good", "Old", "Odd"}
    /\ files = [p \in Path |-> IF p = Jar THEN initial ELSE "None"]
    /\ local \in {"Good", "Bad"}
    /\ run = [a \in Activation |-> Idle]
    /\ faults = 0 /\ crashes = 0

(***************************************************************************)
(* Remote calls                                                            *)
(***************************************************************************)

Set(a, changes) == run' = [run EXCEPT ![a] = changes]

\* Mutant: a backup that could not be put back is still deleted.
FailedOwning(r) ==
    [r EXCEPT !.pc = OnFailure[r.pc], !.stage = IF @ = "" THEN StageOf[r.pc] ELSE @]

\* The first failure names the stage; a later failure in the clean-up keeps it.
\* A backup that could not be put back is no longer owned: it stays where it is.
Failed(r) ==
    [r EXCEPT !.pc = OnFailure[r.pc], !.stage = IF @ = "" THEN StageOf[r.pc] ELSE @,
              !.ownBackup = @ /\ r.pc # "restore"]

\* One remote call of activation a at step s: `able` is what the server demands,
\* `after` the files once it has been done and `next` the activation's new state.
\* The connection may refuse it, or go down before or after it took effect.
Call(a, s, able, after, next) ==
    /\ run[a].pc = s
    /\ UNCHANGED <<initial, local, crashes>>
    /\ \/ /\ run[a].up /\ able
          /\ files' = after
          /\ Set(a, next)
          /\ UNCHANGED faults
       \/ /\ ~run[a].up \/ ~able
          /\ Set(a, Failed(run[a]))
          /\ UNCHANGED <<files, faults>>
       \/ /\ run[a].up /\ faults < MaxFaults
          /\ faults' = faults + 1
          /\ \/ UNCHANGED files /\ Set(a, [Failed(run[a]) EXCEPT !.hit = TRUE])
             \/ /\ files' \in {files, IF able THEN after ELSE files}
                /\ Set(a, [Failed(run[a]) EXCEPT !.hit = TRUE, !.up = FALSE])

Goto(a, s) == [run[a] EXCEPT !.pc = s]
Without(p) == [files EXCEPT ![p] = "None"]
Moved(p, q) == [files EXCEPT ![p] = "None", ![q] = files[p]]

(***************************************************************************)
(* ensureServerJARWith                                                     *)
(***************************************************************************)

\* openVerifiedLocalJAR: nothing remote is touched unless the local file hashes
\* to the pinned value.
Begin(a) ==
    /\ run[a].pc = "idle"
    /\ Set(a, IF local = "Good" THEN Goto(a, "prepare") ELSE Goto(a, "failed"))
    /\ UNCHANGED <<files, initial, local, faults, crashes>>

\* WorkingDirectory, MkdirAll and Chmod of the component directory.
Prepare(a) == Call(a, "prepare", TRUE, files, Goto(a, "inspect"))

\* inspectRemoteJAR: the pinned content is kept as it is (chmod 0600 only).
Inspect(a) ==
    Call(a, "inspect", files[Jar] # "Odd", files,
         IF files[Jar] = "Good"
         THEN [Goto(a, "done") EXCEPT !.prior = "Good", !.verified = TRUE]
         ELSE [Goto(a, "create") EXCEPT !.prior = files[Jar]])

\* Mutant: the upload is only owned once it is complete.
CreateUnowned(a) ==
    Call(a, "create", TRUE, [files EXCEPT ![Temp(a)] = "Bad"], Goto(a, "transfer"))

\* OpenWriteExclusive of a random name: owned only when the call returned.
CreateTemporary(a) ==
    Call(a, "create", TRUE, [files EXCEPT ![Temp(a)] = "Bad"],
         [Goto(a, "transfer") EXCEPT !.ownTemp = TRUE])

\* copyExact, Close and the check of the local file's identity, then chmod 0600.
\* The identity check sees another file or another length, not an edit in place.
Transfer(a) ==
    Call(a, "transfer", TRUE, [files EXCEPT ![Temp(a)] = local], Goto(a, "verifyTemp"))

\* Mutant: the upload is not hashed before it is activated.
VerifyNothing(a) ==
    Call(a, "verifyTemp", TRUE, files,
         Goto(a, IF run[a].prior = "None" THEN "rename" ELSE "backup"))

VerifyTemporary(a) ==
    Call(a, "verifyTemp", files[Temp(a)] = "Good", files,
         Goto(a, IF run[a].prior = "None" THEN "rename" ELSE "backup"))

\* copyRemoteExclusive: a new file, the copy, then its hash against the inspected
\* one; a copy that fails is removed.
CreateBackup(a) ==
    Call(a, "backup", files[Jar] \notin {"None", "Odd"},
         [files EXCEPT ![Backup(a)] = "Bad"], Goto(a, "copyBackup"))

CopyBackup(a) ==
    Call(a, "copyBackup", files[Jar] \notin {"None", "Odd"},
         [files EXCEPT ![Backup(a)] = files[Jar]], Goto(a, "checkBackup"))

CheckBackup(a) ==
    Call(a, "checkBackup", files[Backup(a)] = run[a].prior, files,
         [Goto(a, "removePrior") EXCEPT !.ownBackup = TRUE])

UndoBackup(a) ==
    Call(a, "undoBackup", Exists(Backup(a)), Without(Backup(a)), Goto(a, "cleanBackup"))

RemovePrior(a) ==
    Call(a, "removePrior", Exists(Jar), Without(Jar), Goto(a, "rename"))

\* SFTP's rename refuses a target that exists.
Activate(a) ==
    Call(a, "rename", Exists(Temp(a)) /\ ~Exists(Jar), Moved(Temp(a), Jar),
         [Goto(a, "verify") EXCEPT !.ownTemp = FALSE])

VerifyActivated(a) ==
    Call(a, "verify", files[Jar] = "Good", files,
         [Goto(a, IF run[a].ownBackup THEN "dropBackup" ELSE "done") EXCEPT !.verified = TRUE])

RemoveBad(a) == Call(a, "removeBad", Exists(Jar), Without(Jar), Goto(a, "restore"))

\* restoreRemoteJAR: the backup is given up whether or not the rename succeeds,
\* so that a file that could not be put back stays under its random name.
Restore(a) ==
    LET given == [Goto(a, "cleanTemp") EXCEPT !.ownBackup = FALSE]
    IN  IF run[a].prior = "None"
        THEN /\ run[a].pc = "restore"
             /\ Set(a, given)
             /\ UNCHANGED <<files, initial, local, faults, crashes>>
        ELSE Call(a, "restore", Exists(Backup(a)) /\ ~Exists(Jar), Moved(Backup(a), Jar), given)

DropBackup(a) ==
    Call(a, "dropBackup", Exists(Backup(a)), Without(Backup(a)),
         [Goto(a, "done") EXCEPT !.ownBackup = FALSE])

\* The deferred functions, last first; a file that is already gone is no failure.
CleanBackup(a) ==
    IF run[a].ownBackup /\ Exists(Backup(a))
    THEN Call(a, "cleanBackup", TRUE, Without(Backup(a)), Goto(a, "cleanTemp"))
    ELSE /\ run[a].pc = "cleanBackup"
         /\ Set(a, Goto(a, "cleanTemp"))
         /\ UNCHANGED <<files, initial, local, faults, crashes>>

CleanTemp(a) ==
    IF run[a].ownTemp /\ Exists(Temp(a))
    THEN Call(a, "cleanTemp", TRUE, Without(Temp(a)), Goto(a, "failed"))
    ELSE /\ run[a].pc = "cleanTemp"
         /\ Set(a, Goto(a, "failed"))
         /\ UNCHANGED <<files, initial, local, faults, crashes>>

(***************************************************************************)
(* StartMapepire: the receipt is admitted, then the server is started      *)
(***************************************************************************)

\* No other activation is on its way with an inspection that is out of date.
Alone(a) ==
    \A b \in Activation \ {a} :
        \/ run[b].pc \in {"idle", "prepare", "inspect", "done", "failed", "dead",
                           "admitted", "started"}
        \/ run[b].prior = "Good"

\* Mutant: the receipt is taken at its word.
ReverifyNothing(a) ==
    Call(a, "done", TRUE, files, [Goto(a, "admitted") EXCEPT !.alone = Alone(a)])

\* Reverify: the file the receipt names is hashed once more.
Reverify(a) ==
    Call(a, "done", files[Jar] = "Good", files,
         [Goto(a, "admitted") EXCEPT !.alone = Alone(a)])

\* startMapepireSession: the command runs whatever the path holds by then.
StartServer(a) ==
    Call(a, "admitted", TRUE, files, [Goto(a, "started") EXCEPT !.ran = files[Jar]])

(***************************************************************************)
(* The environment                                                         *)
(***************************************************************************)

\* The local file is edited in place.
EditLocal ==
    /\ local = "Good"
    /\ local' = "Bad"
    /\ UNCHANGED <<files, initial, run, faults, crashes>>

\* The process dies: no deferred function runs.
Die(a) ==
    /\ run[a].pc \notin {"idle", "failed", "dead", "started"}
    /\ crashes < MaxCrashes
    /\ crashes' = crashes + 1
    /\ Set(a, Goto(a, "dead"))
    /\ UNCHANGED <<files, initial, local, faults>>

Activating(a) ==
    \/ Begin(a) \/ Prepare(a) \/ Inspect(a) \/ CreateTemporary(a) \/ Transfer(a)
    \/ VerifyTemporary(a) \/ CreateBackup(a) \/ CopyBackup(a) \/ CheckBackup(a)
    \/ UndoBackup(a) \/ RemovePrior(a) \/ Activate(a) \/ VerifyActivated(a) \/ RemoveBad(a) \/ Restore(a)
    \/ DropBackup(a) \/ CleanBackup(a) \/ CleanTemp(a) \/ Reverify(a) \/ StartServer(a)

JarNext == EditLocal \/ \E a \in Activation : Activating(a) \/ Die(a)

JarSpec == JarInit /\ [][JarNext]_jarVars

(***************************************************************************)
(* Properties                                                              *)
(***************************************************************************)

\* Every variable keeps its type.
JarTypeOK ==
    /\ files \in [Path -> Content]
    /\ initial \in Content /\ local \in {"Good", "Bad"}
    /\ run \in [Activation -> [pc : Steps, prior : Content, ownTemp : BOOLEAN,
                               ownBackup : BOOLEAN, stage : ArtifactStage \cup {""},
                               up : BOOLEAN, hit : BOOLEAN, verified : BOOLEAN,
                               alone : BOOLEAN, ran : Content]]
    /\ faults \in 0..MaxFaults /\ crashes \in 0..MaxCrashes

\* Nothing that was not verified is ever put at the path the server is started
\* from, whatever is refused, lost, interleaved or killed.
OnlyVerified == files[Jar] \in {"None", "Good", initial}

\* The file that was there before is not lost until the pinned one has been
\* verified in its place: between the removal and the rename it lives in a
\* backup, and no failure path deletes the last copy.
PriorKept ==
    initial = "Old" /\ (\A a \in Activation : ~run[a].verified)
        => \E p \in Path : files[p] = "Old"

\* An activation that ends leaves no upload behind, and a backup only where
\* another activation's file kept it from being put back; refused and lost calls
\* aside.
NoLitter ==
    \A a \in Activation :
        run[a].pc \in {"done", "failed", "started"} /\ ~run[a].hit
            => /\ ~Exists(Temp(a))
               /\ Exists(Backup(a)) => run[a].stage \in {"activate", "verify_activated"}

\* A server that is started runs the pinned JAR, unless another activation was
\* already replacing the file when the receipt was admitted: what the second hash
\* cannot see is only a change that was under way.
RunsPinned ==
    \A a \in Activation : run[a].pc = "started" /\ run[a].alone => run[a].ran = "Good"

=============================================================================
