--------------------------- MODULE VaultCommands ---------------------------
(***************************************************************************)
(* The encrypted vault of one profile under the commands of catalogspike:  *)
(* credential.Store with its rollback link, the set-up of                  *)
(* configuration.Service, which creates the vault first and publishes the  *)
(* profile last, and the commands that set, rotate, look at, delete and    *)
(* use the vault.  Commands may run in several terminals and be killed.    *)
(*                                                                         *)
(* A vault holds the secret of the command that sealed it and is named by  *)
(* it.  Files are linked and removed, each in one step; a temporary file   *)
(* has a name of its own and is not seen by anyone else.                   *)
(***************************************************************************)
EXTENDS Naturals

CONSTANTS
    Command,            \* invocations of the program, for one profile name
    NoVault,            \* no file
    MaxVaultFaults,     \* bound: file operations that fail without effect
    MaxKills,           \* bound: commands killed
    MaxBeside           \* bound: commands begun beside another one

ASSUME VaultAssumption ==
    /\ NoVault \notin Command
    /\ MaxVaultFaults \in Nat
    /\ MaxKills \in Nat
    /\ MaxBeside \in Nat

VARIABLES
    enrolled,   \* the profile file: "none", or what published it
    vault,      \* <name>.vault
    rollback,   \* <name>.vault.rollback
    cmd,        \* per command, its kind, its step and whether it has prompted
    kept,       \* history: the secret committed last and not asked to be deleted
    vaultFaults, kills, beside

vaultVars == <<enrolled, vault, rollback, cmd, kept, vaultFaults, kills, beside>>

(* Where each kind of command starts.                                      *)
FirstStep == [
    setup |-> "asking", set |-> "asking", rotate |-> "asking",
    vaultMode |-> "save", promptMode |-> "save",    \* configure -credential-mode
    status |-> "look", delete |-> "delete", live |-> "load"]
Kind == DOMAIN FirstStep

Recovering == {"look", "clean", "lookBack", "relink", "drop"}
Rotating == {"check", "backup", "remove", "unback", "publish", "restore", "cleanup"}
Halted == {"done", "committed", "failed", "killed"}
Steps == {"idle", "asking", "sealing", "create", "save", "delete", "sweep", "deliver",
          "load", "stat", "open"} \cup Recovering \cup Rotating \cup Halted

VaultTypeOK ==
    /\ enrolled \in {"none", "setup", "vaultMode", "promptMode"}
    /\ vault \in Command \cup {NoVault}
    /\ rollback \in Command \cup {NoVault}
    /\ cmd \in [Command -> [kind : Kind, pc : Steps, asked : BOOLEAN]]
    /\ kept \in Command \cup {NoVault}
    /\ vaultFaults \in 0..MaxVaultFaults
    /\ kills \in 0..MaxKills
    /\ beside \in 0..MaxBeside

VaultInit ==
    /\ enrolled = "none" /\ vault = NoVault /\ rollback = NoVault /\ kept = NoVault
    /\ cmd = [c \in Command |-> [kind |-> "status", pc |-> "idle", asked |-> FALSE]]
    /\ vaultFaults = 0 /\ kills = 0 /\ beside = 0

-----------------------------------------------------------------------------

Active(c) == cmd[c].pc \notin Halted \cup {"idle"}
Takes(c, from, to) == cmd[c].pc = from /\ cmd' = [cmd EXCEPT ![c].pc = to]
Budgets == <<vaultFaults, kills, beside>>

(* A command is typed while others may still run, or wait at a prompt.      *)
Begin(c, k) ==
    /\ cmd[c].pc = "idle"
    /\ cmd' = [cmd EXCEPT ![c].kind = k, ![c].pc = FirstStep[k]]
    /\ IF \E d \in Command : Active(d) THEN beside < MaxBeside /\ beside' = beside + 1
                                       ELSE UNCHANGED beside
    /\ UNCHANGED <<enrolled, vault, rollback, kept, vaultFaults, kills>>

(* Every question and check of the set-up comes before its first change; a  *)
(* wrong answer ends it.                                                    *)
AnswerSetup(c) ==
    /\ cmd[c].kind = "setup"
    /\ Takes(c, "asking", "sealing") \/ Takes(c, "asking", "failed")
    /\ UNCHANGED <<enrolled, vault, rollback, kept, Budgets>>

AnswerSet(c) ==
    /\ cmd[c].kind \in {"set", "rotate"}
    /\ Takes(c, "asking", "sealing") \/ Takes(c, "asking", "failed")
    /\ UNCHANGED <<enrolled, vault, rollback, kept, Budgets>>

(* The master passphrase is asked for after Status found a vault, and Get    *)
(* begins with a recovery of its own.                                       *)
AnswerMaster(c) ==
    /\ cmd[c].kind = "live"
    /\ \/ /\ cmd[c].pc = "asking"
          /\ cmd' = [cmd EXCEPT ![c].pc = "look", ![c].asked = TRUE]
       \/ Takes(c, "asking", "failed")
    /\ UNCHANGED <<enrolled, vault, rollback, kept, Budgets>>

(* Set encrypts the password before it touches a file.                      *)
Seal(c) ==
    /\ Takes(c, "sealing", "look") \/ Takes(c, "sealing", "failed")
    /\ UNCHANGED <<enrolled, vault, rollback, kept, Budgets>>

-----------------------------------------------------------------------------
(* recover, with which publish, Status and Get begin.                       *)

AfterRecovery(c) ==
    CASE cmd[c].kind \in {"setup", "set"} -> "create"
      [] cmd[c].kind = "rotate" -> "check"
      [] cmd[c].kind = "live" /\ cmd[c].asked -> "open"
      [] OTHER -> "stat"

(* Mutant: the rollback link is removed without a look at the vault. *)
LookAway(c) ==
    /\ Takes(c, "look", "clean")
    /\ UNCHANGED <<enrolled, vault, rollback, kept, Budgets>>

Look(c) ==
    /\ Takes(c, "look", IF vault # NoVault THEN "clean" ELSE "lookBack")
    /\ UNCHANGED <<enrolled, vault, rollback, kept, Budgets>>

Clean(c) ==
    /\ Takes(c, "clean", AfterRecovery(c))
    /\ rollback' = NoVault
    /\ UNCHANGED <<enrolled, vault, kept, Budgets>>

LookBack(c) ==
    /\ Takes(c, "lookBack", IF rollback # NoVault THEN "relink" ELSE AfterRecovery(c))
    /\ UNCHANGED <<enrolled, vault, rollback, kept, Budgets>>

Relink(c) ==
    /\ Takes(c, "relink", "drop")
    /\ rollback # NoVault /\ vault = NoVault
    /\ vault' = rollback
    /\ UNCHANGED <<enrolled, rollback, kept, Budgets>>

Drop(c) ==
    /\ Takes(c, "drop", AfterRecovery(c))
    /\ rollback # NoVault
    /\ rollback' = NoVault
    /\ UNCHANGED <<enrolled, vault, kept, Budgets>>

-----------------------------------------------------------------------------
(* publish: a new vault is linked into place; a rotation links the old one  *)
(* under a second name, removes it, links the new one and removes the       *)
(* second name.                                                             *)

Create(c) ==
    /\ Takes(c, "create", IF cmd[c].kind = "setup" THEN "save" ELSE "deliver")
    /\ vault = NoVault
    /\ vault' = c /\ kept' = c
    /\ UNCHANGED <<enrolled, rollback, Budgets>>

CheckExists(c) ==
    /\ Takes(c, "check", "backup")
    /\ vault # NoVault
    /\ UNCHANGED <<enrolled, vault, rollback, kept, Budgets>>

BackUp(c) ==
    /\ Takes(c, "backup", "remove")
    /\ vault # NoVault /\ rollback = NoVault
    /\ rollback' = vault
    /\ UNCHANGED <<enrolled, vault, kept, Budgets>>

RemoveOld(c) ==
    /\ Takes(c, "remove", "publish")
    /\ vault # NoVault
    /\ vault' = NoVault
    /\ UNCHANGED <<enrolled, rollback, kept, Budgets>>

Unback(c) ==
    /\ Takes(c, "unback", "failed")
    /\ rollback # NoVault
    /\ rollback' = NoVault
    /\ UNCHANGED <<enrolled, vault, kept, Budgets>>

PublishNew(c) ==
    /\ Takes(c, "publish", "cleanup")
    /\ vault = NoVault
    /\ vault' = c /\ kept' = c
    /\ UNCHANGED <<enrolled, rollback, Budgets>>

RestoreOld(c) ==
    /\ Takes(c, "restore", "failed")
    /\ rollback # NoVault /\ vault = NoVault
    /\ vault' = rollback
    /\ UNCHANGED <<enrolled, rollback, kept, Budgets>>

CleanUp(c) ==
    /\ Takes(c, "cleanup", "deliver")
    /\ rollback # NoVault
    /\ rollback' = NoVault
    /\ UNCHANGED <<enrolled, vault, kept, Budgets>>

(* The result goes to the terminal; if it cannot be written, the command    *)
(* says that the change was made and must not be tried again.               *)
Deliver(c) ==
    /\ Takes(c, "deliver", "done") \/ Takes(c, "deliver", "committed")
    /\ UNCHANGED <<enrolled, vault, rollback, kept, Budgets>>

-----------------------------------------------------------------------------
(* The profile, the deletion of a vault and the reading commands.           *)

(* The set-up publishes its profile last.                                   *)
SaveProfile(c) ==
    /\ Takes(c, "save", "deliver")
    /\ cmd[c].kind = "setup"
    /\ enrolled = "none" /\ enrolled' = "setup"
    /\ UNCHANGED <<vault, rollback, kept, Budgets>>

Configure(c) ==
    /\ Takes(c, "save", "done")
    /\ cmd[c].kind \in {"vaultMode", "promptMode"}
    /\ enrolled = "none" /\ enrolled' = cmd[c].kind
    /\ UNCHANGED <<vault, rollback, kept, Budgets>>

(* Delete removes whatever vault there is; a set-up whose profile was       *)
(* refused asks for its own to be gone, a deletion for any.                 *)
DeleteVault(c) ==
    /\ Takes(c, "delete", "sweep")
    /\ vault' = NoVault
    /\ kept' = IF cmd[c].kind = "delete" \/ kept = c THEN NoVault ELSE kept
    /\ UNCHANGED <<enrolled, rollback, Budgets>>

AfterDeletion(c) == IF cmd[c].kind = "setup" THEN "failed" ELSE "done"

Sweep(c) ==
    /\ Takes(c, "sweep", AfterDeletion(c))
    /\ rollback' = NoVault
    /\ UNCHANGED <<enrolled, vault, kept, Budgets>>

(* A profile that prompts for the password never looks at a vault.          *)
LoadProfile(c) ==
    /\ Takes(c, "load", IF enrolled = "promptMode" THEN "done" ELSE "look")
    /\ enrolled # "none"
    /\ UNCHANGED <<enrolled, vault, rollback, kept, Budgets>>

Stat(c) ==
    /\ Takes(c, "stat", IF cmd[c].kind = "live" THEN "asking" ELSE "done")
    /\ cmd[c].kind = "live" => vault # NoVault
    /\ UNCHANGED <<enrolled, vault, rollback, kept, Budgets>>

Open(c) ==
    /\ Takes(c, "open", "done")
    /\ vault # NoVault
    /\ UNCHANGED <<enrolled, vault, rollback, kept, Budgets>>

-----------------------------------------------------------------------------
(* Failures. *)

(* What the state of the files refuses: an existing target, a missing       *)
(* source.                                                                  *)
Refused(c) ==
    LET at == cmd[c].pc
    IN \/ at \in {"create", "publish", "relink", "restore"} /\ vault # NoVault
       \/ at \in {"check", "backup", "remove", "open"} /\ vault = NoVault
       \/ at = "stat" /\ cmd[c].kind = "live" /\ vault = NoVault
       \/ at \in {"drop", "relink", "unback", "restore", "cleanup"} /\ rollback = NoVault
       \/ at = "backup" /\ rollback # NoVault
       \/ at = "save" /\ enrolled # "none"
       \/ at = "load" /\ enrolled = "none"

(* Mutant: a set-up undoes what it did not do. *)
UndoesAll(c) ==
    CASE cmd[c].pc = "remove" -> "unback"
      [] cmd[c].pc = "publish" -> "restore"
      [] cmd[c].pc = "cleanup" -> "deliver"
      [] cmd[c].pc \in {"create", "save"} /\ cmd[c].kind = "setup" -> "delete"
      [] cmd[c].pc = "sweep" -> AfterDeletion(c)
      [] OTHER -> "failed"

(* Where a failed file operation leads.  The failures of a rotation's own   *)
(* clean-up are a warning, those of a sweep are not looked at.              *)
OnError(c) ==
    CASE cmd[c].pc = "remove" -> "unback"
      [] cmd[c].pc = "publish" -> "restore"
      [] cmd[c].pc = "cleanup" -> "deliver"
      [] cmd[c].pc = "save" /\ cmd[c].kind = "setup" -> "delete"
      [] cmd[c].pc = "sweep" -> AfterDeletion(c)
      [] OTHER -> "failed"

Operations == Recovering \cup Rotating \cup
              {"create", "save", "delete", "sweep", "load", "stat", "open"}

Fail(c) ==
    /\ cmd[c].pc \in Operations
    /\ cmd' = [cmd EXCEPT ![c].pc = OnError(c)]
    /\ \/ Refused(c) /\ UNCHANGED vaultFaults
       \/ vaultFaults < MaxVaultFaults /\ vaultFaults' = vaultFaults + 1
    /\ UNCHANGED <<enrolled, vault, rollback, kept, kills, beside>>

Kill(c) ==
    /\ Active(c)
    /\ kills < MaxKills /\ kills' = kills + 1
    /\ cmd' = [cmd EXCEPT ![c].pc = "killed"]
    /\ UNCHANGED <<enrolled, vault, rollback, kept, vaultFaults, beside>>

Prompting(c) == AnswerSetup(c) \/ AnswerSet(c) \/ AnswerMaster(c) \/ Seal(c)
Recovery(c) == Look(c) \/ Clean(c) \/ LookBack(c) \/ Relink(c) \/ Drop(c)
Publication(c) ==
    \/ Create(c) \/ CheckExists(c) \/ BackUp(c) \/ RemoveOld(c) \/ Unback(c)
    \/ PublishNew(c) \/ RestoreOld(c) \/ CleanUp(c) \/ Deliver(c)
Handling(c) ==
    \/ SaveProfile(c) \/ Configure(c) \/ DeleteVault(c) \/ Sweep(c)
    \/ LoadProfile(c) \/ Stat(c) \/ Open(c)

VaultNext == \E c \in Command :
    \/ \E k \in Kind : Begin(c, k)
    \/ Prompting(c) \/ Recovery(c) \/ Publication(c) \/ Handling(c)
    \/ Fail(c) \/ Kill(c)

VaultSpec == VaultInit /\ [][VaultNext]_vaultVars

-----------------------------------------------------------------------------
(* Properties. *)

(* What the next command finds: recover puts the second name back when the  *)
(* first is missing.                                                        *)
Readable == IF vault # NoVault THEN vault ELSE rollback

Began(c, k) == cmd[c].kind = k /\ cmd[c].pc # "idle"
Undeleted == \A c \in Command : ~Began(c, "delete")
Unrotated == \A c \in Command : ~Began(c, "rotate")

(* What is claimed: one command at a time, whatever fails and wherever it   *)
(* is killed; or any number of them, as long as nobody rotates or deletes.  *)
Undisturbed == beside = 0 \/ (Undeleted /\ Unrotated)

(* Whatever fails and wherever a command is killed, the credential that was *)
(* committed last can be read, until somebody asks for it to be deleted: a  *)
(* rotation never leaves neither the old vault nor the new one.             *)
CredentialSurvives == Undisturbed /\ kept # NoVault => Readable = kept

(* The profile of a set-up is its commit marker: wherever it is, there is a *)
(* vault for it, unless somebody asked for the deletion of a vault.         *)
ProfileHasVault == Undisturbed /\ Undeleted /\ enrolled = "setup" => Readable # NoVault
=============================================================================
