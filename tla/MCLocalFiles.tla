----------------------------- MODULE MCLocalFiles -----------------------------
(* The stores of the user's configuration directory that several processes   *)
(* share: the ledger while it is opened, the vault of a profile and the      *)
(* records of failed onboardings.  They have no file in common, so that a    *)
(* behaviour is one of one store.                                            *)
EXTENDS LedgerOpen, VaultCommands, DiagnosticsStore

VARIABLE store

allVars == <<store, openVars, vaultVars, diagnosticsVars>>

LedgerSteps(A) == store = "ledger" /\ A /\ UNCHANGED <<store, vaultVars, diagnosticsVars>>

(* Commands are told apart by their number only, so they begin in its order. *)
MCCommand == 1..3
InOrder == \A c, d \in Command : c < d /\ cmd[d].pc # "idle" => cmd[c].pc # "idle"

MCInit ==
    /\ store \in {"ledger", "vault", "diagnostics"}
    /\ OpenInit /\ VaultInit /\ DiagnosticsInit
    /\ store # "ledger" => managed = {}

MCNext ==
    \/ LedgerSteps(OpenNext)
    \/ store = "vault" /\ VaultNext /\ InOrder' /\ UNCHANGED <<store, openVars, diagnosticsVars>>
    \/ store = "diagnostics" /\ DiagnosticsNext /\ UNCHANGED <<store, openVars, vaultVars>>

MCSpec ==
    /\ MCInit /\ [][MCNext]_allVars
    /\ \A p \in Opener : /\ WF_allVars(LedgerSteps(Opening(p)))
                         /\ WF_allVars(LedgerSteps(Close(p) /\ phase[p] = "failed"))

(* LedgerOpen, of the behaviours that open a ledger.                         *)
LedgerIsOpened == store = "ledger" => SomeoneOpens
=============================================================================
