----------------------------- MODULE LedgerOpen -----------------------------
(***************************************************************************)
(* Opening the ownership database: sqlite.Open, open, initialize, verify   *)
(* and the integrity verifier, by processes that may start together and    *)
(* may die half way.                                                       *)
(*                                                                         *)
(* Open first makes sure, through localstate.CreateManagedFile, that the   *)
(* file exists; open then stats it to tell a new ledger from an existing   *)
(* one.  Of the settings open asks for, SQLite keeps application_id,       *)
(* user_version and the schema in the file; synchronous and busy_timeout   *)
(* belong to the connection and start from SQLite's defaults.              *)
(***************************************************************************)
EXTENDS Naturals

CONSTANTS
    Opener,
    MaxCrashes,    \* bound: processes killed
    MaxOpenFaults      \* bound: failed statements and integrity queries

ASSUME OpenAssumption ==
    /\ MaxCrashes \in Nat
    /\ MaxOpenFaults \in Nat

(* What initialize sets, in its order; journal_mode is SQLite's default.    *)
InFile == {"application_id", "user_version", "schema"}
OfConnection == {"synchronous", "busy_timeout"}
Settings == InFile \cup OfConnection

(* Mutant: the durability pragma is forgotten. *)
WithoutSynchronous == "busy_timeout"
First == "synchronous"
After == [synchronous |-> "busy_timeout", busy_timeout |-> "application_id",
          application_id |-> "user_version", user_version |-> "schema",
          schema |-> "verify"]

VARIABLES
    managed,       \* the processes that call sqlite.Open, as serve does;
                   \* the others call open, as the package's tests do
    exists,        \* is there an ownership.db
    content,       \* what the file holds
    session,       \* per process, what its connection has set
    phase,         \* per process
    checked,       \* per process, the integrity verifier passed
    crashes, misses

openVars == <<managed, exists, content, session, phase, checked, crashes, misses>>

OpenStages == {"closed", "manage", "stat", "integrity", "verify", "open", "failed"}

OpenTypeOK ==
    /\ managed \subseteq Opener
    /\ exists \in BOOLEAN
    /\ content \subseteq InFile
    /\ session \in [Opener -> SUBSET OfConnection]
    /\ phase \in [Opener -> OpenStages \cup Settings]
    /\ checked \in [Opener -> BOOLEAN]
    /\ crashes \in 0..MaxCrashes
    /\ misses \in 0..MaxOpenFaults

OpenInit ==
    /\ managed \in SUBSET Opener
    /\ exists = FALSE
    /\ content = {}
    /\ session = [p \in Opener |-> {}]
    /\ phase = [p \in Opener |-> "closed"]
    /\ checked = [p \in Opener |-> FALSE]
    /\ crashes = 0 /\ misses = 0

-----------------------------------------------------------------------------

Moves(p, from, to) == phase[p] = from /\ phase' = [phase EXCEPT ![p] = to]

Start(p) ==
    /\ Moves(p, "closed", IF p \in managed THEN "manage" ELSE "stat")
    /\ session' = [session EXCEPT ![p] = {}]
    /\ checked' = [checked EXCEPT ![p] = FALSE]
    /\ UNCHANGED <<managed, exists, content, crashes, misses>>

(* CreateManagedFile opens with O_CREAT and leaves an empty file behind.    *)
Manage(p) ==
    /\ Moves(p, "manage", "stat")
    /\ exists' = TRUE
    /\ UNCHANGED <<managed, content, session, checked, crashes, misses>>

(* An existing file is verified; a missing one is initialized, and appears  *)
(* when the first statement runs.                                           *)
StatFile(p) ==
    /\ Moves(p, "stat", IF exists THEN "integrity" ELSE First)
    /\ UNCHANGED <<managed, exists, content, session, checked, crashes, misses>>

KeptIn(s, kept) == {s} \cap kept

(* CREATE TABLE fails if another process has created the table.             *)
Initialize(p) ==
    \E s \in Settings :
        /\ s = "schema" => s \notin content
        /\ Moves(p, s, After[s])
        /\ exists' = TRUE
        /\ content' = content \cup KeptIn(s, InFile)
        /\ session' = [session EXCEPT ![p] = @ \cup KeptIn(s, OfConnection)]
        /\ UNCHANGED <<managed, checked, crashes, misses>>

InitializeFails(p) ==
    /\ phase[p] \in Settings
    /\ phase' = [phase EXCEPT ![p] = "failed"]
    /\ \/ phase[p] = "schema" /\ "schema" \in content /\ UNCHANGED misses
       \/ misses < MaxOpenFaults /\ misses' = misses + 1
    /\ UNCHANGED <<managed, exists, content, session, checked, crashes>>

(* A new ledger passes through verify before the integrity check, an        *)
(* existing one after it; the check of a healthy file passes unless its     *)
(* second is over.                                                          *)
Integrity(p) ==
    /\ Moves(p, "integrity", IF session[p] = {} THEN "verify" ELSE "open")
    /\ checked' = [checked EXCEPT ![p] = TRUE]
    /\ UNCHANGED <<managed, exists, content, session, crashes, misses>>

IntegrityFails(p) ==
    /\ misses < MaxOpenFaults /\ misses' = misses + 1
    /\ Moves(p, "integrity", "failed")
    /\ UNCHANGED <<managed, exists, content, session, checked, crashes>>

(* Mutant: the connection's own pragmas are not looked at. *)
AcceptsFile(p) == content = InFile
Accepts(p) == content = InFile /\ session[p] = OfConnection

Verify(p) ==
    /\ Moves(p, "verify", IF ~Accepts(p) THEN "failed"
                         ELSE IF checked[p] THEN "open" ELSE "integrity")
    /\ UNCHANGED <<managed, exists, content, session, checked, crashes, misses>>

Close(p) ==
    /\ phase[p] \in {"open", "failed"}
    /\ phase' = [phase EXCEPT ![p] = "closed"]
    /\ UNCHANGED <<managed, exists, content, session, checked, crashes, misses>>

Crash(p) ==
    /\ phase[p] # "closed"
    /\ crashes < MaxCrashes /\ crashes' = crashes + 1
    /\ phase' = [phase EXCEPT ![p] = "closed"]
    /\ UNCHANGED <<managed, exists, content, session, checked, misses>>

Opening(p) ==
    \/ Start(p) \/ Manage(p) \/ StatFile(p) \/ Initialize(p) \/ InitializeFails(p)
    \/ Integrity(p) \/ IntegrityFails(p) \/ Verify(p)

OpenNext == \E p \in Opener : Opening(p) \/ Close(p) \/ Crash(p)

OpenSpec == OpenInit /\ [][OpenNext]_openVars

(* A start-up runs to its end, and a failed one is tried again.             *)
FairOpenSpec == OpenSpec /\ \A p \in Opener :
    WF_openVars(Opening(p)) /\ WF_openVars(Close(p) /\ phase[p] = "failed")

-----------------------------------------------------------------------------
(* Properties. *)

(* A ledger in use is complete, has been checked, and is written with the   *)
(* durability that was asked for, however many processes started together   *)
(* and wherever one of them died.                                           *)
OpenIsVerified ==
    \A p \in Opener : phase[p] = "open" =>
        content = InFile /\ checked[p] /\ session[p] = OfConnection

(* Of processes that start together on a new root, one initializes the      *)
(* ledger and opens it, whatever the others find half way, unless one dies  *)
(* or fails there or has put an empty file in place.                        *)
SomeoneOpens ==
    managed = {} /\ [](crashes = 0 /\ misses = 0) => <>(\E p \in Opener : phase[p] = "open")
=============================================================================
