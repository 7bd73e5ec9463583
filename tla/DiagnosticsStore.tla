-------------------------- MODULE DiagnosticsStore --------------------------
(***************************************************************************)
(* The records of failed onboardings, onboardingdiagnostics.Store: one file *)
(* per record in a directory that several processes share without a lock.  *)
(* A call reads the whole directory, removes what is too old, makes room   *)
(* for one more, creates a file and then writes it.                        *)
(*                                                                         *)
(* A record is named by a random reference; since only its novelty matters, *)
(* references are numbered in the order in which they are drawn.           *)
(***************************************************************************)
EXTENDS Naturals, FiniteSets

CONSTANTS
    Recorder,       \* processes
    MaxRecords,     \* the limit of the store
    MaxAge,         \* ticks a record is kept
    MaxReferences,  \* bound: references drawn
    LastTick,       \* bound: ticks of the clock
    MaxMishaps      \* bound: file operations that fail, processes killed

ASSUME RecorderAssumption ==
    /\ IsFiniteSet(Recorder)
    /\ MaxRecords \in Nat \ {0}
    /\ MaxAge \in Nat
    /\ MaxReferences \in Nat
    /\ LastTick \in Nat
    /\ MaxMishaps \in Nat

VARIABLES
    present,    \* the references that name a file
    whole,      \* those of them whose record was written
    stamp,      \* reference -> the tick its record carries
    drawn,      \* references drawn so far
    tick,       \* the clock
    entry,      \* per process, the call of Record under way
    mishaps

diagnosticsVars == <<present, whole, stamp, drawn, tick, entry, mishaps>>

Ref == 1..MaxReferences
Tick == 0..LastTick
RecordSteps == {"idle", "list", "read", "prune", "evict", "create", "write", "sync"}

(* now: when the call began; unread: listed and not read yet; found: read; *)
(* ref: the record it makes.                                               *)
EntryState == [pc : RecordSteps, now : Tick, unread : SUBSET Ref, found : SUBSET Ref,
               ref : 0..MaxReferences]
NoEntry == [pc |-> "idle", now |-> 0, unread |-> {}, found |-> {}, ref |-> 0]

DiagnosticsTypeOK ==
    /\ present \subseteq Ref
    /\ whole \subseteq present
    /\ stamp \in [Ref -> Tick]
    /\ drawn \in 0..MaxReferences
    /\ present \subseteq 1..drawn
    /\ tick \in Tick
    /\ entry \in [Recorder -> EntryState]
    /\ mishaps \in 0..MaxMishaps

DiagnosticsInit ==
    /\ present = {} /\ whole = {} /\ stamp = [r \in Ref |-> 0] /\ drawn = 0
    /\ tick = 0
    /\ entry = [p \in Recorder |-> NoEntry]
    /\ mishaps = 0

-----------------------------------------------------------------------------

Becomes(p, from, e) == entry[p].pc = from /\ entry' = [entry EXCEPT ![p] = e]

(* The directory exists or is created; the clock is read before the         *)
(* directory is.                                                            *)
Record(p) ==
    /\ Becomes(p, "idle", [NoEntry EXCEPT !.pc = "list", !.now = tick])
    /\ UNCHANGED <<present, whole, stamp, drawn, tick, mishaps>>

List(p) ==
    /\ Becomes(p, "list", [entry[p] EXCEPT !.pc = "read", !.unread = present])
    /\ UNCHANGED <<present, whole, stamp, drawn, tick, mishaps>>

(* A listed file that is gone, or is not a record yet, ends the call.       *)
ReadRecord(p) ==
    /\ \E r \in entry[p].unread \cap whole :
          Becomes(p, "read", [entry[p] EXCEPT !.unread = @ \ {r}, !.found = @ \cup {r}])
    /\ UNCHANGED <<present, whole, stamp, drawn, tick, mishaps>>

Expired(p) == {r \in entry[p].found : stamp[r] + MaxAge < entry[p].now}

ReadAll(p) ==
    /\ entry[p].unread = {}
    /\ Becomes(p, "read", [entry[p] EXCEPT !.pc = "prune"])
    /\ UNCHANGED <<present, whole, stamp, drawn, tick, mishaps>>

(* A file that is not there any more cannot be removed.                     *)
Removes(r) == r \in present /\ present' = present \ {r} /\ whole' = whole \ {r}

Prune(p) ==
    /\ \E r \in Expired(p) :
          /\ Becomes(p, "prune", [entry[p] EXCEPT !.found = @ \ {r}])
          /\ Removes(r)
    /\ UNCHANGED <<stamp, drawn, tick, mishaps>>

(* Mutant: the store is full only when the limit has been passed. *)
FullBeyond(p) == Cardinality(entry[p].found) > MaxRecords
Full(p) == Cardinality(entry[p].found) >= MaxRecords

Pruned(p) ==
    /\ Expired(p) = {}
    /\ Becomes(p, "prune", [entry[p] EXCEPT !.pc = IF Full(p) THEN "evict" ELSE "create"])
    /\ UNCHANGED <<present, whole, stamp, drawn, tick, mishaps>>

Oldest(S) == {r \in S : \A s \in S : stamp[r] <= stamp[s]}

Evict(p) ==
    /\ \E r \in Oldest(entry[p].found) :
          /\ Becomes(p, "evict", [entry[p] EXCEPT !.pc = "create"])
          /\ Removes(r)
    /\ UNCHANGED <<stamp, drawn, tick, mishaps>>

(* The new file is empty until it is written.                               *)
CreateFile(p) ==
    /\ drawn < MaxReferences /\ drawn' = drawn + 1
    /\ Becomes(p, "create", [entry[p] EXCEPT !.pc = "write", !.ref = drawn + 1])
    /\ present' = present \cup {drawn + 1}
    /\ stamp' = [stamp EXCEPT ![drawn + 1] = entry[p].now]
    /\ UNCHANGED <<whole, tick, mishaps>>

WriteRecord(p) ==
    /\ entry[p].ref \in present
    /\ Becomes(p, "write", [entry[p] EXCEPT !.pc = "sync"])
    /\ whole' = whole \cup {entry[p].ref}
    /\ UNCHANGED <<present, stamp, drawn, tick, mishaps>>

Return(p) ==
    /\ Becomes(p, "sync", NoEntry)
    /\ UNCHANGED <<present, whole, stamp, drawn, tick, mishaps>>

(* What another process did to the files makes an operation fail; so may    *)
(* anything else.  Whatever fails, the call returns no reference and leaves *)
(* the files as they are.                                                   *)
Thwarted(p) ==
    \/ entry[p].pc = "read" /\ entry[p].unread \ whole # {}
    \/ entry[p].pc = "prune" /\ Expired(p) \ present # {}
    \/ entry[p].pc = "evict" /\ Oldest(entry[p].found) \ present # {}

Mishap == mishaps < MaxMishaps /\ mishaps' = mishaps + 1

RecordFails(p) ==
    /\ entry[p].pc # "idle"
    /\ entry' = [entry EXCEPT ![p] = NoEntry]
    /\ (Thwarted(p) /\ UNCHANGED mishaps) \/ Mishap
    /\ UNCHANGED <<present, whole, stamp, drawn, tick>>

Die(p) ==
    /\ entry[p].pc # "idle"
    /\ Mishap
    /\ entry' = [entry EXCEPT ![p] = NoEntry]
    /\ UNCHANGED <<present, whole, stamp, drawn, tick>>

Passes ==
    /\ tick < LastTick /\ tick' = tick + 1
    /\ UNCHANGED <<present, whole, stamp, drawn, entry, mishaps>>

Recording(p) ==
    \/ Record(p) \/ List(p) \/ ReadRecord(p) \/ ReadAll(p) \/ Prune(p) \/ Pruned(p)
    \/ Evict(p) \/ CreateFile(p) \/ WriteRecord(p) \/ Return(p) \/ RecordFails(p) \/ Die(p)

DiagnosticsNext == Passes \/ \E p \in Recorder : Recording(p)
DiagnosticsSpec == DiagnosticsInit /\ [][DiagnosticsNext]_diagnosticsVars

-----------------------------------------------------------------------------
(* Properties. *)

(* The limit holds for one process; each other one that counts the records  *)
(* before the first has made its own can add one, and no more, however      *)
(* often they do so and whatever fails in between.                          *)
StaysBounded == Cardinality(present) <= MaxRecords + Cardinality(Recorder) - 1
=============================================================================
