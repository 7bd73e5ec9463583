------------------------------ MODULE AuditFile ------------------------------
(***************************************************************************)
(* audit.File: the durable, append-only audit sink, with its lock          *)
(* directory, its daily segments, the recovery of a torn tail at OpenFile  *)
(* and the retention of old segments.                                      *)
(*                                                                         *)
(* A segment is a set of complete records, of which some are synced, and   *)
(* perhaps an incomplete last one.  A crash (kill or power loss) keeps     *)
(* what is synced and any part of the rest; syncing a new file is taken to *)
(* make its directory entry durable too.  Record holds the sink's mutex    *)
(* from selectSegment to the sync, so that a sink writes one record at a   *)
(* time.  Days only advance.                                               *)
(***************************************************************************)
EXTENDS Integers, FiniteSets, FiniteSetsExt

CONSTANTS
    Process,           \* processes that open the sink, again and again
    Event,             \* audit events
    Recovered,         \* the record of a repair
    NoEvent,
    RetentionDays,     \* of operator.json, at least 1
    SegmentCap,        \* records: 64 MiB in the code
    LastDay,           \* bound: days go from 1 to LastDay
    MaxFaults,         \* bound: failed writes, syncs and removals
    MaxCrashes         \* bound: crashes

ASSUME AuditAssumption ==
    /\ Recovered \notin Event /\ NoEvent \notin Event
    /\ RetentionDays \in Nat \ {0}
    /\ SegmentCap \in Nat \ {0}
    /\ LastDay \in Nat \ {0}
    /\ MaxFaults \in Nat /\ MaxCrashes \in Nat

Day == 1..LastDay
Records == Event \cup {Recovered}

VARIABLES
    today,
    locked,        \* the directory audit.lock is there
    segments,      \* the days whose segment file exists
    written,       \* per day, the complete records in its segment
    synced,        \* per day, those that a crash cannot take away
    torn,          \* the days whose segment ends in an incomplete record
    pc,            \* per process
    at,            \* per process, the day recover has reached
    newest,        \* per process, the newest day recover found
    cutoff,        \* per process, the oldest day recover keeps
    segment,       \* per process, the day of the segment it has open, or 0
    record,        \* per process, the event it is recording
    saved,         \* per process, what a repair will write back
    acked,         \* history: <<event, day>> of each successful Record
    cut,           \* history: a repair was interrupted half way
    faults, crashes

fileVars == <<segments, written, synced, torn>>
sinkVars == <<at, newest, cutoff, segment, record, saved>>
history == <<acked, cut>>
vars == <<today, locked, fileVars, pc, sinkVars, history, faults, crashes>>

Stages == {"closed", "scan", "rewrite", "recovered", "retain", "open",
           "write", "sync", "poisoned"}

TypeOK ==
    /\ today \in Day
    /\ locked \in BOOLEAN
    /\ segments \subseteq Day
    /\ torn \subseteq segments
    /\ written \in [Day -> SUBSET Records]
    /\ synced \in [Day -> SUBSET Records] /\ \A d \in Day : synced[d] \subseteq written[d]
    /\ pc \in [Process -> Stages]
    /\ at \in [Process -> 0..LastDay + 1]
    /\ newest \in [Process -> 0..LastDay]
    /\ cutoff \in [Process -> Int]
    /\ segment \in [Process -> 0..LastDay]
    /\ record \in [Process -> Event \cup {NoEvent}]
    /\ saved \in [Process -> SUBSET Records]
    /\ acked \subseteq Event \X Day
    /\ cut \in BOOLEAN
    /\ faults \in 0..MaxFaults
    /\ crashes \in 0..MaxCrashes

Init ==
    /\ today = 1
    /\ locked = FALSE
    /\ segments = {} /\ torn = {}
    /\ written = [d \in Day |-> {}]
    /\ synced = [d \in Day |-> {}]
    /\ pc = [p \in Process |-> "closed"]
    /\ at = [p \in Process |-> 0]
    /\ newest = [p \in Process |-> 0]
    /\ cutoff = [p \in Process |-> 0]
    /\ segment = [p \in Process |-> 0]
    /\ record = [p \in Process |-> NoEvent]
    /\ saved = [p \in Process |-> {}]
    /\ acked = {}
    /\ cut = FALSE
    /\ faults = 0 /\ crashes = 0

-----------------------------------------------------------------------------

Step(p, from, to) == pc[p] = from /\ pc' = [pc EXCEPT ![p] = to]
Put(f, k, v) == [f EXCEPT ![k] = v]
Fault == faults < MaxFaults /\ faults' = faults + 1 /\ UNCHANGED crashes
NoFault == UNCHANGED <<faults, crashes>>

-----------------------------------------------------------------------------
(* OpenFile. *)

LockFree == ~locked

Cutoff == today + 1 - RetentionDays

(* Mkdir of audit.lock, and recover's listing of the segments; the day it   *)
(* reckons from is read once.                                               *)
OpenFile(p) ==
    /\ LockFree
    /\ Step(p, "closed", "scan")
    /\ locked' = TRUE
    /\ at' = Put(at, p, 1)
    /\ newest' = Put(newest, p, Max(segments \cup {0}))
    /\ cutoff' = Put(cutoff, p, Cutoff)
    /\ segment' = Put(segment, p, 0)
    /\ NoFault
    /\ UNCHANGED <<today, fileVars, record, saved, history>>

(* Every error of recover closes and removes the lock.                      *)
GiveUp(p) ==
    /\ pc' = [pc EXCEPT ![p] = "closed"]
    /\ locked' = FALSE

(* validateSegment of a segment without a torn tail, or of no segment.      *)
ScanSegment(p) ==
    /\ pc[p] = "scan" /\ at[p] \in Day
    /\ at[p] \notin torn
    /\ Step(p, "scan", "retain")
    /\ NoFault
    /\ UNCHANGED <<today, locked, fileVars, sinkVars, history>>

(* Only the newest segment is repaired, and only down to a newline in it.   *)
Repairable(p) == at[p] = newest[p] /\ written[at[p]] # {}

ScanFails(p) ==
    /\ pc[p] = "scan" /\ at[p] \in torn
    /\ ~Repairable(p)
    /\ GiveUp(p)
    /\ NoFault
    /\ UNCHANGED <<today, fileVars, sinkVars, history>>

(* O_TRUNC empties the file before what is to be kept is written back.      *)
Truncate(p) ==
    /\ pc[p] = "scan" /\ at[p] \in torn
    /\ Repairable(p)
    /\ Step(p, "scan", "rewrite")
    /\ saved' = Put(saved, p, written[at[p]])
    /\ torn' = torn \ {at[p]}
    /\ written' = Put(written, at[p], {})
    /\ synced' = Put(synced, at[p], {})
    /\ NoFault
    /\ UNCHANGED <<today, locked, segments, at, newest, cutoff, segment, record, history>>

Rewrite(p) ==
    /\ Step(p, "rewrite", "recovered")
    /\ written' = Put(written, at[p], saved[p])
    /\ synced' = Put(synced, at[p], saved[p])
    /\ NoFault
    /\ UNCHANGED <<today, locked, segments, torn, sinkVars, history>>

RewriteFails(p) ==
    /\ pc[p] = "rewrite"
    /\ GiveUp(p)
    /\ cut' = TRUE
    /\ Fault
    /\ UNCHANGED <<today, fileVars, sinkVars, acked>>

HasRoom(d) == Cardinality(written[d]) < SegmentCap

(* selectSegment: today's segment is open, created if it is not there.      *)
SelectSegment(p) ==
    /\ HasRoom(today)
    /\ segments' = segments \cup {today}
    /\ segment' = Put(segment, p, today)

(* recordRecovery appends to today's segment and syncs it.                  *)
RecordRecovery(p) ==
    /\ Step(p, "recovered", "retain")
    /\ SelectSegment(p)
    /\ written' = Put(written, today, written[today] \cup {Recovered})
    /\ synced' = Put(synced, today, written'[today])
    /\ NoFault
    /\ UNCHANGED <<today, locked, torn, at, newest, cutoff, record, saved, history>>

(* The segment is full, or the write or its sync fails, perhaps leaving a   *)
(* part of the record.                                                      *)
RecoveryFails(p) ==
    /\ pc[p] = "recovered"
    /\ GiveUp(p)
    /\ \/ ~HasRoom(today) /\ NoFault /\ UNCHANGED <<segments, torn>>
       \/ HasRoom(today) /\ Fault /\ segments' = segments \cup {today}
          /\ torn' \in {torn, torn \cup {today}}
    /\ UNCHANGED <<today, written, synced, sinkVars, history>>

(* A segment that was validated is removed if it is out of retention; the   *)
(* scan goes on, and ends with the sink open.                               *)
OutOfRetention(p) == at[p] \in segments /\ at[p] < cutoff[p]

Remove(d) ==
    /\ segments' = segments \ {d}
    /\ written' = Put(written, d, {})
    /\ synced' = Put(synced, d, {})
    /\ torn' = torn

Retain(p) ==
    /\ Step(p, "retain", IF at[p] = LastDay THEN "open" ELSE "scan")
    /\ at' = Put(at, p, at[p] + 1)
    /\ IF OutOfRetention(p) THEN Remove(at[p]) ELSE UNCHANGED fileVars
    /\ NoFault
    /\ UNCHANGED <<today, locked, newest, cutoff, segment, record, saved, history>>

(* The removal fails, or the sync of the directory after it.                *)
RetainFails(p) ==
    /\ pc[p] = "retain" /\ OutOfRetention(p)
    /\ GiveUp(p)
    /\ Remove(at[p]) \/ UNCHANGED fileVars
    /\ Fault
    /\ UNCHANGED <<today, sinkVars, history>>

-----------------------------------------------------------------------------
(* Record and Close. *)

(* Mutant: a storage fault does not poison the sink. *)
StayOpen(p) == "open"
Poison(p) == "poisoned"

Record(p, e) ==
    /\ \A d \in Day : <<e, d>> \notin acked /\ e \notin written[d]
    /\ Step(p, "open", "write")
    /\ SelectSegment(p)
    /\ record' = Put(record, p, e)
    /\ NoFault
    /\ UNCHANGED <<today, locked, written, synced, torn, at, newest, cutoff, saved, history>>

(* The segment is full, or cannot be created, or the last one not synced.   *)
SelectFails(p) ==
    /\ Step(p, "open", Poison(p))
    /\ \/ ~HasRoom(today) /\ NoFault
       \/ segment[p] # today /\ Fault
    /\ UNCHANGED <<today, locked, fileVars, sinkVars, history>>

Write(p) ==
    /\ Step(p, "write", "sync")
    /\ written' = Put(written, segment[p], written[segment[p]] \cup {record[p]})
    /\ NoFault
    /\ UNCHANGED <<today, locked, segments, synced, torn, sinkVars, history>>

(* An error, or a short write.                                              *)
WriteFails(p) ==
    /\ Step(p, "write", Poison(p))
    /\ torn' \in {torn, torn \cup {segment[p]}}
    /\ Fault
    /\ UNCHANGED <<today, locked, segments, written, synced, sinkVars, history>>

(* Mutant: the sync after the write is left out. *)
NotSynced(p) == synced
Synced(p) == [synced EXCEPT ![segment[p]] = written[segment[p]]]

Sync(p) ==
    /\ Step(p, "sync", "open")
    /\ synced' = Synced(p)
    /\ acked' = acked \cup {<<record[p], segment[p]>>}
    /\ NoFault
    /\ UNCHANGED <<today, locked, segments, written, torn, sinkVars, cut>>

SyncFails(p) ==
    /\ Step(p, "sync", Poison(p))
    /\ Fault
    /\ UNCHANGED <<today, locked, fileVars, sinkVars, history>>

Close(p) ==
    /\ Step(p, "open", "closed")
    /\ locked' = FALSE
    /\ NoFault
    /\ UNCHANGED <<today, fileVars, sinkVars, history>>

(* A poisoned sink keeps its lock; the process ends all the same.  So does  *)
(* one whose last sync fails.                                               *)
ClosePoisoned(p) ==
    /\ \/ Step(p, "poisoned", "closed") /\ NoFault
       \/ Step(p, "open", "closed") /\ Fault
    /\ UNCHANGED <<today, locked, fileVars, sinkVars, history>>

-----------------------------------------------------------------------------

Live(p) == pc[p] # "closed"

(* What is not synced may be gone, and what was being written may be there  *)
(* in part.                                                                 *)
Crash(p) ==
    /\ Live(p)
    /\ crashes < MaxCrashes /\ crashes' = crashes + 1
    /\ pc' = [pc EXCEPT ![p] = "closed"]
    /\ IF pc[p] \in {"write", "sync"}
       THEN LET d == segment[p]
            IN  \/ UNCHANGED <<written, torn>>
                \/ written' = Put(written, d, synced[d]) /\ torn' \in {torn, torn \cup {d}}
       ELSE UNCHANGED <<written, torn>>
    /\ cut' = (cut \/ pc[p] = "rewrite")
    /\ UNCHANGED <<today, locked, segments, synced, sinkVars, acked, faults>>

Unlock ==
    /\ locked /\ \A p \in Process : ~Live(p)
    /\ locked' = FALSE
    /\ UNCHANGED <<today, fileVars, pc, sinkVars, history, faults, crashes>>

Tick ==
    /\ today < LastDay
    /\ today' = today + 1
    /\ UNCHANGED <<locked, fileVars, pc, sinkVars, history, faults, crashes>>

Opening(p) ==
    \/ OpenFile(p) \/ ScanSegment(p) \/ ScanFails(p)
    \/ Truncate(p) \/ Rewrite(p) \/ RewriteFails(p)
    \/ RecordRecovery(p) \/ RecoveryFails(p) \/ Retain(p) \/ RetainFails(p)

Recording(p) ==
    \/ \E e \in Event : Record(p, e)
    \/ SelectFails(p) \/ Write(p) \/ WriteFails(p) \/ Sync(p) \/ SyncFails(p)

Next ==
    \/ \E p \in Process :
          Opening(p) \/ Recording(p) \/ Close(p) \/ ClosePoisoned(p) \/ Crash(p)
    \/ Unlock \/ Tick

Spec == Init /\ [][Next]_vars

-----------------------------------------------------------------------------
(* Properties. *)

(* What Record answered success for and the operator still wants retained,  *)
(* but neither its segment nor a repair that is rewriting it holds.         *)
Held(e, d) ==
    \/ d \in segments /\ e \in written[d]
    \/ \E p \in Process : pc[p] = "rewrite" /\ at[p] = d /\ e \in saved[p]
Lost == {x \in acked : x[2] >= today + 1 - RetentionDays /\ ~Held(x[1], x[2])}

(* Nothing is lost, whatever crashes, is repaired or expires, as long as no *)
(* repair was interrupted between its truncation and its rewriting.         *)
AckedRetained == ~cut => Lost = {}

(* Only the newest segment can have a torn tail, for a torn older segment   *)
(* makes every later OpenFile fail.                                         *)
OnlyNewestTorn == \A d \in torn : d = Max(segments)
=============================================================================
