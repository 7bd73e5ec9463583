-------------------------- MODULE AuditFile_proofs --------------------------
(***************************************************************************)
(* For any number of processes, events, days, faults and crashes: the sink *)
(* keeps what it acknowledged until its retention ends, and only its       *)
(* newest segment can have a torn tail.                                    *)
(***************************************************************************)
EXTENDS AuditFile, WellFoundedInduction, TLAPS

\* One process at a time has the sink open, and it has the lock.
Exclusive ==
    /\ \A p, q \in Process : Live(p) /\ Live(q) => p = q
    /\ \A p \in Process : Live(p) => locked

\* No segment is newer than today, and none is newer than a torn one.
Ordered ==
    /\ \A d \in segments : d <= today
    /\ \A d \in torn, s \in segments : s <= d

\* The scan comes upon a torn segment before it can go past it, and keeps no
\* less than the days that are to be retained by now.
Scans(p) ==
    /\ pc[p] \in {"scan", "rewrite", "recovered", "retain"} =>
          /\ at[p] \in Day
          /\ cutoff[p] <= today + 1 - RetentionDays
          /\ \A d \in torn : at[p] <= d
    /\ pc[p] = "retain" => at[p] \notin torn
    /\ pc[p] \in {"rewrite", "recovered", "open", "write", "sync"} => torn = {}
    /\ pc[p] = "rewrite" => at[p] \in segments /\ synced[at[p]] = {}

\* A record is appended to the newest segment.
Appends(p) ==
    /\ pc[p] \in {"write", "sync"} =>
          /\ record[p] \in Event
          /\ segment[p] \in segments
          /\ \A s \in segments : s <= segment[p]
    /\ pc[p] = "sync" => record[p] \in written[segment[p]]

Rewrites(p, e, d) == pc[p] = "rewrite" /\ at[p] = d /\ e \in saved[p]

\* What was acknowledged and is to be retained is synced in its segment, or is
\* in the hands of the process that is repairing it.
Durable ==
    ~cut =>
        \A e \in Event, d \in Day : <<e, d>> \in acked /\ d >= today + 1 - RetentionDays =>
            /\ d \in segments
            /\ e \in synced[d] \/ \E p \in Process : Rewrites(p, e, d)

\* The inductive invariant.
AuditInv ==
    /\ TypeOK
    /\ Exclusive
    /\ Ordered
    /\ \A p \in Process : Scans(p) /\ Appends(p)
    /\ Durable

----------------------------------------------------------------------------
\* A set of days, if it is not empty, has a newest one.
LEMMA NewestDay ==
    ASSUME NEW S, S \subseteq 0..LastDay, S # {}
    PROVE  Max(S) \in S /\ \A d \in S : d <= Max(S)
<1> DEFINE Ages == {n \in Nat : \E d \in S : n = LastDay - d}
           R == {s \in Nat \X Nat : s[1] < s[2]}
<1>1. LastDay \in Nat /\ \A d \in S : d \in Int /\ LastDay - d \in Ages
  BY AuditAssumption
<1>2. Ages \subseteq Nat /\ Ages # {}
  BY <1>1
<1>3. IsWellFoundedOn(R, Nat)
  BY NatLessThanWellFounded, Zenon DEF OpToRel
<1>4. PICK n \in Ages : \A m \in Ages : <<m, n>> \notin R
  <2> HIDE DEF Ages, R
  <2> QED BY <1>2, <1>3, WFMin
<1>5. \A m \in Ages : ~(m < n)
  BY <1>2, <1>4
<1>6. PICK d \in S : n = LastDay - d
  BY <1>4
<1>7. \A e \in S : d >= e
  BY <1>1, <1>5, <1>6
<1>8. QED
  BY <1>1, <1>7 DEF Max

----------------------------------------------------------------------------

LEMMA FaultTypes ==
    ASSUME TypeOK
    PROVE  /\ NoFault => faults' \in 0..MaxFaults /\ crashes' \in 0..MaxCrashes
           /\ Fault => faults' \in 0..MaxFaults /\ crashes' \in 0..MaxCrashes
           /\ crashes < MaxCrashes => crashes + 1 \in 0..MaxCrashes
<1>1. faults \in 0..MaxFaults /\ crashes \in 0..MaxCrashes /\ MaxFaults \in Nat /\ MaxCrashes \in Nat
  BY AuditAssumption DEF TypeOK
<1>2. QED
  BY <1>1 DEF NoFault, Fault

LEMMA PutType ==
    ASSUME NEW D, NEW S, NEW f \in [D -> S], NEW k \in D, NEW v \in S
    PROVE  /\ Put(f, k, v) \in [D -> S]
           /\ Put(f, k, v)[k] = v
           /\ \A i \in D \ {k} : Put(f, k, v)[i] = f[i]
BY DEF Put

\* While a process has the sink open, or takes the lock, no other is anywhere in it.
LEMMA Alone ==
    ASSUME AuditInv, NEW p \in Process, Live(p) \/ LockFree
    PROVE  \A q \in Process \ {p} : pc[q] = "closed"
BY DEF AuditInv, Exclusive, Live, LockFree

\* So that what a step leaves true of its process is true of all.
LEMMA ProcessStep ==
    ASSUME AuditInv, NEW p \in Process, Live(p) \/ LockFree, NEW to \in Stages,
           pc' = [pc EXCEPT ![p] = to],
           to = "closed" \/ (locked' /\ Scans(p)' /\ Appends(p)')
    PROVE  /\ pc' \in [Process -> Stages]
           /\ pc'[p] = to
           /\ \A q \in Process \ {p} : pc[q] = "closed" /\ pc'[q] = "closed"
           /\ Exclusive'
           /\ \A q \in Process : Scans(q)' /\ Appends(q)'
<1>1. pc \in [Process -> Stages]
  BY DEF AuditInv, TypeOK
<1>2. pc' \in [Process -> Stages] /\ pc'[p] = to /\ \A q \in Process \ {p} : pc'[q] = pc[q]
  BY <1>1
<1>3. \A q \in Process \ {p} : pc[q] = "closed"
  BY Alone
<1>4. Exclusive'
  BY <1>2, <1>3 DEF Exclusive, Live
<1>5. ASSUME NEW q \in Process, pc'[q] = "closed" PROVE Scans(q)' /\ Appends(q)'
  BY <1>5 DEF Scans, Appends
<1>6. QED
  BY <1>2, <1>3, <1>4, <1>5

\* A step that neither acknowledges a record nor takes anything out of a file loses nothing.
LEMMA DurableKept ==
    ASSUME AuditInv, UNCHANGED <<acked, cut>>,
           \A d \in Day : d >= today' + 1 - RetentionDays => d >= today + 1 - RetentionDays,
           segments \subseteq segments', \A d \in Day : synced[d] \subseteq synced'[d],
           \A q \in Process, e \in Event, d \in Day : Rewrites(q, e, d) => Rewrites(q, e, d)'
    PROVE  Durable'
<1>1. Durable
  BY DEF AuditInv
<1>2. SUFFICES ASSUME ~cut', NEW e \in Event, NEW d \in Day,
                      <<e, d>> \in acked', d >= today' + 1 - RetentionDays
               PROVE  /\ d \in segments'
                      /\ e \in synced'[d] \/ \E p \in Process : Rewrites(p, e, d)'
  BY DEF Durable
<1>3. <<e, d>> \in acked /\ ~cut
  BY <1>2
<1>4. d >= today + 1 - RetentionDays
  BY <1>2
<1>5. d \in segments /\ (e \in synced[d] \/ \E p \in Process : Rewrites(p, e, d))
  BY <1>1, <1>3, <1>4 DEF Durable
<1>6. QED
  BY <1>5

----------------------------------------------------------------------------
\* OpenFile.

LEMMA OpenFileKeeps == ASSUME AuditInv, NEW p \in Process, OpenFile(p) PROVE AuditInv'
<1>1. /\ pc[p] = "closed" /\ LockFree /\ locked'
      /\ pc' = [pc EXCEPT ![p] = "scan"]
      /\ UNCHANGED <<today, segments, written, synced, torn, record, saved, acked, cut>>
  BY DEF OpenFile, Step, fileVars, history
<1>2. TypeOK /\ today \in Int /\ RetentionDays \in Int /\ 1 \in Day /\ 1 \in 0..LastDay + 1
  BY AuditAssumption DEF AuditInv, TypeOK, Day
<1>3. Max(segments \cup {0}) \in 0..LastDay
  <2>1. segments \cup {0} \subseteq 0..LastDay
    BY AuditAssumption DEF AuditInv, TypeOK, Day
  <2>2. QED
    BY <2>1, NewestDay
<1>4. /\ at' \in [Process -> 0..LastDay + 1] /\ at'[p] = 1
      /\ \A q \in Process \ {p} : at'[q] = at[q]
      /\ newest' \in [Process -> 0..LastDay]
      /\ cutoff' \in [Process -> Int] /\ cutoff'[p] = Cutoff
      /\ segment' \in [Process -> 0..LastDay]
  BY <1>2, <1>3, AuditAssumption DEF OpenFile, TypeOK, Put, Cutoff
<1>5. Scans(p)' /\ Appends(p)'
  <2>1. pc'[p] = "scan"
    BY <1>1, <1>2 DEF TypeOK
  <2>2. \A d \in torn : 1 <= d
    BY <1>2, AuditAssumption DEF TypeOK, Day
  <2>3. QED
    BY <1>1, <1>2, <1>4, <2>1, <2>2 DEF Scans, Appends, Cutoff
<1>6. /\ pc' \in [Process -> Stages] /\ Exclusive'
      /\ \A q \in Process : Scans(q)' /\ Appends(q)'
      /\ pc'[p] = "scan" /\ \A q \in Process \ {p} : pc[q] = "closed"
  BY <1>1, <1>5, ProcessStep DEF Stages
<1>7. TypeOK'
  BY <1>1, <1>2, <1>4, <1>6, FaultTypes DEF OpenFile, TypeOK
<1>8. Ordered'
  BY <1>1 DEF AuditInv, Ordered
<1>9. Durable'
  <2>1. \A q \in Process : pc[q] # "rewrite"
    BY <1>1, <1>6
  <2>2. QED
    BY <1>1, <2>1, DurableKept DEF Rewrites
<1>10. QED
  BY <1>6, <1>7, <1>8, <1>9 DEF AuditInv

\* What closes the sink, and neither acknowledges nor removes anything.
LEMMA ClosesKeeps ==
    ASSUME AuditInv, NEW p \in Process, Live(p), TypeOK', Ordered', Durable',
           pc' = [pc EXCEPT ![p] = "closed"]
    PROVE  AuditInv'
<1>1. \A q \in Process : pc'[q] = "closed"
  BY Alone DEF AuditInv, TypeOK
<1>2. Exclusive' /\ \A q \in Process : Scans(q)' /\ Appends(q)'
  BY <1>1 DEF Exclusive, Live, Scans, Appends
<1>3. QED
  BY <1>2 DEF AuditInv

LEMMA ScanSegmentKeeps == ASSUME AuditInv, NEW p \in Process, ScanSegment(p) PROVE AuditInv'
<1>1. /\ pc[p] = "scan" /\ at[p] \in Day /\ at[p] \notin torn /\ Live(p)
      /\ pc' = [pc EXCEPT ![p] = "retain"]
      /\ UNCHANGED <<today, locked, segments, written, synced, torn, at, newest, cutoff, segment,
                     record, saved, acked, cut>>
  BY DEF ScanSegment, Step, fileVars, sinkVars, history, Live
<1>2. TypeOK /\ Scans(p) /\ locked
  BY <1>1 DEF AuditInv, Exclusive
<1>3. Scans(p)' /\ Appends(p)'
  BY <1>1, <1>2 DEF Scans, Appends, TypeOK
<1>4. /\ pc' \in [Process -> Stages] /\ Exclusive'
      /\ \A q \in Process : Scans(q)' /\ Appends(q)'
      /\ pc'[p] = "retain" /\ \A q \in Process \ {p} : pc[q] = "closed"
  BY <1>1, <1>2, <1>3, ProcessStep DEF Stages
<1>5. TypeOK'
  BY <1>1, <1>2, <1>4, FaultTypes DEF ScanSegment, TypeOK
<1>6. Ordered'
  BY <1>1 DEF AuditInv, Ordered
<1>7. Durable'
  BY <1>1, <1>4, DurableKept DEF Rewrites
<1>8. QED
  BY <1>4, <1>5, <1>6, <1>7 DEF AuditInv

LEMMA ScanFailsKeeps == ASSUME AuditInv, NEW p \in Process, ScanFails(p) PROVE AuditInv'
<1>1. /\ pc[p] = "scan" /\ Live(p) /\ locked' = FALSE
      /\ pc' = [pc EXCEPT ![p] = "closed"]
      /\ UNCHANGED <<today, segments, written, synced, torn, at, newest, cutoff, segment,
                     record, saved, acked, cut>>
  BY DEF ScanFails, GiveUp, fileVars, sinkVars, history, Live
<1>2. TypeOK /\ \A q \in Process \ {p} : pc[q] = "closed"
  BY <1>1, Alone DEF AuditInv
<1>3. TypeOK'
  BY <1>1, <1>2, FaultTypes DEF ScanFails, TypeOK, Stages
<1>4. Ordered' /\ Durable'
  BY <1>1, <1>2, DurableKept DEF AuditInv, Ordered, Rewrites
<1>5. QED
  BY <1>1, <1>3, <1>4, ClosesKeeps

LEMMA TruncateKeeps == ASSUME AuditInv, NEW p \in Process, Truncate(p) PROVE AuditInv'
<1> DEFINE d == at[p]
<1>1. /\ pc[p] = "scan" /\ d \in torn /\ Live(p)
      /\ pc' = [pc EXCEPT ![p] = "rewrite"]
      /\ saved' = Put(saved, p, written[d])
      /\ torn' = torn \ {d}
      /\ written' = Put(written, d, {})
      /\ synced' = Put(synced, d, {})
      /\ UNCHANGED <<today, locked, segments, at, newest, cutoff, segment, record, acked, cut>>
  BY DEF Truncate, Step, history, Live
<1>2. /\ TypeOK /\ Ordered /\ Scans(p) /\ locked /\ d \in Day /\ d \in segments
      /\ \A q \in Process \ {p} : pc[q] = "closed"
  BY <1>1, Alone DEF AuditInv, Exclusive, Scans, TypeOK
<1>3. /\ written[d] \in SUBSET Records
      /\ written' \in [Day -> SUBSET Records] /\ synced' \in [Day -> SUBSET Records]
      /\ saved' \in [Process -> SUBSET Records] /\ saved'[p] = written[d]
      /\ \A k \in Day : synced'[k] \subseteq written'[k]
      /\ synced'[d] = {} /\ \A k \in Day \ {d} : synced'[k] = synced[k]
  BY <1>1, <1>2 DEF TypeOK, Put
<1>4. torn' = {}
  <2>1. ASSUME NEW e \in torn PROVE e = d
    <3>1. e \in segments /\ e <= d /\ d <= e
      BY <1>1, <1>2, <2>1 DEF Ordered, Scans, TypeOK
    <3>2. e \in Int /\ d \in Int
      BY <1>2, <3>1, AuditAssumption DEF TypeOK, Day
    <3>3. QED
      BY <3>1, <3>2
  <2>2. QED
    BY <1>1, <2>1
<1>5. Scans(p)' /\ Appends(p)'
  <2>1. pc'[p] = "rewrite"
    BY <1>1, <1>2 DEF TypeOK
  <2>2. QED
    BY <1>1, <1>2, <1>3, <1>4, <2>1 DEF Scans, Appends
<1>6. /\ pc' \in [Process -> Stages] /\ Exclusive' /\ pc'[p] = "rewrite"
      /\ \A q \in Process : Scans(q)' /\ Appends(q)'
  BY <1>1, <1>2, <1>5, ProcessStep DEF Stages
<1>7. TypeOK'
  BY <1>1, <1>2, <1>3, <1>6, FaultTypes DEF Truncate, TypeOK
<1>8. Ordered'
  BY <1>1, <1>2, <1>4 DEF Ordered
<1>9. Durable'
  <2> SUFFICES ASSUME ~cut', NEW e \in Event, NEW k \in Day,
                      <<e, k>> \in acked', k >= today' + 1 - RetentionDays
               PROVE  /\ k \in segments'
                      /\ e \in synced'[k] \/ \E q \in Process : Rewrites(q, e, k)'
    BY DEF Durable
  <2>1. k \in segments /\ (e \in synced[k] \/ \E q \in Process : Rewrites(q, e, k))
    BY <1>1 DEF AuditInv, Durable
  <2>2. \A q \in Process : ~Rewrites(q, e, k)
    BY <1>1, <1>2 DEF Rewrites
  <2>3. CASE k = d
    <3>1. e \in saved'[p]
      BY <1>2, <1>3, <2>1, <2>2, <2>3 DEF TypeOK
    <3>2. Rewrites(p, e, k)'
      BY <1>1, <1>6, <2>3, <3>1 DEF Rewrites
    <3>3. QED
      BY <1>1, <2>1, <3>2
  <2>4. CASE k # d
    BY <1>1, <1>3, <2>1, <2>2, <2>4
  <2>5. QED
    BY <2>3, <2>4
<1>10. QED
  BY <1>6, <1>7, <1>8, <1>9 DEF AuditInv

LEMMA RewriteKeeps == ASSUME AuditInv, NEW p \in Process, Rewrite(p) PROVE AuditInv'
<1> DEFINE d == at[p]
<1>1. /\ pc[p] = "rewrite" /\ Live(p)
      /\ pc' = [pc EXCEPT ![p] = "recovered"]
      /\ written' = Put(written, d, saved[p])
      /\ synced' = Put(synced, d, saved[p])
      /\ UNCHANGED <<today, locked, segments, torn, at, newest, cutoff, segment, record, saved,
                     acked, cut>>
  BY DEF Rewrite, Step, sinkVars, history, Live
<1>2. /\ TypeOK /\ Ordered /\ Scans(p) /\ locked /\ d \in Day /\ d \in segments
      /\ synced[d] = {}
      /\ \A q \in Process \ {p} : pc[q] = "closed"
  BY <1>1, Alone DEF AuditInv, Exclusive, Scans
<1>3. /\ written' \in [Day -> SUBSET Records] /\ synced' \in [Day -> SUBSET Records]
      /\ \A k \in Day : synced'[k] \subseteq written'[k]
      /\ synced'[d] = saved[p] /\ \A k \in Day \ {d} : synced'[k] = synced[k]
  BY <1>1, <1>2 DEF TypeOK, Put
<1>4. Scans(p)' /\ Appends(p)'
  <2>1. pc'[p] = "recovered"
    BY <1>1, <1>2 DEF TypeOK
  <2>2. QED
    BY <1>1, <1>2, <2>1 DEF Scans, Appends
<1>5. /\ pc' \in [Process -> Stages] /\ Exclusive' /\ pc'[p] = "recovered"
      /\ \A q \in Process : Scans(q)' /\ Appends(q)'
  BY <1>1, <1>2, <1>4, ProcessStep DEF Stages
<1>6. TypeOK'
  BY <1>1, <1>2, <1>3, <1>5, FaultTypes DEF Rewrite, TypeOK
<1>7. Ordered'
  BY <1>1, <1>2 DEF Ordered
<1>8. Durable'
  <2> SUFFICES ASSUME ~cut', NEW e \in Event, NEW k \in Day,
                      <<e, k>> \in acked', k >= today' + 1 - RetentionDays
               PROVE  k \in segments' /\ e \in synced'[k]
    BY DEF Durable
  <2>1. k \in segments /\ (e \in synced[k] \/ \E q \in Process : Rewrites(q, e, k))
    BY <1>1 DEF AuditInv, Durable
  <2>2. \A q \in Process : Rewrites(q, e, k) => k = d /\ e \in saved[p]
    BY <1>1, <1>2 DEF Rewrites
  <2>3. QED
    BY <1>1, <1>2, <1>3, <2>1, <2>2
<1>9. QED
  BY <1>5, <1>6, <1>7, <1>8 DEF AuditInv

LEMMA RewriteFailsKeeps == ASSUME AuditInv, NEW p \in Process, RewriteFails(p) PROVE AuditInv'
<1>1. /\ pc[p] = "rewrite" /\ Live(p) /\ locked' = FALSE /\ cut' = TRUE
      /\ pc' = [pc EXCEPT ![p] = "closed"]
      /\ UNCHANGED <<today, segments, written, synced, torn, at, newest, cutoff, segment,
                     record, saved, acked>>
  BY DEF RewriteFails, GiveUp, fileVars, sinkVars, Live
<1>2. TypeOK'
  BY <1>1, FaultTypes DEF RewriteFails, AuditInv, TypeOK, Stages
<1>3. Ordered' /\ Durable'
  BY <1>1 DEF AuditInv, Ordered, Durable
<1>4. QED
  BY <1>1, <1>2, <1>3, ClosesKeeps

LEMMA RecordRecoveryKeeps == ASSUME AuditInv, NEW p \in Process, RecordRecovery(p) PROVE AuditInv'
<1>1. /\ pc[p] = "recovered" /\ Live(p)
      /\ pc' = [pc EXCEPT ![p] = "retain"]
      /\ segments' = segments \cup {today}
      /\ segment' = Put(segment, p, today)
      /\ written' = Put(written, today, written[today] \cup {Recovered})
      /\ synced' = Put(synced, today, written'[today])
      /\ UNCHANGED <<today, locked, torn, at, newest, cutoff, record, saved, acked, cut>>
  BY DEF RecordRecovery, SelectSegment, Step, history, Live
<1>2. /\ TypeOK /\ Ordered /\ Scans(p) /\ locked /\ torn = {} /\ today \in Day /\ today \in Int
      /\ \A q \in Process \ {p} : pc[q] = "closed"
  <2>1. /\ TypeOK /\ Ordered /\ Scans(p) /\ locked /\ torn = {} /\ today \in Day
        /\ \A q \in Process \ {p} : pc[q] = "closed"
    BY <1>1, Alone DEF AuditInv, Exclusive, Scans, TypeOK
  <2>2. QED
    BY <2>1, AuditAssumption DEF Day
<1>3. /\ written' \in [Day -> SUBSET Records] /\ synced' \in [Day -> SUBSET Records]
      /\ \A k \in Day : synced'[k] \subseteq written'[k]
      /\ \A k \in Day : synced[k] \subseteq synced'[k]
      /\ segment' \in [Process -> 0..LastDay]
  <2>1. written[today] \cup {Recovered} \in SUBSET Records /\ today \in 0..LastDay
    BY <1>2, AuditAssumption DEF TypeOK, Records, Day
  <2>2. QED
    BY <1>1, <1>2, <2>1 DEF TypeOK, Put
<1>4. Scans(p)' /\ Appends(p)'
  <2>1. pc'[p] = "retain"
    BY <1>1, <1>2 DEF TypeOK
  <2>2. QED
    BY <1>1, <1>2, <2>1 DEF Scans, Appends
<1>5. /\ pc' \in [Process -> Stages] /\ Exclusive' /\ pc'[p] = "retain"
      /\ \A q \in Process : Scans(q)' /\ Appends(q)'
  BY <1>1, <1>2, <1>4, ProcessStep DEF Stages
<1>6. TypeOK'
  BY <1>1, <1>2, <1>3, <1>5, FaultTypes DEF RecordRecovery, TypeOK
<1>7. Ordered'
  BY <1>1, <1>2 DEF Ordered
<1>8. Durable'
  BY <1>1, <1>2, <1>3, DurableKept DEF Rewrites
<1>9. QED
  BY <1>5, <1>6, <1>7, <1>8 DEF AuditInv

\* Today's segment, torn or not, is the newest.
LEMMA TodayTorn ==
    ASSUME AuditInv, torn = {}, today' = today, torn' \in {torn, torn \cup {today}},
           segments' = segments \cup {today}
    PROVE  Ordered' /\ segments' \subseteq Day /\ torn' \subseteq segments'
<1>1. today \in Day /\ today \in Int /\ Ordered /\ segments \subseteq Day
  BY AuditAssumption DEF AuditInv, TypeOK, Day
<1>2. \A s \in segments' : s <= today
  BY <1>1 DEF Ordered
<1>3. torn' \subseteq {today}
  OBVIOUS
<1>4. QED
  BY <1>1, <1>2, <1>3 DEF Ordered

LEMMA RecoveryFailsKeeps == ASSUME AuditInv, NEW p \in Process, RecoveryFails(p) PROVE AuditInv'
<1>1. /\ pc[p] = "recovered" /\ Live(p) /\ locked' = FALSE
      /\ pc' = [pc EXCEPT ![p] = "closed"]
      /\ UNCHANGED <<today, written, synced, at, newest, cutoff, segment, record, saved, acked, cut>>
      /\ \/ segments' = segments /\ torn' = torn /\ NoFault
         \/ segments' = segments \cup {today} /\ torn' \in {torn, torn \cup {today}} /\ Fault
  BY DEF RecoveryFails, GiveUp, sinkVars, history, Live
<1>2. TypeOK /\ torn = {} /\ \A q \in Process \ {p} : pc[q] = "closed"
  BY <1>1, Alone DEF AuditInv, Scans
<1>3. Ordered' /\ segments' \subseteq Day /\ torn' \subseteq segments'
  <2>1. CASE segments' = segments /\ torn' = torn
    BY <1>1, <2>1 DEF AuditInv, Ordered, TypeOK
  <2>2. CASE segments' = segments \cup {today} /\ torn' \in {torn, torn \cup {today}}
    BY <1>1, <1>2, <2>2, TodayTorn
  <2>3. QED
    BY <1>1, <2>1, <2>2
<1>4. TypeOK'
  BY <1>1, <1>2, <1>3, FaultTypes DEF TypeOK, Stages
<1>5. Durable'
  BY <1>1, <1>2, DurableKept DEF Rewrites
<1>6. QED
  BY <1>1, <1>3, <1>4, <1>5, ClosesKeeps

\* A segment goes only when it is not torn and no longer to be retained.
LEMMA RetainedData ==
    ASSUME AuditInv, NEW p \in Process, pc[p] = "retain", UNCHANGED <<today, acked, cut>>,
           (OutOfRetention(p) /\ Remove(at[p])) \/ UNCHANGED fileVars
    PROVE  /\ Ordered'
           /\ segments' \subseteq segments /\ torn' = torn /\ torn' \subseteq segments'
           /\ written' \in [Day -> SUBSET Records] /\ synced' \in [Day -> SUBSET Records]
           /\ \A k \in Day : synced'[k] \subseteq written'[k]
           /\ ~cut' => \A e \in Event, k \in Day :
                 <<e, k>> \in acked' /\ k >= today' + 1 - RetentionDays =>
                     k \in segments' /\ e \in synced'[k]
<1> DEFINE d == at[p]
<1>1. /\ TypeOK /\ Ordered /\ Scans(p) /\ d \in Day /\ d \in Int /\ d \notin torn
      /\ cutoff[p] <= today + 1 - RetentionDays
      /\ cutoff[p] \in Int /\ today \in Int /\ RetentionDays \in Int
      /\ \A q \in Process \ {p} : pc[q] = "closed"
  <2>1. /\ TypeOK /\ Ordered /\ Scans(p) /\ d \in Day /\ d \notin torn /\ today \in Day
        /\ cutoff[p] <= today + 1 - RetentionDays /\ cutoff[p] \in Int
        /\ \A q \in Process \ {p} : pc[q] = "closed"
    BY Alone DEF AuditInv, Scans, TypeOK, Live
  <2>2. QED
    BY <2>1, AuditAssumption DEF Day
<1>2. /\ segments' \subseteq segments /\ torn' = torn /\ torn' \subseteq segments'
      /\ written' \in [Day -> SUBSET Records] /\ synced' \in [Day -> SUBSET Records]
      /\ \A k \in Day : synced'[k] \subseteq written'[k]
      /\ \A k \in Day \ {d} : synced'[k] = synced[k] /\ (k \in segments => k \in segments')
      /\ (synced'[d] = synced[d] /\ segments' = segments) \/ d < cutoff[p]
  <2>1. CASE UNCHANGED fileVars
    BY <1>1, <2>1 DEF TypeOK, fileVars
  <2>2. CASE OutOfRetention(p) /\ Remove(d)
    BY <1>1, <2>2 DEF OutOfRetention, Remove, TypeOK, Put
  <2>3. QED
    BY <2>1, <2>2
<1>3. Ordered'
  BY <1>1, <1>2 DEF Ordered
<1>4. ASSUME ~cut', NEW e \in Event, NEW k \in Day,
             <<e, k>> \in acked', k >= today' + 1 - RetentionDays
      PROVE  k \in segments' /\ e \in synced'[k]
  <2>1. k \in segments /\ (e \in synced[k] \/ \E q \in Process : Rewrites(q, e, k))
    BY <1>4 DEF AuditInv, Durable
  <2>2. \A q \in Process : ~Rewrites(q, e, k)
    BY <1>1 DEF Rewrites
  <2>3. k # d \/ ~(d < cutoff[p])
    <3>1. k >= today + 1 - RetentionDays
      BY <1>4
    <3>2. QED
      BY <1>1, <3>1
  <2>4. QED
    BY <1>2, <2>1, <2>2, <2>3
<1>5. QED
  BY <1>2, <1>3, <1>4

LEMMA RetainKeeps == ASSUME AuditInv, NEW p \in Process, Retain(p) PROVE AuditInv'
<1> DEFINE to == IF at[p] = LastDay THEN "open" ELSE "scan"
<1>1. /\ pc[p] = "retain" /\ Live(p)
      /\ pc' = [pc EXCEPT ![p] = to]
      /\ at' = Put(at, p, at[p] + 1)
      /\ (OutOfRetention(p) /\ Remove(at[p])) \/ UNCHANGED fileVars
      /\ UNCHANGED <<today, locked, newest, cutoff, segment, record, saved, acked, cut>>
  BY DEF Retain, Step, history, Live
<1>2. /\ TypeOK /\ Scans(p) /\ locked /\ at[p] \in Day /\ to \in Stages \ {"rewrite"}
      /\ \A q \in Process \ {p} : pc[q] = "closed"
  BY <1>1, Alone DEF AuditInv, Exclusive, Scans, Stages
<1>3. /\ Ordered'
      /\ segments' \subseteq segments /\ torn' = torn /\ torn' \subseteq segments'
      /\ written' \in [Day -> SUBSET Records] /\ synced' \in [Day -> SUBSET Records]
      /\ \A k \in Day : synced'[k] \subseteq written'[k]
      /\ ~cut' => \A e \in Event, k \in Day : <<e, k>> \in acked' /\ k >= today' + 1 - RetentionDays =>
            k \in segments' /\ e \in synced'[k]
  BY <1>1, <1>2, RetainedData
<1>4. at' \in [Process -> 0..LastDay + 1] /\ at'[p] = at[p] + 1 /\ pc'[p] = to
  BY <1>1, <1>2, AuditAssumption DEF TypeOK, Day, Put
<1>5. Scans(p)' /\ Appends(p)'
  <2>1. \A e \in torn : e \in Int /\ at[p] <= e /\ e # at[p] /\ e <= LastDay
    BY <1>1, <1>2, AuditAssumption DEF Scans, TypeOK, Day
  <2>2. at[p] \in 1..LastDay /\ LastDay \in Int
    BY <1>2, AuditAssumption DEF Day
  <2>3. CASE at[p] = LastDay
    <3>1. torn = {}
      BY <2>1, <2>2, <2>3
    <3>2. pc'[p] = "open"
      BY <1>4, <2>3
    <3>3. QED
      BY <1>3, <3>1, <3>2 DEF Scans, Appends
  <2>4. CASE at[p] # LastDay
    <3>1. pc'[p] = "scan" /\ at'[p] \in Day /\ \A e \in torn : at'[p] <= e
      BY <1>4, <2>1, <2>2, <2>4 DEF Day
    <3>2. QED
      BY <1>1, <1>2, <1>3, <3>1 DEF Scans, Appends
  <2>5. QED
    BY <2>3, <2>4
<1>6. /\ pc' \in [Process -> Stages] /\ Exclusive'
      /\ \A q \in Process : Scans(q)' /\ Appends(q)'
  BY <1>1, <1>2, <1>5, ProcessStep
<1>7. TypeOK'
  BY <1>1, <1>2, <1>3, <1>4, <1>6, FaultTypes DEF Retain, TypeOK
<1>8. Durable'
  BY <1>3 DEF Durable
<1>9. QED
  BY <1>3, <1>6, <1>7, <1>8 DEF AuditInv

LEMMA RetainFailsKeeps == ASSUME AuditInv, NEW p \in Process, RetainFails(p) PROVE AuditInv'
<1>1. /\ pc[p] = "retain" /\ Live(p) /\ locked' = FALSE
      /\ pc' = [pc EXCEPT ![p] = "closed"]
      /\ (OutOfRetention(p) /\ Remove(at[p])) \/ UNCHANGED fileVars
      /\ UNCHANGED <<today, at, newest, cutoff, segment, record, saved, acked, cut>>
  BY DEF RetainFails, GiveUp, sinkVars, history, Live
<1>2. /\ Ordered' /\ TypeOK
      /\ segments' \subseteq segments /\ torn' = torn /\ torn' \subseteq segments'
      /\ written' \in [Day -> SUBSET Records] /\ synced' \in [Day -> SUBSET Records]
      /\ \A k \in Day : synced'[k] \subseteq written'[k]
      /\ ~cut' => \A e \in Event, k \in Day : <<e, k>> \in acked' /\ k >= today' + 1 - RetentionDays =>
            k \in segments' /\ e \in synced'[k]
  BY <1>1, RetainedData DEF AuditInv
<1>3. TypeOK'
  BY <1>1, <1>2, FaultTypes DEF RetainFails, TypeOK, Stages
<1>4. Durable'
  BY <1>2 DEF Durable
<1>5. QED
  BY <1>1, <1>2, <1>3, <1>4, ClosesKeeps

----------------------------------------------------------------------------
\* Record and Close.

LEMMA RecordKeeps ==
    ASSUME AuditInv, NEW p \in Process, NEW e \in Event, Record(p, e) PROVE AuditInv'
<1>1. /\ pc[p] = "open" /\ Live(p)
      /\ pc' = [pc EXCEPT ![p] = "write"]
      /\ segments' = segments \cup {today}
      /\ segment' = Put(segment, p, today)
      /\ record' = Put(record, p, e)
      /\ UNCHANGED <<today, locked, written, synced, torn, at, newest, cutoff, saved, acked, cut>>
  BY DEF Record, SelectSegment, Step, history, Live
<1>2. /\ TypeOK /\ Scans(p) /\ locked /\ torn = {} /\ today \in Day
      /\ \A q \in Process \ {p} : pc[q] = "closed"
  BY <1>1, Alone DEF AuditInv, Exclusive, Scans, TypeOK
<1>3. /\ segment' \in [Process -> 0..LastDay] /\ segment'[p] = today
      /\ record' \in [Process -> Event \cup {NoEvent}] /\ record'[p] = e
  BY <1>1, <1>2, AuditAssumption DEF TypeOK, Put, Day
<1>4. Ordered' /\ segments' \subseteq Day /\ torn' \subseteq segments'
  BY <1>1, <1>2, TodayTorn
<1>5. pc'[p] = "write"
  BY <1>1, <1>2 DEF TypeOK
<1>6. Scans(p)' /\ Appends(p)'
  BY <1>1, <1>2, <1>3, <1>4, <1>5 DEF Scans, Appends, Ordered
<1>7. /\ pc' \in [Process -> Stages] /\ Exclusive'
      /\ \A q \in Process : Scans(q)' /\ Appends(q)'
  BY <1>1, <1>2, <1>6, ProcessStep DEF Stages
<1>8. TypeOK'
  BY <1>1, <1>2, <1>3, <1>4, <1>7, FaultTypes DEF Record, TypeOK
<1>9. Durable'
  BY <1>1, <1>2, DurableKept DEF Rewrites
<1>10. QED
  BY <1>4, <1>7, <1>8, <1>9 DEF AuditInv

\* A sink that becomes poisoned stays as it is, but for what a short write left.
Poisons(p) ==
    /\ pc[p] \in {"open", "write", "sync"}
    /\ pc' = [pc EXCEPT ![p] = "poisoned"]
    /\ Fault \/ NoFault
    /\ torn' = torn \/ (pc[p] = "write" /\ torn' = torn \cup {segment[p]})
    /\ UNCHANGED <<today, locked, segments, written, synced, at, newest, cutoff, segment, record,
                   saved, acked, cut>>

LEMMA FailsPoison ==
    ASSUME NEW p \in Process, SelectFails(p) \/ WriteFails(p) \/ SyncFails(p)
    PROVE  Poisons(p)
<1>1. CASE SelectFails(p)
  BY <1>1 DEF SelectFails, Step, Poison, Poisons, fileVars, sinkVars, history
<1>2. CASE WriteFails(p)
  BY <1>2 DEF WriteFails, Step, Poison, Poisons, sinkVars, history
<1>3. CASE SyncFails(p)
  BY <1>3 DEF SyncFails, Step, Poison, Poisons, fileVars, sinkVars, history
<1>4. QED
  BY <1>1, <1>2, <1>3

LEMMA PoisonKeeps == ASSUME AuditInv, NEW p \in Process, Poisons(p) PROVE AuditInv'
<1>1. /\ Live(p) /\ pc[p] \in {"open", "write", "sync"}
      /\ pc' = [pc EXCEPT ![p] = "poisoned"]
      /\ Fault \/ NoFault
      /\ torn' = torn \/ (pc[p] = "write" /\ torn' = torn \cup {segment[p]})
      /\ UNCHANGED <<today, locked, segments, written, synced, at, newest, cutoff, segment, record,
                     saved, acked, cut>>
  BY DEF Poisons, Live
<1>2. /\ TypeOK /\ Ordered /\ Appends(p) /\ locked /\ torn = {}
      /\ \A q \in Process \ {p} : pc[q] = "closed"
  BY <1>1, Alone DEF AuditInv, Exclusive, Scans
<1>3. Ordered' /\ torn' \subseteq segments'
  BY <1>1, <1>2 DEF Ordered, Appends
<1>4. pc'[p] = "poisoned"
  BY <1>1, <1>2 DEF TypeOK
<1>5. Scans(p)' /\ Appends(p)'
  BY <1>4 DEF Scans, Appends
<1>6. /\ pc' \in [Process -> Stages] /\ Exclusive'
      /\ \A q \in Process : Scans(q)' /\ Appends(q)'
  <2>1. locked' /\ "poisoned" \in Stages
    BY <1>1, <1>2 DEF Stages
  <2>2. QED
    BY <1>1, <1>5, <2>1, ProcessStep
<1>7. TypeOK'
  BY <1>1, <1>2, <1>3, <1>6, FaultTypes DEF TypeOK
<1>8. Durable'
  BY <1>1, <1>2, DurableKept DEF Rewrites
<1>9. QED
  BY <1>3, <1>6, <1>7, <1>8 DEF AuditInv

LEMMA WriteKeeps == ASSUME AuditInv, NEW p \in Process, Write(p) PROVE AuditInv'
<1> DEFINE d == segment[p]
<1>1. /\ pc[p] = "write" /\ Live(p)
      /\ pc' = [pc EXCEPT ![p] = "sync"]
      /\ written' = Put(written, d, written[d] \cup {record[p]})
      /\ UNCHANGED <<today, locked, segments, synced, torn, at, newest, cutoff, segment, record,
                     saved, acked, cut>>
  BY DEF Write, Step, sinkVars, history, Live
<1>2. /\ TypeOK /\ Ordered /\ Scans(p) /\ Appends(p) /\ locked /\ torn = {} /\ d \in Day
      /\ record[p] \in Event
      /\ \A q \in Process \ {p} : pc[q] = "closed"
  BY <1>1, Alone DEF AuditInv, Exclusive, Scans, Appends, TypeOK
<1>3. /\ written' \in [Day -> SUBSET Records] /\ record[p] \in written'[d]
      /\ \A k \in Day : written[k] \subseteq written'[k]
  <2>1. written[d] \cup {record[p]} \in SUBSET Records
    BY <1>2 DEF TypeOK, Records
  <2>2. QED
    BY <1>1, <1>2, <2>1 DEF TypeOK, Put
<1>4. pc'[p] = "sync"
  BY <1>1, <1>2 DEF TypeOK
<1>5. Scans(p)' /\ Appends(p)'
  BY <1>1, <1>2, <1>3, <1>4 DEF Scans, Appends
<1>6. /\ pc' \in [Process -> Stages] /\ Exclusive'
      /\ \A q \in Process : Scans(q)' /\ Appends(q)'
  BY <1>1, <1>2, <1>5, ProcessStep DEF Stages
<1>7. TypeOK'
  BY <1>1, <1>2, <1>3, <1>6, FaultTypes DEF Write, TypeOK
<1>8. Ordered'
  BY <1>1, <1>2 DEF Ordered
<1>9. Durable'
  BY <1>1, <1>2, DurableKept DEF Rewrites
<1>10. QED
  BY <1>6, <1>7, <1>8, <1>9 DEF AuditInv

LEMMA SyncKeeps == ASSUME AuditInv, NEW p \in Process, Sync(p) PROVE AuditInv'
<1> DEFINE d == segment[p]
<1>1. /\ pc[p] = "sync" /\ Live(p)
      /\ pc' = [pc EXCEPT ![p] = "open"]
      /\ synced' = [synced EXCEPT ![d] = written[d]]
      /\ acked' = acked \cup {<<record[p], d>>}
      /\ UNCHANGED <<today, locked, segments, written, torn, at, newest, cutoff, segment, record,
                     saved, cut>>
  BY DEF Sync, Synced, Step, sinkVars, Live
<1>2. /\ TypeOK /\ Ordered /\ Scans(p) /\ locked /\ torn = {} /\ d \in Day /\ d \in segments
      /\ record[p] \in Event /\ record[p] \in written[d]
      /\ \A q \in Process \ {p} : pc[q] = "closed"
  BY <1>1, Alone DEF AuditInv, Exclusive, Scans, Appends, TypeOK
<1>3. /\ synced' \in [Day -> SUBSET Records] /\ record[p] \in synced'[d]
      /\ \A k \in Day : synced[k] \subseteq synced'[k] /\ synced'[k] \subseteq written[k]
  BY <1>1, <1>2 DEF TypeOK
<1>4. pc'[p] = "open"
  BY <1>1, <1>2 DEF TypeOK
<1>5. Scans(p)' /\ Appends(p)'
  BY <1>1, <1>2, <1>4 DEF Scans, Appends
<1>6. /\ pc' \in [Process -> Stages] /\ Exclusive'
      /\ \A q \in Process : Scans(q)' /\ Appends(q)'
  BY <1>1, <1>2, <1>5, ProcessStep DEF Stages
<1>7. TypeOK'
  BY <1>1, <1>2, <1>3, <1>6, FaultTypes DEF Sync, TypeOK
<1>8. Ordered'
  BY <1>1, <1>2 DEF Ordered
<1>9. Durable'
  <2> SUFFICES ASSUME ~cut', NEW e \in Event, NEW k \in Day,
                      <<e, k>> \in acked', k >= today' + 1 - RetentionDays
               PROVE  k \in segments' /\ e \in synced'[k]
    BY DEF Durable
  <2>1. CASE <<e, k>> \in acked
    <3>1. k \in segments /\ (e \in synced[k] \/ \E q \in Process : Rewrites(q, e, k))
      BY <1>1, <2>1 DEF AuditInv, Durable
    <3>2. \A q \in Process : ~Rewrites(q, e, k)
      BY <1>1, <1>2 DEF Rewrites
    <3>3. QED
      BY <1>1, <1>3, <3>1, <3>2
  <2>2. CASE e = record[p] /\ k = d
    BY <1>1, <1>2, <1>3, <2>2
  <2>3. QED
    BY <1>1, <2>1, <2>2
<1>10. QED
  BY <1>6, <1>7, <1>8, <1>9 DEF AuditInv

LEMMA CloseKeeps ==
    ASSUME AuditInv, NEW p \in Process, Close(p) \/ ClosePoisoned(p) PROVE AuditInv'
<1>1. /\ pc[p] \in {"open", "poisoned"} /\ Live(p) /\ locked' \in {FALSE, locked}
      /\ pc' = [pc EXCEPT ![p] = "closed"] /\ (Fault \/ NoFault)
      /\ UNCHANGED <<today, segments, written, synced, torn, at, newest, cutoff, segment,
                     record, saved, acked, cut>>
  BY DEF Close, ClosePoisoned, Step, fileVars, sinkVars, history, Live
<1>2. TypeOK /\ \A q \in Process \ {p} : pc[q] = "closed"
  BY <1>1, Alone DEF AuditInv
<1>3. TypeOK'
  BY <1>1, <1>2, FaultTypes DEF TypeOK, Stages
<1>4. Ordered' /\ Durable'
  BY <1>1, <1>2, DurableKept DEF AuditInv, Ordered, Rewrites
<1>5. QED
  BY <1>1, <1>3, <1>4, ClosesKeeps

LEMMA CrashKeeps == ASSUME AuditInv, NEW p \in Process, Crash(p) PROVE AuditInv'
<1> DEFINE d == segment[p]
<1>1. /\ Live(p) /\ crashes < MaxCrashes /\ crashes' = crashes + 1
      /\ pc' = [pc EXCEPT ![p] = "closed"]
      /\ cut' = (cut \/ pc[p] = "rewrite")
      /\ UNCHANGED <<today, locked, segments, synced, at, newest, cutoff, segment, record, saved,
                     acked, faults>>
      /\ \/ UNCHANGED <<written, torn>>
         \/ /\ pc[p] \in {"write", "sync"}
            /\ written' = Put(written, d, synced[d])
            /\ torn' \in {torn, torn \cup {d}}
  BY DEF Crash, sinkVars
<1>2. TypeOK /\ Ordered /\ Scans(p) /\ Appends(p) /\ \A q \in Process \ {p} : pc[q] = "closed"
  BY <1>1, Alone DEF AuditInv
<1>3. /\ Ordered' /\ torn' \subseteq segments'
      /\ written' \in [Day -> SUBSET Records] /\ \A k \in Day : synced'[k] \subseteq written'[k]
  <2>1. CASE UNCHANGED <<written, torn>>
    BY <1>1, <1>2, <2>1 DEF TypeOK, Ordered
  <2>2. CASE pc[p] \in {"write", "sync"} /\ written' = Put(written, d, synced[d])
             /\ torn' \in {torn, torn \cup {d}}
    <3>1. d \in Day /\ d \in segments /\ torn = {} /\ \A s \in segments : s <= d
      BY <1>2, <2>2 DEF Scans, Appends, TypeOK
    <3>2. Ordered' /\ torn' \subseteq segments'
      BY <1>1, <1>2, <2>2, <3>1 DEF Ordered
    <3>3. written' \in [Day -> SUBSET Records] /\ \A k \in Day : synced'[k] \subseteq written'[k]
      BY <1>1, <1>2, <2>2, <3>1 DEF TypeOK, Put
    <3>4. QED
      BY <3>2, <3>3
  <2>3. QED
    BY <1>1, <2>1, <2>2
<1>4. TypeOK'
  <2>1. cut' \in BOOLEAN
    BY <1>1, Zenon
  <2>2. QED
    BY <1>1, <1>2, <1>3, <2>1, FaultTypes DEF TypeOK, Stages
<1>5. Durable'
  <2>1. CASE pc[p] = "rewrite"
    BY <1>1, <2>1 DEF Durable
  <2>2. CASE pc[p] # "rewrite"
    <3>1. cut' = cut
      BY <1>1, <1>2, <2>2 DEF TypeOK
    <3>2. QED
      BY <1>1, <1>2, <2>2, <3>1, DurableKept DEF Rewrites
  <2>3. QED
    BY <2>1, <2>2
<1>6. QED
  BY <1>1, <1>3, <1>4, <1>5, ClosesKeeps

LEMMA UnlockKeeps == ASSUME AuditInv, Unlock PROVE AuditInv'
<1>1. /\ \A p \in Process : ~Live(p)
      /\ locked' = FALSE
      /\ UNCHANGED <<today, segments, written, synced, torn, pc, at, newest, cutoff, segment,
                     record, saved, acked, cut, faults, crashes>>
  BY DEF Unlock, fileVars, sinkVars, history
<1>2. TypeOK' /\ Exclusive' /\ Ordered'
  BY <1>1 DEF AuditInv, TypeOK, Exclusive, Live, Ordered
<1>3. \A p \in Process : Scans(p)' /\ Appends(p)'
  BY <1>1 DEF AuditInv, Scans, Appends
<1>4. Durable'
  BY <1>1, DurableKept DEF Rewrites
<1>5. QED
  BY <1>2, <1>3, <1>4 DEF AuditInv

LEMMA TickKeeps == ASSUME AuditInv, Tick PROVE AuditInv'
<1>1. /\ today < LastDay /\ today' = today + 1
      /\ UNCHANGED <<locked, segments, written, synced, torn, pc, at, newest, cutoff, segment,
                     record, saved, acked, cut, faults, crashes>>
  BY DEF Tick, fileVars, sinkVars, history
<1>2. today \in Int /\ today \in 1..LastDay /\ LastDay \in Int /\ RetentionDays \in Int
  BY AuditAssumption DEF AuditInv, TypeOK, Day
<1>3. TypeOK' /\ Exclusive'
  BY <1>1, <1>2 DEF AuditInv, TypeOK, Exclusive, Live, Day
<1>4. Ordered'
  <2>1. \A d \in segments : d \in Int /\ d <= today
    BY <1>2 DEF AuditInv, TypeOK, Ordered, Day
  <2>2. \A d \in segments : d <= today'
    BY <1>1, <1>2, <2>1
  <2>3. QED
    BY <1>1, <2>2 DEF AuditInv, Ordered
<1>5. ASSUME NEW p \in Process PROVE Scans(p)' /\ Appends(p)'
  <2>1. Scans(p) /\ Appends(p) /\ cutoff[p] \in Int
    BY DEF AuditInv, TypeOK
  <2>2. cutoff[p] <= today + 1 - RetentionDays => cutoff[p] <= today' + 1 - RetentionDays
    BY <1>1, <1>2, <2>1
  <2>3. QED
    BY <1>1, <2>1, <2>2 DEF Scans, Appends
<1>6. Durable'
  <2>1. \A d \in Day : d >= today' + 1 - RetentionDays => d >= today + 1 - RetentionDays
    BY <1>1, <1>2 DEF Day
  <2>2. QED
    BY <1>1, <2>1, DurableKept DEF Rewrites
<1>7. QED
  BY <1>3, <1>4, <1>5, <1>6 DEF AuditInv

LEMMA StutterKeeps == ASSUME AuditInv, UNCHANGED vars PROVE AuditInv'
<1>1. UNCHANGED <<today, locked, segments, written, synced, torn, pc, at, newest, cutoff, segment,
                  record, saved, acked, cut, faults, crashes>>
  BY DEF vars, fileVars, sinkVars, history
<1>2. TypeOK' /\ Exclusive' /\ Ordered'
  BY <1>1 DEF AuditInv, TypeOK, Exclusive, Live, Ordered
<1>3. \A p \in Process : Scans(p)' /\ Appends(p)'
  BY <1>1 DEF AuditInv, Scans, Appends
<1>4. Durable'
  BY <1>1, DurableKept DEF Rewrites
<1>5. QED
  BY <1>2, <1>3, <1>4 DEF AuditInv

----------------------------------------------------------------------------

LEMMA InitAudits == Init => AuditInv
<1> SUFFICES ASSUME Init PROVE AuditInv
  OBVIOUS
<1>1. TypeOK
  <2>1. 1 \in Day /\ 0 \in 0..LastDay /\ 0 \in 0..LastDay + 1 /\ 0 \in 0..MaxFaults /\ 0 \in 0..MaxCrashes
    BY AuditAssumption DEF Day
  <2>2. /\ written \in [Day -> SUBSET Records] /\ synced \in [Day -> SUBSET Records]
        /\ \A d \in Day : synced[d] \subseteq written[d]
        /\ saved \in [Process -> SUBSET Records]
    BY DEF Init
  <2>3. /\ pc \in [Process -> Stages] /\ at \in [Process -> 0..LastDay + 1]
        /\ newest \in [Process -> 0..LastDay] /\ segment \in [Process -> 0..LastDay]
        /\ cutoff \in [Process -> Int] /\ record \in [Process -> Event \cup {NoEvent}]
    BY <2>1 DEF Init, Stages
  <2>4. today \in Day /\ faults \in 0..MaxFaults /\ crashes \in 0..MaxCrashes
    BY <2>1 DEF Init
  <2>5. QED
    BY <2>2, <2>3, <2>4 DEF Init, TypeOK
<1>2. QED
  BY <1>1 DEF Init, AuditInv, Exclusive, Live, Ordered, Scans, Appends, Durable

LEMMA StepAudits == AuditInv /\ [Next]_vars => AuditInv'
<1> SUFFICES ASSUME AuditInv, [Next]_vars PROVE AuditInv'
  OBVIOUS
<1>1. ASSUME NEW p \in Process, Opening(p) PROVE AuditInv'
  BY <1>1, OpenFileKeeps, ScanSegmentKeeps, ScanFailsKeeps, TruncateKeeps, RewriteKeeps,
     RewriteFailsKeeps, RecordRecoveryKeeps, RecoveryFailsKeeps, RetainKeeps, RetainFailsKeeps
  DEF Opening
<1>2. ASSUME NEW p \in Process, Recording(p) PROVE AuditInv'
  BY <1>2, RecordKeeps, WriteKeeps, SyncKeeps, FailsPoison, PoisonKeeps
  DEF Recording
<1>3. ASSUME NEW p \in Process, Close(p) \/ ClosePoisoned(p) \/ Crash(p) PROVE AuditInv'
  BY <1>3, CloseKeeps, CrashKeeps
<1>4. QED
  BY <1>1, <1>2, <1>3, UnlockKeeps, TickKeeps, StutterKeeps DEF Next

LEMMA AlwaysAudits == Spec => []AuditInv
BY InitAudits, StepAudits, PTL DEF Spec

\* Nothing that Record answered success for is lost before its retention ends,
\* whatever crashes, is repaired or expires, unless a repair was cut short.
THEOREM AuditIsRetained == Spec => []AckedRetained
<1>1. ASSUME AuditInv PROVE AckedRetained
  <2> SUFFICES ASSUME ~cut, NEW x \in Lost PROVE FALSE
    BY DEF AckedRetained
  <2>1. PICK e \in Event, d \in Day : x = <<e, d>>
    BY <1>1 DEF Lost, AuditInv, TypeOK
  <2>2. x[1] = e /\ x[2] = d /\ <<e, d>> \in acked
    BY <2>1 DEF Lost
  <2>3. d >= today + 1 - RetentionDays /\ ~Held(e, d)
    BY <2>2 DEF Lost
  <2>4. d \in segments /\ (e \in synced[d] \/ \E p \in Process : Rewrites(p, e, d))
    BY <1>1, <2>2, <2>3 DEF AuditInv, Durable
  <2>5. Held(e, d)
    BY <1>1, <2>4 DEF Held, Rewrites, AuditInv, TypeOK
  <2>6. QED
    BY <2>3, <2>5
<1>2. QED
  BY <1>1, AlwaysAudits, PTL

\* A torn tail is never left behind in a segment that is not the newest, where
\* no OpenFile could repair it.
THEOREM TornIsNewest == Spec => []OnlyNewestTorn
<1>1. ASSUME AuditInv PROVE OnlyNewestTorn
  <2> SUFFICES ASSUME NEW d \in torn PROVE d = Max(segments)
    BY DEF OnlyNewestTorn
  <2>1. /\ d \in segments /\ segments \subseteq Day
        /\ \A s \in segments : s <= d
    BY <1>1 DEF AuditInv, TypeOK, Ordered
  <2>2. segments \subseteq 0..LastDay /\ \A s \in segments : s \in Int
    BY <2>1, AuditAssumption DEF Day
  <2>3. Max(segments) \in segments /\ d <= Max(segments)
    BY <2>1, <2>2, NewestDay
  <2>4. d \in Int /\ Max(segments) \in Int /\ Max(segments) <= d
    BY <2>1, <2>2, <2>3
  <2>5. QED
    BY <2>3, <2>4
<1>2. QED
  BY <1>1, AlwaysAudits, PTL

\* The variables keep their types.
THEOREM AuditTypes == Spec => []TypeOK
<1>1. AuditInv => TypeOK
  BY DEF AuditInv
<1>2. QED
  BY <1>1, AlwaysAudits, PTL
=============================================================================
