----------------------------- MODULE LeaseStore -----------------------------
(***************************************************************************)
(* source.LeaseStore: the process-local ledger of immutable snapshots that *)
(* later pages are read from.  A lease is found by its capability, counts  *)
(* its readers, expires when idle, and holds a share of the resident quota *)
(* until it is retired.  Every method holds the store's mutex throughout,  *)
(* so each is one step; Page pages a private copy after the unlock.        *)
(*                                                                         *)
(* A capability is 32 random bytes and stands for its lease.  Cursors are  *)
(* never forgotten by clients: whatever was minted can be presented again. *)
(***************************************************************************)
EXTENDS Integers, FiniteSets

CONSTANTS
    Lease,         \* capabilities
    Reader,        \* LeaseReaders, each used once
    Binding,       \* a selection and a client policy
    Size,          \* snapshot sizes
    Capacity,      \* 16 MiB in the code
    TTL,           \* 10 minutes in the code
    NoLease,
    NoReaderYet,
    MaxTime,       \* bound: clock
    MaxRestarts    \* bound: epoch rotations

ASSUME LeaseAssumption ==
    /\ IsFiniteSet(Reader)
    /\ NoLease \notin Lease /\ NoReaderYet \notin Lease /\ NoLease # NoReaderYet
    /\ Size \subseteq Nat
    /\ Capacity \in Nat
    /\ TTL \in Nat
    /\ MaxTime \in Nat
    /\ MaxRestarts \in Nat

VARIABLES
    now,
    epoch,         \* the process epoch: a number per random draw
    restarts,
    leases,        \* the leases in the lookup map
    minted,        \* per lease, the epoch in its cursor; 0: not minted yet
    binding, size, expiresAt, refCount, hidden,   \* the fields of a lease
    data,          \* per lease: none, live or zeroed
    resident,      \* the quota in use
    reader         \* per reader, its lease while it is open

leaseVars == <<minted, binding, size, hidden>>
vars == <<now, epoch, restarts, leases, minted, binding, size, expiresAt, refCount,
          hidden, data, resident, reader>>

TypeOK ==
    /\ now \in 0..MaxTime
    /\ epoch \in Int
    /\ restarts \in 0..MaxRestarts
    /\ leases \subseteq Lease
    /\ minted \in [Lease -> Int]
    /\ binding \in [Lease -> Binding]
    /\ size \in [Lease -> Nat]
    /\ expiresAt \in [Lease -> Nat]
    /\ refCount \in [Lease -> Nat]
    /\ hidden \in [Lease -> BOOLEAN]
    /\ data \in [Lease -> {"none", "live", "zeroed"}]
    /\ resident \in Nat
    /\ reader \in [Reader -> Lease \cup {NoLease, NoReaderYet}]

Init ==
    /\ now = 0
    /\ epoch = 1
    /\ restarts = 0
    /\ leases = {}
    /\ minted = [l \in Lease |-> 0]
    /\ binding \in {[l \in Lease |-> b] : b \in Binding}
    /\ size = [l \in Lease |-> 0]
    /\ expiresAt = [l \in Lease |-> 0]
    /\ refCount = [l \in Lease |-> 0]
    /\ hidden = [l \in Lease |-> FALSE]
    /\ data = [l \in Lease |-> "none"]
    /\ resident = 0
    /\ reader = [r \in Reader |-> NoReaderYet]

-----------------------------------------------------------------------------

Expired(l) == now >= expiresAt[l]
ReadersOf(l) == {r \in Reader : reader[r] = l}

(* The bytes that leases hold, one by one, so that they can be counted.     *)
Bytes(ls) == UNION {{l} \X (1..size[l]) : l \in ls}

(* Mutant: a retired lease keeps its share of the quota. *)
RetireKeepingQuota(ls) == resident' = resident
FreeQuota(ls) == resident' = resident - Cardinality(Bytes(ls))

(* retireLocked, for the leases of a set.                                   *)
Retire(ls) ==
    /\ leases' = leases \ ls
    /\ FreeQuota(ls)
    /\ data' = [l \in Lease |-> IF l \in ls THEN "zeroed" ELSE data[l]]

Fits(s) == resident + s <= Capacity

(* A new capability differs from all earlier ones (32 random bytes).        *)
Acquire(l, s, b) ==
    /\ minted[l] = 0
    /\ Fits(s)
    /\ minted' = [minted EXCEPT ![l] = epoch]
    /\ binding' = [binding EXCEPT ![l] = b]
    /\ size' = [size EXCEPT ![l] = s]
    /\ expiresAt' = [expiresAt EXCEPT ![l] = now + TTL]
    /\ data' = [data EXCEPT ![l] = "live"]
    /\ leases' = leases \cup {l}
    /\ resident' = resident + s
    /\ UNCHANGED <<now, epoch, restarts, refCount, hidden, reader>>

(* The cursor's epoch, the lease's visibility, its binding and its deadline *)
(* are checked before the reader is counted and the deadline moved.         *)
OpenReader(r, l, b) ==
    /\ reader[r] = NoReaderYet
    /\ minted[l] = epoch
    /\ l \in leases /\ ~hidden[l]
    /\ binding[l] = b
    /\ ~Expired(l)
    /\ expiresAt' = [expiresAt EXCEPT ![l] = now + TTL]
    /\ refCount' = [refCount EXCEPT ![l] = @ + 1]
    /\ reader' = [reader EXCEPT ![r] = l]
    /\ UNCHANGED <<now, epoch, restarts, leases, leaseVars, data, resident>>

(* The deadline moves before the requested range is looked at.              *)
Page(r) ==
    /\ reader[r] \in Lease
    /\ expiresAt' = [expiresAt EXCEPT ![reader[r]] = now + TTL]
    /\ UNCHANGED <<now, epoch, restarts, leases, leaseVars, refCount, data, resident, reader>>

(* Mutant: the last reader but one already retires the lease. *)
LastButOne(l) == refCount[l] <= 2
LastReader(l) == refCount[l] <= 1

Retirable(l) == hidden[l] \/ Expired(l)

Released(r) == [reader EXCEPT ![r] = NoLease]

Close(r) ==
    LET l == reader[r]
    IN  /\ l \in Lease
        /\ reader' = Released(r)
        /\ refCount' = [refCount EXCEPT ![l] = @ - 1]
        /\ IF LastReader(l) /\ Retirable(l)
           THEN Retire({l}) ELSE UNCHANGED <<leases, data, resident>>
        /\ UNCHANGED <<now, epoch, restarts, leaseVars, expiresAt>>

Unread(ls) == {l \in ls : refCount[l] = 0}

Hide(ls) ==
    /\ hidden' = [l \in Lease |-> hidden[l] \/ l \in ls]
    /\ Retire(Unread(ls))
    /\ UNCHANGED <<now, epoch, restarts, minted, binding, size, expiresAt, refCount, reader>>

(* Evict does not look at the cursor's epoch.                               *)
Evict(l) == l \in leases /\ ~hidden[l] /\ Hide({l})
EvictAll == Hide(leases)

(* Without entropy the old epoch is complemented, so that a second such     *)
(* restart returns to it.                                                   *)
Restart ==
    /\ restarts < MaxRestarts
    /\ restarts' = restarts + 1
    /\ epoch' \in {restarts + 2, -epoch}
    /\ Retire(Unread(leases))
    /\ UNCHANGED <<now, leaseVars, expiresAt, refCount, reader>>

Tick ==
    /\ now < MaxTime
    /\ now' = now + 1
    /\ UNCHANGED <<epoch, restarts, leases, leaseVars, expiresAt, refCount, data, resident, reader>>

Next ==
    \/ \E l \in Lease, s \in Size, b \in Binding : Acquire(l, s, b)
    \/ \E r \in Reader, l \in Lease, b \in Binding : OpenReader(r, l, b)
    \/ \E r \in Reader : Page(r) \/ Close(r)
    \/ \E l \in Lease : Evict(l)
    \/ EvictAll
    \/ Restart
    \/ Tick

Spec == Init /\ [][Next]_vars

-----------------------------------------------------------------------------
(* Properties. *)

(* The quota in use is what the leases in the map hold, and never exceeds   *)
(* the capacity, however evictions, readers and restarts interleave.        *)
QuotaExact ==
    /\ resident = Cardinality(Bytes(leases))
    /\ resident <= Capacity

(* A lease counts exactly the readers that are open on it.                  *)
CountsReaders == \A l \in Lease : refCount[l] = Cardinality(ReadersOf(l))

(* No reader ever pages zeroed bytes: data is live as long as somebody has  *)
(* the lease open (retireLocked zeroes the buffer that Page copies).        *)
ReadersSeeData == \A r \in Reader : reader[r] \in Lease => data[reader[r]] = "live"
=============================================================================
