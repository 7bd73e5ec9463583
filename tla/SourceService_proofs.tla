------------------------ MODULE SourceService_proofs ------------------------
(***************************************************************************)
(* Proofs about LeaseStore, and about SourceService that works on it, for  *)
(* any number of leases, readers, requests, selections and sizes.          *)
(*                                                                         *)
(* Of the store: a lease counts exactly its open readers, and therefore    *)
(* nobody pages bytes that were zeroed (a lease is retired only when its   *)
(* count is zero, which means nothing unless the count is the number of    *)
(* readers); and what the quota charges is what the map holds.             *)
(*                                                                         *)
(* Of the service: what is served was current and is on record; every one  *)
(* of its steps is a step of the store, which brings the store's theorems  *)
(* along; and a shutdown that waited leaves nothing in memory.             *)
(***************************************************************************)
EXTENDS SourceService, FiniteSetTheorems, TLAPS

-----------------------------------------------------------------------------
(* The store.                                                               *)

(* The part of the type invariant that the proofs need. *)
Typed ==
    /\ epoch \in Int /\ epoch # 0
    /\ restarts \in Nat
    /\ leases \subseteq Lease
    /\ minted \in [Lease -> Int]
    /\ refCount \in [Lease -> Int]
    /\ hidden \in [Lease -> BOOLEAN]
    /\ data \in [Lease -> {"none", "live", "zeroed"}]
    /\ reader \in [Reader -> Lease \cup {NoLease, NoReaderYet}]

(* Leases in the map were minted and have live bytes. *)
MapHoldsLiveData == \A l \in leases : minted[l] # 0 /\ data[l] = "live"

(* An open reader keeps its lease in the map. *)
OpenKeepsLease == \A r \in Reader : reader[r] \in Lease => reader[r] \in leases

LeaseInv == Typed /\ CountsReaders /\ MapHoldsLiveData /\ OpenKeepsLease

-----------------------------------------------------------------------------

(* The set of a lease's readers is finite, and it is empty if and only if   *)
(* it has no elements to count.                                             *)
LEMMA ReadersFinite ==
    ASSUME NEW l \in Lease
    PROVE  /\ IsFiniteSet(ReadersOf(l))
           /\ Cardinality(ReadersOf(l)) \in Nat
           /\ Cardinality(ReadersOf(l)) = 0 <=> ReadersOf(l) = {}
<1>1. ReadersOf(l) \subseteq Reader
  BY DEF ReadersOf
<1>2. IsFiniteSet(ReadersOf(l))
  BY <1>1, LeaseAssumption, FS_Subset
<1>3. QED
  BY <1>2, FS_CardinalityType, FS_EmptySet

(* Retiring leases that nobody reads disturbs no reader: the step of Evict, *)
(* of EvictAll and of Restart.                                              *)
LEMMA RetireUnread ==
    ASSUME LeaseInv, NEW ls \in SUBSET leases,
           Retire(Unread(ls)),
           epoch' \in Int, epoch' # 0, restarts' \in Nat,
           hidden' \in [Lease -> BOOLEAN],
           UNCHANGED <<minted, refCount, reader>>
    PROVE  LeaseInv'
<1> USE DEF LeaseInv, Typed
<1>1. Typed'
  BY DEF Retire
<1>2. CountsReaders'
  BY DEF CountsReaders, ReadersOf
<1>3. MapHoldsLiveData'
  BY DEF MapHoldsLiveData, Retire
<1>4. OpenKeepsLease'
  <2> SUFFICES ASSUME NEW r \in Reader, reader[r] \in Lease
               PROVE  reader[r] \notin Unread(ls)
    BY DEF OpenKeepsLease, Retire
  <2>1. r \in ReadersOf(reader[r])
    BY DEF ReadersOf
  <2>2. refCount[reader[r]] # 0
    BY <2>1, ReadersFinite DEF CountsReaders
  <2>3. QED
    BY <2>2 DEF Unread
<1>5. QED
  BY <1>1, <1>2, <1>3, <1>4

(* A step that touches neither readers nor leases. *)
LEMMA LeaseStutter ==
    ASSUME LeaseInv,
           UNCHANGED <<epoch, restarts, leases, minted, refCount, hidden, data, reader>>
    PROVE  LeaseInv'
BY DEF LeaseInv, Typed, CountsReaders, ReadersOf, MapHoldsLiveData, OpenKeepsLease

-----------------------------------------------------------------------------

LEMMA LeaseInit == Init => LeaseInv
<1> SUFFICES ASSUME Init PROVE LeaseInv
  OBVIOUS
<1>1. Typed /\ MapHoldsLiveData /\ OpenKeepsLease
  BY LeaseAssumption DEF Init, Typed, MapHoldsLiveData, OpenKeepsLease
<1>2. ASSUME NEW l \in Lease PROVE refCount[l] = Cardinality(ReadersOf(l))
  <2>1. ReadersOf(l) = {}
    BY LeaseAssumption DEF Init, ReadersOf
  <2>2. QED
    BY <2>1, ReadersFinite DEF Init
<1>3. QED
  BY <1>1, <1>2 DEF LeaseInv, CountsReaders

LEMMA AcquireStep ==
    ASSUME LeaseInv, NEW l \in Lease, NEW s \in Size, NEW b \in Binding,
           Acquire(l, s, b)
    PROVE  LeaseInv'
<1> USE DEF LeaseInv, Typed
<1>1. Typed'
  BY DEF Acquire
<1>2. CountsReaders'
  BY DEF CountsReaders, ReadersOf, Acquire
<1>3. MapHoldsLiveData' /\ OpenKeepsLease'
  BY DEF MapHoldsLiveData, OpenKeepsLease, Acquire
<1>4. QED
  BY <1>1, <1>2, <1>3

LEMMA OpenReaderStep ==
    ASSUME LeaseInv, NEW r \in Reader, NEW l \in Lease, NEW b \in Binding,
           OpenReader(r, l, b)
    PROVE  LeaseInv'
<1> USE DEF LeaseInv, Typed
<1>1. Typed'
  BY DEF OpenReader, leaseVars
<1>2. ASSUME NEW k \in Lease PROVE refCount'[k] = Cardinality(ReadersOf(k)')
  <2>1. CASE k = l
    <3>1. ReadersOf(k)' = ReadersOf(k) \cup {r} /\ r \notin ReadersOf(k)
      BY <2>1, LeaseAssumption DEF OpenReader, ReadersOf
    <3>2. Cardinality(ReadersOf(k)') = Cardinality(ReadersOf(k)) + 1
      BY <3>1, ReadersFinite, FS_AddElement
    <3>3. refCount'[k] = refCount[k] + 1
      BY <2>1 DEF OpenReader
    <3>4. QED
      BY <3>2, <3>3 DEF CountsReaders
  <2>2. CASE k # l
    <3>1. ReadersOf(k)' = ReadersOf(k)
      BY <2>2, LeaseAssumption DEF OpenReader, ReadersOf
    <3>2. refCount'[k] = refCount[k]
      BY <2>2 DEF OpenReader
    <3>3. QED
      BY <3>1, <3>2 DEF CountsReaders
  <2>3. QED
    BY <2>1, <2>2
<1>3. MapHoldsLiveData' /\ OpenKeepsLease'
  BY DEF MapHoldsLiveData, OpenKeepsLease, OpenReader, leaseVars
<1>4. QED
  BY <1>1, <1>2, <1>3 DEF CountsReaders

(* The last reader of a lease may retire it, and no other one does. *)
LEMMA CloseStep ==
    ASSUME LeaseInv, NEW r \in Reader, Close(r)
    PROVE  LeaseInv'
<1> USE DEF LeaseInv, Typed
<1> PICK l \in Lease : l = reader[r]
  BY DEF Close, Released
<1>1. l \in Lease /\ l \in leases /\ r \in ReadersOf(l)
  BY DEF Close, Released, OpenKeepsLease, ReadersOf
<1>2. /\ reader' = [reader EXCEPT ![r] = NoLease]
      /\ refCount' = [refCount EXCEPT ![l] = @ - 1]
      /\ UNCHANGED <<epoch, restarts, minted, hidden>>
  BY DEF Close, Released, leaseVars
<1>3. \/ Retire({l}) /\ refCount[l] <= 1
      \/ UNCHANGED <<leases, data>>
  BY DEF Close, Released, LastReader
<1>4. Typed'
  <2>1. /\ refCount' \in [Lease -> Int]
        /\ reader' \in [Reader -> Lease \cup {NoLease, NoReaderYet}]
    BY <1>1, <1>2
  <2>2. leases' \subseteq Lease /\ data' \in [Lease -> {"none", "live", "zeroed"}]
    BY <1>3 DEF Retire
  <2>3. QED
    BY <1>2, <2>1, <2>2
<1>5. ReadersOf(l)' = ReadersOf(l) \ {r}
  BY <1>2, LeaseAssumption DEF ReadersOf
<1>6. Cardinality(ReadersOf(l) \ {r}) = Cardinality(ReadersOf(l)) - 1
  BY <1>1, ReadersFinite, FS_RemoveElement
<1>7. CountsReaders'
  <2> SUFFICES ASSUME NEW k \in Lease
               PROVE  refCount'[k] = Cardinality(ReadersOf(k)')
    BY DEF CountsReaders
  <2>1. CASE k = l
    <3>1. refCount'[k] = Cardinality(ReadersOf(k)) - 1
      BY <1>1, <1>2, <2>1 DEF CountsReaders
    <3>2. QED
      BY <1>5, <1>6, <2>1, <3>1
  <2>2. CASE k # l
    <3>1. ReadersOf(k)' = ReadersOf(k)
      BY <1>2, <2>2, LeaseAssumption DEF ReadersOf
    <3>2. refCount'[k] = refCount[k]
      BY <1>2, <2>2
    <3>3. QED
      BY <3>1, <3>2 DEF CountsReaders
  <2>3. QED
    BY <2>1, <2>2
<1>8. MapHoldsLiveData'
  BY <1>2, <1>3 DEF MapHoldsLiveData, Retire
<1>9. OpenKeepsLease'
  <2> SUFFICES ASSUME NEW d \in Reader, reader'[d] \in Lease
               PROVE  reader'[d] \in leases'
    BY DEF OpenKeepsLease
  <2>1. d # r /\ reader'[d] = reader[d]
    BY <1>2, LeaseAssumption
  <2>2. reader[d] \in leases
    BY <2>1 DEF OpenKeepsLease
  <2>3. CASE Retire({l}) /\ refCount[l] <= 1
    <3>1. Cardinality(ReadersOf(l)') = 0
      <4>1. Cardinality(ReadersOf(l)) <= 1
        BY <1>1, <2>3 DEF CountsReaders
      <4>2. Cardinality(ReadersOf(l) \ {r}) \in Nat
        BY <1>1, ReadersFinite, FS_RemoveElement, FS_CardinalityType
      <4>3. QED
        BY <1>1, <1>5, <1>6, <4>1, <4>2, ReadersFinite
    <3>2. ReadersOf(l) \ {r} = {}
      BY <1>1, <1>5, <3>1, ReadersFinite, FS_RemoveElement, FS_EmptySet
    <3>3. reader[d] # l
      BY <2>1, <3>2 DEF ReadersOf
    <3>4. QED
      BY <2>1, <2>2, <2>3, <3>3 DEF Retire
  <2>4. CASE UNCHANGED <<leases, data>>
    BY <2>1, <2>2, <2>4
  <2>5. QED
    BY <1>3, <2>3, <2>4
<1>10. QED
  BY <1>4, <1>7, <1>8, <1>9

LEMMA LeaseNext == LeaseInv /\ [Next]_vars => LeaseInv'
<1> SUFFICES ASSUME LeaseInv, [Next]_vars PROVE LeaseInv'
  OBVIOUS
<1>1. CASE \E l \in Lease, s \in Size, b \in Binding : Acquire(l, s, b)
  BY <1>1, AcquireStep
<1>2. CASE \E r \in Reader, l \in Lease, b \in Binding : OpenReader(r, l, b)
  BY <1>2, OpenReaderStep
<1>3. CASE \E r \in Reader : Page(r)
  BY <1>3, LeaseStutter DEF Page, leaseVars
<1>4. CASE \E r \in Reader : Close(r)
  BY <1>4, CloseStep
<1>5. CASE \E l \in Lease : Evict(l)
  <2>1. PICK l \in Lease : Evict(l)
    BY <1>5
  <2>2. /\ Retire(Unread({l}))
        /\ {l} \in SUBSET leases
        /\ hidden' \in [Lease -> BOOLEAN]
    BY <2>1 DEF Evict, Hide, LeaseInv, Typed
  <2>3. UNCHANGED <<epoch, restarts, minted, refCount, reader>>
    BY <2>1 DEF Evict, Hide
  <2>4. QED
    BY <2>2, <2>3, RetireUnread DEF LeaseInv, Typed
<1>6. CASE EvictAll
  <2>1. /\ Retire(Unread(leases))
        /\ hidden' \in [Lease -> BOOLEAN]
        /\ UNCHANGED <<epoch, restarts, minted, refCount, reader>>
    BY <1>6 DEF EvictAll, Hide, LeaseInv, Typed
  <2>2. QED
    BY <2>1, RetireUnread DEF LeaseInv, Typed
<1>7. CASE Restart
  <2>1. /\ Retire(Unread(leases))
        /\ UNCHANGED <<minted, hidden, refCount, reader>>
    BY <1>7 DEF Restart, leaseVars
  <2>2. epoch' \in Int /\ epoch' # 0 /\ restarts' \in Nat
    BY <1>7 DEF Restart, LeaseInv, Typed
  <2>3. QED
    BY <2>1, <2>2, RetireUnread DEF LeaseInv, Typed
<1>8. CASE Tick
  BY <1>8, LeaseStutter DEF Tick, leaseVars
<1>9. CASE UNCHANGED vars
  BY <1>9, LeaseStutter DEF vars
<1>10. QED
  BY <1>1, <1>2, <1>3, <1>4, <1>5, <1>6, <1>7, <1>8, <1>9 DEF Next

LEMMA LeaseInvariant == Spec => []LeaseInv
BY LeaseInit, LeaseNext, PTL DEF Spec

(* The counter behind retirement is exact, however openings, closings,      *)
(* evictions and restarts interleave (OpenReader and LeaseReader.Close).    *)
THEOREM CountIsExact == Spec => []CountsReaders
<1>1. LeaseInv => CountsReaders
  BY DEF LeaseInv
<1>2. QED
  BY <1>1, LeaseInvariant, PTL

(* No open reader is ever left with zeroed bytes (retireLocked).            *)
THEOREM ReadersAreSafe == Spec => []ReadersSeeData
<1>1. LeaseInv => ReadersSeeData
  BY DEF LeaseInv, MapHoldsLiveData, OpenKeepsLease, ReadersSeeData
<1>2. QED
  BY <1>1, LeaseInvariant, PTL

-----------------------------------------------------------------------------
(* The quota.  What is charged for a lease is the number of its bytes, and  *)
(* the leases in the map hold distinct bytes.                               *)

QuotaInv ==
    /\ size \in [Lease -> Nat]
    /\ IsFiniteSet(Bytes(leases))
    /\ QuotaExact

LEMMA BytesOfOne ==
    ASSUME NEW l, NEW n \in Nat
    PROVE  /\ IsFiniteSet({l} \X (1..n))
           /\ Cardinality({l} \X (1..n)) = n
<1>1. IsFiniteSet(1..n) /\ Cardinality(1..n) = n
  BY FS_Interval
<1>2. IsFiniteSet({l}) /\ Cardinality({l}) = 1
  BY FS_Singleton
<1>3. QED
  BY <1>1, <1>2, FS_Product

(* Retiring leases frees exactly their bytes (retireLocked).                *)
LEMMA RetireFrees ==
    ASSUME QuotaInv, NEW ls \in SUBSET leases, Retire(ls), size' = size
    PROVE  QuotaInv'
<1>1. Bytes(ls) \subseteq Bytes(leases)
  BY DEF Bytes
<1>2. Bytes(leases)' = Bytes(leases) \ Bytes(ls)
  BY DEF Retire, Bytes
<1>3. Bytes(leases) \cap Bytes(ls) = Bytes(ls)
  BY <1>1
<1>4. /\ IsFiniteSet(Bytes(leases) \ Bytes(ls))
      /\ Cardinality(Bytes(leases) \ Bytes(ls))
            = Cardinality(Bytes(leases)) - Cardinality(Bytes(ls))
  BY <1>3, FS_Difference DEF QuotaInv
<1>5. Cardinality(Bytes(ls)) \in Nat /\ Cardinality(Bytes(leases)) \in Nat
  BY <1>1, FS_Subset, FS_CardinalityType DEF QuotaInv
<1>6. resident' = resident - Cardinality(Bytes(ls))
  BY DEF Retire, FreeQuota
<1>7. QED
  BY <1>2, <1>4, <1>5, <1>6, LeaseAssumption DEF QuotaInv, QuotaExact

LEMMA QuotaStutter ==
    ASSUME QuotaInv, UNCHANGED <<leases, size, resident>>
    PROVE  QuotaInv'
BY DEF QuotaInv, QuotaExact, Bytes

LEMMA QuotaInit == Init => QuotaInv
<1> SUFFICES ASSUME Init PROVE QuotaInv
  OBVIOUS
<1>1. Bytes(leases) = {}
  BY DEF Init, Bytes
<1>2. QED
  BY <1>1, FS_EmptySet, LeaseAssumption DEF Init, QuotaInv, QuotaExact

(* A new lease is not in the map yet, so that its bytes are new.            *)
LEMMA AcquireCharges ==
    ASSUME LeaseInv, QuotaInv,
           NEW l \in Lease, NEW s \in Size, NEW b \in Binding, Acquire(l, s, b)
    PROVE  QuotaInv'
<1>1. l \notin leases /\ s \in Nat
  BY LeaseAssumption DEF Acquire, LeaseInv, MapHoldsLiveData
<1>2. size' \in [Lease -> Nat] /\ size' = [size EXCEPT ![l] = s]
  BY <1>1 DEF Acquire, QuotaInv
<1>3. leases' = leases \cup {l} /\ leases \subseteq Lease
  BY DEF Acquire, LeaseInv, Typed
<1>4. Bytes(leases)' = Bytes(leases) \cup ({l} \X (1..s))
  <2>1. \A k \in leases : size'[k] = size[k]
    BY <1>1, <1>2, <1>3 DEF QuotaInv
  <2>2. size'[l] = s
    BY <1>2 DEF QuotaInv
  <2>3. QED
    BY <1>3, <2>1, <2>2 DEF Bytes
<1>5. Bytes(leases) \cap ({l} \X (1..s)) = {}
  BY <1>1 DEF Bytes
<1>6. /\ IsFiniteSet({l} \X (1..s))
      /\ Cardinality({l} \X (1..s)) = s
  BY <1>1, BytesOfOne
<1>7. /\ IsFiniteSet(Bytes(leases)')
      /\ Cardinality(Bytes(leases)') = Cardinality(Bytes(leases)) + s
  <2>1. Cardinality(Bytes(leases) \cap ({l} \X (1..s))) = 0
    BY <1>5, FS_EmptySet
  <2>2. Cardinality(Bytes(leases)) \in Nat
    BY FS_CardinalityType DEF QuotaInv
  <2>3. /\ IsFiniteSet(Bytes(leases) \cup ({l} \X (1..s)))
        /\ Cardinality(Bytes(leases) \cup ({l} \X (1..s)))
              = Cardinality(Bytes(leases)) + Cardinality({l} \X (1..s))
                  - Cardinality(Bytes(leases) \cap ({l} \X (1..s)))
    <3>1. IsFiniteSet(Bytes(leases))
      BY DEF QuotaInv
    <3>2. QED
      BY <3>1, <1>6, FS_Union
  <2>4. QED
    BY <1>1, <1>4, <1>6, <2>1, <2>2, <2>3
<1>8. resident' = resident + s /\ resident + s <= Capacity
  BY DEF Acquire, Fits
<1>9. QED
  BY <1>2, <1>7, <1>8 DEF QuotaInv, QuotaExact

LEMMA QuotaNext == LeaseInv /\ QuotaInv /\ [Next]_vars => QuotaInv'
<1> SUFFICES ASSUME LeaseInv, QuotaInv, [Next]_vars PROVE QuotaInv'
  OBVIOUS
<1>1. CASE \E l \in Lease, s \in Size, b \in Binding : Acquire(l, s, b)
  BY <1>1, AcquireCharges
<1>2. CASE \E r \in Reader, l \in Lease, b \in Binding : OpenReader(r, l, b)
  BY <1>2, QuotaStutter DEF OpenReader, leaseVars
<1>3. CASE \E r \in Reader : Page(r)
  BY <1>3, QuotaStutter DEF Page, leaseVars
<1>4. CASE \E r \in Reader : Close(r)
  <2>1. PICK r \in Reader : Close(r)
    BY <1>4
  <2>2. reader[r] \in leases /\ size' = size
    BY <2>1 DEF Close, LeaseInv, OpenKeepsLease, leaseVars
  <2>3. Retire({reader[r]}) \/ UNCHANGED <<leases, resident>>
    BY <2>1 DEF Close
  <2>4. QED
    BY <2>2, <2>3, RetireFrees, QuotaStutter
<1>5. CASE \E l \in Lease : Evict(l)
  <2>1. PICK l \in Lease : Evict(l)
    BY <1>5
  <2>2. Unread({l}) \in SUBSET leases /\ Retire(Unread({l})) /\ size' = size
    BY <2>1 DEF Evict, Hide, Unread
  <2>3. QED
    BY <2>2, RetireFrees
<1>6. CASE EvictAll \/ Restart
  <2>1. Unread(leases) \in SUBSET leases /\ Retire(Unread(leases)) /\ size' = size
    BY <1>6 DEF EvictAll, Restart, Hide, Unread, leaseVars
  <2>2. QED
    BY <2>1, RetireFrees
<1>7. CASE Tick \/ UNCHANGED vars
  BY <1>7, QuotaStutter DEF Tick, leaseVars, vars
<1>8. QED
  BY <1>1, <1>2, <1>3, <1>4, <1>5, <1>6, <1>7 DEF Next

(* What is charged is what the map holds, and admission never lets it       *)
(* exceed the capacity, for any sizes (Acquire and retireLocked).           *)
THEOREM QuotaIsExact == Spec => []QuotaExact
<1>1. Spec => []QuotaInv
  BY QuotaInit, QuotaNext, LeaseInvariant, PTL DEF Spec
<1>2. QuotaInv => QuotaExact
  BY DEF QuotaInv
<1>3. QED
  BY <1>1, <1>2, PTL

-----------------------------------------------------------------------------
(* The service.                                                             *)

(* The request has passed its freshness check and was not refused. *)
Fresh == {"open", "page", "record", "closing", "served"}

ServiceTyped ==
    /\ pc \in [Request -> Stages]
    /\ original \in [Request -> Binding]
    /\ wanted \in [Request -> Binding]
    /\ cursor \in [Request -> Lease \cup {NoLease}]
    /\ binding \in [Lease -> Binding]
    /\ result \in [Request -> {"none", "page", "last", "error"}]
    /\ seen \in [Request -> SUBSET Binding]
    /\ catalog \subseteq Binding
    /\ known \subseteq Lease

(* Everything the catalog lists while a request runs is seen by it. *)
SeesCatalog(q) == pc[q] \notin Finished => catalog \subseteq seen[q]

(* From Lookup or AcquireLease on the request has a cursor. *)
HasCursor(q) == pc[q] \in Fresh \cup {"fresh"} => cursor[q] \in Lease

SawOriginal(q) == pc[q] \in Fresh => original[q] \in seen[q]

(* An allow event is there from its recording on, and never otherwise. *)
OnRecord(q) ==
    /\ pc[q] \in {"record", "served"} => result[q] # "error"
    /\ <<q, "allow">> \in audited
          <=> pc[q] \in {"closing", "served"} /\ result[q] # "error"

ServiceInv ==
    /\ ServiceTyped
    /\ \A q \in Request : SeesCatalog(q) /\ HasCursor(q) /\ SawOriginal(q) /\ OnRecord(q)

-----------------------------------------------------------------------------

LEMMA ServiceInvInit == ServiceInit => ServiceInv
BY DEF ServiceInit, Init, ServiceInv, ServiceTyped, SeesCatalog, HasCursor, SawOriginal,
       OnRecord, Stages, Finished, Fresh

(* A step without effect but the end of the request. *)
LEMMA RefuseStep ==
    ASSUME ServiceInv, NEW q \in Request, NEW from \in Stages \ {"served", "closing"},
           Refuse(q, from)
    PROVE  ServiceInv'
BY DEF ServiceInv, ServiceTyped, SeesCatalog, HasCursor, SawOriginal, OnRecord, Stages,
       Finished, Fresh, Refuse, Step, requestVars, worldVars, storeVars, vars

(* The calls of the store keep its bindings well typed. *)
LEMMA StoreTyped ==
    ASSUME ServiceTyped
    PROVE  /\ \A l \in Lease, s \in Size, b \in Binding :
                 Acquire(l, s, b) => binding' \in [Lease -> Binding]
           /\ \A q \in Reader : Page(q) \/ Close(q) => binding' = binding
           /\ \A q \in Reader : \A l, b : OpenReader(q, l, b) => binding' = binding
           /\ EvictAll \/ Tick \/ Restart => binding' = binding
           /\ \A l \in Lease : Evict(l) => binding' = binding
BY DEF ServiceTyped, Acquire, Page, Close, Released, OpenReader, EvictAll, Evict, Restart, Hide,
       Tick, leaseVars

(* One step of a handler. *)
LEMMA HandleStep ==
    ASSUME ServiceInv, NEW q \in Request, Handle(q)
    PROVE  ServiceInv'
<1> USE DEF ServiceInv, ServiceTyped, SeesCatalog, HasCursor, SawOriginal, OnRecord,
            Stages, Finished, Fresh, Step, Keep, requestVars, worldVars,
            storeVars, vars, Request
<1>1. CASE Admit(q)
  BY <1>1, SMT DEF Admit
<1>2. CASE Deny(q)
  BY <1>2, SMT DEF Deny
<1>3. CASE Select(q)
  BY <1>3, SMT DEF Select
<1>4. CASE AcquireSnapshot(q)
  BY <1>4, SMT DEF AcquireSnapshot
<1>5. CASE AcquireLease(q)
  BY <1>5, StoreTyped, SMT DEF AcquireLease
<1>6. CASE Lookup(q)
  BY <1>6, SMT DEF Lookup
<1>7. CASE FreshnessCheck(q)
  BY <1>7, SMT DEF FreshnessCheck, Current
<1>8. CASE Open(q)
  <2>1. ServiceTyped'
    BY <1>8, StoreTyped, SMT DEF Open
  <2>2. ASSUME NEW o \in Request, o = q
        PROVE  SeesCatalog(o)' /\ HasCursor(o)' /\ SawOriginal(o)' /\ OnRecord(o)'
    BY <1>8, <2>2, SMT DEF Open
  <2>3. ASSUME NEW o \in Request, o # q
        PROVE  SeesCatalog(o)' /\ HasCursor(o)' /\ SawOriginal(o)' /\ OnRecord(o)'
    BY <1>8, <2>3, SMT DEF Open
  <2>4. QED
    BY <2>1, <2>2, <2>3 DEF ServiceInv
<1>9. CASE ServePage(q)
  <2>1. ServiceTyped'
    BY <1>9, StoreTyped, SMT DEF ServePage
  <2>2. ASSUME NEW o \in Request, o = q
        PROVE  SeesCatalog(o)' /\ HasCursor(o)' /\ SawOriginal(o)' /\ OnRecord(o)'
    BY <1>9, <2>2, SMT DEF ServePage
  <2>3. ASSUME NEW o \in Request, o # q
        PROVE  SeesCatalog(o)' /\ HasCursor(o)' /\ SawOriginal(o)' /\ OnRecord(o)'
    BY <1>9, <2>3, SMT DEF ServePage
  <2>4. QED
    BY <2>1, <2>2, <2>3 DEF ServiceInv
<1>10. CASE PageFails(q)
  <2>1. ServiceTyped'
    BY <1>10, StoreTyped, SMT DEF PageFails
  <2>2. ASSUME NEW o \in Request, o = q
        PROVE  SeesCatalog(o)' /\ HasCursor(o)' /\ SawOriginal(o)' /\ OnRecord(o)'
    BY <1>10, <2>2, SMT DEF PageFails
  <2>3. ASSUME NEW o \in Request, o # q
        PROVE  SeesCatalog(o)' /\ HasCursor(o)' /\ SawOriginal(o)' /\ OnRecord(o)'
    BY <1>10, <2>3, SMT DEF PageFails
  <2>4. QED
    BY <2>1, <2>2, <2>3 DEF ServiceInv
<1>11. CASE RecordAllowed(q)
  <2>1. ServiceTyped'
    BY <1>11, SMT DEF RecordAllowed
  <2>2. ASSUME NEW o \in Request, o = q
        PROVE  SeesCatalog(o)' /\ HasCursor(o)' /\ SawOriginal(o)' /\ OnRecord(o)'
    <3>1. /\ pc[q] = "record" /\ pc'[q] = "closing"
          /\ <<q, "allow">> \in audited'
          /\ UNCHANGED <<result, original, cursor, seen, catalog>>
      BY <1>11 DEF RecordAllowed, Step, requestVars, ServiceInv, ServiceTyped
    <3>2. result[q] # "error" /\ original[q] \in seen[q] /\ catalog \subseteq seen[q]
          /\ cursor[q] \in Lease
      BY <3>1 DEF ServiceInv, OnRecord, SawOriginal, SeesCatalog, HasCursor, Fresh, Finished
    <3>3. QED
      BY <2>2, <3>1, <3>2 DEF OnRecord, SawOriginal, SeesCatalog, HasCursor
  <2>3. ASSUME NEW o \in Request, o # q
        PROVE  SeesCatalog(o)' /\ HasCursor(o)' /\ SawOriginal(o)' /\ OnRecord(o)'
    BY <1>11, <2>3, SMT DEF RecordAllowed
  <2>4. QED
    BY <2>1, <2>2, <2>3 DEF ServiceInv
<1>12. CASE RecordFails(q)
  BY <1>12, SMT DEF RecordFails, Unrecorded
<1>13. CASE Return(q)
  <2>1. ServiceTyped'
    <3>1. binding' = binding
      BY <1>13, StoreTyped DEF Return, CloseReader
    <3>2. known' \subseteq Lease
      BY <1>13 DEF Return
    <3>3. QED
      BY <1>13, <3>1, <3>2, SMT DEF Return
  <2>2. ASSUME NEW o \in Request, o = q
        PROVE  SeesCatalog(o)' /\ HasCursor(o)' /\ SawOriginal(o)' /\ OnRecord(o)'
    BY <1>13, <2>2, SMT DEF Return, CloseReader
  <2>3. ASSUME NEW o \in Request, o # q
        PROVE  SeesCatalog(o)' /\ HasCursor(o)' /\ SawOriginal(o)' /\ OnRecord(o)'
    BY <1>13, <2>3, SMT DEF Return, CloseReader
  <2>4. QED
    BY <2>1, <2>2, <2>3 DEF ServiceInv
<1>14. CASE Fail(q)
  BY <1>14, RefuseStep DEF Fail, NoCapacity, NotOpened, Stages
<1>15. QED
  BY <1>1, <1>2, <1>3, <1>4, <1>5, <1>6, <1>7, <1>8, <1>9, <1>10, <1>11, <1>12, <1>13, <1>14 DEF Handle

LEMMA ServiceInvNext == ServiceInv /\ [ServiceNext]_allVars => ServiceInv'
<1> SUFFICES ASSUME ServiceInv, [ServiceNext]_allVars PROVE ServiceInv'
  OBVIOUS
<1> USE DEF ServiceInv, ServiceTyped, SeesCatalog, HasCursor, SawOriginal, OnRecord,
            Stages, Finished, Fresh, Step, Keep, requestVars, worldVars,
            storeVars, vars, Request
<1>1. CASE \E q \in Request : Call(q)
  <2> PICK q \in Request : Call(q)
    BY <1>1
  <2>1. ServiceTyped'
    BY <1>1, SMT DEF Call
  <2>2. ASSUME NEW o \in Request, o = q
        PROVE  SeesCatalog(o)' /\ HasCursor(o)' /\ SawOriginal(o)' /\ OnRecord(o)'
    BY <1>1, <2>2, SMT DEF Call
  <2>3. ASSUME NEW o \in Request, o # q
        PROVE  SeesCatalog(o)' /\ HasCursor(o)' /\ SawOriginal(o)' /\ OnRecord(o)'
    BY <1>1, <2>3, SMT DEF Call
  <2>4. QED
    BY <2>1, <2>2, <2>3 DEF ServiceInv
<1>2. CASE \E q \in Request : Cancel(q)
  BY <1>2, SMT DEF Cancel
<1>3. CASE \E b \in Binding : Relist(b)
  BY <1>3, SMT DEF Relist
<1>4. CASE ClockTick
  BY <1>4, StoreTyped, SMT DEF ClockTick
<1>5. CASE StopIntake
  BY <1>5, SMT DEF StopIntake
<1>6. CASE Stop \/ Abandon
  BY <1>6, StoreTyped, SMT DEF Stop, Abandon, Shutdown
<1>7. CASE \E q \in Request : Handle(q)
  BY <1>7, HandleStep
<1>8. CASE Administer
  BY <1>8, StoreTyped, SMT DEF Administer
<1>9. CASE UNCHANGED allVars
  BY <1>9 DEF allVars
<1>10. QED
  BY <1>1, <1>2, <1>3, <1>4, <1>5, <1>6, <1>7, <1>8, <1>9 DEF ServiceNext

LEMMA ServiceInvariant == ServiceSpec => []ServiceInv
BY ServiceInvInit, ServiceInvNext, PTL DEF ServiceSpec

(* Whatever the catalog does meanwhile, a page is served only for a         *)
(* selection that was listed during the request (freshnessCheck).           *)
THEOREM ServedPagesWereCurrent == ServiceSpec => []ServedWasCurrent
<1>1. ServiceInv => ServedWasCurrent
  BY DEF ServiceInv, SawOriginal, Fresh, ServedWasCurrent
<1>2. QED
  BY <1>1, ServiceInvariant, PTL

(* A page is served if and only if its allow event was recorded             *)
(* (recordAllowed before the return of ReadSelectedSource).                 *)
THEOREM ServedPagesAreAudited == ServiceSpec => []ServedIsAudited
<1>1. ServiceInv => ServedIsAudited
  BY DEF ServiceInv, OnRecord, ServedIsAudited
<1>2. QED
  BY <1>1, ServiceInvariant, PTL

(* What ReadSelectedSource answers was current within the request and is on *)
(* record, for any number of handlers, leases and selections.               *)
THEOREM ServedPagesAreSound == ServiceSpec => []ServedIsSound
<1>1. ServedWasCurrent /\ ServedIsAudited => ServedIsSound
  BY DEF ServedIsSound
<1>2. QED
  BY <1>1, ServedPagesWereCurrent, ServedPagesAreAudited, PTL

(* Handlers, clients and shutdown use the store as LeaseStore specifies:    *)
(* every step of the service is a step of the store or leaves it alone.     *)
LEMMA StoreStep == ServiceInv /\ [ServiceNext]_allVars => [Next]_vars
<1> SUFFICES ASSUME ServiceInv, [ServiceNext]_allVars PROVE [Next]_vars
  OBVIOUS
<1> USE DEF storeVars
<1>1. ASSUME NEW q \in Request, Handle(q) PROVE [Next]_vars
  <2>1. CASE UNCHANGED vars
    BY <2>1
  <2>2. CASE AcquireLease(q)
    <3>1. original[q] \in Binding
      BY DEF ServiceInv, ServiceTyped
    <3>2. \E l \in Lease, s \in Size : Acquire(l, s, original[q])
      BY <2>2 DEF AcquireLease
    <3>3. QED
      BY <3>1, <3>2 DEF Next
  <2>3. CASE Open(q)
    <3>1. original[q] \in Binding /\ cursor[q] \in Lease
      BY <2>3 DEF Open, Step, ServiceInv, ServiceTyped, HasCursor, Fresh
    <3>2. OpenReader(q, cursor[q], original[q])
      BY <2>3 DEF Open
    <3>3. QED
      BY <3>1, <3>2 DEF Next, Request
  <2>4. CASE Page(q) \/ Close(q)
    BY <2>4 DEF Next, Request
  <2>5. \/ UNCHANGED vars \/ AcquireLease(q) \/ Open(q) \/ Page(q) \/ Close(q)
    BY <1>1 DEF Handle, Admit, Deny, Select, AcquireSnapshot, Lookup, FreshnessCheck,
       ServePage, PageFails, RecordAllowed, RecordFails, Return, CloseReader,
       Fail, NoCapacity, NotOpened, Refuse
  <2>6. QED
    BY <2>1, <2>2, <2>3, <2>4, <2>5
<1>2. CASE \E q \in Request : Call(q) \/ Cancel(q)
  BY <1>2 DEF Call, Cancel
<1>3. CASE (\E b \in Binding : Relist(b)) \/ StopIntake
  BY <1>3 DEF Relist, StopIntake
<1>4. CASE ClockTick \/ Administer \/ Stop \/ Abandon
  BY <1>4 DEF ClockTick, Administer, Stop, Abandon, Shutdown, Next
<1>5. CASE UNCHANGED allVars
  BY <1>5 DEF allVars
<1>6. QED
  BY <1>1, <1>2, <1>3, <1>4, <1>5 DEF ServiceNext

(* The service implements the store's specification, and what is proved of  *)
(* the store holds for it.                                                  *)
THEOREM ServiceImplementsStore == ServiceSpec => Spec
<1>1. ServiceInit => Init
  BY DEF ServiceInit
<1>2. QED
  BY <1>1, StoreStep, ServiceInvariant, PTL DEF ServiceSpec, Spec

(* No request of the service is ever served from zeroed bytes, whatever     *)
(* expires, is cancelled or is evicted while its reader is open.            *)
THEOREM ServiceReadersAreSafe == ServiceSpec => []ReadersSeeData
BY ServiceImplementsStore, ReadersAreSafe, PTL

(* The service charges the quota exactly, whichever of its requests failed  *)
(* between the steps of a read.                                             *)
THEOREM ServiceQuotaIsExact == ServiceSpec => []QuotaExact
BY ServiceImplementsStore, QuotaIsExact, PTL

-----------------------------------------------------------------------------
(* Shutdown. *)

(* A request has a reader open only between Open and the deferred Close. *)
HoldsReader == {"page", "record", "closing"}
ReadersAreServed == \A q \in Request : reader[q] \in Lease => pc[q] \in HoldsReader

(* Whatever has left the map has no live bytes. *)
LiveIsInMap == \A l \in Lease : data[l] = "live" => l \in leases

StoppedIsEmpty ==
    serving = "stopped" => leases = {} /\ \A q \in Request : pc[q] \in Finished

ShutdownInv == ReadersAreServed /\ LiveIsInMap /\ StoppedIsEmpty

LEMMA ShutdownInit == ServiceInit => ShutdownInv
BY LeaseAssumption DEF ServiceInit, Init, ShutdownInv, ReadersAreServed, LiveIsInMap,
       StoppedIsEmpty, Request

(* No step of the store leaves live bytes outside its map.                  *)
LEMMA StoreKeepsLive == LeaseInv /\ LiveIsInMap /\ [Next]_vars => LiveIsInMap'
<1> SUFFICES ASSUME LeaseInv, LiveIsInMap, [Next]_vars PROVE LiveIsInMap'
  OBVIOUS
<1> USE DEF LiveIsInMap, LeaseInv, Typed
<1>1. ASSUME NEW l \in Lease, NEW s \in Size, NEW b \in Binding, Acquire(l, s, b)
      PROVE  LiveIsInMap'
  BY <1>1 DEF Acquire
<1>2. ASSUME NEW ls, Retire(ls) PROVE LiveIsInMap'
  BY <1>2 DEF Retire
<1>3. CASE UNCHANGED <<leases, data>>
  BY <1>3
<1>4. \/ \E l \in Lease, s \in Size, b \in Binding : Acquire(l, s, b)
      \/ \E ls : Retire(ls)
      \/ UNCHANGED <<leases, data>>
  BY DEF Next, OpenReader, Page, Close, Evict, EvictAll, Hide, Restart, Tick, leaseVars, vars
<1>5. QED
  BY <1>1, <1>2, <1>3, <1>4

(* The readers follow their handlers.                                       *)
LEMMA HandleServesReaders ==
    ASSUME LeaseInv, ServiceInv, ReadersAreServed, NEW q \in Request, Handle(q)
    PROVE  ReadersAreServed'
<1> USE DEF ReadersAreServed, HoldsReader, Step, Keep, requestVars, worldVars, storeVars, vars,
            ServiceInv, ServiceTyped, Stages, LeaseInv, Typed, Request
<1>1. CASE UNCHANGED reader
  <2>1. ~Return(q)
    BY <1>1, LeaseAssumption DEF Return, CloseReader, Close, Released
  <2>2. pc[q] \in HoldsReader => pc'[q] \in HoldsReader
    BY <2>1, SMT DEF Handle, Admit, Deny, Select, AcquireSnapshot, AcquireLease,
       Lookup, FreshnessCheck, Open, ServePage, PageFails, RecordAllowed, RecordFails,
       Fail, NoCapacity, NotOpened, Refuse
  <2>3. \A o \in Request : o # q => pc'[o] = pc[o]
    BY SMT DEF Handle, Admit, Deny, Select, AcquireSnapshot, AcquireLease,
       Lookup, FreshnessCheck, Open, ServePage, PageFails, RecordAllowed, RecordFails, Return,
       Fail, NoCapacity, NotOpened, Refuse
  <2>4. QED
    BY <1>1, <2>2, <2>3
<1>2. CASE Open(q)
  BY <1>2 DEF Open, OpenReader
<1>3. CASE Return(q)
  <2>1. reader' = [reader EXCEPT ![q] = NoLease] /\ pc' = [pc EXCEPT ![q] = pc'[q]]
    BY <1>3 DEF Return, CloseReader, Close, Released
  <2>2. QED
    BY <2>1, LeaseAssumption
<1>4. UNCHANGED reader \/ Open(q) \/ Return(q)
  BY DEF Handle, Admit, Deny, Select, AcquireSnapshot, AcquireLease, Acquire, Lookup,
     FreshnessCheck, ServePage, PageFails, Page, RecordAllowed, RecordFails,
     Fail, NoCapacity, NotOpened, Refuse
<1>5. QED
  BY <1>1, <1>2, <1>3, <1>4

(* When every handler has returned no lease has a reader, so that EvictAll  *)
(* retires them all.                                                        *)
LEMMA StopEmpties ==
    ASSUME LeaseInv, ReadersAreServed, Stop
    PROVE  leases' = {}
<1>1. ASSUME NEW l \in leases PROVE refCount[l] = 0
  <2>1. ReadersOf(l) = {}
    BY DEF Stop, ReadersAreServed, HoldsReader, Finished, ReadersOf, Request, LeaseInv, Typed
  <2>2. l \in Lease
    BY DEF LeaseInv, Typed
  <2>3. QED
    BY <2>1, <2>2, ReadersFinite DEF LeaseInv, CountsReaders
<1>2. Retire(Unread(leases))
  BY DEF Stop, Shutdown, EvictAll, Hide
<1>3. QED
  BY <1>1, <1>2 DEF Retire, Unread

(* Once stopped nothing starts again, and the store stays empty.            *)
LEMMA ShutdownNext ==
    LeaseInv /\ ServiceInv /\ ShutdownInv /\ [ServiceNext]_allVars => ShutdownInv'
<1> SUFFICES ASSUME LeaseInv, ServiceInv, ShutdownInv, [ServiceNext]_allVars
             PROVE  ShutdownInv'
  OBVIOUS
<1> USE DEF HoldsReader, Finished, Request
<1>1. LiveIsInMap'
  BY StoreStep, StoreKeepsLive DEF ShutdownInv
<1>2. ASSUME NEW q \in Request, Handle(q) PROVE ReadersAreServed' /\ StoppedIsEmpty'
  <2>1. ReadersAreServed'
    BY <1>2, HandleServesReaders DEF ShutdownInv
  <2>2. serving' = serving /\ pc[q] \notin Finished
    BY <1>2 DEF Handle, Admit, Deny, Select, AcquireSnapshot, AcquireLease,
       Lookup, FreshnessCheck, Open, ServePage, PageFails, RecordAllowed, RecordFails, Return,
       Fail, NoCapacity, NotOpened, Refuse, Step, worldVars
  <2>3. QED
    BY <2>1, <2>2 DEF ShutdownInv, StoppedIsEmpty
<1>3. ASSUME NEW q \in Request, Call(q) PROVE ReadersAreServed' /\ StoppedIsEmpty'
  <2>1. /\ serving = "ready" /\ serving' = "ready"
        /\ pc[q] = "idle" /\ pc' = [pc EXCEPT ![q] = "entered"]
        /\ reader' = reader
    BY <1>3 DEF Call, Step, storeVars, vars
  <2>2. QED
    BY <2>1 DEF ShutdownInv, ReadersAreServed, StoppedIsEmpty, ServiceInv, ServiceTyped
<1>4. CASE Stop
  <2>1. leases' = {}
    BY <1>4, StopEmpties DEF ShutdownInv
  <2>2. UNCHANGED <<pc, reader>> /\ \A q \in Request : pc[q] \in Finished
    BY <1>4 DEF Stop, Shutdown, EvictAll, Hide
  <2>3. QED
    BY <1>1, <2>1, <2>2 DEF ShutdownInv, ReadersAreServed, StoppedIsEmpty
<1>5. CASE Abandon
  BY <1>1, <1>5 DEF Abandon, Shutdown, EvictAll, Hide, ShutdownInv, ReadersAreServed, StoppedIsEmpty
<1>6. CASE StopIntake
  BY <1>1, <1>6 DEF StopIntake, storeVars, vars, ShutdownInv, ReadersAreServed, StoppedIsEmpty
<1>7. CASE ClockTick \/ Administer
  <2>1. UNCHANGED <<reader, pc, serving>> /\ leases' \subseteq leases
    BY <1>7 DEF ClockTick, Administer, Tick, Restart, Evict, Hide, Retire, worldVars
  <2>2. QED
    BY <1>1, <2>1 DEF ShutdownInv, ReadersAreServed, StoppedIsEmpty
<1>8. CASE (\E q \in Request : Cancel(q)) \/ (\E b \in Binding : Relist(b)) \/ UNCHANGED allVars
  <2>1. UNCHANGED <<reader, pc, serving, leases>>
    BY <1>8 DEF Cancel, Relist, allVars, storeVars, vars, worldVars
  <2>2. QED
    BY <1>1, <2>1 DEF ShutdownInv, ReadersAreServed, StoppedIsEmpty
<1>9. QED
  BY <1>1, <1>2, <1>3, <1>4, <1>5, <1>6, <1>7, <1>8 DEF ServiceNext, ShutdownInv

(* After a shutdown that waited for its handlers, nothing of any snapshot   *)
(* is left in memory and the whole quota is free (Server.Run followed by    *)
(* the deferred EvictAll of runWithDeps).                                   *)
THEOREM ShutdownIsComplete == ServiceSpec => []ShutdownFrees
<1>1. ServiceSpec => []LeaseInv /\ []QuotaInv
  <2>1. Spec => []QuotaInv
    BY QuotaInit, QuotaNext, LeaseInvariant, PTL DEF Spec
  <2>2. QED
    BY <2>1, ServiceImplementsStore, LeaseInvariant, PTL
<1>2. ServiceSpec => []ShutdownInv
  BY <1>1, ShutdownInit, ShutdownNext, ServiceInvariant, PTL DEF ServiceSpec
<1>3. QuotaInv /\ ShutdownInv => ShutdownFrees
  <2>1. ASSUME QuotaInv, leases = {} PROVE resident = 0
    BY <2>1, FS_EmptySet DEF QuotaInv, QuotaExact, Bytes
  <2>2. QED
    BY <2>1 DEF ShutdownInv, StoppedIsEmpty, LiveIsInMap, ShutdownFrees
<1>4. QED
  BY <1>1, <1>2, <1>3, PTL
=============================================================================
