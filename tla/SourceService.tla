---------------------------- MODULE SourceService ----------------------------
(***************************************************************************)
(* app.Service.ReadSelectedSource over the lease store, called by the MCP  *)
(* server's handlers while the catalog changes, leases expire, clients     *)
(* cancel and the server shuts down.                                       *)
(*                                                                         *)
(* Each call of the store is one step of LeaseStore (its mutex), and every *)
(* call of the catalog, of the acquirer and of the auditor is one step     *)
(* that may fail; between two of them anything may happen.  The acquirer   *)
(* is specified in SourceAcquisition.  The client policy is the profile of *)
(* the process, so that a binding is a selection.  A request opens at most *)
(* one reader, which is known by the request.                              *)
(***************************************************************************)
EXTENDS LeaseStore

Request == Reader

VARIABLES
    serving,       \* the server: ready, stopping (intake closed), stopped, or
                   \* abandoned (stopped without waiting for handlers)
    catalog,       \* the selections the catalog lists now
    pc,            \* per request
    wanted,        \* the selection in a request's input
    cursor,        \* the cursor in its input, or minted for it
    original,      \* the selection it works on
    result,        \* what it will answer: a page, the last page or an error
    cancelled,     \* the requests whose context is cancelled
    audited,       \* the durable audit events, as <<request, result>>
    known,         \* history: the cursors that clients were given
    seen           \* history: the selections listed since a request began

requestVars == <<wanted, cursor, original, result>>
worldVars == <<serving, catalog, cancelled, audited, known, seen>>
storeVars == vars
allVars == <<vars, worldVars, pc, requestVars>>

Stages == {"idle", "entered", "admitted", "acquire", "lease", "fresh", "open",
           "page", "record", "closing", "served", "refused"}
Finished == {"idle", "served", "refused"}

ServiceTypeOK ==
    /\ TypeOK
    /\ serving \in {"ready", "stopping", "stopped", "abandoned"}
    /\ catalog \subseteq Binding
    /\ pc \in [Request -> Stages]
    /\ wanted \in [Request -> Binding]
    /\ original \in [Request -> Binding]
    /\ cursor \in [Request -> Lease \cup {NoLease}]
    /\ result \in [Request -> {"none", "page", "last", "error"}]
    /\ cancelled \subseteq Request
    /\ audited \subseteq Request \X {"allow", "deny"}
    /\ known \subseteq Lease
    /\ seen \in [Request -> SUBSET Binding]

ServiceInit ==
    /\ Init
    /\ serving = "ready"
    /\ catalog = Binding
    /\ pc = [q \in Request |-> "idle"]
    /\ wanted \in {[q \in Request |-> b] : b \in Binding}
    /\ original = wanted
    /\ cursor = [q \in Request |-> NoLease]
    /\ result = [q \in Request |-> "none"]
    /\ cancelled = {}
    /\ audited = {}
    /\ known = {}
    /\ seen = [q \in Request |-> {}]

-----------------------------------------------------------------------------
(* One request. *)

Step(q, from, to) == pc[q] = from /\ pc' = [pc EXCEPT ![q] = to]
Keep(v, q, x) == v' = [v EXCEPT ![q] = x]

(* An error before the reader is open is returned at once.                  *)
Refuse(q, from) ==
    /\ Step(q, from, "refused")
    /\ UNCHANGED <<storeVars, requestVars, worldVars>>

(* acceptHandler refuses what comes after stopIntake.                       *)
Call(q) ==
    /\ serving = "ready"
    /\ Step(q, "idle", "entered")
    /\ \E b \in Binding, l \in known \cup {NoLease} :
           Keep(wanted, q, b) /\ Keep(cursor, q, l)
    /\ Keep(seen, q, catalog)
    /\ UNCHANGED <<storeVars, original, result, serving, catalog, cancelled, audited, known>>

(* Credential and policy are checked; a denial is recorded.                 *)
Admit(q) ==
    /\ q \notin cancelled
    /\ Step(q, "entered", "admitted")
    /\ UNCHANGED <<storeVars, requestVars, worldVars>>

Deny(q) ==
    /\ Step(q, "entered", "refused")
    /\ audited' = audited \cup {<<q, "deny">>}
    /\ UNCHANGED <<storeVars, requestVars, serving, catalog, cancelled, known, seen>>

(* A request without cursor needs exactly its selection in the catalog.     *)
Select(q) ==
    /\ pc[q] = "admitted" /\ q \notin cancelled
    /\ cursor[q] = NoLease
    /\ wanted[q] \in catalog
    /\ Step(q, "admitted", "acquire")
    /\ Keep(original, q, wanted[q])
    /\ UNCHANGED <<storeVars, wanted, cursor, result, worldVars>>

AcquireSnapshot(q) ==
    /\ Step(q, "acquire", "lease")
    /\ UNCHANGED <<storeVars, requestVars, worldVars>>

AcquireLease(q) ==
    /\ Step(q, "lease", "fresh")
    /\ \E l \in Lease, s \in Size : Acquire(l, s, original[q]) /\ Keep(cursor, q, l)
    /\ UNCHANGED <<wanted, original, result, worldVars>>

NoCapacity(q) == Refuse(q, "lease") /\ \E s \in Size : ~Fits(s)

(* Lookup: the selection of a request with a cursor is the cursor's.        *)
Usable(l) == minted[l] = epoch /\ l \in leases /\ ~hidden[l] /\ ~Expired(l)

Lookup(q) ==
    /\ pc[q] = "admitted" /\ q \notin cancelled
    /\ cursor[q] # NoLease
    /\ Usable(cursor[q])
    /\ Step(q, "admitted", "fresh")
    /\ Keep(original, q, binding[cursor[q]])
    /\ UNCHANGED <<storeVars, wanted, cursor, result, worldVars>>

(* Mutant: only the first page of a traversal is checked. *)
CurrentAtFirst(q) == cursor[q] \in known \/ original[q] \in catalog
Current(q) == original[q] \in catalog

FreshnessCheck(q) ==
    /\ pc[q] = "fresh" /\ q \notin cancelled
    /\ Current(q)
    /\ Step(q, "fresh", "open")
    /\ UNCHANGED <<storeVars, requestVars, worldVars>>

Open(q) ==
    /\ Step(q, "open", "page")
    /\ OpenReader(q, cursor[q], original[q])
    /\ UNCHANGED <<requestVars, worldVars>>

NotOpened(q) == Refuse(q, "open") /\ ~Usable(cursor[q])

(* With the reader open, every way out passes through the deferred Close.   *)
ServePage(q) ==
    /\ pc[q] = "page" /\ q \notin cancelled
    /\ Step(q, "page", "record")
    /\ Page(q)
    /\ \E r \in {"page", "last"} : Keep(result, q, r)
    /\ UNCHANGED <<wanted, cursor, original, worldVars>>

(* The context is cancelled, or the range is invalid or too large; in the   *)
(* second case Page has moved the deadline.                                 *)
PageFails(q) ==
    /\ Step(q, "page", "closing")
    /\ IF q \in cancelled THEN UNCHANGED storeVars ELSE Page(q)
    /\ Keep(result, q, "error")
    /\ UNCHANGED <<wanted, cursor, original, worldVars>>

RecordAllowed(q) ==
    /\ Step(q, "record", "closing")
    /\ audited' = audited \cup {<<q, "allow">>}
    /\ UNCHANGED <<storeVars, requestVars, serving, catalog, cancelled, known, seen>>

(* Mutant: a page is served although it could not be recorded. *)
ServedAnyway(r) == r
Unrecorded(r) == "error"

RecordFails(q) ==
    /\ Step(q, "record", "closing")
    /\ Keep(result, q, Unrecorded(result[q]))
    /\ UNCHANGED <<storeVars, wanted, cursor, original, worldVars>>

(* Mutant: an error leaves the reader open. *)
CloseIfServed(q) == IF result[q] = "error" THEN UNCHANGED storeVars ELSE Close(q)
CloseReader(q) == Close(q)

(* The last page carries no cursor.                                         *)
Return(q) ==
    /\ Step(q, "closing", IF result[q] = "error" THEN "refused" ELSE "served")
    /\ CloseReader(q)
    /\ known' = IF result[q] = "page" THEN known \cup {cursor[q]} ELSE known
    /\ UNCHANGED <<requestVars, serving, catalog, cancelled, audited, seen>>

(* Where each of the errors of a step without effect is returned.  The      *)
(* calls of the catalog and of the acquirer may fail for reasons of theirs. *)
Fail(q) ==
    \/ Refuse(q, "entered") \/ Refuse(q, "admitted") \/ Refuse(q, "acquire")
    \/ NoCapacity(q) \/ Refuse(q, "fresh") \/ NotOpened(q)

Handle(q) ==
    \/ Admit(q) \/ Deny(q) \/ Select(q) \/ AcquireSnapshot(q) \/ AcquireLease(q)
    \/ Lookup(q) \/ FreshnessCheck(q) \/ Open(q) \/ ServePage(q) \/ PageFails(q)
    \/ RecordAllowed(q) \/ RecordFails(q) \/ Return(q) \/ Fail(q)

-----------------------------------------------------------------------------
(* The world around them. *)

Cancel(q) ==
    /\ pc[q] \notin Finished
    /\ cancelled' = cancelled \cup {q}
    /\ UNCHANGED <<storeVars, pc, requestVars, serving, catalog, audited, known, seen>>

Relist(b) ==
    /\ catalog' = IF b \in catalog THEN catalog \ {b} ELSE catalog \cup {b}
    /\ seen' = [q \in Request |->
                   IF pc[q] \in Finished THEN seen[q] ELSE seen[q] \cup catalog']
    /\ UNCHANGED <<storeVars, pc, requestVars, serving, cancelled, audited, known>>

ClockTick == Tick /\ UNCHANGED <<pc, requestVars, worldVars>>

(* Run stops the intake when its context is cancelled, which cancels the    *)
(* requests as well, or when the client is gone.                            *)
StopIntake ==
    /\ serving = "ready"
    /\ serving' = "stopping"
    /\ cancelled' \in {cancelled, {q \in Request : pc[q] \notin Finished} \cup cancelled}
    /\ UNCHANGED <<storeVars, pc, requestVars, catalog, audited, known, seen>>

Shutdown == EvictAll

(* handlers.Wait, and then the deferred EvictAll of runWithDeps.            *)
Stop ==
    /\ serving = "stopping"
    /\ \A q \in Request : pc[q] \in Finished
    /\ serving' = "stopped"
    /\ Shutdown
    /\ UNCHANGED <<pc, requestVars, catalog, cancelled, audited, known, seen>>

(* When the client is gone and closing its session fails, Run returns       *)
(* without waiting.                                                         *)
Abandon ==
    /\ serving = "stopping"
    /\ serving' = "abandoned"
    /\ Shutdown
    /\ UNCHANGED <<pc, requestVars, catalog, cancelled, audited, known, seen>>

(* The store's other operations have no caller in this program; a holder of *)
(* the same store may use them at any time.                                 *)
Administer ==
    /\ Restart \/ \E l \in Lease : Evict(l)
    /\ UNCHANGED <<pc, requestVars, worldVars>>

ServiceNext ==
    \/ \E q \in Request : Call(q) \/ Handle(q) \/ Cancel(q)
    \/ \E b \in Binding : Relist(b)
    \/ ClockTick \/ Administer \/ StopIntake \/ Stop \/ Abandon

ServiceSpec == ServiceInit /\ [][ServiceNext]_allVars

-----------------------------------------------------------------------------
(* Properties. *)

(* "Every request MUST freshly re-query the catalog": the selection of a    *)
(* page that is served was listed at some moment of that very request.      *)
ServedWasCurrent == \A q \in Request : pc[q] = "served" => original[q] \in seen[q]

(* A page reaches the client exactly if an allow event was recorded for it. *)
ServedIsAudited ==
    \A q \in Request :
        /\ pc[q] = "served" => <<q, "allow">> \in audited
        /\ pc[q] = "refused" => <<q, "allow">> \notin audited

(* What a client gets was current within its request and is on record.      *)
ServedIsSound == ServedWasCurrent /\ ServedIsAudited

(* After a shutdown that waited nothing of any snapshot is left in memory,  *)
(* whichever requests failed half way before.                               *)
ShutdownFrees ==
    serving = "stopped" => /\ leases = {}
                           /\ resident = 0
                           /\ \A l \in Lease : data[l] # "live"
=============================================================================
