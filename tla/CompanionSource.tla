--------------------------- MODULE CompanionSource ---------------------------
(* Reading one catalogued member through the VS Code companion, end to end:   *)
(* the Code for IBM i session the extension borrows and its generation        *)
(* counter (codeforiAdapter.ts), the member downloaded into a private         *)
(* directory (sourceAcquisition.ts), the cursors of those artifacts           *)
(* (sourceArtifactBroker.ts), the Go client that remembers which companion    *)
(* owns a cursor (codefori/source_client.go) and the MCP tool above it        *)
(* (mcp/codefori.go), down to its shutdown.  A call may hold one HTTP request *)
(* at a time; the companion keeps working on a request its client gave up.    *)
EXTENDS Integers, FiniteSets

CONSTANTS
    Call,        \* the read_selected_source calls; a first call names its artifact and cursor
    Down,        \* the request slot of the server's own shutdown loop
    MaxOwners,   \* the client's bound on remembered cursors (256)
    MaxConns     \* bound: IBM i connections the session goes through

ASSUME SourceAssumption == Down \notin Call /\ MaxOwners \in Nat /\ MaxConns \in Nat \ {0}

Slot == Call \cup {Down}

VARIABLES
    session,  \* the connection Code for IBM i holds (0: none), whether its event was delivered,
              \* and the adapter's connectionGeneration and connectionAvailable
    ext,      \* the extension: "up", "closing" (broker.stop waits for requests), "down" (deactivated)
    art,      \* per first call: its directory and artifact
    recs,     \* the artifact broker's records
    req,      \* per slot: the HTTP request the companion is working on
    call,     \* per call: the MCP handler
    owners,   \* the client's sourceOwners
    live,     \* the server's liveCursors
    server    \* the server: its phase, the cursors still to dispose of, whether one failed

companion == <<session, ext, art, recs>>
client == <<call, owners, live, server>>
sourceVars == <<session, ext, art, recs, req, call, owners, live, server>>

Outcome == {"page", "blank", "last"}   \* a page; one ending in a blank line; one at EOF
Answer == Outcome \cup {"", "disposed", "expired", "unreadable", "unavailable", "cleanup_failed"}

Connection == [conn: 0..MaxConns, used: 1..MaxConns, told: BOOLEAN, gen: Nat, avail: BOOLEAN]
Artifact == [st: {"none", "made", "live", "closing", "gone", "stuck"},
             from: 0..MaxConns, gen: Nat, expiring: BOOLEAN]
Request == [pc: {"idle", "resolve", "download", "open", "read", "wait", "done"},
            cur: Slot, gen: Nat, early: BOOLEAN, res: Answer]
Handler == [pc: {"idle", "sent", "ending", "disposing", "done"},
            kind: {"none", "first", "next"}, cur: Slot,
            got: Answer, ans: {"none", "page", "error", "lost"}]
Server == [phase: {"up", "draining", "disposing", "ended"}, left: SUBSET Call, failed: BOOLEAN]

SourceTypeOK ==
    /\ session \in Connection
    /\ ext \in {"up", "closing", "down"}
    /\ art \in [Call -> Artifact]
    /\ recs \subseteq Call
    /\ req \in [Slot -> Request]
    /\ call \in [Call -> Handler]
    /\ owners \subseteq Call /\ Cardinality(owners) <= MaxOwners
    /\ live \subseteq Call
    /\ server \in Server

NoReq == [pc |-> "idle", cur |-> Down, gen |-> 0, early |-> FALSE, res |-> ""]

NoCall == [pc |-> "idle", kind |-> "none", cur |-> Down, got |-> "", ans |-> "none"]

SourceInit ==
    /\ session = [conn |-> 1, used |-> 1, told |-> TRUE, gen |-> 0, avail |-> TRUE]
    /\ ext = "up"
    /\ art = [c \in Call |-> [st |-> "none", from |-> 0, gen |-> 0, expiring |-> FALSE]]
    /\ recs = {}
    /\ req = [s \in Slot |-> NoReq]
    /\ call = [c \in Call |-> NoCall]
    /\ owners = {} /\ live = {}
    /\ server = [phase |-> "up", left |-> {}, failed |-> FALSE]

----------------------------------------------------------------------------
(* The session.  Code for IBM i changes its connection and then tells its     *)
(* subscribers, in that order and once for each change.                       *)

Refreshed == [session EXCEPT !.avail = session.conn # 0]
\* validGeneration, and the same after refreshConnection
Current(g) == session.avail /\ session.gen = g /\ ext \in {"up", "closing"}

Closing(as) == [a \in Call |-> IF a \in as /\ art[a].st = "live" THEN [art[a] EXCEPT !.st = "closing"] ELSE art[a]]

\* the connection goes, or another comes; nobody has been told yet (no more changes once nobody reads it)
ConnectionChanges ==
    /\ session.told /\ ext # "down"
    /\ \/ session.conn # 0 /\ session' = [session EXCEPT !.conn = 0, !.told = FALSE]
       \/ /\ session.conn = 0 /\ session.used < MaxConns
          /\ session' = [session EXCEPT !.conn = @ + session.used + 1, !.used = @ + 1, !.told = FALSE]
    /\ UNCHANGED <<ext, art, recs, req, client>>

\* the connected or disconnected callback; the artifact broker clears its records at once
SessionEvent ==
    /\ ~session.told
    /\ session' = [Refreshed EXCEPT !.told = TRUE, !.gen = @ + 1]
    /\ IF ext \in {"up", "closing"} THEN art' = Closing(recs) /\ recs' = {} ELSE UNCHANGED <<art, recs>>
    /\ UNCHANGED <<ext, req, client>>

----------------------------------------------------------------------------
(* The artifact.                                                              *)

\* the ten minute timer disposes of a live artifact
Expire(a) ==
    /\ art[a].st = "live"
    /\ art' = [art EXCEPT ![a].st = "closing", ![a].expiring = TRUE]
    /\ UNCHANGED <<session, ext, recs, req, client>>

\* close and rm settle, in either way
Remove(a) ==
    /\ art[a].st = "closing"
    /\ \E end \in {"gone", "stuck"} : art' = [art EXCEPT ![a].st = end]
    /\ UNCHANGED <<session, ext, recs, req, client>>

\* SourceArtifact.dispose as a request calls it: only the first caller waits for the removal
Disposing(s, a, res) ==
    /\ art' = Closing({a})
    /\ req' = [req EXCEPT ![s] = [pc |-> "wait", cur |-> a, gen |-> art[a].gen,
                                  early |-> art[a].st = "closing", res |-> res]]

\* the answer, dropped when its client is gone
Done(s, a, res) ==
    req' = [req EXCEPT ![s] = IF s \in Call /\ call[s].pc \in {"done"} THEN NoReq
                              ELSE [NoReq EXCEPT !.pc = "done", !.cur = a, !.res = res]]

Taken(s) == req' = IF req[s].pc = "done" THEN [req EXCEPT ![s] = NoReq] ELSE req

\* acquireCatalogSource gives the directory up before it became an artifact
GiveUpDirectory(s, a, res) ==
    \E end \in {"gone", "stuck"} :
        /\ art' = [art EXCEPT ![a].st = end]
        /\ Done(s, a, IF end = "stuck" THEN "cleanup_failed" ELSE res)

----------------------------------------------------------------------------
(* The companion's side of a request.  An action takes the step up to the     *)
(* next await; what it read of the session is checked again after it.         *)

\* Mutant: the cursor is dropped and its artifact left to its timer.
DiscardForgetting(s, a) == recs' = recs \ {a} /\ Done(s, a, "unavailable") /\ UNCHANGED art

\* discard: the cursor goes, the artifact is disposed of, the answer is "unavailable"
Discard(s, a) == recs' = recs \ {a} /\ Disposing(s, a, "unavailable")

\* pageRecord up to the read: the generation, then what page() says of a disposed artifact
PageRecord(s, a) ==
    IF ~Current(art[a].gen) THEN Discard(s, a)
    ELSE \/ /\ art[a].expiring   \* awaits the removal the timer began
            /\ req' = [req EXCEPT ![s] = [NoReq EXCEPT !.pc = "wait", !.cur = a, !.gen = art[a].gen, !.res = "expired"]]
            /\ UNCHANGED <<art, recs>>
         \/ /\ ~art[a].expiring /\ art[a].st \in {"closing", "gone", "stuck"}
            /\ Done(s, a, IF art[a].st = "stuck" THEN "cleanup_failed" ELSE "expired")
            /\ recs' = recs \ {a} /\ UNCHANGED art
         \/ /\ art[a].st = "live"
            /\ req' = [req EXCEPT ![s] = [NoReq EXCEPT !.pc = "read", !.cur = a, !.gen = art[a].gen]]
            /\ UNCHANGED <<art, recs>>

\* page with a candidate, up to the catalog query
StartFirst(c) ==
    /\ session' = Refreshed
    /\ IF session.conn = 0 THEN Done(c, c, "unavailable")
       ELSE req' = [req EXCEPT ![c] = [NoReq EXCEPT !.pc = "resolve", !.cur = c, !.gen = session.gen]]
    /\ UNCHANGED <<ext, art, recs>>

\* page with a cursor
StartNext(s, a) ==
    /\ IF a \in recs THEN PageRecord(s, a) ELSE Done(s, a, "expired") /\ UNCHANGED <<art, recs>>
    /\ UNCHANGED <<session, ext>>

\* source_artifact.dispose
StartDispose(s, a) ==
    /\ IF a \in recs THEN recs' = recs \ {a} /\ Disposing(s, a, "disposed")
                     ELSE Done(s, a, "expired") /\ UNCHANGED <<art, recs>>
    /\ UNCHANGED <<session, ext>>

\* no usable rows, no row that is the candidate, several of them, or a failed query
NoCandidate(c) == Done(c, c, "unavailable") /\ UNCHANGED <<session, art>>

\* adapter.acquireCatalogSource: the content provider of the connection there is now
Acquires(c) ==
    /\ session' = Refreshed
    /\ IF session.conn = 0 THEN Done(c, c, "unavailable") /\ UNCHANGED art
       ELSE /\ art' = [art EXCEPT ![c] = [@ EXCEPT !.st = "made", !.from = session.conn, !.gen = req[c].gen]]
            /\ req' = [req EXCEPT ![c].pc = "download"]

\* the catalog answered: unless exactly one row is the candidate there is nothing to download
Resolved(c) ==
    /\ req[c].pc = "resolve"
    /\ NoCandidate(c) \/ (Current(req[c].gen) /\ Acquires(c))
    /\ UNCHANGED <<ext, recs, client>>

\* the provider returned; it may have written nothing, or thrown
Downloaded(c) ==
    /\ req[c].pc = "download"
    /\ \/ GiveUpDirectory(c, c, "unavailable")
       \/ Current(req[c].gen) /\ req' = [req EXCEPT ![c].pc = "open"] /\ UNCHANGED art
    /\ UNCHANGED <<session, ext, recs, client>>

\* the file is opened and becomes an artifact; the session is looked at once more
Opened(c) ==
    /\ req[c].pc = "open"
    /\ \/ GiveUpDirectory(c, c, "unavailable") /\ UNCHANGED recs
       \/ /\ ~Current(req[c].gen)
          /\ art' = [art EXCEPT ![c].st = "closing"]
          /\ req' = [req EXCEPT ![c].pc = "wait", ![c].res = "unavailable"] /\ UNCHANGED recs
       \/ /\ Current(req[c].gen)
          /\ art' = [art EXCEPT ![c].st = "live"] /\ recs' = recs \cup {c}
          /\ req' = [req EXCEPT ![c].pc = "read"]
    /\ UNCHANGED <<session, ext, client>>

\* Mutant: the session is not looked at again after the read.
ReadUnchecked(s) ==
    LET a == req[s].cur IN
    /\ req[s].pc = "read"
    /\ \/ art[a].st \in {"live", "closing"} /\ (\E o \in Outcome : Done(s, a, o)) /\ UNCHANGED <<art, recs>>
       \/ Disposing(s, a, "unreadable") /\ UNCHANGED recs
    /\ UNCHANGED <<session, ext, client>>

\* the page was read, or could not be; a page is answered only if the session is still the artifact's
Read(s) ==
    LET a == req[s].cur IN
    /\ req[s].pc = "read"
    /\ \/ /\ art[a].st \in {"live", "closing"}
          /\ IF Current(req[s].gen)
               THEN \E o \in Outcome : Done(s, a, o) /\ UNCHANGED <<art, recs>>
               ELSE Discard(s, a)
       \/ Disposing(s, a, "unreadable") /\ UNCHANGED recs
    /\ UNCHANGED <<session, ext, client>>

\* the removal this request waits for settled (or another caller's is under way: dispose is answered at once)
Waited(s) ==
    LET a == req[s].cur   res == req[s].res   stuck == ~req[s].early /\ art[a].st = "stuck" IN
    /\ req[s].pc = "wait" /\ (req[s].early \/ art[a].st \in {"gone", "stuck"})
    /\ Done(s, a, IF res = "unavailable" \/ (res # "disposed" /\ ~Current(req[s].gen)) THEN "unavailable"
                  ELSE IF stuck THEN "cleanup_failed" ELSE res)
    /\ recs' = recs \ {a}
    /\ UNCHANGED <<session, ext, art, client>>

\* extension deactivate: broker.stop refuses new requests and waits for those in flight
StopListening ==
    /\ ext = "up" /\ ext' = "closing"
    /\ UNCHANGED <<session, art, recs, req, client>>

\* then the adapter and the artifact broker are deactivated
Deactivate ==
    /\ ext = "closing" /\ \A s \in Slot : req[s].pc \in {"idle", "done"}
    /\ ext' = "down" /\ session' = [session EXCEPT !.avail = FALSE]
    /\ art' = Closing(recs) /\ recs' = {}
    /\ UNCHANGED <<req, client>>

----------------------------------------------------------------------------
(* The client and the MCP handler.                                            *)

Ends(c, ans) == call' = [call EXCEPT ![c] = [NoCall EXCEPT !.pc = "done", !.ans = ans]]
Sent(c, kind, a) == call' = [call EXCEPT ![c].pc = "sent", ![c].kind = kind, ![c].cur = a]

\* a first page: any companion the registry selects, or none
ReadFirst(c) ==
    /\ call[c].pc = "idle" /\ server.phase = "up"
    /\ \/ ext = "up" /\ Sent(c, "first", c) /\ StartFirst(c)
       \/ Ends(c, "error") /\ UNCHANGED <<companion, req>>
    /\ UNCHANGED <<owners, live, server>>

\* a later page goes to the companion that owns the cursor and to no other
ReadNext(c, a) ==
    /\ call[c].pc = "idle" /\ server.phase = "up" /\ a \in live
    /\ IF a \in owners /\ ext = "up"
         THEN Sent(c, "next", a) /\ StartNext(c, a) /\ UNCHANGED owners
         ELSE Ends(c, "error") /\ owners' = owners \ {a} /\ UNCHANGED <<companion, req>>
    /\ UNCHANGED <<live, server>>

\* the deadline, a cancelled call or a broken connection; a broken one also forgets the owner
GiveUp(c) ==
    /\ call[c].pc \in {"sent", "disposing"} /\ Ends(c, "error") /\ Taken(c)
    /\ \/ call[c].pc = "sent" /\ UNCHANGED owners
       \/ (call[c].kind = "next" \/ call[c].pc = "disposing") /\ owners' = owners \ {call[c].cur}
    /\ UNCHANGED <<companion, live, server>>

\* affinity of a cursor is forgotten after ten minutes
OwnerExpires(a) ==
    /\ a \in owners /\ owners' = owners \ {a}
    /\ UNCHANGED <<companion, req, call, live, server>>

\* rememberSourceOwner, for a first page
Remembers(a) == Cardinality(owners) < MaxOwners

\* companionSourcePage counts the lines again, and miscounts a blank last one
Miscounted(r) == r = "blank"

\* the page answer: PageSource keeps the owner's book, readSelectedSource checks the page and tracks the cursor
Receive(c) ==
    LET a == call[c].cur   r == req[c].res   first == call[c].kind = "first" IN
    /\ call[c].pc = "sent" /\ req[c].pc = "done"
    /\ \/ /\ r = "last" \/ (Miscounted(r) /\ (first => Remembers(a)))
          /\ owners' = IF r = "last" THEN owners \ {a} ELSE owners \cup (IF first THEN {a} ELSE {})
          /\ call' = [call EXCEPT ![c].pc = "ending", ![c].got = r]
          /\ Taken(c) /\ UNCHANGED <<companion, live>>
       \/ /\ r = "page" /\ (first => Remembers(a))
          /\ owners' = owners \cup (IF first THEN {a} ELSE {}) /\ live' = live \cup {a}
          /\ Ends(c, "page") /\ Taken(c) /\ UNCHANGED companion
       \/ /\ r \in {"page", "blank"} /\ first /\ ~Remembers(a)   \* discardSource: the new artifact is sent back
          /\ IF ext = "up" THEN StartDispose(c, a) /\ call' = [call EXCEPT ![c].pc = "disposing"]
                           ELSE Ends(c, "error") /\ Taken(c) /\ UNCHANGED companion
          /\ UNCHANGED <<owners, live>>
       \/ /\ r \notin Outcome
          /\ owners' = IF first THEN owners ELSE owners \ {a}
          /\ Ends(c, "error") /\ Taken(c) /\ UNCHANGED <<companion, live>>
    /\ UNCHANGED server

\* disposeSource at EOF, or when the page was refused: DisposeSource needs to know the owner.
\* "lost": the last page had arrived and its companion, still there, is not even asked.
DisposeAfter(c) ==
    LET a == call[c].cur   last == call[c].got = "last" IN
    /\ call[c].pc = "ending"
    /\ IF a \in owners /\ ext = "up"
         THEN call' = [call EXCEPT ![c].pc = "disposing"] /\ StartDispose(c, a) /\ UNCHANGED owners
         ELSE /\ Ends(c, IF last /\ ext = "up" THEN "lost" ELSE "error")
              /\ owners' = owners \ {a} /\ UNCHANGED <<companion, req>>
    /\ UNCHANGED <<live, server>>

DisposedAfter(c) ==
    LET a == call[c].cur   gone == req[c].res = "disposed" IN
    /\ call[c].pc = "disposing" /\ req[c].pc = "done"
    /\ Ends(c, IF gone /\ call[c].got = "last" THEN "page" ELSE "error") /\ Taken(c)
    /\ owners' = owners \ {a} /\ live' = IF gone THEN live \ {a} ELSE live
    /\ UNCHANGED <<companion, server>>

----------------------------------------------------------------------------
(* The server's end: intake stops, the handlers are waited for, and every     *)
(* cursor still live is disposed of, one after the other.                     *)

StopIntake ==
    /\ server.phase = "up" /\ server' = [server EXCEPT !.phase = "draining"]
    /\ UNCHANGED <<companion, req, call, owners, live>>

Drained ==
    /\ server.phase = "draining" /\ \A c \in Call : call[c].pc \in {"idle", "done"}
    /\ server' = [server EXCEPT !.phase = "disposing", !.left = live]
    /\ UNCHANGED <<companion, req, call, owners, live>>

\* Mutant: a cursor whose owner is no longer known is passed over.
DisposeLiveLenient(a) ==
    /\ server.phase = "disposing" /\ a \in server.left /\ req[Down].pc = "idle"
    /\ IF a \in owners /\ ext = "up"
         THEN StartDispose(Down, a) /\ UNCHANGED <<owners, server>>
         ELSE /\ server' = [server EXCEPT !.left = @ \ {a}] /\ UNCHANGED <<companion, req, owners>>
    /\ UNCHANGED <<call, live>>

DisposeLive(a) ==
    /\ server.phase = "disposing" /\ a \in server.left /\ req[Down].pc = "idle"
    /\ IF a \in owners /\ ext = "up"
         THEN StartDispose(Down, a) /\ UNCHANGED <<owners, server>>
         ELSE /\ owners' = owners \ {a} /\ UNCHANGED <<companion, req>>
              /\ server' = [server EXCEPT !.left = @ \ {a}, !.failed = TRUE]
    /\ UNCHANGED <<call, live>>

\* the answer, or the client's deadline: the companion's part of an abandoned dispose is only a wait
DisposedLive ==
    LET a == req[Down].cur IN
    /\ server.phase = "disposing" /\ req[Down].pc \in {"wait", "done"}
    /\ LET gone == req[Down].pc = "done" /\ req[Down].res = "disposed" IN
       /\ live' = IF gone THEN live \ {a} ELSE live
       /\ server' = [server EXCEPT !.left = @ \ {a}, !.failed = @ \/ ~gone]
    /\ owners' = owners \ {a} /\ req' = [req EXCEPT ![Down] = NoReq]
    /\ UNCHANGED <<companion, call>>

RunReturns ==
    /\ server.phase = "disposing" /\ server.left = {} /\ req[Down].pc = "idle"
    /\ server' = [server EXCEPT !.phase = "ended"]
    /\ UNCHANGED <<companion, req, call, owners, live>>

----------------------------------------------------------------------------
SourceNext ==
    \/ ConnectionChanges \/ SessionEvent \/ StopListening \/ Deactivate
    \/ StopIntake \/ Drained \/ DisposedLive \/ RunReturns
    \/ \E s \in Slot : Read(s) \/ Waited(s)
    \/ \E c \in Call :
        \/ Resolved(c) \/ Downloaded(c) \/ Opened(c) \/ Expire(c) \/ Remove(c)
        \/ ReadFirst(c) \/ GiveUp(c) \/ OwnerExpires(c) \/ Receive(c)
        \/ DisposeAfter(c) \/ DisposedAfter(c) \/ DisposeLive(c)
        \/ \E a \in Call : ReadNext(c, a)

SourceSpec == SourceInit /\ [][SourceNext]_sourceVars

----------------------------------------------------------------------------
(* Properties.                                                                *)

\* A page is answered only while the session that downloaded its artifact is the session held:
\* a reconnection between any two of the awaits withholds it (isSourceSessionCurrent).
PagesAreCurrent ==
    [][\A s \in Slot : req[s].pc = "read" /\ req'[s].pc = "done" =>
           session.conn \in {0, art[req[s].cur].from}]_sourceVars

\* An artifact is reachable until it is disposed of: one that is live is recorded under its cursor,
\* so a session change, dispose or deactivate finds it; after deactivation none is left open.
LiveIsListed ==
    \A a \in Call : art[a].st = "live" => a \in recs /\ ext # "down"

\* A server whose Run returned no error has disposed of every artifact whose cursor it handed out.
CleanEnd ==
    server.phase = "ended" /\ ~server.failed =>
        \A c \in Call : call[c].ans = "page" => art[c].st # "live"

\* "At EOF [...] Nexus disposes the Companion artifact before returning" its page
\* (docs/CODEFORI_COMPANION.md:82): a last page that arrived is returned, or its companion fails.
LastPageServed == \A c \in Call : call[c].ans # "lost"

==============================================================================
