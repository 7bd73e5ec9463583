-------------------------- MODULE Companion_proofs --------------------------
(***************************************************************************)
(* For any number of windows, ports, calls and connections: a companion    *)
(* works only on calls that were meant for it, a broker that stopped left  *)
(* nothing in the directory of registrations, a page is of the session     *)
(* that is held, and no artifact is open that nothing can dispose of.      *)
(***************************************************************************)
EXTENDS CompanionRegistry, CompanionSource, TLAPS

----------------------------------------------------------------------------
\* CompanionRegistry: the files of a window.

BrokerEntry ==
    [pc: {"off", "listen", "publish", "publishing", "up", "writing", "unpublish", "quarantined",
          "closing", "stopped", "dead"},
     closed: BOOLEAN, port: Port \cup {NoPort}]
FileEntry == [json: Entry, temp: Entry, moving: BOOLEAN]

\* A broker and its files keep their shape.
BrokerShape ==
    /\ broker \in [Window -> BrokerEntry]
    /\ files \in [Window -> FileEntry]

\* What the directory holds of a window, as its chain of operations goes.
Clean(f) == ~f.json.there /\ ~f.temp.there /\ ~f.moving
Leaves(pc, f) ==
    /\ pc \in {"off", "listen", "publish", "closing", "stopped"} => Clean(f)
    /\ pc = "publishing" => ~f.json.there /\ ~f.moving
    /\ pc = "up" => ~f.temp.there /\ ~f.moving
    /\ pc = "writing" => ~f.moving
    /\ pc \in {"unpublish", "quarantined"} => ~f.json.there /\ ~f.temp.there

FilesInv == BrokerShape /\ \A w \in Window : Leaves(broker[w].pc, files[w])

LEMMA EntryIs ==
    ASSUME BrokerShape, NEW w \in Window
    PROVE  /\ broker[w] \in BrokerEntry
           /\ files[w] \in FileEntry
           /\ Absent \in Entry
BY DEF BrokerShape, BrokerEntry, FileEntry, Absent, Entry

LEMMA FilesStep == FilesInv /\ [RegistryNext]_registryVars => FilesInv'
<1> SUFFICES ASSUME FilesInv, [RegistryNext]_registryVars PROVE FilesInv'
  OBVIOUS
<1> USE DEF Goes
<1>1. CASE UNCHANGED <<broker, files>>
  BY <1>1 DEF FilesInv, BrokerShape, BrokerEntry, FileEntry
<1>2. ASSUME NEW w \in Window,
             \/ Start(w) \/ Listened(w) \/ WriteTemp(w) \/ Rename(w) \/ WriteFails(w) \/ Stop(w)
             \/ Quarantine(w) \/ RemoveMoved(w) \/ Closed(w) \/ Crash(w) \/ LeaseEnds(w)
      PROVE  FilesInv'
  <2> DEFINE b == broker[w]
             f == files[w]
  <2>1. /\ b \in BrokerEntry
        /\ f \in FileEntry
        /\ Absent \in Entry /\ ~Absent.there
        /\ DOMAIN broker = Window /\ DOMAIN files = Window
    BY EntryIs DEF FilesInv, BrokerShape, BrokerEntry, FileEntry, Absent
  <2>2. Leaves(b.pc, f)
    BY DEF FilesInv
  <2>3. CASE Start(w)
    BY <2>1, <2>2, <2>3 DEF Start, FilesInv, BrokerShape, BrokerEntry, FileEntry, Leaves
  <2>4. CASE Listened(w)
    BY <2>1, <2>2, <2>4 DEF Listened, FilesInv, BrokerShape, BrokerEntry, FileEntry, Leaves
  <2>5. CASE WriteTemp(w)
    <3>1. Registration(w) \in Entry
      <4>1. (focus = w /\ ibmi[w].up) \in BOOLEAN
        OBVIOUS
      <4> DEFINE eligible == focus = w /\ ibmi[w].up
      <4> HIDE DEF eligible
      <4>2. [there |-> TRUE, eligible |-> eligible, fresh |-> TRUE] \in Entry
        BY <4>1 DEF Entry, eligible
      <4>3. QED
        BY <4>2 DEF Registration, eligible
    <3> DEFINE g == [f EXCEPT !.temp = Registration(w)]
    <3>2. /\ files' = [files EXCEPT ![w] = g]
          /\ g \in FileEntry
          /\ g.json = f.json /\ g.moving = f.moving
      BY <2>1, <2>5, <3>1 DEF WriteTemp, FileEntry
    <3> HIDE DEF g
    <3>3. CASE b.pc = "publish" /\ broker' = [broker EXCEPT ![w].pc = "publishing"]
      BY <2>1, <2>2, <3>2, <3>3 DEF FilesInv, BrokerShape, BrokerEntry, FileEntry, Leaves, Clean
    <3>4. CASE b.pc = "up" /\ broker' = [broker EXCEPT ![w].pc = "writing"]
      BY <2>1, <2>2, <3>2, <3>4 DEF FilesInv, BrokerShape, BrokerEntry, FileEntry, Leaves
    <3>5. QED
      BY <2>5, <3>3, <3>4 DEF WriteTemp
  <2>6. CASE Rename(w)
    BY <2>1, <2>2, <2>6 DEF Rename, FilesInv, BrokerShape, BrokerEntry, FileEntry, Leaves, Clean
  <2>7. CASE WriteFails(w)
    BY <2>1, <2>2, <2>7 DEF WriteFails, FilesInv, BrokerShape, BrokerEntry, FileEntry, Leaves, Clean
  <2>8. CASE Stop(w)
    BY <2>1, <2>2, <2>8 DEF Stop, FilesInv, BrokerShape, BrokerEntry, FileEntry, Leaves
  <2>9. CASE Quarantine(w)
    BY <2>1, <2>2, <2>9 DEF Quarantine, FilesInv, BrokerShape, BrokerEntry, FileEntry, Leaves, Clean
  <2>10. CASE RemoveMoved(w)
    BY <2>1, <2>2, <2>10 DEF RemoveMoved, FilesInv, BrokerShape, BrokerEntry, FileEntry, Leaves, Clean
  <2>11. CASE Closed(w)
    BY <2>1, <2>2, <2>11 DEF Closed, FilesInv, BrokerShape, BrokerEntry, FileEntry, Leaves
  <2>12. CASE Crash(w)
    BY <2>1, <2>2, <2>12 DEF Crash, FilesInv, BrokerShape, BrokerEntry, FileEntry, Leaves
  <2>13. CASE LeaseEnds(w)
    BY <2>1, <2>2, <2>13 DEF LeaseEnds, Entry, FilesInv, BrokerShape, BrokerEntry, FileEntry, Leaves, Clean
  <2>14. QED
    BY <1>2, <2>3, <2>4, <2>5, <2>6, <2>7, <2>8, <2>9, <2>10, <2>11, <2>12, <2>13
<1>3. CASE \/ FocusMoves \/ SelectionExpires \/ UNCHANGED registryVars
           \/ \E w \in Window : SessionChanges(w) \/ OrphanSettles(w)
  BY <1>1, <1>3 DEF FocusMoves, SelectionExpires, SessionChanges, OrphanSettles, registryVars
<1>4. CASE \E c \in ToolCall :
             \/ ListDirectory(c) \/ Target(c) \/ Send(c) \/ AnswerAtOnce(c) \/ Begin(c)
             \/ SettleQuery(c) \/ SettleCatalog(c) \/ SettleProgram(c) \/ ToolReturns(c)
             \/ ToolTimesOut(c)
  BY <1>1, <1>4 DEF ListDirectory, Target, Send, AnswerAtOnce, Begin, SettleQuery, SettleCatalog,
     SettleProgram, Settle, ToolReturns, ToolTimesOut
<1>5. QED
  BY <1>2, <1>3, <1>4 DEF RegistryNext

\* A broker that stopped, whatever it was doing when it was told to, left no file.
THEOREM StoppedLeavesNothing == RegistrySpec => []StoppedIsGone
<1>1. RegistryInit => FilesInv
  BY DEF RegistryInit, FilesInv, BrokerShape, BrokerEntry, FileEntry, Leaves, Clean, Absent, Entry
<1>2. FilesInv => StoppedIsGone
  BY DEF FilesInv, Leaves, Clean, StoppedIsGone
<1>3. QED
  BY <1>1, <1>2, FilesStep, PTL DEF RegistrySpec

----------------------------------------------------------------------------
\* CompanionRegistry: the calls.

ToolInv ==
    /\ DOMAIN tool = ToolCall
    /\ \A c \in ToolCall : {"pc", "seen", "to", "at", "method", "gen"} \subseteq DOMAIN tool[c]
    /\ OwnWindow

LEMMA ToolStep == ToolInv /\ [RegistryNext]_registryVars => ToolInv'
<1> SUFFICES ASSUME ToolInv, [RegistryNext]_registryVars PROVE ToolInv'
  OBVIOUS
<1>1. CASE UNCHANGED tool
  BY <1>1 DEF ToolInv, OwnWindow
<1>2. ASSUME NEW c \in ToolCall, NEW t, tool' = [tool EXCEPT ![c] = t],
             {"pc", "seen", "to", "at", "method", "gen"} \subseteq DOMAIN t,
             t.pc \in {"sent", "working"} => t.at = t.to
      PROVE  ToolInv'
  BY <1>2 DEF ToolInv, OwnWindow
<1>3. /\ {"pc", "seen", "to", "at", "method", "gen"} \subseteq DOMAIN NoTool
      /\ NoTool.pc = "idle"
  BY DEF NoTool
<1>4. ASSUME NEW c \in ToolCall, Returns(c) PROVE ToolInv'
  BY <1>2, <1>3, <1>4 DEF Returns
<1>5. ASSUME NEW c \in ToolCall,
             \/ ListDirectory(c) \/ Target(c) \/ Send(c) \/ AnswerAtOnce(c) \/ Begin(c)
             \/ SettleQuery(c) \/ SettleCatalog(c) \/ SettleProgram(c) \/ ToolReturns(c)
             \/ ToolTimesOut(c)
      PROVE  ToolInv'
  <2>1. {"pc", "seen", "to", "at", "method", "gen"} \subseteq DOMAIN tool[c]
    BY DEF ToolInv
  <2>2. ASSUME NEW method, NEW ok, Respond(c, method, ok) PROVE ToolInv'
    <3> DEFINE t == [NoTool EXCEPT !.pc = "answered", !.method = IF ok THEN method ELSE "none"]
    <3>1. tool' = [tool EXCEPT ![c] = t]
      BY <2>2 DEF Respond
    <3>2. {"pc", "seen", "to", "at", "method", "gen"} \subseteq DOMAIN t /\ t.pc = "answered"
      BY <1>3
    <3> HIDE DEF t
    <3>3. QED
      BY <1>2, <3>1, <3>2
  <2>3. CASE ListDirectory(c)
    BY <1>2, <2>1, <2>3 DEF ListDirectory, ToolInv, OwnWindow
  <2>4. CASE Target(c)
    <3>1. CASE Returns(c)
      BY <1>4, <3>1
    <3>2. ASSUME NEW w, tool' = [tool EXCEPT ![c].pc = "selected", ![c].to = w, ![c].seen = {}]
          PROVE  ToolInv'
      BY <2>1, <3>2 DEF ToolInv, OwnWindow
    <3>3. QED
      BY <2>4, <3>1, <3>2 DEF Target
  <2>5. CASE Send(c)
    <3>1. CASE Returns(c)
      BY <1>4, <3>1
    <3>2. ASSUME NEW x, Takes(x, c), tool' = [tool EXCEPT ![c].pc = "sent", ![c].at = x]
          PROVE  ToolInv'
      BY <2>1, <3>2 DEF Takes, ToolInv, OwnWindow
    <3>3. QED
      BY <2>5, <3>1, <3>2 DEF Send
  <2>6. CASE AnswerAtOnce(c)
    BY <1>4, <2>2, <2>6 DEF AnswerAtOnce
  <2>7. CASE Begin(c)
    BY <2>1, <2>7 DEF Begin, ToolInv, OwnWindow
  <2>8. CASE SettleQuery(c) \/ SettleCatalog(c) \/ SettleProgram(c)
    BY <2>2, <2>8 DEF SettleQuery, SettleCatalog, SettleProgram, Settle
  <2>9. CASE ToolReturns(c) \/ ToolTimesOut(c)
    BY <1>4, <2>9 DEF ToolReturns, ToolTimesOut
  <2>10. QED
    BY <1>5, <2>3, <2>4, <2>5, <2>6, <2>7, <2>8, <2>9
<1>6. ASSUME NEW w \in Window, Crash(w) PROVE ToolInv'
  BY <1>3, <1>6 DEF Crash, ToolInv, OwnWindow
<1>7. ASSUME NEW w \in Window,
             \/ Start(w) \/ Listened(w) \/ WriteTemp(w) \/ Rename(w) \/ WriteFails(w) \/ Stop(w)
             \/ Quarantine(w) \/ RemoveMoved(w) \/ Closed(w) \/ LeaseEnds(w) \/ SessionChanges(w)
             \/ OrphanSettles(w)
      PROVE  UNCHANGED tool
  BY <1>7 DEF Start, Listened, WriteTemp, Rename, WriteFails, Stop, Quarantine, RemoveMoved, Closed,
     LeaseEnds, SessionChanges, OrphanSettles
<1>8. CASE FocusMoves \/ SelectionExpires \/ UNCHANGED registryVars
  BY <1>1, <1>8 DEF FocusMoves, SelectionExpires, registryVars
<1>9. QED
  BY <1>1, <1>5, <1>6, <1>7, <1>8 DEF RegistryNext

\* A window works only on what was sent by its own registration, also when it listens
\* on the port that the registration of another names.
THEOREM CallsAreOwn == RegistrySpec => []OwnWindow
<1>1. RegistryInit => ToolInv
  BY DEF RegistryInit, ToolInv, OwnWindow, NoTool
<1>2. ToolInv => OwnWindow
  BY DEF ToolInv
<1>3. QED
  BY <1>1, <1>2, ToolStep, PTL DEF RegistrySpec

----------------------------------------------------------------------------
\* CompanionSource.

\* An artifact that was opened, and one that was disposed of: neither is undone.
Passed == {"closing", "gone", "stuck"}
WasOpened == {"live"} \cup Passed

Typed ==
    /\ session \in Connection
    /\ ext \in {"up", "closing", "down"}
    /\ art \in [Call -> Artifact]
    /\ recs \subseteq Call
    /\ req \in [Slot -> Request]
    /\ call \in [Call -> Handler]
    /\ live \subseteq Call
    /\ server \in Server

\* A live artifact has its cursor, and one of the adapter's generation is of the
\* connection that generation began with, unless that is lost and nobody was told yet.
ArtInv(a) ==
    /\ art[a].expiring => art[a].st \in Passed
    /\ art[a].st = "live" => a \in recs /\ ext # "down"
    /\ a \in recs => art[a].st \in WasOpened
    /\ art[a].gen <= session.gen
    /\ art[a].st # "none" =>
          /\ art[a].from # 0
          /\ art[a].gen = session.gen =>
                session.conn = art[a].from \/ (session.conn = 0 /\ ~session.told)

\* Only its own first request opens an artifact, in the order of its steps; whoever
\* waits, or was told that it is disposed of, finds that so.
ReqInv(s) ==
    /\ s = Down => req[s].pc \in {"idle", "wait", "done"}
    /\ req[s].pc \in {"resolve", "download", "open"} => req[s].cur = s
    /\ req[s].pc = "resolve" => art[s].st = "none"
    /\ req[s].pc \in {"download", "open"} => art[s].st = "made" /\ art[s].gen = req[s].gen
    /\ req[s].pc = "read" =>
          req[s].cur \in Call /\ art[req[s].cur].st \in WasOpened /\ art[req[s].cur].gen = req[s].gen
    /\ req[s].pc = "wait" \/ req[s].res = "disposed" =>
          req[s].cur \in Call /\ art[req[s].cur].st \in Passed

\* The cursor of a page that was answered is one the server still has to dispose of.
Kept(c) == IF server.phase \in {"disposing", "ended"} THEN c \in server.left \/ server.failed
                                                      ELSE c \in live

CallInv(c) ==
    /\ call[c].pc = "idle" => art[c].st = "none"
    /\ call[c].pc \in {"idle", "ending"} => req[c].pc = "idle"
    /\ call[c].kind = "first" => call[c].cur = c
    /\ call[c].kind = "next" =>
          art[c].st = "none" /\ req[c].pc \notin {"resolve", "download", "open"}
    /\ call[c].pc \in {"sent", "ending", "disposing"} =>
          call[c].kind # "none" /\ call[c].cur \in Call /\ call[c].ans = "none"
    /\ call[c].pc = "idle" => call[c].kind = "none" /\ call[c].ans = "none"
    /\ call[c].pc \in {"sent", "disposing"} => req[c].pc # "idle" /\ req[c].cur = call[c].cur
    /\ call[c].pc = "disposing" => req[c].pc \in {"wait", "done"}
    /\ call[c].ans = "page" => req[c].pc = "idle" /\ (art[c].st = "live" => Kept(c))

EndInv ==
    /\ server.phase \in {"disposing", "ended"} => \A c \in Call : call[c].pc \in {"idle", "done"}
    /\ server.phase = "ended" => server.left = {}

SourceInv ==
    /\ Typed
    /\ \A a \in Call : ArtInv(a) /\ CallInv(a)
    /\ \A s \in Slot : ReqInv(s)
    /\ EndInv

----------------------------------------------------------------------------
\* CompanionSource: what an action leaves to the others.

\* An artifact goes forward only, and only its own request makes or opens it.
ArtMoves(own) ==
    /\ \A a \in Call :
          /\ art[a].st = "live" => art'[a].st \in WasOpened
          /\ art[a].st \in Passed => art'[a].st \in Passed
          /\ art[a].st \in WasOpened =>
                /\ art'[a].from = art[a].from /\ art'[a].gen = art[a].gen
                /\ art'[a].expiring => art[a].expiring \/ art'[a].st \in Passed
    /\ \A a \in Call \ {own} : art[a].st \in {"none", "made"} => art'[a] = art[a]

\* A cursor that goes takes its artifact with it.
RecsMove(own) ==
    \A a \in Call \ {own} :
        /\ a \in recs' => a \in recs
        /\ a \in recs /\ art'[a].st = "live" => a \in recs'

KeptStays(own) == \A c \in Call \ {own} : art'[c].st = "live" /\ Kept(c) => Kept(c)'

SlotsStay(own) == \A s \in Slot \ {own} : req'[s] = req[s]
CallsStay(own) == \A c \in Call \ {own} : call'[c] = call[c]

LEMMA SlotFacts ==
    /\ Down \in Slot /\ Down \notin Call
    /\ \A c \in Call : c \in Slot
    /\ \A s \in Slot : s \in Call \/ s = Down
BY SourceAssumption DEF Slot

LEMMA SlotKept ==
    ASSUME SourceInv, NEW own \in Slot, ArtMoves(own), NEW s \in Slot, s # own \/ s = Down,
           req'[s] = req[s]
    PROVE  ReqInv(s)'
<1>1. ReqInv(s) /\ (s \in Call \/ s = Down) /\ Down \notin Call
  BY SlotFacts DEF SourceInv
<1>2. s \in Call => s \in Call \ {own}
  BY <1>1
<1>3. req[s].pc \in {"resolve", "download", "open"} => s \in Call \ {own} /\ art'[s] = art[s]
  BY <1>1, <1>2 DEF ReqInv, ArtMoves
<1>4. QED
  BY <1>1, <1>3 DEF ReqInv, ArtMoves, WasOpened, Passed

LEMMA CallKept ==
    ASSUME SourceInv, NEW own \in Slot, ArtMoves(own), KeptStays(own), NEW c \in Call, c # own,
           req'[c] = req[c], call'[c] = call[c]
    PROVE  CallInv(c)'
<1>1. CallInv(c) /\ c \in Call \ {own} /\ art[c] \in Artifact
  BY DEF SourceInv, Typed
<1>2. art[c].st = "none" => art'[c].st = "none"
  BY <1>1 DEF ArtMoves
<1>3. art'[c].st = "live" => art[c].st = "live"
  BY <1>1 DEF ArtMoves, Passed, Artifact
<1>4. art'[c].st = "live" /\ Kept(c) => Kept(c)'
  BY <1>1 DEF KeptStays
<1>5. QED
  BY <1>1, <1>2, <1>3, <1>4 DEF CallInv

LEMMA ArtKept ==
    ASSUME SourceInv, NEW own \in Slot, ArtMoves(own), RecsMove(own), NEW a \in Call, a # own,
           session'.conn = session.conn, session'.told = session.told, session'.gen = session.gen,
           ext' = ext
    PROVE  ArtInv(a)'
<1>1. ArtInv(a) /\ a \in Call \ {own} /\ art[a] \in Artifact
  BY DEF SourceInv, Typed
<1>2. CASE art[a].st \in {"none", "made"}
  <2>1. art'[a] = art[a] /\ a \notin recs /\ a \notin recs'
    BY <1>1, <1>2 DEF ArtMoves, RecsMove, ArtInv, WasOpened, Passed
  <2>2. QED
    BY <1>1, <1>2, <2>1 DEF ArtInv, WasOpened, Passed
<1>3. CASE art[a].st \in WasOpened
  BY <1>1, <1>3 DEF ArtMoves, RecsMove, ArtInv, WasOpened, Passed
<1>4. QED
  BY <1>1, <1>2, <1>3 DEF Artifact, WasOpened, Passed

\* An action of one slot: what remains is to look at that slot.
LEMMA OneSlot ==
    ASSUME SourceInv, NEW own \in Slot, Typed', ArtMoves(own), RecsMove(own), KeptStays(own),
           SlotsStay(own), CallsStay(own),
           session'.conn = session.conn, session'.told = session.told, session'.gen = session.gen,
           ext' = ext,
           ReqInv(own)', own \in Call => ArtInv(own)' /\ CallInv(own)', EndInv'
    PROVE  SourceInv'
<1>1. ASSUME NEW s \in Slot PROVE ReqInv(s)'
  BY <1>1, SlotKept DEF SlotsStay
<1>2. ASSUME NEW a \in Call PROVE ArtInv(a)'
  BY <1>2, ArtKept
<1>3. ASSUME NEW c \in Call PROVE CallInv(c)'
  BY <1>3, CallKept, SlotFacts DEF SlotsStay, CallsStay
<1>4. QED
  BY <1>1, <1>2, <1>3 DEF SourceInv

----------------------------------------------------------------------------
\* CompanionSource: the steps actions are made of.

LEMMA DoneIs ==
    ASSUME Typed, NEW s \in Slot, NEW a \in Slot, NEW res \in Answer, Done(s, a, res)
    PROVE  /\ req' \in [Slot -> Request] /\ SlotsStay(s)
           /\ \/ s \in Call /\ call[s].pc = "done" /\ req'[s] = NoReq
              \/ /\ ~(s \in Call /\ call[s].pc = "done")
                 /\ req'[s].pc = "done" /\ req'[s].cur = a /\ req'[s].res = res
<1> DEFINE r == [NoReq EXCEPT !.pc = "done", !.cur = a, !.res = res]
<1>1. NoReq \in Request /\ r \in Request /\ r.pc = "done" /\ r.cur = a /\ r.res = res
  BY SlotFacts DEF NoReq, Request, Answer, Outcome
<1> HIDE DEF r
<1>2. req' = [req EXCEPT ![s] = IF s \in Call /\ call[s].pc \in {"done"} THEN NoReq ELSE r]
  BY DEF Done, r
<1>3. QED
  BY <1>1, <1>2 DEF Typed, SlotsStay

LEMMA TakenIs ==
    ASSUME Typed, NEW s \in Slot, Taken(s)
    PROVE  /\ req' \in [Slot -> Request] /\ SlotsStay(s)
           /\ req'[s] = IF req[s].pc = "done" THEN NoReq ELSE req[s]
<1>1. NoReq \in Request
  BY SlotFacts DEF NoReq, Request, Answer, Outcome
<1>2. QED
  BY <1>1 DEF Typed, SlotsStay, Taken

\* Disposing of artifacts leaves none of them live and opens none.
LEMMA ClosingIs ==
    ASSUME Typed, \A a \in Call : ArtInv(a), NEW own \in Slot, NEW as \in SUBSET Call, art' = Closing(as)
    PROVE  /\ art' \in [Call -> Artifact] /\ ArtMoves(own)
           /\ \A a \in as : art'[a].st # "live"
           /\ \A a \in Call : art'[a].gen = art[a].gen
<1>1. \A a \in Call :
         art'[a] = IF a \in as /\ art[a].st = "live" THEN [art[a] EXCEPT !.st = "closing"] ELSE art[a]
  BY DEF Closing
<1>2. \A a \in Call : art[a] \in Artifact /\ [art[a] EXCEPT !.st = "closing"] \in Artifact
  BY DEF Typed, Artifact
<1>3. art' \in [Call -> Artifact]
  BY <1>1, <1>2 DEF Closing
<1>4. ASSUME NEW a \in Call
      PROVE  /\ art[a].st = "live" => art'[a].st \in WasOpened
             /\ art[a].st # "live" => art'[a] = art[a]
             /\ art'[a].from = art[a].from /\ art'[a].gen = art[a].gen
             /\ art'[a].expiring = art[a].expiring
             /\ a \in as => art'[a].st # "live"
  BY <1>1, <1>2 DEF Artifact, WasOpened, Passed
<1>5. ArtMoves(own)
  BY <1>4 DEF ArtMoves, Passed, WasOpened
<1>6. QED
  BY <1>3, <1>4, <1>5

LEMMA DisposingIs ==
    ASSUME SourceInv, NEW own \in Slot, NEW s \in Slot, NEW a \in Call, NEW res \in Answer,
           Disposing(s, a, res), art[a].st \in WasOpened
    PROVE  /\ req' \in [Slot -> Request] /\ SlotsStay(s)
           /\ req'[s].pc = "wait" /\ req'[s].cur = a /\ req'[s].res = res
           /\ art' \in [Call -> Artifact] /\ ArtMoves(own)
           /\ art'[a].st \in Passed
<1>1. /\ art' \in [Call -> Artifact] /\ ArtMoves(own) /\ art'[a].st # "live"
      /\ art[a] \in Artifact
  BY ClosingIs DEF Disposing, SourceInv, Typed
<1>2. art'[a].st \in Passed
  BY <1>1 DEF ArtMoves, WasOpened
<1> DEFINE r == [pc |-> "wait", cur |-> a, gen |-> art[a].gen, early |-> art[a].st = "closing", res |-> res]
<1>3. r \in Request /\ r.pc = "wait" /\ r.cur = a /\ r.res = res
  <2> DEFINE early == art[a].st = "closing"
  <2>1. early \in BOOLEAN
    OBVIOUS
  <2> HIDE DEF early
  <2>2. [pc |-> "wait", cur |-> a, gen |-> art[a].gen, early |-> early, res |-> res] \in Request
    BY <1>1, <2>1, SlotFacts DEF Request, Artifact
  <2>3. QED
    BY <2>2 DEF early
<1> HIDE DEF r
<1>4. req' = [req EXCEPT ![s] = r]
  BY DEF Disposing, r
<1>5. QED
  BY <1>1, <1>2, <1>3, <1>4 DEF SlotsStay, SourceInv, Typed

\* A request that begins with a cursor: its page, or its disposal.
Begun(s, own, a) ==
    /\ req' \in [Slot -> Request] /\ SlotsStay(s)
    /\ art' \in [Call -> Artifact] /\ ArtMoves(own)
    /\ recs' \in SUBSET Call /\ RecsMove(own)
    /\ req'[s].cur = a /\ req'[s].pc \in {"read", "wait", "done"}
    /\ req'[s].pc = "read" => art'[a].st \in WasOpened /\ art'[a].gen = req'[s].gen
    /\ req'[s].pc = "wait" \/ req'[s].res = "disposed" => art'[a].st \in Passed

LEMMA StillIs ==
    ASSUME Typed, NEW own \in Slot, UNCHANGED art
    PROVE  art' \in [Call -> Artifact] /\ ArtMoves(own)
BY DEF Typed, ArtMoves, WasOpened, Passed

LEMMA DisposeBegins ==
    ASSUME SourceInv, NEW own \in Slot, NEW s \in Slot, NEW a \in Call, NEW res \in Answer,
           Disposing(s, a, res), art[a].st \in WasOpened, recs' = recs \/ recs' = recs \ {a}
    PROVE  Begun(s, own, a) /\ req'[s].pc = "wait"
<1>1. /\ req' \in [Slot -> Request] /\ SlotsStay(s)
      /\ req'[s].pc = "wait" /\ req'[s].cur = a /\ req'[s].res = res
      /\ art' \in [Call -> Artifact] /\ ArtMoves(own)
      /\ art'[a].st \in Passed
  BY DisposingIs
<1>2. recs' \in SUBSET Call /\ RecsMove(own)
  BY <1>1 DEF RecsMove, Passed, SourceInv, Typed
<1>3. QED
  BY <1>1, <1>2 DEF Begun

LEMMA DoneBegins ==
    ASSUME SourceInv, NEW own \in Slot, NEW s \in Slot, NEW a \in Call, NEW res \in Answer,
           Done(s, a, res), ~(s \in Call /\ call[s].pc = "done"), UNCHANGED art,
           recs' = recs \/ (recs' = recs \ {a} /\ art[a].st # "live"),
           res = "disposed" => art[a].st \in Passed
    PROVE  Begun(s, own, a) /\ req'[s].pc = "done"
<1>1. /\ req' \in [Slot -> Request] /\ SlotsStay(s)
      /\ req'[s].pc = "done" /\ req'[s].cur = a /\ req'[s].res = res
  BY DoneIs, SlotFacts DEF SourceInv
<1>2. art' \in [Call -> Artifact] /\ ArtMoves(own)
  BY StillIs DEF SourceInv
<1>3. recs' \in SUBSET Call /\ RecsMove(own)
  BY DEF RecsMove, SourceInv, Typed
<1>4. QED
  BY <1>1, <1>2, <1>3 DEF Begun

LEMMA DisposalBegins ==
    ASSUME SourceInv, NEW own \in Slot, NEW s \in Slot, NEW a \in Call, StartDispose(s, a),
           ~(s \in Call /\ call[s].pc = "done")
    PROVE  Begun(s, own, a) /\ req'[s].pc \in {"wait", "done"}
<1>1. "disposed" \in Answer /\ "expired" \in Answer
  BY DEF Answer
<1>2. CASE a \in recs
  <2>1. art[a].st \in WasOpened
    BY <1>2 DEF SourceInv, ArtInv
  <2>2. recs' = recs \ {a} /\ Disposing(s, a, "disposed")
    BY <1>2 DEF StartDispose
  <2>3. QED
    BY <1>1, <2>1, <2>2, DisposeBegins
<1>3. CASE a \notin recs
  <2>1. Done(s, a, "expired") /\ UNCHANGED art /\ recs' = recs
    BY <1>3 DEF StartDispose
  <2>2. QED
    BY <1>1, <2>1, DoneBegins
<1>4. QED
  BY <1>2, <1>3

LEMMA PageBegins ==
    ASSUME SourceInv, NEW own \in Slot, NEW s \in Slot, NEW a \in Call, StartNext(s, a),
           ~(s \in Call /\ call[s].pc = "done")
    PROVE  Begun(s, own, a)
<1>1. {"unavailable", "cleanup_failed", "expired"} \subseteq Answer
  BY DEF Answer
<1>2. CASE a \notin recs
  <2>1. Done(s, a, "expired") /\ UNCHANGED art /\ recs' = recs
    BY <1>2 DEF StartNext
  <2>2. QED
    BY <1>1, <2>1, DoneBegins
<1>3. CASE a \in recs
  <2>1. /\ ArtInv(a) /\ art[a].st \in WasOpened /\ art[a] \in Artifact
        /\ art[a].expiring => art[a].st \in Passed
    BY <1>3 DEF SourceInv, ArtInv, Typed
  <2>2. PageRecord(s, a)
    BY <1>3 DEF StartNext
  <2>3. CASE Discard(s, a)
    BY <1>1, <2>1, <2>3, DisposeBegins DEF Discard
  <2>4. CASE /\ art[a].expiring
             /\ req' = [req EXCEPT ![s] = [NoReq EXCEPT !.pc = "wait", !.cur = a, !.gen = art[a].gen, !.res = "expired"]]
             /\ UNCHANGED <<art, recs>>
    <3> DEFINE r == [NoReq EXCEPT !.pc = "wait", !.cur = a, !.gen = art[a].gen, !.res = "expired"]
    <3>1. r \in Request /\ r.pc = "wait" /\ r.cur = a
      BY <1>1, <2>1, SlotFacts DEF NoReq, Request, Artifact
    <3> HIDE DEF r
    <3>2. req' = [req EXCEPT ![s] = r]
      BY <2>4 DEF r
    <3>3. art' \in [Call -> Artifact] /\ ArtMoves(own)
      BY <2>4, StillIs DEF SourceInv
    <3>4. QED
      BY <2>1, <2>4, <3>1, <3>2, <3>3 DEF Begun, SlotsStay, RecsMove, SourceInv, Typed
  <2>5. CASE /\ ~art[a].expiring /\ art[a].st \in {"closing", "gone", "stuck"}
             /\ Done(s, a, IF art[a].st = "stuck" THEN "cleanup_failed" ELSE "expired")
             /\ recs' = recs \ {a} /\ UNCHANGED art
    BY <1>1, <2>5, DoneBegins
  <2>6. CASE /\ art[a].st = "live"
             /\ req' = [req EXCEPT ![s] = [NoReq EXCEPT !.pc = "read", !.cur = a, !.gen = art[a].gen]]
             /\ UNCHANGED <<art, recs>>
    <3> DEFINE r == [NoReq EXCEPT !.pc = "read", !.cur = a, !.gen = art[a].gen]
    <3>1. r \in Request /\ r.pc = "read" /\ r.cur = a /\ r.gen = art[a].gen /\ r.res # "disposed"
      BY <2>1, SlotFacts DEF NoReq, Request, Artifact, Answer
    <3> HIDE DEF r
    <3>2. req' = [req EXCEPT ![s] = r]
      BY <2>6 DEF r
    <3>3. art' \in [Call -> Artifact] /\ ArtMoves(own)
      BY <2>6, StillIs DEF SourceInv
    <3>4. QED
      BY <2>1, <2>6, <3>1, <3>2, <3>3 DEF Begun, SlotsStay, RecsMove, SourceInv, Typed
  <2>7. QED
    BY <2>2, <2>3, <2>4, <2>5, <2>6 DEF PageRecord
<1>4. QED
  BY <1>2, <1>3

LEMMA BegunKept ==
    ASSUME SourceInv, NEW own \in Slot, NEW s \in Slot, NEW a \in Call, Begun(s, own, a),
           s = Down => req'[s].pc # "read"
    PROVE  ReqInv(s)'
BY DEF Begun, ReqInv

LEMMA NobodysMoves ==
    ASSUME NEW own \in Slot, ArtMoves(Down), RecsMove(Down)
    PROVE  ArtMoves(own) /\ RecsMove(own)
<1>1. \A a \in Call : a \in Call \ {Down}
  BY SlotFacts
<1>2. QED
  BY <1>1 DEF ArtMoves, RecsMove

LEMMA NoReqIs == NoReq.pc = "idle" /\ NoReq.res # "disposed" /\ NoReq \in Request
BY SlotFacts DEF NoReq, Request, Answer, Outcome

LEMMA NoReqKept ==
    ASSUME NEW s \in Slot, req'[s] = NoReq
    PROVE  ReqInv(s)'
BY NoReqIs DEF ReqInv

LEMMA UnservedKept ==
    ASSUME NEW own \in Slot, UNCHANGED <<live, server>>
    PROVE  KeptStays(own)
BY DEF KeptStays, Kept

\* The companion's side of a request that only reads or disposes of its artifact.
LEMMA SlotServed ==
    ASSUME SourceInv, NEW s \in Slot, req[s].pc \in {"read", "wait"},
           UNCHANGED <<session, ext, call, live, server>>,
           req' \in [Slot -> Request], SlotsStay(s),
           art' \in [Call -> Artifact], ArtMoves(Down), recs' \in SUBSET Call, RecsMove(Down),
           \/ s \in Call /\ call[s].pc = "done" /\ req'[s] = NoReq
           \/ Begun(s, Down, req[s].cur) /\ req'[s].pc \in {"wait", "done"}
    PROVE  SourceInv'
<1>1. /\ ReqInv(s) /\ req[s].cur \in Call /\ Typed /\ EndInv
      /\ Down \in Slot /\ Down \notin Call
  BY SlotFacts DEF SourceInv, ReqInv
<1>2. ReqInv(s)'
  BY <1>1, BegunKept, NoReqKept
<1>3. Typed'
  BY <1>1 DEF Typed
<1>4. ArtMoves(s) /\ RecsMove(s) /\ KeptStays(s) /\ CallsStay(s)
  BY <1>1, NobodysMoves, UnservedKept DEF CallsStay
<1>5. ASSUME s \in Call PROVE ArtInv(s)'
  BY <1>1, <1>5, ArtKept
<1>6. ASSUME s \in Call PROVE CallInv(s)'
  <2>1. CallInv(s) /\ s \in Call \ {Down}
    BY <1>1, <1>6 DEF SourceInv
  <2>2. art[s].st = "none" => art'[s] = art[s]
    BY <2>1 DEF ArtMoves
  <2>3. /\ call[s].pc \notin {"idle", "ending"} /\ call[s].ans # "page"
        /\ call'[s] = call[s]
    BY <2>1 DEF CallInv
  <2>4. CASE call[s].pc = "done" /\ req'[s] = NoReq
    BY <2>1, <2>2, <2>3, <2>4, NoReqIs DEF CallInv
  <2>5. CASE Begun(s, Down, req[s].cur) /\ req'[s].pc \in {"wait", "done"}
    BY <2>1, <2>2, <2>3, <2>5 DEF CallInv, Begun
  <2>6. QED
    BY <2>4, <2>5
<1>7. EndInv'
  BY <1>1 DEF EndInv
<1>8. QED
  BY <1>2, <1>3, <1>4, <1>5, <1>6, <1>7, OneSlot

\* An answer, or one that is dropped, from a request at work.
LEMMA DoneServes ==
    ASSUME SourceInv, NEW s \in Slot, req[s].pc \in {"read", "wait"}, NEW res \in Answer,
           Done(s, req[s].cur, res), UNCHANGED <<session, ext, art, call, live, server>>,
           recs' = recs \/ (recs' = recs \ {req[s].cur} /\ art[req[s].cur].st # "live"),
           res = "disposed" => art[req[s].cur].st \in Passed
    PROVE  SourceInv'
<1>1. Typed /\ ReqInv(s) /\ req[s].cur \in Call /\ Down \in Slot
  BY SlotFacts DEF SourceInv, ReqInv
<1>2. CASE s \in Call /\ call[s].pc = "done"
  <2>1. req' \in [Slot -> Request] /\ SlotsStay(s) /\ req'[s] = NoReq
    BY <1>1, <1>2, DoneIs, SlotFacts
  <2>2. art' \in [Call -> Artifact] /\ ArtMoves(Down)
    BY <1>1, StillIs
  <2>3. recs' \in SUBSET Call /\ RecsMove(Down)
    BY <1>1 DEF RecsMove, Typed
  <2>4. QED
    BY <1>2, <2>1, <2>2, <2>3, SlotServed
<1>3. CASE ~(s \in Call /\ call[s].pc = "done")
  <2>1. Begun(s, Down, req[s].cur) /\ req'[s].pc = "done"
    BY <1>1, <1>3, DoneBegins
  <2>2. QED
    BY <2>1, SlotServed DEF Begun
<1>4. QED
  BY <1>2, <1>3

LEMMA ReadKept == ASSUME SourceInv, NEW s \in Slot, Read(s) PROVE SourceInv'
<1> DEFINE a == req[s].cur
<1>1. /\ Typed /\ ReqInv(s) /\ a \in Call /\ art[a].st \in WasOpened /\ Down \in Slot
      /\ req[s].pc = "read"
      /\ UNCHANGED <<session, ext, call, live, server>>
  BY SlotFacts DEF SourceInv, ReqInv, Read, client
<1>2. {"unavailable", "unreadable"} \subseteq Answer /\ Outcome \subseteq Answer /\ "disposed" \notin Outcome
  BY DEF Answer, Outcome
<1>3. ASSUME NEW res \in {"unavailable", "unreadable"}, Disposing(s, a, res),
             recs' = recs \/ recs' = recs \ {a}
      PROVE  SourceInv'
  <2>1. Begun(s, Down, a) /\ req'[s].pc = "wait"
    BY <1>1, <1>2, <1>3, DisposeBegins
  <2>2. QED
    BY <1>1, <2>1, SlotServed DEF Begun
<1>4. ASSUME NEW o \in Outcome, Done(s, a, o), UNCHANGED <<art, recs>>
      PROVE  SourceInv'
  BY <1>1, <1>2, <1>4, DoneServes
<1>5. QED
  BY <1>3, <1>4 DEF Read, Discard

LEMMA WaitedKept == ASSUME SourceInv, NEW s \in Slot, Waited(s) PROVE SourceInv'
<1> DEFINE a == req[s].cur
           res == IF req[s].res = "unavailable" \/ (req[s].res # "disposed" /\ ~Current(req[s].gen))
                  THEN "unavailable"
                  ELSE IF ~req[s].early /\ art[a].st = "stuck" THEN "cleanup_failed" ELSE req[s].res
<1>1. /\ Typed /\ ReqInv(s) /\ a \in Call /\ art[a].st \in Passed
      /\ req[s].pc = "wait" /\ req[s].res \in Answer
      /\ Done(s, a, res) /\ recs' = recs \ {a}
      /\ UNCHANGED <<session, ext, art, call, live, server>>
  BY DEF SourceInv, ReqInv, Waited, client, Typed, Request
<1>2. res \in Answer
  BY <1>1 DEF Answer
<1> HIDE DEF res
<1>3. QED
  BY <1>1, <1>2, DoneServes DEF Passed

LEMMA RefreshedIs ==
    ASSUME Typed
    PROVE  /\ Refreshed \in Connection
           /\ Refreshed.conn = session.conn /\ Refreshed.told = session.told
           /\ Refreshed.gen = session.gen
<1> DEFINE held == session.conn # 0
<1>1. held \in BOOLEAN /\ session \in Connection
  BY DEF Typed
<1> HIDE DEF held
<1>2. /\ [session EXCEPT !.avail = held] \in Connection
      /\ [session EXCEPT !.avail = held].conn = session.conn
      /\ [session EXCEPT !.avail = held].told = session.told
      /\ [session EXCEPT !.avail = held].gen = session.gen
  BY <1>1 DEF Connection
<1>3. QED
  BY <1>2 DEF Refreshed, held

\* The companion's side of a request that makes and opens its own artifact.
LEMMA OwnServed ==
    ASSUME SourceInv, NEW c \in Call, req[c].pc \in {"resolve", "download", "open"},
           session' \in Connection, session'.conn = session.conn, session'.told = session.told,
           session'.gen = session.gen, UNCHANGED <<ext, call, live, server>>,
           req' \in [Slot -> Request], SlotsStay(c),
           art' \in [Call -> Artifact], ArtMoves(c), recs' \in SUBSET Call, RecsMove(c),
           ReqInv(c)', ArtInv(c)',
           \/ call[c].pc = "done" /\ req'[c] = NoReq
           \/ req'[c].pc # "idle" /\ req'[c].cur = c
    PROVE  SourceInv'
<1>1. /\ ReqInv(c) /\ req[c].cur = c /\ CallInv(c) /\ Typed /\ EndInv /\ c \in Slot
  BY SlotFacts DEF SourceInv, ReqInv
<1>2. Typed' /\ EndInv'
  BY <1>1 DEF Typed, EndInv
<1>3. KeptStays(c) /\ CallsStay(c)
  BY <1>1, UnservedKept DEF CallsStay
<1>4. CallInv(c)'
  <2>1. /\ call[c].pc \notin {"idle", "ending", "disposing"}
        /\ call[c].ans # "page" /\ call[c].kind # "next" /\ call'[c] = call[c]
    BY <1>1 DEF CallInv
  <2>2. call'[c].pc = "sent" => req'[c].pc # "idle" /\ req'[c].cur = call'[c].cur
    BY <1>1, <2>1 DEF CallInv
  <2>3. QED
    BY <1>1, <2>1, <2>2 DEF CallInv
<1>5. QED
  BY <1>1, <1>2, <1>3, <1>4, OneSlot

\* An answer without a page, and what it leaves of the artifact.
LEMMA DoneOwn ==
    ASSUME SourceInv, NEW c \in Call, req[c].pc \in {"resolve", "download", "open"},
           session' \in Connection, session'.conn = session.conn, session'.told = session.told,
           session'.gen = session.gen, UNCHANGED <<ext, call, live, server, recs>>,
           NEW res \in Answer \ {"disposed"}, Done(c, c, res),
           \/ UNCHANGED art
           \/ /\ req[c].pc # "resolve"
              /\ \E end \in {"gone", "stuck"} : art' = [art EXCEPT ![c].st = end]
    PROVE  SourceInv'
<1>1. /\ ReqInv(c) /\ ArtInv(c) /\ Typed /\ c \in Slot /\ recs \in SUBSET Call
      /\ art[c] \in Artifact /\ art[c].st \in {"none", "made"} /\ c \notin recs
      /\ req[c].pc # "resolve" => art[c].st = "made"
  BY SlotFacts DEF SourceInv, ReqInv, ArtInv, Typed, WasOpened, Passed
<1>2. /\ req' \in [Slot -> Request] /\ SlotsStay(c)
      /\ \/ call[c].pc = "done" /\ req'[c] = NoReq
         \/ req'[c].pc = "done" /\ req'[c].cur = c /\ req'[c].res = res
  BY <1>1, DoneIs
<1>3. ReqInv(c)'
  BY <1>2, NoReqKept, SlotFacts DEF ReqInv
<1>4. art' \in [Call -> Artifact] /\ ArtMoves(c) /\ RecsMove(c) /\ ArtInv(c)'
  <2>1. CASE UNCHANGED art
    BY <1>1, <2>1, StillIs DEF RecsMove, ArtInv, WasOpened, Passed
  <2>2. ASSUME NEW end \in {"gone", "stuck"}, art' = [art EXCEPT ![c].st = end],
               req[c].pc # "resolve"
        PROVE  art' \in [Call -> Artifact] /\ ArtMoves(c) /\ RecsMove(c) /\ ArtInv(c)'
    <3>1. [art[c] EXCEPT !.st = end] \in Artifact
      BY <1>1, <2>2 DEF Artifact
    <3>2. art' \in [Call -> Artifact] /\ art'[c] = [art[c] EXCEPT !.st = end]
      BY <1>1, <2>2, <3>1 DEF Typed
    <3>3. \A a \in Call \ {c} : art'[a] = art[a]
      BY <1>1, <2>2 DEF Typed
    <3>4. ArtMoves(c) /\ RecsMove(c)
      BY <1>1, <3>2, <3>3 DEF ArtMoves, RecsMove, WasOpened, Passed
    <3>5. /\ art'[c].st = end /\ art'[c].from = art[c].from /\ art'[c].gen = art[c].gen
          /\ art'[c].expiring = art[c].expiring
      BY <1>1, <3>2 DEF Artifact
    <3>6. QED
      BY <1>1, <2>2, <3>2, <3>4, <3>5 DEF ArtInv, WasOpened, Passed
  <2>3. QED
    BY <2>1, <2>2
<1>5. \/ call[c].pc = "done" /\ req'[c] = NoReq
      \/ req'[c].pc # "idle" /\ req'[c].cur = c
  BY <1>2
<1>6. QED
  BY <1>1, <1>2, <1>3, <1>4, <1>5, OwnServed

LEMMA ResolvedKept == ASSUME SourceInv, NEW c \in Call, Resolved(c) PROVE SourceInv'
<1>1. /\ ReqInv(c) /\ ArtInv(c) /\ Typed /\ c \in Slot /\ req[c].pc = "resolve" /\ req[c].cur = c
      /\ art[c] \in Artifact /\ art[c].st = "none" /\ c \notin recs
      /\ UNCHANGED <<ext, recs, call, live, server>>
      /\ session \in Connection /\ req[c] \in Request /\ recs \in SUBSET Call
  BY SlotFacts DEF SourceInv, ReqInv, ArtInv, Typed, WasOpened, Passed, Resolved, client
<1>2. "unavailable" \in Answer \ {"disposed"}
  BY DEF Answer, Outcome
<1>3. CASE NoCandidate(c)
  BY <1>1, <1>2, <1>3, DoneOwn DEF NoCandidate
<1>4. CASE Current(req[c].gen) /\ Acquires(c)
  <2>1. /\ session' \in Connection /\ session'.conn = session.conn /\ session'.told = session.told
        /\ session'.gen = session.gen
    BY <1>1, <1>4, RefreshedIs DEF Acquires
  <2>2. CASE session.conn = 0
    BY <1>1, <1>2, <1>4, <2>1, <2>2, DoneOwn DEF Acquires
  <2>3. CASE session.conn # 0
    <3> DEFINE made == [art[c] EXCEPT !.st = "made", !.from = session.conn, !.gen = req[c].gen]
               asked == [req[c] EXCEPT !.pc = "download"]
    <3>1. /\ art' = [art EXCEPT ![c] = made] /\ req' = [req EXCEPT ![c] = asked]
      BY <1>4, <2>3 DEF Acquires
    <3>2. /\ made \in Artifact /\ made.st = "made" /\ made.from = session.conn
          /\ made.gen = session.gen /\ made.gen = req[c].gen /\ made.expiring = art[c].expiring
      BY <1>1, <1>4 DEF Artifact, Connection, Request, Current
    <3>3. /\ asked \in Request /\ asked.pc = "download" /\ asked.cur = c /\ asked.res = req[c].res
          /\ asked.gen = req[c].gen
      BY <1>1 DEF Request
    <3> HIDE DEF made, asked
    <3>4. /\ art' \in [Call -> Artifact] /\ art'[c] = made
          /\ \A a \in Call \ {c} : art'[a] = art[a]
          /\ req' \in [Slot -> Request] /\ req'[c] = asked /\ SlotsStay(c)
      BY <1>1, <3>1, <3>2, <3>3 DEF Typed, SlotsStay
    <3>5. ArtMoves(c) /\ RecsMove(c)
      BY <1>1, <3>4 DEF ArtMoves, RecsMove, WasOpened, Passed
    <3>6. ReqInv(c)'
      <4>1. req[c].res # "disposed"
        BY <1>1 DEF ReqInv, Passed
      <4>2. QED
        BY <1>1, <3>2, <3>3, <3>4, <4>1, SlotFacts DEF ReqInv
    <3>7. ArtInv(c)'
      <4>1. art'[c].gen <= session'.gen
        BY <1>1, <2>1, <3>2, <3>4 DEF Connection
      <4>2. QED
        BY <1>1, <2>1, <2>3, <3>2, <3>4, <4>1 DEF ArtInv, WasOpened, Passed
    <3>8. QED
      BY <1>1, <2>1, <3>3, <3>4, <3>5, <3>6, <3>7, OwnServed
  <2>4. QED
    BY <2>2, <2>3
<1>5. QED
  BY <1>3, <1>4 DEF Resolved

LEMMA DownloadedKept == ASSUME SourceInv, NEW c \in Call, Downloaded(c) PROVE SourceInv'
<1>1. /\ ReqInv(c) /\ ArtInv(c) /\ Typed /\ c \in Slot /\ req[c].pc = "download" /\ req[c].cur = c
      /\ UNCHANGED <<session, ext, recs, call, live, server>>
      /\ session \in Connection /\ req[c] \in Request /\ recs \in SUBSET Call
  BY SlotFacts DEF SourceInv, ReqInv, Typed, Downloaded, client
<1>2. "unavailable" \in Answer \ {"disposed"} /\ "cleanup_failed" \in Answer \ {"disposed"}
  BY DEF Answer, Outcome
<1>3. CASE GiveUpDirectory(c, c, "unavailable")
  BY <1>1, <1>2, <1>3, DoneOwn DEF GiveUpDirectory
<1>4. CASE req' = [req EXCEPT ![c].pc = "open"] /\ UNCHANGED art
  <2> DEFINE asked == [req[c] EXCEPT !.pc = "open"]
  <2>1. /\ asked \in Request /\ asked.pc = "open" /\ asked.cur = c /\ asked.res = req[c].res
        /\ asked.gen = req[c].gen
    BY <1>1 DEF Request
  <2>2. req' = [req EXCEPT ![c] = asked]
    BY <1>4
  <2> HIDE DEF asked
  <2>3. req' \in [Slot -> Request] /\ req'[c] = asked /\ SlotsStay(c)
    BY <1>1, <2>1, <2>2 DEF Typed, SlotsStay
  <2>4. art' \in [Call -> Artifact] /\ ArtMoves(c) /\ RecsMove(c)
    BY <1>1, <1>4, StillIs DEF RecsMove
  <2>5. ReqInv(c)'
    BY <1>1, <1>4, <2>1, <2>3, SlotFacts DEF ReqInv
  <2>6. ArtInv(c)'
    BY <1>1, <1>4 DEF ArtInv
  <2>7. QED
    BY <1>1, <2>1, <2>3, <2>4, <2>5, <2>6, OwnServed
<1>5. QED
  BY <1>3, <1>4 DEF Downloaded

LEMMA OpenedKept == ASSUME SourceInv, NEW c \in Call, Opened(c) PROVE SourceInv'
<1>1. /\ ReqInv(c) /\ ArtInv(c) /\ Typed /\ c \in Slot /\ req[c].pc = "open" /\ req[c].cur = c
      /\ art[c] \in Artifact /\ art[c].st = "made" /\ c \notin recs /\ req[c].res # "disposed"
      /\ UNCHANGED <<session, ext, call, live, server>>
      /\ session \in Connection /\ req[c] \in Request /\ recs \in SUBSET Call
  BY SlotFacts DEF SourceInv, ReqInv, ArtInv, WasOpened, Passed, Typed, Opened, client
<1>2. "unavailable" \in Answer \ {"disposed"} /\ "cleanup_failed" \in Answer \ {"disposed"}
  BY DEF Answer, Outcome
<1>3. CASE GiveUpDirectory(c, c, "unavailable") /\ UNCHANGED recs
  BY <1>1, <1>2, <1>3, DoneOwn DEF GiveUpDirectory
<1>4. ASSUME NEW st \in {"closing", "live"}, NEW asked \in Request,
             art' = [art EXCEPT ![c].st = st], req' = [req EXCEPT ![c] = asked],
             asked.cur = c, asked.gen = req[c].gen, asked.res # "disposed",
             asked.pc = IF st = "live" THEN "read" ELSE "wait",
             recs' = IF st = "live" THEN recs \cup {c} ELSE recs, st = "live" => ext # "down"
      PROVE  SourceInv'
  <2> DEFINE opened == [art[c] EXCEPT !.st = st]
  <2>1. /\ opened \in Artifact /\ opened.st = st /\ opened.from = art[c].from
        /\ opened.gen = art[c].gen /\ opened.expiring = art[c].expiring
    BY <1>1, <1>4 DEF Artifact
  <2>2. art' = [art EXCEPT ![c] = opened]
    BY <1>4
  <2> HIDE DEF opened
  <2>3. /\ req' \in [Slot -> Request] /\ req'[c] = asked /\ SlotsStay(c)
        /\ art' \in [Call -> Artifact] /\ art'[c] = opened
        /\ \A a \in Call \ {c} : art'[a] = art[a]
    BY <1>1, <1>4, <2>1, <2>2 DEF Typed, SlotsStay
  <2>4. ArtMoves(c) /\ RecsMove(c) /\ recs' \in SUBSET Call
    BY <1>1, <1>4, <2>3 DEF ArtMoves, RecsMove, WasOpened, Passed
  <2>5. ReqInv(c)'
    BY <1>1, <1>4, <2>1, <2>3, SlotFacts DEF ReqInv, WasOpened, Passed
  <2>6. ArtInv(c)'
    BY <1>1, <1>4, <2>1, <2>3 DEF ArtInv, WasOpened, Passed
  <2>7. QED
    BY <1>1, <1>4, <2>3, <2>4, <2>5, <2>6, OwnServed
<1>5. CASE /\ art' = [art EXCEPT ![c].st = "closing"]
           /\ req' = [req EXCEPT ![c].pc = "wait", ![c].res = "unavailable"] /\ UNCHANGED recs
  <2> DEFINE asked == [req[c] EXCEPT !.pc = "wait", !.res = "unavailable"]
  <2>1. /\ asked \in Request /\ asked.cur = c /\ asked.gen = req[c].gen /\ asked.pc = "wait"
        /\ asked.res # "disposed"
    BY <1>1, <1>2 DEF Request
  <2>2. req' = [req EXCEPT ![c] = asked]
    BY <1>1, <1>5 DEF Typed
  <2> HIDE DEF asked
  <2>3. QED
    BY <1>4, <1>5, <2>1, <2>2
<1>6. CASE /\ Current(req[c].gen)
           /\ art' = [art EXCEPT ![c].st = "live"] /\ recs' = recs \cup {c}
           /\ req' = [req EXCEPT ![c].pc = "read"]
  <2> DEFINE asked == [req[c] EXCEPT !.pc = "read"]
  <2>1. /\ asked \in Request /\ asked.cur = c /\ asked.gen = req[c].gen /\ asked.pc = "read"
        /\ asked.res # "disposed"
    BY <1>1 DEF Request
  <2>2. req' = [req EXCEPT ![c] = asked]
    BY <1>6
  <2>3. ext # "down"
    BY <1>6 DEF Current
  <2> HIDE DEF asked
  <2>4. QED
    BY <1>4, <1>6, <2>1, <2>2, <2>3
<1>7. QED
  BY <1>3, <1>5, <1>6 DEF Opened

\* What happens to the session, the extension or an artifact, and to no request.
LEMMA AroundRequests ==
    ASSUME SourceInv, Typed', UNCHANGED <<req, call, live, server>>, ArtMoves(Down),
           \A a \in Call : ArtInv(a)'
    PROVE  SourceInv'
<1>1. Down \in Slot /\ KeptStays(Down)
  BY SlotFacts, UnservedKept
<1>2. ASSUME NEW s \in Slot PROVE ReqInv(s)'
  BY <1>1, <1>2, SlotKept
<1>3. ASSUME NEW c \in Call PROVE CallInv(c)'
  BY <1>1, <1>3, CallKept, SlotFacts
<1>4. EndInv'
  BY DEF SourceInv, EndInv
<1>5. QED
  BY <1>2, <1>3, <1>4 DEF SourceInv

LEMMA SessionFacts ==
    ASSUME SourceInv, NEW a \in Call
    PROVE  /\ session.conn \in Nat /\ session.used \in 1..MaxConns /\ session.told \in BOOLEAN
           /\ session.gen \in Nat /\ session.avail \in BOOLEAN
           /\ art[a].gen \in Nat /\ art[a].from \in Nat /\ MaxConns \in Nat
           /\ ArtInv(a) /\ Down \in Slot
BY SourceAssumption, SlotFacts DEF SourceInv, Typed, Connection, Artifact

LEMMA ConnectionKept == ASSUME SourceInv, ConnectionChanges PROVE SourceInv'
<1>1. /\ UNCHANGED <<ext, art, recs, req, call, live, server>> /\ session.told /\ Down \in Slot
      /\ session \in Connection /\ Typed
  BY SlotFacts DEF ConnectionChanges, client, SourceInv, Typed
<1>2. /\ session' \in Connection
      /\ session'.gen = session.gen /\ ~session'.told
      /\ session'.conn = 0 \/ session.conn = 0
  <2>1. CASE session.conn # 0 /\ session' = [session EXCEPT !.conn = 0, !.told = FALSE]
    <3>1. 0 \in 0..MaxConns
      BY SourceAssumption
    <3>2. QED
      BY <1>1, <2>1, <3>1 DEF Connection
  <2>2. CASE /\ session.conn = 0 /\ session.used < MaxConns
             /\ session' = [session EXCEPT !.conn = @ + session.used + 1, !.used = @ + 1, !.told = FALSE]
    <3>1. session.used \in 1..MaxConns
      BY <1>1 DEF Connection
    <3>2. session.conn + session.used + 1 \in 0..MaxConns /\ session.used + 1 \in 1..MaxConns
      BY <2>2, <3>1, SourceAssumption
    <3> DEFINE n == session.conn + session.used + 1
               m == session.used + 1
    <3>3. session' = [session EXCEPT !.conn = n, !.used = m, !.told = FALSE]
      BY <2>2
    <3> HIDE DEF n, m
    <3>4. QED
      BY <1>1, <2>2, <3>2, <3>3 DEF Connection, n, m
  <2>3. QED
    BY <2>1, <2>2 DEF ConnectionChanges
<1>3. Typed'
  BY <1>1, <1>2 DEF Typed
<1>4. ASSUME NEW a \in Call PROVE ArtInv(a)'
  <2>1. ArtInv(a)
    BY DEF SourceInv
  <2>2. art[a].st # "none" /\ art[a].gen = session.gen => session.conn = art[a].from
    BY <1>1, <2>1 DEF ArtInv
  <2>3. art[a].st # "none" => art[a].from # 0
    BY <2>1 DEF ArtInv
  <2>4. QED
    BY <1>1, <1>2, <2>1, <2>2, <2>3 DEF ArtInv
<1>5. ArtMoves(Down)
  BY <1>1, StillIs
<1>6. QED
  BY <1>1, <1>3, <1>4, <1>5, AroundRequests

\* Clearing the artifact broker leaves nothing live that was listed.
LEMMA ClearedArt ==
    ASSUME SourceInv, art' = Closing(recs), recs' = {}
    PROVE  /\ art' \in [Call -> Artifact] /\ ArtMoves(Down)
           /\ \A a \in Call : art'[a].st # "live"
           /\ \A a \in Call : /\ art'[a].gen = art[a].gen /\ art'[a].from = art[a].from
                              /\ art'[a].st = "none" <=> art[a].st = "none"
                              /\ art'[a].expiring => art'[a].st \in Passed
<1>1. Typed /\ (\A a \in Call : ArtInv(a)) /\ Down \in Slot /\ Down \notin Call /\ recs \in SUBSET Call
  BY SlotFacts DEF SourceInv, Typed
<1>2. /\ art' \in [Call -> Artifact] /\ ArtMoves(Down)
      /\ \A a \in recs : art'[a].st # "live"
      /\ \A a \in Call : art'[a].gen = art[a].gen
  BY <1>1, ClosingIs
<1>3. ASSUME NEW a \in Call
      PROVE  /\ art'[a].st # "live" /\ art'[a].from = art[a].from
             /\ art'[a].st = "none" <=> art[a].st = "none"
             /\ art'[a].expiring => art'[a].st \in Passed
  <2>1. ArtInv(a) /\ art[a] \in Artifact
    BY <1>1 DEF Typed
  <2>2. art'[a] = IF a \in recs /\ art[a].st = "live" THEN [art[a] EXCEPT !.st = "closing"] ELSE art[a]
    BY DEF Closing
  <2>3. QED
    BY <2>1, <2>2 DEF ArtInv, Artifact, Passed
<1>4. QED
  BY <1>2, <1>3

LEMMA EventKept == ASSUME SourceInv, SessionEvent PROVE SourceInv'
<1>1. /\ UNCHANGED <<ext, req, call, live, server>> /\ Down \in Slot /\ Typed
  BY SlotFacts DEF SessionEvent, client, SourceInv
<1>2. /\ session' \in Connection /\ session.gen \in Nat /\ session'.gen = session.gen + 1
  <2>1. Refreshed \in Connection /\ Refreshed.gen = session.gen /\ session.gen \in Nat
    BY <1>1, RefreshedIs DEF Connection
  <2> HIDE DEF Refreshed
  <2> DEFINE n == Refreshed.gen + 1
  <2>2. session' = [Refreshed EXCEPT !.told = TRUE, !.gen = n] /\ n \in Nat
    BY <2>1 DEF SessionEvent
  <2> HIDE DEF n
  <2>3. session' \in Connection /\ session'.gen = n
    BY <2>1, <2>2 DEF Connection
  <2>4. QED
    BY <2>1, <2>3 DEF n
<1>3. CASE art' = Closing(recs) /\ recs' = {}
  <2>1. /\ art' \in [Call -> Artifact] /\ ArtMoves(Down)
        /\ \A a \in Call : art'[a].st # "live"
        /\ \A a \in Call : /\ art'[a].gen = art[a].gen /\ art'[a].from = art[a].from
                           /\ art'[a].st = "none" <=> art[a].st = "none"
                           /\ art'[a].expiring => art'[a].st \in Passed
    BY <1>3, ClearedArt
  <2>2. Typed'
    BY <1>1, <1>2, <1>3, <2>1 DEF Typed
  <2>3. ASSUME NEW a \in Call PROVE ArtInv(a)'
    <3>1. ArtInv(a) /\ art[a].gen \in Nat
      BY <1>1 DEF SourceInv, Typed, Artifact
    <3>2. art'[a].gen <= session'.gen /\ art'[a].gen # session'.gen
      <4>1. art[a].gen <= session.gen
        BY <3>1 DEF ArtInv
      <4>2. art[a].gen <= session.gen + 1 /\ art[a].gen # session.gen + 1
        BY <1>2, <3>1, <4>1
      <4>3. QED
        BY <1>2, <2>1, <4>2
    <3>3. QED
      BY <1>3, <2>1, <3>1, <3>2 DEF ArtInv
  <2>4. QED
    BY <1>1, <2>1, <2>2, <2>3, AroundRequests
<1>4. CASE ext = "down" /\ UNCHANGED <<art, recs>>
  <2>1. Typed'
    BY <1>1, <1>2, <1>4 DEF Typed
  <2>2. ArtMoves(Down)
    BY <1>1, <1>4, StillIs
  <2>3. ASSUME NEW a \in Call PROVE ArtInv(a)'
    <3>1. ArtInv(a) /\ art[a].gen \in Nat
      BY <1>1 DEF SourceInv, Typed, Artifact
    <3>2. art'[a].gen <= session'.gen /\ art'[a].gen # session'.gen
      <4>1. art[a].gen <= session.gen
        BY <3>1 DEF ArtInv
      <4>2. art[a].gen <= session.gen + 1 /\ art[a].gen # session.gen + 1
        BY <1>2, <3>1, <4>1
      <4>3. QED
        BY <1>2, <1>4, <4>2
    <3>3. QED
      BY <1>1, <1>4, <3>1, <3>2 DEF ArtInv
  <2>4. QED
    BY <1>1, <2>1, <2>2, <2>3, AroundRequests
<1>5. QED
  BY <1>1, <1>3, <1>4 DEF SessionEvent, Typed

LEMMA StopListeningKept == ASSUME SourceInv, StopListening PROVE SourceInv'
<1>1. /\ UNCHANGED <<session, art, recs, req, call, live, server>> /\ ext' = "closing"
      /\ Down \in Slot /\ Typed
  BY SlotFacts DEF StopListening, client, SourceInv
<1>2. Typed'
  BY <1>1 DEF Typed
<1>3. ASSUME NEW a \in Call PROVE ArtInv(a)'
  BY <1>1, <1>3 DEF SourceInv, ArtInv
<1>4. ArtMoves(Down)
  BY <1>1, StillIs
<1>5. QED
  BY <1>1, <1>2, <1>3, <1>4, AroundRequests

LEMMA DeactivateKept == ASSUME SourceInv, Deactivate PROVE SourceInv'
<1>1. /\ UNCHANGED <<req, call, live, server>> /\ Typed /\ session \in Connection
      /\ ext' = "down" /\ recs' = {} /\ session' = [session EXCEPT !.avail = FALSE]
  BY DEF Deactivate, client, SourceInv, Typed
<1>2. /\ art' \in [Call -> Artifact] /\ ArtMoves(Down)
      /\ \A a \in Call : art'[a].st # "live"
      /\ \A a \in Call : /\ art'[a].gen = art[a].gen /\ art'[a].from = art[a].from
                         /\ art'[a].st = "none" <=> art[a].st = "none"
                         /\ art'[a].expiring => art'[a].st \in Passed
  BY ClearedArt DEF Deactivate
<1>3. /\ session' \in Connection /\ session'.conn = session.conn /\ session'.told = session.told
      /\ session'.gen = session.gen
  BY <1>1 DEF Connection
<1>4. Typed'
  BY <1>1, <1>2, <1>3 DEF Typed
<1>5. ASSUME NEW a \in Call PROVE ArtInv(a)'
  <2>1. ArtInv(a)
    BY DEF SourceInv
  <2>2. QED
    BY <1>1, <1>2, <1>3, <2>1 DEF ArtInv
<1>6. QED
  BY <1>1, <1>2, <1>4, <1>5, AroundRequests

\* The timer, and the removal of a directory.
LEMMA ArtifactKept == ASSUME SourceInv, NEW a \in Call, Expire(a) \/ Remove(a) PROVE SourceInv'
<1>1. /\ UNCHANGED <<session, ext, recs, req, call, live, server>> /\ Typed /\ art[a] \in Artifact
      /\ ArtInv(a) /\ art[a].st \in {"live", "closing"}
      /\ Down \in Slot /\ Down \notin Call
  BY SlotFacts DEF Expire, Remove, client, SourceInv, Typed
<1>2. PICK st \in Passed, e \in BOOLEAN :
         art' = [art EXCEPT ![a] = [art[a] EXCEPT !.st = st, !.expiring = e]]
  <2>1. CASE Expire(a)
    <3>1. art' = [art EXCEPT ![a] = [art[a] EXCEPT !.st = "closing", !.expiring = TRUE]]
      BY <1>1, <2>1 DEF Expire, Typed
    <3>2. QED
      BY <3>1 DEF Passed
  <2>2. CASE Remove(a)
    <3>1. PICK end \in {"gone", "stuck"} : art' = [art EXCEPT ![a].st = end]
      BY <2>2 DEF Remove
    <3>2. [art[a] EXCEPT !.st = end] = [art[a] EXCEPT !.st = end, !.expiring = art[a].expiring]
      BY <1>1 DEF Artifact
    <3>3. art' = [art EXCEPT ![a] = [art[a] EXCEPT !.st = end, !.expiring = art[a].expiring]]
      BY <3>1, <3>2
    <3>4. QED
      BY <1>1, <3>3 DEF Passed, Artifact
  <2>3. QED
    BY <2>1, <2>2
<1> DEFINE b == [art[a] EXCEPT !.st = st, !.expiring = e]
<1>3. /\ b \in Artifact /\ b.st = st /\ b.expiring = e /\ b.from = art[a].from /\ b.gen = art[a].gen
  BY <1>1 DEF Artifact, Passed
<1>4. art' = [art EXCEPT ![a] = b]
  BY <1>2
<1> HIDE DEF b
<1>5. /\ art' \in [Call -> Artifact] /\ art'[a] = b
      /\ \A x \in Call \ {a} : art'[x] = art[x]
  BY <1>1, <1>3, <1>4 DEF Typed
<1>6. ArtMoves(Down)
  BY <1>1, <1>3, <1>5 DEF ArtMoves, WasOpened, Passed
<1>7. Typed'
  BY <1>1, <1>5 DEF Typed
<1>8. ArtInv(a)'
  BY <1>1, <1>3, <1>5 DEF ArtInv, WasOpened, Passed
<1>9. ASSUME NEW x \in Call, x # a PROVE ArtInv(x)'
  BY <1>1, <1>5, <1>9 DEF SourceInv, ArtInv
<1>10. QED
  BY <1>1, <1>6, <1>7, <1>8, <1>9, AroundRequests

\* A step of one handler while the server still serves.
LEMMA HandlerStep ==
    ASSUME SourceInv, NEW c \in Call, server' = server, server.phase \in {"up", "draining"},
           session' \in Connection, session'.conn = session.conn, session'.told = session.told,
           session'.gen = session.gen, ext' = ext,
           call' \in [Call -> Handler], CallsStay(c), req' \in [Slot -> Request], SlotsStay(c),
           art' \in [Call -> Artifact], ArtMoves(Down), recs' \in SUBSET Call, RecsMove(Down),
           live' \in SUBSET Call, \A x \in live : art'[x].st = "live" => x \in live',
           ReqInv(c)', CallInv(c)'
    PROVE  SourceInv'
<1>1. /\ c \in Slot /\ c # Down /\ Down \in Slot /\ Typed
  BY SlotFacts DEF SourceInv
<1>2. ArtMoves(c) /\ RecsMove(c)
  BY <1>1, NobodysMoves
<1>3. ArtInv(c)'
  BY <1>1, ArtKept
<1>4. KeptStays(c)
  BY DEF KeptStays, Kept
<1>5. Typed' /\ EndInv'
  BY <1>1 DEF Typed, EndInv
<1>6. QED
  BY <1>1, <1>2, <1>3, <1>4, <1>5, OneSlot

\* A handler at work, or one that may begin: the server still serves.
LEMMA Serving ==
    ASSUME SourceInv, NEW c \in Call,
           call[c].pc \in {"sent", "ending", "disposing"} \/ server.phase = "up"
    PROVE  server.phase \in {"up", "draining"}
BY DEF SourceInv, EndInv, Typed, Server

LEMMA EndsIs ==
    ASSUME Typed, NEW c \in Call, NEW ans \in {"page", "error", "lost"}, Ends(c, ans)
    PROVE  /\ call' \in [Call -> Handler] /\ CallsStay(c)
           /\ call'[c].pc = "done" /\ call'[c].kind = "none" /\ call'[c].ans = ans
<1> DEFINE h == [NoCall EXCEPT !.pc = "done", !.ans = ans]
<1>1. h \in Handler /\ h.pc = "done" /\ h.kind = "none" /\ h.ans = ans
  BY SlotFacts DEF NoCall, Handler, Answer
<1>2. call' = [call EXCEPT ![c] = h]
  BY DEF Ends
<1> HIDE DEF h
<1>3. QED
  BY <1>1, <1>2 DEF Typed, CallsStay

LEMMA EndedKept ==
    ASSUME NEW c \in Call, call'[c].pc = "done", call'[c].kind = "none",
           call'[c].ans = "page" => req'[c].pc = "idle" /\ (art'[c].st = "live" => Kept(c)')
    PROVE  CallInv(c)'
BY DEF CallInv

LEMMA TakenKept ==
    ASSUME SourceInv, NEW c \in Call, Taken(c), UNCHANGED art
    PROVE  /\ req' \in [Slot -> Request] /\ SlotsStay(c) /\ ReqInv(c)'
           /\ req[c].pc = "done" => req'[c] = NoReq
<1>1. /\ c \in Slot /\ c # Down /\ Down \in Slot /\ Typed
  BY SlotFacts DEF SourceInv
<1>2. /\ req' \in [Slot -> Request] /\ SlotsStay(c)
      /\ req'[c] = IF req[c].pc = "done" THEN NoReq ELSE req[c]
  BY <1>1, TakenIs
<1>3. ReqInv(c)'
  BY <1>1, <1>2, NoReqKept, SlotKept, StillIs
<1>4. QED
  BY <1>2, <1>3

\* What stays when only a handler, and what it keeps of the answer, changes.
LEMMA StillThere ==
    ASSUME SourceInv, UNCHANGED <<session, ext, art, recs>>
    PROVE  /\ session' \in Connection /\ session'.conn = session.conn
           /\ session'.told = session.told /\ session'.gen = session.gen
           /\ art' \in [Call -> Artifact] /\ ArtMoves(Down)
           /\ recs' \in SUBSET Call /\ RecsMove(Down)
<1>1. Typed /\ Down \in Slot
  BY SlotFacts DEF SourceInv
<1>2. ArtMoves(Down)
  BY <1>1, StillIs
<1>3. RecsMove(Down)
  BY DEF RecsMove
<1>4. QED
  BY <1>1, <1>2, <1>3 DEF Typed

\* A handler that ends without a page.
LEMMA EndsKept ==
    ASSUME SourceInv, NEW c \in Call, NEW ans \in {"error", "lost"}, Ends(c, ans),
           server.phase \in {"up", "draining"},
           UNCHANGED <<session, ext, art, recs, live, server>>, req' = req \/ Taken(c)
    PROVE  SourceInv'
<1>1. Typed /\ c \in Slot /\ c # Down /\ Down \in Slot
  BY SlotFacts DEF SourceInv
<1>2. /\ session' \in Connection /\ session'.conn = session.conn
      /\ session'.told = session.told /\ session'.gen = session.gen
      /\ art' \in [Call -> Artifact] /\ ArtMoves(Down)
      /\ recs' \in SUBSET Call /\ RecsMove(Down)
  BY StillThere
<1>3. /\ call' \in [Call -> Handler] /\ CallsStay(c)
      /\ call'[c].pc = "done" /\ call'[c].kind = "none" /\ call'[c].ans = ans
  BY <1>1, EndsIs
<1>4. req' \in [Slot -> Request] /\ SlotsStay(c) /\ ReqInv(c)'
  <2>1. CASE req' = req
    BY <1>1, <1>2, <2>1, SlotKept DEF Typed, SlotsStay
  <2>2. CASE Taken(c)
    BY <2>2, TakenKept
  <2>3. QED
    BY <2>1, <2>2
<1>5. CallInv(c)'
  BY <1>3, EndedKept
<1>6. QED
  BY <1>1, <1>2, <1>3, <1>4, <1>5, HandlerStep DEF Typed

LEMMA ReadFirstKept == ASSUME SourceInv, NEW c \in Call, ReadFirst(c) PROVE SourceInv'
<1>1. /\ Typed /\ CallInv(c) /\ ReqInv(c) /\ c \in Slot /\ c # Down /\ Down \in Slot
      /\ call[c].pc = "idle" /\ server.phase = "up" /\ UNCHANGED <<live, server>>
      /\ call[c] \in Handler /\ session \in Connection
  BY SlotFacts DEF SourceInv, ReadFirst, Typed
<1>2. art[c].st = "none" /\ req[c].pc = "idle" /\ call[c].ans = "none"
  BY <1>1 DEF CallInv
<1>3. CASE Ends(c, "error") /\ UNCHANGED <<companion, req>>
  BY <1>1, <1>3, EndsKept DEF companion
<1>4. CASE Sent(c, "first", c) /\ StartFirst(c)
  <2> DEFINE h == [call[c] EXCEPT !.pc = "sent", !.kind = "first", !.cur = c]
  <2>1. call' = [call EXCEPT ![c] = h]
    BY <1>1, <1>4 DEF Sent, Typed
  <2>2. h \in Handler /\ h.pc = "sent" /\ h.kind = "first" /\ h.cur = c /\ h.ans = "none"
    BY <1>1, <1>2 DEF Handler
  <2> HIDE DEF h
  <2>3. call' \in [Call -> Handler] /\ CallsStay(c) /\ call'[c] = h
    BY <1>1, <2>1, <2>2 DEF Typed, CallsStay
  <2>4. /\ session' \in Connection /\ session'.conn = session.conn /\ session'.told = session.told
        /\ session'.gen = session.gen /\ UNCHANGED <<ext, art, recs>>
    BY <1>1, <1>4, RefreshedIs DEF StartFirst
  <2>5. /\ art' \in [Call -> Artifact] /\ ArtMoves(Down)
        /\ recs' \in SUBSET Call /\ RecsMove(Down)
    BY <1>1, <2>4, StillIs DEF Typed, RecsMove
  <2>6. /\ req' \in [Slot -> Request] /\ SlotsStay(c) /\ req'[c].cur = c
        /\ req'[c].pc \in {"resolve", "done"} /\ req'[c].res # "disposed"
    <3>1. CASE session.conn = 0
      <4>1. "unavailable" \in Answer /\ "unavailable" # "disposed"
        BY DEF Answer
      <4>2. Done(c, c, "unavailable") /\ ~(c \in Call /\ call[c].pc = "done")
        BY <1>1, <1>4, <3>1 DEF StartFirst
      <4>3. QED
        BY <1>1, <4>1, <4>2, DoneIs
    <3>2. CASE session.conn # 0
      <4> DEFINE r == [NoReq EXCEPT !.pc = "resolve", !.cur = c, !.gen = session.gen]
      <4>1. r \in Request /\ r.pc = "resolve" /\ r.cur = c /\ r.res # "disposed"
        BY <1>1 DEF NoReq, Request, Connection, Answer
      <4>2. req' = [req EXCEPT ![c] = r]
        BY <1>4, <3>2 DEF StartFirst
      <4> HIDE DEF r
      <4>3. QED
        BY <1>1, <4>1, <4>2 DEF Typed, SlotsStay
    <3>3. QED
      BY <3>1, <3>2
  <2>7. ReqInv(c)'
    BY <1>1, <1>2, <2>4, <2>6 DEF ReqInv
  <2>8. CallInv(c)'
    BY <1>1, <1>2, <2>2, <2>3, <2>6 DEF CallInv
  <2>9. QED
    BY <1>1, <2>3, <2>4, <2>5, <2>6, <2>7, <2>8, HandlerStep DEF Typed
<1>5. QED
  BY <1>3, <1>4 DEF ReadFirst

\* A handler whose request begins with a cursor.
LEMMA AsksKept ==
    ASSUME SourceInv, NEW c \in Call, NEW a \in Call, NEW h \in Handler, call' = [call EXCEPT ![c] = h],
           UNCHANGED <<session, ext, live, server>>, server.phase \in {"up", "draining"},
           Begun(c, Down, a), h.pc \in {"sent", "disposing"}, h.cur = a, h.ans = "none",
           h.pc = "disposing" => req'[c].pc # "read",
           \/ h.kind = "first" /\ a = c
           \/ h.kind = "next" /\ art[c].st = "none"
    PROVE  SourceInv'
<1>1. Typed /\ c \in Slot /\ c # Down /\ Down \in Slot
  BY SlotFacts DEF SourceInv
<1>2. call' \in [Call -> Handler] /\ CallsStay(c) /\ call'[c] = h
  BY <1>1 DEF Typed, CallsStay
<1>3. ReqInv(c)'
  BY <1>1, BegunKept
<1>4. CallInv(c)'
  <2>1. art[c].st = "none" => art'[c].st = "none"
    BY <1>1 DEF Begun, ArtMoves
  <2>2. QED
    BY <1>1, <1>2, <2>1 DEF Begun, CallInv
<1>5. QED
  BY <1>1, <1>2, <1>3, <1>4, HandlerStep DEF Begun, Typed

LEMMA ReadNextKept == ASSUME SourceInv, NEW c \in Call, NEW a \in Call, ReadNext(c, a) PROVE SourceInv'
<1>1. /\ Typed /\ CallInv(c) /\ c \in Slot /\ c # Down /\ Down \in Slot
      /\ call[c].pc = "idle" /\ server.phase = "up" /\ UNCHANGED <<live, server>>
      /\ call[c] \in Handler
  BY SlotFacts DEF SourceInv, ReadNext, Typed
<1>2. art[c].st = "none" /\ call[c].ans = "none"
  BY <1>1 DEF CallInv
<1>3. CASE Ends(c, "error") /\ UNCHANGED <<companion, req>>
  BY <1>1, <1>3, EndsKept DEF companion
<1>4. CASE Sent(c, "next", a) /\ StartNext(c, a)
  <2> DEFINE h == [call[c] EXCEPT !.pc = "sent", !.kind = "next", !.cur = a]
  <2>1. call' = [call EXCEPT ![c] = h]
    BY <1>1, <1>4 DEF Sent, Typed
  <2>2. h \in Handler /\ h.pc = "sent" /\ h.kind = "next" /\ h.cur = a /\ h.ans = "none"
    BY <1>1, <1>2, SlotFacts DEF Handler
  <2> HIDE DEF h
  <2>3. UNCHANGED <<session, ext>>
    BY <1>4 DEF StartNext
  <2>4. Begun(c, Down, a)
    BY <1>1, <1>4, PageBegins
  <2>5. QED
    BY <1>1, <1>2, <2>1, <2>2, <2>3, <2>4, AsksKept
<1>5. QED
  BY <1>3, <1>4 DEF ReadNext

LEMMA GiveUpKept == ASSUME SourceInv, NEW c \in Call, GiveUp(c) PROVE SourceInv'
<1>1. server.phase \in {"up", "draining"}
  BY Serving DEF GiveUp
<1>2. QED
  BY <1>1, EndsKept DEF GiveUp, companion

LEMMA ReceiveKept == ASSUME SourceInv, NEW c \in Call, Receive(c) PROVE SourceInv'
<1> DEFINE a == call[c].cur
           r == req[c].res
           first == call[c].kind = "first"
<1>1. /\ Typed /\ CallInv(c) /\ ReqInv(c) /\ c \in Slot /\ c # Down /\ Down \in Slot
      /\ call[c].pc = "sent" /\ req[c].pc = "done" /\ server' = server
      /\ call[c] \in Handler /\ req[c] \in Request
  BY SlotFacts DEF SourceInv, Receive, Typed
<1>2. /\ a \in Call /\ call[c].kind \in {"first", "next"} /\ call[c].ans = "none"
      /\ call[c].kind = "first" => a = c
      /\ call[c].kind = "next" => art[c].st = "none"
      /\ req[c].cur = a
  BY <1>1 DEF CallInv, Handler
<1>3. server.phase \in {"up", "draining"}
  BY <1>1, Serving
<1>4. ASSUME UNCHANGED <<session, ext, art, recs>>
      PROVE  /\ session' \in Connection /\ session'.conn = session.conn
             /\ session'.told = session.told /\ session'.gen = session.gen
             /\ art' \in [Call -> Artifact] /\ ArtMoves(Down)
             /\ recs' \in SUBSET Call /\ RecsMove(Down)
  BY <1>4, StillThere
<1>5. CASE /\ call' = [call EXCEPT ![c].pc = "ending", ![c].got = r]
           /\ Taken(c) /\ UNCHANGED <<companion, live>>
  <2> DEFINE h == [call[c] EXCEPT !.pc = "ending", !.got = r]
  <2>1. call' = [call EXCEPT ![c] = h]
    BY <1>1, <1>5 DEF Typed
  <2>2. h \in Handler /\ h.pc = "ending" /\ h.kind = call[c].kind /\ h.cur = a /\ h.ans = "none"
    BY <1>1, <1>2 DEF Handler, Request
  <2> HIDE DEF h
  <2>3. call' \in [Call -> Handler] /\ CallsStay(c) /\ call'[c] = h
    BY <1>1, <2>1, <2>2 DEF Typed, CallsStay
  <2>4. /\ req' \in [Slot -> Request] /\ SlotsStay(c) /\ ReqInv(c)' /\ req'[c] = NoReq
        /\ UNCHANGED <<session, ext, art, recs, live>>
    BY <1>1, <1>5, TakenKept DEF companion
  <2>5. CallInv(c)'
    BY <1>2, <2>2, <2>3, <2>4, NoReqIs DEF CallInv
  <2>6. QED
    BY <1>1, <1>3, <1>4, <2>3, <2>4, <2>5, HandlerStep DEF Typed
<1>6. CASE live' = live \cup {a} /\ Ends(c, "page") /\ Taken(c) /\ UNCHANGED companion
  <2>1. /\ call' \in [Call -> Handler] /\ CallsStay(c)
        /\ call'[c].pc = "done" /\ call'[c].kind = "none" /\ call'[c].ans = "page"
    BY <1>1, <1>6, EndsIs
  <2>2. /\ req' \in [Slot -> Request] /\ SlotsStay(c) /\ ReqInv(c)' /\ req'[c] = NoReq
        /\ UNCHANGED <<session, ext, art, recs>>
    BY <1>1, <1>6, TakenKept DEF companion
  <2>3. live' \in SUBSET Call
    BY <1>1, <1>2, <1>6 DEF Typed
  <2>4. art'[c].st = "live" => Kept(c)'
    BY <1>1, <1>2, <1>3, <1>6, <2>2 DEF Kept
  <2>5. CallInv(c)'
    BY <2>1, <2>2, <2>4, EndedKept, NoReqIs
  <2>6. QED
    BY <1>1, <1>3, <1>4, <1>6, <2>1, <2>2, <2>3, <2>5, HandlerStep
<1>7. CASE /\ first /\ UNCHANGED live /\ StartDispose(c, a)
           /\ call' = [call EXCEPT ![c].pc = "disposing"]
  <2> DEFINE h == [call[c] EXCEPT !.pc = "disposing"]
  <2>1. call' = [call EXCEPT ![c] = h]
    BY <1>7
  <2>2. h \in Handler /\ h.pc = "disposing" /\ h.kind = "first" /\ h.cur = a /\ h.ans = "none"
    BY <1>1, <1>2, <1>7 DEF Handler
  <2> HIDE DEF h
  <2>3. UNCHANGED <<session, ext>>
    BY <1>7 DEF StartDispose
  <2>4. Begun(c, Down, a) /\ req'[c].pc \in {"wait", "done"}
    BY <1>1, <1>2, <1>7, DisposalBegins
  <2>5. QED
    BY <1>1, <1>2, <1>3, <1>7, <2>1, <2>2, <2>3, <2>4, AsksKept
<1>8. CASE Ends(c, "error") /\ Taken(c) /\ UNCHANGED <<companion, live>>
  BY <1>1, <1>3, <1>8, EndsKept DEF companion
<1>9. QED
  BY <1>5, <1>6, <1>7, <1>8 DEF Receive

LEMMA DisposeAfterKept == ASSUME SourceInv, NEW c \in Call, DisposeAfter(c) PROVE SourceInv'
<1> DEFINE a == call[c].cur
<1>1. /\ Typed /\ CallInv(c) /\ c \in Slot /\ c # Down /\ Down \in Slot
      /\ call[c].pc = "ending" /\ UNCHANGED <<live, server>> /\ call[c] \in Handler
  BY SlotFacts DEF SourceInv, DisposeAfter, Typed
<1>2. /\ a \in Call /\ call[c].kind \in {"first", "next"} /\ call[c].ans = "none"
      /\ call[c].kind = "first" => a = c
      /\ call[c].kind = "next" => art[c].st = "none"
  BY <1>1 DEF CallInv, Handler
<1>3. server.phase \in {"up", "draining"}
  BY <1>1, Serving
<1>4. CASE call' = [call EXCEPT ![c].pc = "disposing"] /\ StartDispose(c, a)
  <2> DEFINE h == [call[c] EXCEPT !.pc = "disposing"]
  <2>1. call' = [call EXCEPT ![c] = h]
    BY <1>4
  <2>2. h \in Handler /\ h.pc = "disposing" /\ h.kind = call[c].kind /\ h.cur = a /\ h.ans = "none"
    BY <1>1, <1>2 DEF Handler
  <2> HIDE DEF h
  <2>3. UNCHANGED <<session, ext>>
    BY <1>4 DEF StartDispose
  <2>4. Begun(c, Down, a) /\ req'[c].pc \in {"wait", "done"}
    BY <1>1, <1>2, <1>4, DisposalBegins
  <2>5. QED
    BY <1>1, <1>2, <1>3, <2>1, <2>2, <2>3, <2>4, AsksKept
<1>5. CASE \E ans \in {"error", "lost"} : Ends(c, ans) /\ UNCHANGED <<companion, req>>
  BY <1>1, <1>3, <1>5, EndsKept DEF companion
<1>6. QED
  BY <1>4, <1>5 DEF DisposeAfter

LEMMA DisposedAfterKept == ASSUME SourceInv, NEW c \in Call, DisposedAfter(c) PROVE SourceInv'
<1> DEFINE a == call[c].cur
           gone == req[c].res = "disposed"
<1>1. /\ Typed /\ CallInv(c) /\ ReqInv(c) /\ c \in Slot /\ c # Down /\ Down \in Slot
      /\ call[c].pc = "disposing" /\ req[c].pc = "done" /\ server' = server
      /\ UNCHANGED <<session, ext, art, recs>> /\ Taken(c)
      /\ live' = IF gone THEN live \ {a} ELSE live
      /\ call[c] \in Handler
  BY SlotFacts DEF SourceInv, DisposedAfter, Typed, companion
<1>2. /\ a \in Call /\ call[c].kind \in {"first", "next"}
      /\ call[c].kind = "first" => a = c
      /\ call[c].kind = "next" => art[c].st = "none"
      /\ req[c].cur = a
      /\ gone => art[a].st # "live"
  BY <1>1 DEF CallInv, ReqInv, Handler, Passed
<1>3. server.phase \in {"up", "draining"}
  BY <1>1, Serving
<1>4. PICK ans \in {"page", "error"} : Ends(c, ans) /\ (ans = "page" => gone)
  BY DEF DisposedAfter
<1>5. /\ call' \in [Call -> Handler] /\ CallsStay(c)
      /\ call'[c].pc = "done" /\ call'[c].kind = "none" /\ call'[c].ans = ans
  BY <1>1, <1>4, EndsIs
<1>6. req' \in [Slot -> Request] /\ SlotsStay(c) /\ ReqInv(c)' /\ req'[c] = NoReq
  BY <1>1, TakenKept
<1>7. gone => art'[c].st # "live"
  BY <1>1, <1>2
<1>8. CallInv(c)'
  BY <1>4, <1>5, <1>6, <1>7, EndedKept, NoReqIs
<1>9. live' \in SUBSET Call /\ \A x \in live : art'[x].st = "live" => x \in live'
  BY <1>1, <1>2 DEF Typed
<1>10. /\ session' \in Connection /\ session'.conn = session.conn
       /\ session'.told = session.told /\ session'.gen = session.gen
       /\ art' \in [Call -> Artifact] /\ ArtMoves(Down)
       /\ recs' \in SUBSET Call /\ RecsMove(Down)
  BY <1>1, StillThere
<1>11. QED
  BY <1>1, <1>3, <1>5, <1>6, <1>8, <1>9, <1>10, HandlerStep

\* The server's own steps.
LEMMA ServerStep ==
    ASSUME SourceInv, UNCHANGED <<session, ext, call>>, req' \in [Slot -> Request], SlotsStay(Down),
           art' \in [Call -> Artifact], ArtMoves(Down), recs' \in SUBSET Call, RecsMove(Down),
           live' \in SUBSET Call, server' \in Server, KeptStays(Down), ReqInv(Down)', EndInv'
    PROVE  SourceInv'
<1>1. Typed /\ Down \in Slot /\ Down \notin Call
  BY SlotFacts DEF SourceInv
<1>2. Typed' /\ CallsStay(Down)
  BY <1>1 DEF Typed, CallsStay
<1>3. QED
  BY <1>1, <1>2, OneSlot

LEMMA SameKept ==
    ASSUME SourceInv, UNCHANGED <<session, ext, art, recs, req, call, live, server>>
    PROVE  SourceInv'
BY DEF SourceInv, Typed, ArtInv, CallInv, ReqInv, Kept, EndInv

\* A step that touches neither a request nor an artifact.
LEMMA ServerOnly ==
    ASSUME SourceInv, UNCHANGED <<session, ext, art, recs, req, call>>,
           live' \in SUBSET Call, server' \in Server, KeptStays(Down), EndInv'
    PROVE  SourceInv'
<1>1. Typed /\ Down \in Slot /\ ReqInv(Down)
  BY SlotFacts DEF SourceInv
<1>2. /\ art' \in [Call -> Artifact] /\ ArtMoves(Down) /\ recs' \in SUBSET Call /\ RecsMove(Down)
  BY StillThere
<1>3. req' \in [Slot -> Request] /\ SlotsStay(Down)
  BY <1>1 DEF Typed, SlotsStay
<1>4. ReqInv(Down)'
  BY <1>1, <1>2, SlotKept
<1>5. QED
  BY <1>2, <1>3, <1>4, ServerStep

LEMMA StopIntakeKept == ASSUME SourceInv, StopIntake PROVE SourceInv'
<1>1. /\ UNCHANGED <<session, ext, art, recs, req, call, live>> /\ server.phase = "up"
      /\ server' = [server EXCEPT !.phase = "draining"] /\ Typed /\ server \in Server
  BY DEF StopIntake, companion, SourceInv, Typed
<1>2. server' \in Server /\ server'.phase = "draining"
  BY <1>1 DEF Server
<1>3. KeptStays(Down) /\ EndInv'
  BY <1>1, <1>2 DEF KeptStays, Kept, EndInv
<1>4. QED
  BY <1>1, <1>2, <1>3, ServerOnly DEF Typed

LEMMA DrainedKept == ASSUME SourceInv, Drained PROVE SourceInv'
<1>1. /\ UNCHANGED <<session, ext, art, recs, req, call, live>> /\ server.phase = "draining"
      /\ server' = [server EXCEPT !.phase = "disposing", !.left = live]
      /\ \A c \in Call : call[c].pc \in {"idle", "done"}
      /\ Typed /\ server \in Server /\ live \in SUBSET Call
  BY DEF Drained, companion, SourceInv, Typed
<1>2. server' \in Server /\ server'.phase = "disposing" /\ server'.left = live
  BY <1>1 DEF Server
<1>3. KeptStays(Down) /\ EndInv'
  BY <1>1, <1>2 DEF KeptStays, Kept, EndInv
<1>4. QED
  BY <1>1, <1>2, <1>3, ServerOnly

LEMMA RunReturnsKept == ASSUME SourceInv, RunReturns PROVE SourceInv'
<1>1. /\ UNCHANGED <<session, ext, art, recs, req, call, live>> /\ server.phase = "disposing"
      /\ server' = [server EXCEPT !.phase = "ended"] /\ server.left = {}
      /\ Typed /\ server \in Server /\ live \in SUBSET Call /\ EndInv
  BY DEF RunReturns, companion, SourceInv, Typed
<1>2. /\ server' \in Server /\ server'.phase = "ended" /\ server'.left = {}
      /\ server'.failed = server.failed
  BY <1>1 DEF Server
<1>3. KeptStays(Down)
  BY <1>1, <1>2 DEF KeptStays, Kept
<1>4. EndInv'
  BY <1>1, <1>2 DEF EndInv
<1>5. QED
  BY <1>1, <1>2, <1>3, <1>4, ServerOnly

LEMMA DisposeLiveKept == ASSUME SourceInv, NEW a \in Call, DisposeLive(a) PROVE SourceInv'
<1>1. /\ UNCHANGED <<call, live>> /\ server.phase = "disposing"
      /\ Typed /\ server \in Server /\ live \in SUBSET Call /\ EndInv /\ Down \in Slot /\ Down \notin Call
  BY SlotFacts DEF DisposeLive, SourceInv, Typed
<1>2. CASE StartDispose(Down, a) /\ UNCHANGED server
  <2>1. Begun(Down, Down, a) /\ req'[Down].pc \in {"wait", "done"} /\ UNCHANGED <<session, ext>>
    BY <1>1, <1>2, DisposalBegins DEF StartDispose
  <2>2. ReqInv(Down)'
    BY <1>1, <2>1, BegunKept
  <2>3. KeptStays(Down) /\ EndInv'
    BY <1>1, <1>2, UnservedKept DEF EndInv
  <2>4. QED
    BY <1>1, <1>2, <2>1, <2>2, <2>3, ServerStep DEF Begun
<1>3. CASE /\ UNCHANGED <<companion, req>>
           /\ server' = [server EXCEPT !.left = @ \ {a}, !.failed = TRUE]
  <2>1. server' \in Server /\ server'.phase = "disposing" /\ server'.failed
    BY <1>1, <1>3 DEF Server
  <2>2. KeptStays(Down) /\ EndInv'
    BY <1>1, <2>1 DEF KeptStays, Kept, EndInv
  <2>3. QED
    BY <1>1, <1>3, <2>1, <2>2, ServerOnly DEF companion
<1>4. QED
  BY <1>2, <1>3 DEF DisposeLive

LEMMA DisposedLiveKept == ASSUME SourceInv, DisposedLive PROVE SourceInv'
<1> DEFINE a == req[Down].cur
           gone == req[Down].pc = "done" /\ req[Down].res = "disposed"
<1>1. /\ UNCHANGED <<session, ext, art, recs, call>> /\ server.phase = "disposing"
      /\ live' = IF gone THEN live \ {a} ELSE live
      /\ server' = [server EXCEPT !.left = @ \ {a}, !.failed = @ \/ ~gone]
      /\ req' = [req EXCEPT ![Down] = NoReq]
      /\ Typed /\ server \in Server /\ live \in SUBSET Call /\ EndInv /\ ReqInv(Down)
      /\ Down \in Slot /\ Down \notin Call
  BY SlotFacts DEF DisposedLive, companion, SourceInv, Typed
<1>2. /\ server' \in Server /\ server'.phase = "disposing"
      /\ server'.left = server.left \ {a} /\ server'.failed = (server.failed \/ ~gone)
  <2> DEFINE failed == server.failed \/ ~gone
             left == server.left \ {a}
  <2>1. server' = [server EXCEPT !.left = left, !.failed = failed]
    BY <1>1
  <2>2. failed \in BOOLEAN /\ left \in SUBSET Call
    BY <1>1 DEF Server
  <2> HIDE DEF failed, left
  <2>3. server' \in Server /\ server'.phase = "disposing" /\ server'.left = left /\ server'.failed = failed
    BY <1>1, <2>1, <2>2 DEF Server
  <2>4. QED
    BY <2>3 DEF failed, left
<1>3. /\ req' \in [Slot -> Request] /\ SlotsStay(Down) /\ req'[Down] = NoReq
  BY <1>1, NoReqIs DEF Typed, SlotsStay
<1>4. ReqInv(Down)'
  BY <1>1, <1>3, NoReqKept
<1>5. KeptStays(Down)
  <2>1. gone => a \in Call /\ art[a].st # "live"
    BY <1>1 DEF ReqInv, Passed
  <2>2. ASSUME NEW c \in Call, art'[c].st = "live", Kept(c) PROVE Kept(c)'
    <3>1. c \in server.left \/ server.failed
      BY <1>1, <2>2 DEF Kept
    <3>2. gone => c # a
      BY <1>1, <2>1, <2>2
    <3>3. c \in server'.left \/ server'.failed
      BY <1>2, <3>1, <3>2
    <3>4. QED
      BY <1>2, <3>3 DEF Kept
  <2>3. QED
    BY <2>2 DEF KeptStays
<1>6. EndInv'
  BY <1>1, <1>2 DEF EndInv
<1>7. /\ art' \in [Call -> Artifact] /\ ArtMoves(Down) /\ recs' \in SUBSET Call /\ RecsMove(Down)
  BY <1>1, StillThere
<1>8. live' \in SUBSET Call
  BY <1>1
<1>9. QED
  BY <1>1, <1>2, <1>3, <1>4, <1>5, <1>6, <1>7, <1>8, ServerStep

LEMMA SourceStep == SourceInv /\ [SourceNext]_sourceVars => SourceInv'
<1> SUFFICES ASSUME SourceInv, [SourceNext]_sourceVars PROVE SourceInv'
  OBVIOUS
<1>1. CASE ConnectionChanges \/ SessionEvent \/ StopListening \/ Deactivate
  BY <1>1, ConnectionKept, EventKept, StopListeningKept, DeactivateKept
<1>2. CASE StopIntake \/ Drained \/ DisposedLive \/ RunReturns
  BY <1>2, StopIntakeKept, DrainedKept, DisposedLiveKept, RunReturnsKept
<1>3. CASE \E s \in Slot : Read(s) \/ Waited(s)
  BY <1>3, ReadKept, WaitedKept
<1>4. ASSUME NEW c \in Call, Resolved(c) \/ Downloaded(c) \/ Opened(c) \/ Expire(c) \/ Remove(c)
      PROVE  SourceInv'
  BY <1>4, ResolvedKept, DownloadedKept, OpenedKept, ArtifactKept
<1>5. ASSUME NEW c \in Call,
             \/ ReadFirst(c) \/ GiveUp(c) \/ Receive(c) \/ DisposeAfter(c) \/ DisposedAfter(c)
             \/ DisposeLive(c)
             \/ \E a \in Call : ReadNext(c, a)
      PROVE  SourceInv'
  BY <1>5, ReadFirstKept, GiveUpKept, ReceiveKept, DisposeAfterKept, DisposedAfterKept,
     DisposeLiveKept, ReadNextKept
<1>6. ASSUME NEW c \in Call, OwnerExpires(c) PROVE SourceInv'
  BY <1>6, SameKept DEF OwnerExpires, companion
<1>7. CASE UNCHANGED sourceVars
  BY <1>7, SameKept DEF sourceVars
<1>8. QED
  BY <1>1, <1>2, <1>3, <1>4, <1>5, <1>6, <1>7 DEF SourceNext

LEMMA SourceStarts == SourceInit => SourceInv
<1> SUFFICES ASSUME SourceInit PROVE SourceInv
  OBVIOUS
<1>1. Down \in Slot /\ Down \notin Call /\ 0 \in 0..MaxConns /\ 1 \in 0..MaxConns /\ 1 \in 1..MaxConns
  BY SlotFacts, SourceAssumption
<1>2. session \in Connection /\ server \in Server /\ server.phase = "up"
      /\ session.gen = 0 /\ recs = {} /\ ext = "up" /\ live = {}
  BY <1>1 DEF SourceInit, Connection, Server
<1>3. NoReq \in Request /\ NoReq.pc = "idle" /\ NoReq.res # "disposed"
  BY NoReqIs
<1>4. /\ NoCall \in Handler /\ NoCall.pc = "idle" /\ NoCall.kind = "none" /\ NoCall.ans = "none"
  BY <1>1 DEF NoCall, Handler, Answer
<1>5. req \in [Slot -> Request] /\ \A s \in Slot : req[s] = NoReq
  BY <1>3 DEF SourceInit
<1>6. call \in [Call -> Handler] /\ \A c \in Call : call[c] = NoCall
  BY <1>4 DEF SourceInit
<1>7. /\ art \in [Call -> Artifact]
      /\ \A c \in Call : art[c].st = "none" /\ art[c].gen = 0 /\ ~art[c].expiring
  BY <1>1 DEF SourceInit, Artifact
<1>8. Typed
  BY <1>2, <1>5, <1>6, <1>7 DEF Typed
<1>9. \A a \in Call : ArtInv(a)
  BY <1>2, <1>7 DEF ArtInv
<1>10. \A c \in Call : CallInv(c)
  <2>1. \A c \in Call : c \in Slot
    BY SlotFacts
  <2>2. QED
    BY <1>3, <1>4, <1>5, <1>6, <1>7, <2>1 DEF CallInv
<1>11. \A s \in Slot : ReqInv(s)
  BY <1>3, <1>5 DEF ReqInv
<1>12. QED
  BY <1>2, <1>8, <1>9, <1>10, <1>11 DEF SourceInv, EndInv

\* However many calls, reconnections and clients that gave up there are: an artifact that is
\* open is listed under its cursor, and after deactivation none is open.
THEOREM ArtifactsAreListed == SourceSpec => []LiveIsListed
<1>1. SourceInv => LiveIsListed
  BY DEF SourceInv, ArtInv, LiveIsListed
<1>2. QED
  BY <1>1, SourceStarts, SourceStep, PTL DEF SourceSpec

\* A server whose Run returned no error left open none of the artifacts it handed out.
THEOREM EndIsClean == SourceSpec => []CleanEnd
<1>1. SourceInv => CleanEnd
  BY DEF SourceInv, CallInv, EndInv, Kept, CleanEnd
<1>2. QED
  BY <1>1, SourceStarts, SourceStep, PTL DEF SourceSpec

\* What a step of one slot does to the requests of the others.
LEMMA SlotSteps ==
    ASSUME Typed, NEW s \in Slot, NEW a, NEW res,
           \/ Done(s, a, res) \/ Taken(s) \/ Disposing(s, a, res)
           \/ StartFirst(s) \/ StartNext(s, a) \/ StartDispose(s, a)
    PROVE  SlotsStay(s)
<1>1. ASSUME NEW x, NEW r, Done(s, x, r) PROVE SlotsStay(s)
  BY <1>1 DEF Done, SlotsStay, Typed
<1>2. ASSUME NEW r, Disposing(s, a, r) PROVE SlotsStay(s)
  BY <1>2 DEF Disposing, SlotsStay, Typed
<1>3. CASE Taken(s)
  BY <1>3 DEF Taken, SlotsStay, Typed
<1>4. CASE StartFirst(s)
  <2>1. ASSUME NEW r, req' = [req EXCEPT ![s] = r] PROVE SlotsStay(s)
    BY <2>1 DEF SlotsStay, Typed
  <2>2. QED
    BY <1>1, <1>4, <2>1 DEF StartFirst
<1>5. CASE StartNext(s, a)
  <2>1. ASSUME NEW r, req' = [req EXCEPT ![s] = r] PROVE SlotsStay(s)
    BY <2>1 DEF SlotsStay, Typed
  <2>2. CASE PageRecord(s, a)
    BY <1>1, <1>2, <2>1, <2>2 DEF PageRecord, Discard
  <2>3. QED
    BY <1>1, <1>5, <2>2 DEF StartNext
<1>6. CASE StartDispose(s, a)
  BY <1>1, <1>2, <1>6 DEF StartDispose
<1>7. QED
  BY <1>1, <1>2, <1>3, <1>4, <1>5, <1>6

\* A request that reads is answered by its own read only, with the session as it was.
LEMMA AnsweredByRead ==
    ASSUME SourceInv, [SourceNext]_sourceVars, NEW s \in Slot, req[s].pc = "read", req'[s].pc = "done"
    PROVE  Current(req[s].gen)
<1>1. /\ Typed /\ ReqInv(s) /\ s # Down /\ s \in Call /\ CallInv(s)
      /\ Down \in Slot /\ Down \notin Call /\ \A c \in Call : c \in Slot
  BY SlotFacts DEF SourceInv, ReqInv
<1>2. call[s].pc \notin {"idle", "ending", "disposing"}
  BY <1>1 DEF CallInv
<1>3. req'[s] # req[s]
  OBVIOUS
<1>4. \A t \in Slot : t # s => ~SlotsStay(t)
  BY <1>3 DEF SlotsStay
<1>5. ASSUME NEW t \in Slot, Read(t) PROVE Current(req[s].gen)
  <2>1. ASSUME NEW a, NEW res, Disposing(t, a, res) PROVE FALSE
    <3>1. t = s
      BY <1>1, <1>4, <2>1, SlotSteps
    <3>2. req'[s].pc = "wait"
      BY <1>1, <2>1, <3>1 DEF Disposing, Typed
    <3>3. QED
      BY <3>2
  <2>2. ASSUME NEW a, NEW res, Done(t, a, res) PROVE t = s
    BY <1>1, <1>4, <2>2, SlotSteps
  <2>3. QED
    BY <1>5, <2>1, <2>2 DEF Read, Discard
<1>6. ASSUME NEW t \in Slot, Waited(t) PROVE FALSE
  <2>1. req[t].pc = "wait" /\ \E a, res : Done(t, a, res)
    BY <1>6 DEF Waited
  <2>2. QED
    BY <1>1, <1>4, <2>1, SlotSteps
<1>7. ASSUME NEW c \in Call, Resolved(c) \/ Downloaded(c) \/ Opened(c) PROVE FALSE
  <2>1. req[c].pc \in {"resolve", "download", "open"} /\ c # s
    BY <1>7 DEF Resolved, Downloaded, Opened
  <2>2. SlotsStay(c)
    <3>1. ASSUME NEW a, NEW res, Done(c, a, res) PROVE SlotsStay(c)
      BY <1>1, <3>1, SlotSteps
    <3>2. ASSUME NEW r, req' = [req EXCEPT ![c] = r] PROVE SlotsStay(c)
      BY <1>1, <3>2 DEF SlotsStay, Typed
    <3>3. CASE req' = [req EXCEPT ![c].pc = "wait", ![c].res = "unavailable"]
      BY <1>1, <3>3 DEF SlotsStay, Typed
    <3>4. QED
      BY <1>7, <3>1, <3>2, <3>3 DEF Resolved, NoCandidate, Acquires, Downloaded, Opened, GiveUpDirectory
  <2>3. QED
    BY <1>1, <1>4, <2>1, <2>2
<1>8. ASSUME NEW c \in Call, NEW a \in Call,
             ReadFirst(c) \/ ReadNext(c, a) \/ DisposeAfter(c)
      PROVE  FALSE
  <2>1. c # s
    BY <1>2, <1>8 DEF ReadFirst, ReadNext, DisposeAfter
  <2>2. UNCHANGED req \/ \E x : StartFirst(c) \/ StartNext(c, x) \/ StartDispose(c, x)
    BY <1>8 DEF ReadFirst, ReadNext, DisposeAfter
  <2>3. QED
    BY <1>1, <1>3, <1>4, <2>1, <2>2, SlotSteps
<1>9. ASSUME NEW c \in Call, GiveUp(c) \/ Receive(c) \/ DisposedAfter(c) PROVE FALSE
  <2>1. Taken(c) \/ StartDispose(c, call[c].cur)
    BY <1>9 DEF GiveUp, Receive, DisposedAfter
  <2>2. c = s
    BY <1>1, <1>4, <2>1, SlotSteps
  <2>3. GiveUp(c)
    BY <1>9, <2>2 DEF Receive, DisposedAfter
  <2>4. req' = req
    BY <2>2, <2>3 DEF GiveUp, Taken
  <2>5. QED
    BY <1>3, <2>4
<1>10. ASSUME NEW a \in Call, DisposeLive(a) PROVE FALSE
  <2>1. UNCHANGED req \/ StartDispose(Down, a)
    BY <1>10 DEF DisposeLive
  <2>2. QED
    BY <1>1, <1>3, <1>4, <2>1, SlotSteps
<1>11. CASE DisposedLive
  <2>1. SlotsStay(Down)
    BY <1>1, <1>11 DEF DisposedLive, SlotsStay, Typed
  <2>2. QED
    BY <1>1, <1>4, <2>1
<1>12. CASE \/ ConnectionChanges \/ SessionEvent \/ StopListening \/ Deactivate
            \/ StopIntake \/ Drained \/ RunReturns \/ UNCHANGED sourceVars
            \/ \E c \in Call : Expire(c) \/ Remove(c) \/ OwnerExpires(c)
  BY <1>3, <1>12 DEF ConnectionChanges, SessionEvent, StopListening, Deactivate, StopIntake, Drained,
     RunReturns, sourceVars, Expire, Remove, OwnerExpires
<1>13. QED
  BY <1>5, <1>6, <1>7, <1>8, <1>9, <1>10, <1>11, <1>12 DEF SourceNext

\* A page is answered only while the connection it was downloaded over is the one held,
\* whatever reconnections happened between any two of the awaits.
THEOREM PagesStayCurrent == SourceSpec => PagesAreCurrent
<1>1. SourceInv /\ [SourceNext]_sourceVars =>
          [\A s \in Slot : req[s].pc = "read" /\ req'[s].pc = "done" =>
               session.conn \in {0, art[req[s].cur].from}]_sourceVars
  <2> SUFFICES ASSUME SourceInv, [SourceNext]_sourceVars, NEW s \in Slot,
                      req[s].pc = "read", req'[s].pc = "done"
               PROVE  session.conn \in {0, art[req[s].cur].from}
    OBVIOUS
  <2>1. Current(req[s].gen)
    BY AnsweredByRead
  <2>2. /\ req[s].cur \in Call /\ art[req[s].cur].st # "none"
        /\ art[req[s].cur].gen = session.gen
    BY <2>1 DEF Current, SourceInv, ReqInv, WasOpened, Passed
  <2>3. QED
    BY <2>2 DEF SourceInv, ArtInv
<1>2. QED
  BY <1>1, SourceStarts, SourceStep, PTL DEF SourceSpec, PagesAreCurrent
=============================================================================
