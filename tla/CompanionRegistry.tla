-------------------------- MODULE CompanionRegistry --------------------------
(* Finding a companion and calling it: the broker of each VS Code window      *)
(* (broker.ts: start, stop and refreshRegistration run one after the other),  *)
(* its registration file (tokenState.ts), the requests it works on            *)
(* (httpServer.ts, admission.ts, codeforiAdapter.ts), and on the other side   *)
(* the Go client that reads the directory of registrations, picks the one     *)
(* focused and connected window and sends it a metadata call                  *)
(* (codefori/token_source.go, client.go), with the program selections of      *)
(* inspection.go.  A window here is one activation: its token and its         *)
(* instance name are drawn once, its port may have been another's before.     *)
EXTENDS Integers, FiniteSets

CONSTANTS
    Window, ToolCall, Port,
    NoWindow, NoPort,
    Capacity,        \* ImmediateAdmission's slots (16)
    MaxSelections,   \* inspection.MaxSelections (256)
    MaxEvents,       \* bound: focus and session changes
    MaxMishaps       \* bound: windows that die, writes and listens that fail

ASSUME RegistryAssumption ==
    /\ Capacity \in Nat \ {0} /\ MaxSelections \in Nat /\ MaxEvents \in Nat
    /\ MaxMishaps \in Nat
    /\ NoWindow \notin Window /\ NoPort \notin Port

VARIABLES
    broker,      \* per window: where its chain of operations is, closed, and its bound port
    files,       \* per window: its entries in the directory, as published, temporary and quarantined
    focus,       \* the focused window
    ibmi,        \* per window: whether it has an IBM i connection, and the connection generation
    tool,        \* per call: the Go client's side
    orphans,     \* per window: queries whose client is gone and that still hold a slot
    selections,  \* how many handles of resolved programs are known
    spent        \* bounds used: events and mishaps

registryVars == <<broker, files, focus, ibmi, tool, orphans, selections, spent>>

Absent == [there |-> FALSE, eligible |-> FALSE, fresh |-> FALSE]
\* the methods either side knows, and those of them that wait for IBM i
Method == {"status", "find", "query", "program", "catalog"}
Waits == {"query", "program", "catalog"}
NoTool == [pc |-> "idle", seen |-> {}, to |-> NoWindow, at |-> NoWindow, method |-> "none", gen |-> 0]

RegistryInit ==
    /\ broker = [w \in Window |-> [pc |-> "off", closed |-> FALSE, port |-> NoPort]]
    /\ files = [w \in Window |-> [json |-> Absent, temp |-> Absent, moving |-> FALSE]]
    /\ focus \in Window
    /\ ibmi = [w \in Window |-> [up |-> TRUE, gen |-> 0]]
    /\ tool = [c \in ToolCall |-> NoTool]
    /\ orphans = [w \in Window |-> 0]
    /\ selections = 0
    /\ spent = [events |-> 0, mishaps |-> 0]

\* ImmediateAdmission.active: a slot is held until the work settles, wanted or not
Slots(w) ==
    orphans[w] + Cardinality({c \in ToolCall : tool[c].at = w /\ tool[c].method = "query"})

Entry == [there: BOOLEAN, eligible: BOOLEAN, fresh: BOOLEAN]
RegistryTypeOK ==
    /\ broker \in [Window -> [pc: {"off", "listen", "publish", "publishing", "up", "writing", "unpublish",
                                  "quarantined", "closing", "stopped", "dead"},
                              closed: BOOLEAN, port: Port \cup {NoPort}]]
    /\ files \in [Window -> [json: Entry, temp: Entry, moving: BOOLEAN]]
    /\ focus \in Window \cup {NoWindow}
    /\ ibmi \in [Window -> [up: BOOLEAN, gen: 0..MaxEvents]]
    /\ tool \in [ToolCall -> [pc: {"idle", "listed", "selected", "sent", "working", "answered"},
                              seen: SUBSET Window,
                              to: Window \cup {NoWindow}, at: Window \cup {NoWindow},
                              method: Method \cup {"none"}, gen: 0..MaxEvents]]
    /\ orphans \in [Window -> 0..Capacity]
    /\ selections \in 0..MaxSelections
    /\ spent \in [events: 0..MaxEvents, mishaps: 0..MaxMishaps]

----------------------------------------------------------------------------
(* The broker.                                                                *)

Goes(w, pc) == broker' = [broker EXCEPT ![w].pc = pc]
Mishap == spent.mishaps < MaxMishaps /\ spent' = [spent EXCEPT !.mishaps = @ + 1]

Authenticates(w) == broker[w].pc \in {"up", "writing"}
Listens(w) == broker[w].pc \in {"publish", "publishing", "up", "writing", "unpublish", "quarantined"}
InFlight(w) == {c \in ToolCall : tool[c].at = w /\ tool[c].pc \in {"sent", "working"}}

\* Mutant: the focus is not looked at.
RegistrationUnfocused(w) == [there |-> TRUE, eligible |-> ibmi[w].up, fresh |-> TRUE]

\* eligibility(options), written with a new lease
Registration(w) == [there |-> TRUE, eligible |-> focus = w /\ ibmi[w].up, fresh |-> TRUE]

Start(w) ==
    /\ broker[w].pc = "off" /\ Goes(w, "listen")
    /\ UNCHANGED <<files, focus, ibmi, tool, orphans, selections, spent>>

\* a port nobody holds; a broker closed meanwhile gives it back at once
Listened(w) ==
    /\ broker[w].pc = "listen"
    /\ \/ Goes(w, "stopped") /\ broker[w].closed /\ UNCHANGED spent
       \/ Goes(w, "stopped") /\ Mishap
       \/ /\ ~broker[w].closed /\ UNCHANGED spent
          /\ \E p \in Port :
                /\ \A v \in Window : Listens(v) => broker[v].port # p
                /\ broker' = [broker EXCEPT ![w].pc = "publish", ![w].port = p]
    /\ UNCHANGED <<files, focus, ibmi, tool, orphans, selections>>

\* write: the content is decided first, then written beside the registration and renamed over it
WriteTemp(w) ==
    /\ broker[w].pc = "publish" \/ (broker[w].pc = "up" /\ ~broker[w].closed)
    /\ files' = [files EXCEPT ![w].temp = Registration(w)]
    /\ Goes(w, IF broker[w].pc = "up" THEN "writing" ELSE "publishing")
    /\ UNCHANGED <<focus, ibmi, tool, orphans, selections, spent>>

\* the rename; start looks at closed again before it says it is up
Rename(w) ==
    LET closed == broker[w].pc = "publishing" /\ broker[w].closed IN
    /\ broker[w].pc \in {"publishing", "writing"}
    /\ files' = [files EXCEPT ![w].temp = Absent, ![w].json = IF closed THEN @ ELSE files[w].temp,
                              ![w].moving = closed]
    /\ Goes(w, IF closed THEN "unpublish" ELSE "up")
    /\ UNCHANGED <<focus, ibmi, tool, orphans, selections, spent>>

\* Mutant: the temporary file of a failed write is left.
WriteFailsDirty(w) ==
    /\ broker[w].pc \in {"publishing", "writing"} /\ Mishap
    /\ Goes(w, IF broker[w].pc = "writing" THEN "up" ELSE "stopped")
    /\ UNCHANGED <<files, focus, ibmi, tool, orphans, selections>>

\* a failed write removes what it wrote: a start then ends, a refresh keeps the older registration
WriteFails(w) ==
    /\ broker[w].pc \in {"publishing", "writing"} /\ Mishap
    /\ files' = [files EXCEPT ![w].temp = Absent]
    /\ Goes(w, IF broker[w].pc = "writing" THEN "up" ELSE "stopped")
    /\ UNCHANGED <<focus, ibmi, tool, orphans, selections>>

\* stop marks the broker closed at once; its operation waits for the one that runs
Stop(w) ==
    /\ broker[w].pc \in {"listen", "publish", "publishing", "up", "writing"} /\ ~broker[w].closed
    /\ broker' = [broker EXCEPT ![w].closed = TRUE]
    /\ UNCHANGED <<files, focus, ibmi, tool, orphans, selections, spent>>

\* no token is good any more, and the registration is moved aside
Quarantine(w) ==
    /\ broker[w].pc = "up" /\ broker[w].closed
    /\ files' = [files EXCEPT ![w].json = Absent, ![w].moving = TRUE]
    /\ Goes(w, "quarantined")
    /\ UNCHANGED <<focus, ibmi, tool, orphans, selections, spent>>

RemoveMoved(w) ==
    /\ broker[w].pc \in {"unpublish", "quarantined"}
    /\ files' = [files EXCEPT ![w].moving = FALSE]
    /\ Goes(w, IF broker[w].pc = "unpublish" THEN "stopped" ELSE "closing")
    /\ UNCHANGED <<focus, ibmi, tool, orphans, selections, spent>>

\* server.close: nobody new, and those in flight are waited for
Closed(w) ==
    /\ broker[w].pc = "closing" /\ InFlight(w) = {} /\ Goes(w, "stopped")
    /\ UNCHANGED <<files, focus, ibmi, tool, orphans, selections, spent>>

\* the window dies: what it was doing is lost, what it wrote stays
Crash(w) ==
    /\ broker[w].pc \notin {"off", "stopped", "dead"} /\ Mishap /\ Goes(w, "dead")
    /\ orphans' = [orphans EXCEPT ![w] = 0]
    /\ tool' = [c \in ToolCall |-> IF tool[c].at = w THEN NoTool ELSE tool[c]]   \* a broken connection
    /\ UNCHANGED <<files, focus, ibmi, selections>>

\* a window that runs renews its lease in time; one that does not is forgotten after thirty seconds
LeaseEnds(w) ==
    /\ files[w].json.fresh /\ ~Authenticates(w)
    /\ files' = [files EXCEPT ![w].json.fresh = FALSE]
    /\ UNCHANGED <<broker, focus, ibmi, tool, orphans, selections, spent>>

\* the user looks at another window, or at none
FocusMoves ==
    /\ spent.events < MaxEvents /\ spent' = [spent EXCEPT !.events = @ + 1]
    /\ \E w \in Window \cup {NoWindow} : w # focus /\ focus' = w
    /\ UNCHANGED <<broker, files, ibmi, tool, orphans, selections>>

\* Code for IBM i connects or disconnects
SessionChanges(w) ==
    /\ spent.events < MaxEvents /\ spent' = [spent EXCEPT !.events = @ + 1]
    /\ ibmi' = [ibmi EXCEPT ![w] = [up |-> ~@.up, gen |-> @.gen + 1]]
    /\ UNCHANGED <<broker, files, focus, tool, orphans, selections>>

----------------------------------------------------------------------------
(* The client.                                                                *)

\* whatever the answer, the client is ready for its next call
Returns(c) == tool' = [tool EXCEPT ![c] = NoTool]

Published == {w \in Window : files[w].json.there}
Clutter == \E w \in Window : files[w].temp.there \/ files[w].moving

\* the directory is listed: one entry that is no registration blocks the client
ListDirectory(c) ==
    /\ tool[c].pc = "idle" /\ ~Clutter /\ Published # {}
    /\ tool' = [tool EXCEPT ![c].pc = "listed", ![c].seen = Published]
    /\ UNCHANGED <<broker, files, focus, ibmi, orphans, selections, spent>>

\* selectTarget: of what the files say, exactly one window is focused, connected and unexpired
Candidates(ws) == {w \in ws : files[w].json.eligible /\ files[w].json.fresh}
Selectable(ws) == ws \subseteq Published /\ Cardinality(Candidates(ws)) = 1

Target(c) ==
    /\ tool[c].pc = "listed"
    /\ IF Selectable(tool[c].seen)
         THEN \E w \in Candidates(tool[c].seen) :
                tool' = [tool EXCEPT ![c].pc = "selected", ![c].to = w, ![c].seen = {}]
         ELSE Returns(c)
    /\ UNCHANGED <<broker, files, focus, ibmi, orphans, selections, spent>>

\* Mutant: any window that authenticates takes the request.
TakesAny(x, c) == Authenticates(x)

\* whoever listens on the registered port gets the request, and refuses a token that is not its own;
\* a second look at the directory cannot help: an instance keeps its token
Takes(x, c) == Authenticates(x) /\ x = tool[c].to

Send(c) ==
    LET there == {x \in Window : Listens(x) /\ broker[x].port = broker[tool[c].to].port} IN
    /\ tool[c].pc = "selected"
    /\ IF \E x \in there : Takes(x, c)
         THEN \E x \in there : Takes(x, c) /\ tool' = [tool EXCEPT ![c].pc = "sent", ![c].at = x]
         ELSE Returns(c)
    /\ UNCHANGED <<broker, files, focus, ibmi, orphans, selections, spent>>

\* ImmediateAdmission.execute: refused when every slot is taken
Admits(w, m) == m = "query" => Slots(w) < Capacity

\* the adapter asks nothing of IBM i without a session
Bound(w) == ibmi[w].up

\* encodeResponse: a result leaves the companion only in the shape of its method
Respond(c, method, ok) ==
    tool' = [tool EXCEPT ![c] = [NoTool EXCEPT !.pc = "answered",
                                               !.method = IF ok THEN method ELSE "none"]]

\* The body was read: the token is checked again and the method, which the request has had since it
\* was made, is dispatched.  What waits for nothing is answered, and so is whatever is refused.
AnswerAtOnce(c) ==
    /\ tool[c].pc = "sent"
    /\ \/ Returns(c)
       \/ \E m \in Method : /\ Authenticates(tool[c].at)
                             /\ \E ok \in BOOLEAN : (ok => m \notin Waits) /\ Respond(c, m, ok)
    /\ UNCHANGED <<broker, files, focus, ibmi, orphans, selections, spent>>

\* the others begin, a query only if there is a slot for it
Begin(c) ==
    LET w == tool[c].at IN
    /\ tool[c].pc = "sent" /\ Authenticates(w) /\ Bound(w)
    /\ \E m \in Waits :
          /\ Admits(w, m)
          /\ tool' = [tool EXCEPT ![c].pc = "working", ![c].method = m, ![c].gen = ibmi[w].gen]
    /\ UNCHANGED <<broker, files, focus, ibmi, orphans, selections, spent>>

\* validGeneration: the session is the one the work began in
SameSession(c) ==
    LET w == tool[c].at IN ibmi[w].up /\ ibmi[w].gen = tool[c].gen

\* IBM i answered, or failed: what another session was asked is withheld
Settle(c, method) ==
    /\ tool[c].pc = "working" /\ tool[c].method = method
    /\ \E ok \in BOOLEAN : (ok => SameSession(c)) /\ Respond(c, method, ok)
    /\ UNCHANGED <<broker, files, focus, ibmi, orphans, selections, spent>>

SettleQuery(c) == Settle(c, "query")
SettleCatalog(c) == Settle(c, "catalog")
SettleProgram(c) == Settle(c, "program")

\* the response is one the client can decode
Decodes(c) == tool[c].method \in Method

\* IssueSelection: a handle for the one match, if there is room for it
Issue ==
    /\ selections < MaxSelections
    /\ selections' = selections + 1

\* the tool returns what the companion said
ToolReturns(c) ==
    /\ tool[c].pc = "answered" /\ Returns(c)
    /\ \/ UNCHANGED selections
       \/ Decodes(c) /\ tool[c].method = "program" /\ Issue
    /\ UNCHANGED <<broker, files, focus, ibmi, orphans, spent>>

\* the client's deadline, or the five seconds a query is waited for: the work goes on and keeps its slot
ToolTimesOut(c) ==
    /\ tool[c].pc \in {"sent", "working"} /\ Returns(c)
    /\ orphans' = IF tool[c].method = "query" THEN [orphans EXCEPT ![tool[c].at] = @ + 1] ELSE orphans
    /\ UNCHANGED <<broker, files, focus, ibmi, selections, spent>>

OrphanSettles(w) ==
    /\ orphans[w] > 0 /\ orphans' = [orphans EXCEPT ![w] = @ - 1]
    /\ UNCHANGED <<broker, files, focus, ibmi, tool, selections, spent>>

SelectionExpires ==
    /\ selections > 0 /\ selections' = selections - 1
    /\ UNCHANGED <<broker, files, focus, ibmi, tool, orphans, spent>>

----------------------------------------------------------------------------
RegistryNext ==
    \/ FocusMoves \/ SelectionExpires
    \/ \E w \in Window :
        \/ Start(w) \/ Listened(w) \/ WriteTemp(w) \/ Rename(w) \/ WriteFails(w) \/ Stop(w)
        \/ Quarantine(w) \/ RemoveMoved(w) \/ Closed(w) \/ Crash(w) \/ LeaseEnds(w) \/ SessionChanges(w)
        \/ OrphanSettles(w)
    \/ \E c \in ToolCall :
        \/ ListDirectory(c) \/ Target(c) \/ Send(c) \/ AnswerAtOnce(c) \/ Begin(c)
        \/ SettleQuery(c) \/ SettleCatalog(c) \/ SettleProgram(c) \/ ToolReturns(c) \/ ToolTimesOut(c)

\* The extension host runs its chain of operations, the heartbeat and the events refresh the
\* registration, and time passes; the client's calls end by their deadlines.
RegistrySpec ==
    /\ RegistryInit /\ [][RegistryNext]_registryVars
    /\ \A w \in Window :
        /\ WF_registryVars(Listened(w)) /\ WF_registryVars(WriteTemp(w)) /\ WF_registryVars(Rename(w))
        /\ WF_registryVars(Quarantine(w)) /\ WF_registryVars(RemoveMoved(w)) /\ WF_registryVars(Closed(w))
        /\ WF_registryVars(LeaseEnds(w))
    /\ \A c \in ToolCall : WF_registryVars(ToolTimesOut(c))

----------------------------------------------------------------------------
(* Properties.                                                                *)

\* A call is worked on only by the window whose registration it was sent by, although a port
\* outlives its window and the next one may be given it.
OwnWindow == \A c \in ToolCall : tool[c].pc \in {"sent", "working"} => tool[c].at = tool[c].to

\* A broker that stopped left nothing in the directory, whatever it was doing when it was stopped:
\* one leftover temporary or quarantined file makes every client refuse the whole directory.
StoppedIsGone ==
    \A w \in Window : broker[w].pc = "stopped" =>
        ~files[w].json.there /\ ~files[w].temp.there /\ ~files[w].moving

\* A window that stays focused, connected and running is in the end the one candidate there is:
\* its own registration says so, and no other, of a live or of a dead window, still does.
Findable ==
    \A w \in Window :
        <>[](focus = w /\ ibmi[w].up /\ Authenticates(w) /\ ~broker[w].closed)
            => <>[](Candidates(Published) = {w})

==============================================================================
