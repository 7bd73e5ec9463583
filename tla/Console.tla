------------------------------ MODULE Console ------------------------------
(* The terminal program `nexus configure` (tui/model.go, tui/onboarding.go)*)
(* over the profile store and the onboarding service.                      *)
(*                                                                         *)
(* Update is called with one message at a time: a key, or the answer of a  *)
(* command started earlier.  Commands run beside it and their answers come *)
(* in any order; only a prompt takes the terminal, and the two messages of *)
(* a prompt keep the order they were sent in.  Every key is an action: the *)
(* operator may press it whenever its screen is shown.                     *)
EXTENDS OnboardingRun, Sequences, FiniteSets

CONSTANTS
    MaxCommands,    \* bound: store commands under way at a time
    MaxEdits        \* bound: deletions and updates in a run

ASSUME ConsoleAssumption == MaxCommands \in Nat \ {0} /\ MaxEdits \in Nat

Slot == 1 .. MaxCommands

VARIABLES
    ui,         \* Model: the screen and the fields its keys read
    commands,   \* the store commands under way, and their answers
    prompts,    \* the prompts asked for, and their answers, in order
    waits,      \* the Wait commands under way: operations
    edits       \* store commands that changed something so far

uiVars == <<ui, commands, prompts, waits, edits>>
consoleVars == <<lease, issued, calls, profiles, ui, commands, prompts, waits, edits>>

NoCommand == [kind |-> "none", name |-> 0, host |-> NoHost, names |-> {}]

ConsoleInit ==
    /\ RunInit
    /\ ui = [screen |-> "home", step |-> "name", op |-> 0, captured |-> FALSE,
             running |-> FALSE, shown |-> "none", listed |-> {}, loaded |-> FALSE,
             selected |-> 0, target |-> 0, name |-> 0, host |-> NoHost]
    /\ commands = [s \in Slot |-> IF s = 1 THEN [NoCommand EXCEPT !.kind = "list"]
                                           ELSE NoCommand]
    /\ prompts = <<>>
    /\ waits = {}
    /\ edits = 0

On(screen) == ui.screen = screen

(* The profile under the cursor: the list is sorted by name.               *)
Selected ==
    CHOOSE n \in ui.listed : Cardinality({m \in ui.listed : m < n}) = ui.selected

(* clamp                                                                   *)
Clamped(i, listed) ==
    IF i < Cardinality(listed) THEN i
    ELSE IF listed = {} THEN 0 ELSE Cardinality(listed) - 1

(* A command is handed to the program, which starts it beside the loop.    *)
Runs(command) ==
    \E s \in Slot :
        /\ commands[s].kind = "none"
        /\ commands' = [commands EXCEPT ![s] = command]

Reload == Runs([NoCommand EXCEPT !.kind = "list"])

RunIdle == UNCHANGED runVars

-----------------------------------------------------------------------------
(* Keys on the home screen, the list, the detail, the form and the         *)
(* confirmation.                                                           *)

(* The menu of a list that is loaded and not empty offers to manage it.    *)
Manageable == ui.loaded /\ ui.listed # {}

OpenList ==
    /\ On("home") /\ Manageable
    /\ ui' = [ui EXCEPT !.screen = "list"]
    /\ Reload
    /\ RunIdle /\ UNCHANGED <<prompts, waits, edits>>

Shell(from, to) ==
    /\ On(from)
    /\ ui' = [ui EXCEPT !.screen = to, !.target = 0]
    /\ RunIdle /\ UNCHANGED <<commands, prompts, waits, edits>>

Back == Shell("list", "home") \/ Shell("detail", "list") \/ Shell("form", "detail")
            \/ Shell("confirm", "list")

Quit == \E from \in {"home", "list", "detail"} : Shell(from, "gone")

Inspected == ui.listed # {} /\ Shell("list", "detail")

Move ==
    /\ On("list")
    /\ \E i \in 0 .. Cardinality(ui.listed) :
          ui' = [ui EXCEPT !.selected = Clamped(i, ui.listed)]
    /\ RunIdle /\ UNCHANGED <<commands, prompts, waits, edits>>

(* d and e keep the name they were pressed on.                             *)
Aim(from, to) ==
    /\ On(from) /\ ui.listed # {}
    /\ ui' = [ui EXCEPT !.screen = to, !.target = Selected]
    /\ RunIdle /\ UNCHANGED <<commands, prompts, waits, edits>>

BeginConfirm == Aim("list", "confirm") \/ Aim("detail", "confirm")
BeginForm == Aim("detail", "form")

Edit(from, command) ==
    /\ On(from)
    /\ edits < MaxEdits
    /\ edits' = edits + 1
    /\ Runs(command)
    /\ RunIdle /\ UNCHANGED <<ui, prompts, waits>>

(* The typed confirmation names the profile; the screen stays.             *)
ConfirmDelete ==
    Edit("confirm", [NoCommand EXCEPT !.kind = "delete", !.name = ui.target])

(* The form keeps the name and may change the identity.                    *)
FormProfile(h) == [NoCommand EXCEPT !.kind = "update", !.name = ui.target, !.host = h]

SubmitForm == \E h \in Host : Edit("form", FormProfile(h))

-----------------------------------------------------------------------------
(* Store commands run, and their answers come back to Update.              *)

Answers(s, kind) == commands' = [commands EXCEPT ![s].kind = kind]

(* Update and Delete check the profile, and may fail at any of their steps.*)
Stores(s, kind, host) ==
    LET c == commands[s] IN
    /\ c.kind = kind
    /\ \/ /\ profiles[c.name] # NoHost
          /\ profiles' = [profiles EXCEPT ![c.name] = host]
          /\ Answers(s, "changed")
       \/ Answers(s, "failed") /\ UNCHANGED profiles
    /\ UNCHANGED <<lease, issued, calls, ui, prompts, waits, edits>>

UpdateRuns(s) == Stores(s, "update", commands[s].host)
DeleteRuns(s) == Stores(s, "delete", NoHost)

(* List: the store as it is now, delivered later.                          *)
ListRuns(s) ==
    /\ commands[s].kind = "list"
    /\ \/ commands' = [commands EXCEPT ![s] =
              [NoCommand EXCEPT !.kind = "listed",
                                !.names = {n \in Name : profiles[n] # NoHost}]]
       \/ Answers(s, "unlisted")
    /\ RunIdle /\ UNCHANGED <<ui, prompts, waits, edits>>

(* View: the detail of a list that is empty now reads past it.             *)
Viewed(screen, listed) ==
    IF screen = "detail" /\ listed = {} THEN "crashed" ELSE screen

(* profilesMsg: the cursor stays in the list.                              *)
ListArrives(s) ==
    LET listed == commands[s].names IN
    /\ commands[s].kind = "listed"
    /\ ui' = [ui EXCEPT !.listed = listed, !.loaded = TRUE,
                        !.selected = Clamped(ui.selected, listed),
                        !.screen = Viewed(@, listed)]
    /\ commands' = [commands EXCEPT ![s] = NoCommand]
    /\ RunIdle /\ UNCHANGED <<prompts, waits, edits>>

(* operationMsg with an error: the screen stays.                           *)
FailureArrives(s) ==
    /\ commands[s].kind \in {"failed", "unlisted"}
    /\ ui' = [ui EXCEPT !.loaded = @ /\ commands[s].kind = "failed"]
    /\ commands' = [commands EXCEPT ![s] = NoCommand]
    /\ RunIdle /\ UNCHANGED <<prompts, waits, edits>>

(* operationMsg without one: from any screen back to the list, reloaded.   *)
ChangeArrives(s) ==
    /\ commands[s].kind = "changed"
    /\ ui' = [ui EXCEPT !.screen = "list", !.target = 0, !.shown = "none"]
    /\ commands' = [commands EXCEPT ![s] = [NoCommand EXCEPT !.kind = "list"]]
    /\ RunIdle /\ UNCHANGED <<prompts, waits, edits>>

-----------------------------------------------------------------------------
(* The onboarding screens.                                                 *)

(* Revoke, when the screen holds an operation.                             *)
LetGo ==
    /\ IF ui.op = 0 THEN UNCHANGED <<lease, calls>> ELSE RunRevoked(ui.op)
    /\ UNCHANGED <<issued, profiles>>

Forgetting(screen, step) ==
    [ui EXCEPT !.screen = screen, !.step = step, !.op = 0, !.captured = FALSE]

(* The form as it is left behind: beginDirectOnboarding clears it, so what  *)
(* it held matters only to a prompt still on its way.                      *)
Rested(u) ==
    IF prompts = <<>> THEN [u EXCEPT !.step = "name", !.name = 0, !.host = NoHost] ELSE u

(* beginDirectOnboarding                                                   *)
BeginOnboarding ==
    /\ On("home") \/ On("list")
    /\ LetGo
    /\ ui' = [Forgetting("onboard", "name") EXCEPT !.running = FALSE,
                  !.shown = "none", !.name = 0, !.host = NoHost]
    /\ UNCHANGED <<commands, prompts, waits, edits>>

(* The name is checked against the list as last loaded.                    *)
NextName ==
    /\ On("onboard") /\ ui.step = "name" /\ ui.loaded
    /\ \E n \in Name \ ui.listed :
          ui' = [ui EXCEPT !.step = "connection", !.name = n]
    /\ RunIdle /\ UNCHANGED <<commands, prompts, waits, edits>>

(* ... and again with the endpoint.                                        *)
NextConnection ==
    /\ On("onboard") /\ ui.step = "connection" /\ ui.loaded
    /\ ui.name \notin ui.listed
    /\ \E h \in Host : ui' = [ui EXCEPT !.step = "credentials", !.host = h]
    /\ RunIdle /\ UNCHANGED <<commands, prompts, waits, edits>>

Earlier(step) ==
    CASE step = "review" -> "credentials" [] step = "credentials" -> "connection"
      [] OTHER -> "name"

(* Mutant: going back forgets the operation without revoking it. *)
BackOnboardingKeeping ==
    /\ On("onboard")
    /\ ui' = IF ui.step = "name" THEN Rested(Forgetting("home", "name"))
             ELSE Forgetting("onboard", Earlier(ui.step))
    /\ RunIdle /\ UNCHANGED <<commands, prompts, waits, edits>>

(* Esc and the Back buttons: one step back, the lease given up.            *)
BackOnboarding ==
    /\ On("onboard")
    /\ LetGo
    /\ ui' = IF ui.step = "name" THEN Rested(Forgetting("home", "name"))
             ELSE Forgetting("onboard", Earlier(ui.step))
    /\ UNCHANGED <<commands, prompts, waits, edits>>

(* validOnboardingRequest: an answer that comes after onboarding was begun  *)
(* again shows the review of an empty form.                                *)
Valid == ui.name # 0 /\ ui.host # NoHost

(* The Capture button: the old operation is revoked and a prompt asked for,*)
(* for the form as it is now.                                              *)
AskPassword ==
    /\ On("onboard") /\ ui.step = "credentials"
    /\ issued + Len(prompts) < MaxOps
    /\ LetGo
    /\ prompts' = Append(prompts, [kind |-> IF Valid THEN "ask" ELSE "refused", op |-> 0])
    /\ UNCHANGED <<ui, commands, waits, edits>>

(* onboardingExecCommand.Run: the prompt takes the terminal; its answer is *)
(* sent when it is over.                                                   *)
Prompt ==
    /\ prompts # <<>> /\ Head(prompts).kind \in {"ask", "refused"}
    /\ \/ \E o \in Op :
             /\ Head(prompts).kind = "ask" /\ Captured(o)
             /\ prompts' = Append(Tail(prompts), [kind |-> "answer", op |-> o])
       \/ /\ prompts' = Append(Tail(prompts), [kind |-> "answer", op |-> 0])
          /\ UNCHANGED <<lease, issued>>
    /\ UNCHANGED <<calls, profiles, ui, commands, waits, edits>>

(* onboardingPromptMsg: whatever the screen, onboarding is shown.          *)
PromptArrives ==
    /\ prompts # <<>> /\ Head(prompts).kind = "answer"
    /\ prompts' = Tail(prompts)
    /\ ui' = IF Head(prompts).op = 0
             THEN [ui EXCEPT !.screen = "onboard", !.target = 0, !.shown = "none"]
             ELSE [ui EXCEPT !.screen = "onboard", !.step = "review", !.target = 0,
                             !.shown = "none", !.op = Head(prompts).op, !.captured = TRUE]
    /\ RunIdle /\ UNCHANGED <<commands, waits, edits>>

(* The Connect button.                                                     *)
Connect ==
    /\ On("onboard") /\ ui.step = "review" /\ ui.captured /\ ui.op # 0
    /\ lease' = IF Valid THEN LeaseAfter(ui.op) ELSE lease
    /\ IF Valid /\ Startable(ui.op)
       THEN /\ calls' = Started(ui.op, ui.name, ui.host)
            /\ waits' = waits \union {ui.op}
            /\ ui' = [ui EXCEPT !.running = TRUE, !.screen = "running"]
       ELSE /\ ui' = [ui EXCEPT !.captured = FALSE]
            /\ UNCHANGED <<calls, waits>>
    /\ UNCHANGED <<issued, profiles, commands, prompts, edits>>

(* Esc while it runs: revoked, and its result is no longer wanted.         *)
Abandon ==
    /\ On("running")
    /\ LetGo
    /\ ui' = [ui EXCEPT !.running = FALSE, !.screen = "onboard"]
    /\ UNCHANGED <<commands, prompts, waits, edits>>

(* Mutant: any result is taken for the one the screen waits for. *)
WantedAny(o) == ui.running

(* Mutant: only a saved result ends the wait. *)
WantedSaved(o) == ui.running /\ o = ui.op /\ calls[o].result = "saved"

(* onboardingResultMsg belongs to the operation the screen waits for.      *)
Wanted(o) == ui.running /\ o = ui.op

ResultArrives(o) ==
    /\ o \in waits /\ At(o, "done")
    /\ waits' = waits \ {o}
    /\ ui' = IF Wanted(o)
             THEN [ui EXCEPT !.running = FALSE, !.screen = "completion",
                             !.target = 0, !.shown = calls[o].result]
             ELSE ui
    /\ RunIdle /\ UNCHANGED <<commands, prompts, edits>>

Finish ==
    /\ On("completion")
    /\ ui' = Rested([ui EXCEPT !.screen = "list", !.shown = "none"])
    /\ Reload
    /\ RunIdle /\ UNCHANGED <<prompts, waits, edits>>

-----------------------------------------------------------------------------
Alive == ~On("gone") /\ ~On("crashed")

Arrives ==
    \/ \E s \in Slot : ListArrives(s) \/ FailureArrives(s) \/ ChangeArrives(s)
    \/ PromptArrives
    \/ \E o \in Op : ResultArrives(o)

Keys ==
    \/ OpenList \/ Back \/ Quit \/ Inspected \/ Move \/ BeginConfirm \/ BeginForm
    \/ ConfirmDelete \/ SubmitForm
    \/ BeginOnboarding \/ NextName \/ NextConnection \/ BackOnboarding
    \/ AskPassword \/ Connect \/ Abandon \/ Finish

Beside ==
    \/ \E s \in Slot : UpdateRuns(s) \/ DeleteRuns(s) \/ ListRuns(s)
    \/ Prompt
    \/ RunNext /\ UNCHANGED uiVars

(* The program ends with its terminal: nothing runs after it.              *)
ConsoleNext == Alive /\ (Keys \/ Arrives \/ Beside)

(* Some worker always goes on, and a result that is ready is delivered:    *)
(* inspection, proof and remote operations have deadlines, and the program *)
(* takes its messages.  Each worker takes finitely many steps.             *)
Progress ==
    Alive /\ \E o \in Op : (Work(o) /\ UNCHANGED uiVars) \/ ResultArrives(o)

ConsoleSpec == ConsoleInit /\ [][ConsoleNext]_consoleVars /\ WF_consoleVars(Progress)

-----------------------------------------------------------------------------
(* A password in memory can always be revoked: its operation is the one    *)
(* the screen holds, or its answer is still to come.                       *)
LeaseIsReachable ==
    lease.op # 0 /\ Alive =>
        \/ lease.op = ui.op
        \/ \E i \in 1 .. Len(prompts) : prompts[i] = [kind |-> "answer", op |-> lease.op]

(* The result on the completion screen is that of the operation the        *)
(* operator is looking at, not of one abandoned before.                    *)
CompletionIsOwn ==
    On("completion") =>
        ui.op \in Op /\ At(ui.op, "done") /\ ui.shown = calls[ui.op].result

(* A worker that has returned left no connection open.                     *)
NoConnectionLeft == \A o \in Op : At(o, "done") => calls[o].client \in {"none", "closed"}

(* A profile enters or changes in the store by the operator's own command, *)
(* or by an operation whose proof succeeded and released its connection.   *)
StoredIsProved ==
    [][\A n \in Name : profiles'[n] # profiles[n] =>
          \/ \E s \in Slot : commands[s].kind \in {"delete", "update"}
                               /\ commands'[s].kind = "changed"
          \/ \E o \in Op : /\ At(o, "commit") /\ calls[o].name = n
                           /\ calls[o].proof /\ calls[o].cleanup]_consoleVars

(* The running screen ends: in a result, by the operator, or with the      *)
(* program.                                                                *)
RunningEnds == On("running") ~> ~On("running")
=============================================================================
