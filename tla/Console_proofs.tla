--------------------------- MODULE Console_proofs ---------------------------
(***************************************************************************)
(* For any number of profiles, operations and commands: no worker returns  *)
(* with a connection open, the store changes only by the operator's own    *)
(* command or by a proved operation, and a password in memory can always   *)
(* be revoked from the screen (Console).                                   *)
(*                                                                         *)
(* For any number of calls, failures, crashes and deletions: what a commit *)
(* reports is true of what is on disk (OnboardingCommit).  The argument is *)
(* that the lock file lets one call at a time through, so that each stage  *)
(* of the transaction can say what is there (Stage), and that a call that  *)
(* has not stored anything yet is the writer of nothing (Untouched), so    *)
(* that failing early cannot leave anything of its own.                    *)
(*                                                                         *)
(* For any number of processes: the store of failed onboardings keeps its  *)
(* limit but for one record per process beside the first.                  *)
(***************************************************************************)
EXTENDS Console, OnboardingCommit, DiagnosticsStore, FiniteSetTheorems, TLAPS

\* What holds of one worker: no connection before the proof has its transport, a
\* closed one after it, and a commit only for a proof that succeeded and was
\* cleaned up after.
WorkerInv(c) ==
    /\ {"pc", "client", "proof", "cleanup", "cancelled", "ticket", "via", "name", "result"}
          \subseteq DOMAIN c
    /\ c.pc \in {"idle", "inspect", "observe", "gate"} => c.client = "none"
    /\ c.pc = "commit" => c.client = "closed" /\ c.proof /\ c.cleanup
    /\ c.pc = "done" => c.client \in {"none", "closed"}

CallsInv == DOMAIN calls = Op /\ \A o \in Op : WorkerInv(calls[o])

\* The commands and the store keep their shape.
StoreInv ==
    /\ DOMAIN profiles = Name /\ DOMAIN commands = Slot
    /\ \A s \in Slot : "kind" \in DOMAIN commands[s]

----------------------------------------------------------------------------

LEMMA IdleWorker == WorkerInv(Idle)
BY DEF Idle, WorkerInv

LEMMA ReturnedWorker ==
    ASSUME NEW client \in {"none", "closed"}, NEW outcome
    PROVE  WorkerInv(Returned(client, outcome))
BY DEF Returned, Idle, WorkerInv

\* A worker is replaced by another that is as it should be.
LEMMA OneWorker ==
    ASSUME CallsInv, NEW o \in Op, NEW c, WorkerInv(c), calls' = [calls EXCEPT ![o] = c]
    PROVE  CallsInv'
BY DEF CallsInv

\* Every step of a worker.
LEMMA WorkKeeps ==
    ASSUME CallsInv, NEW o \in Op, Work(o)
    PROVE  CallsInv'
<1> DEFINE c == calls[o]
<1>1. WorkerInv(c) /\ DOMAIN calls = Op
  BY DEF CallsInv
<1>2. ASSUME NEW outcome, Ends(o, outcome), c.client \in {"none", "closed"}
      PROVE  CallsInv'
  BY <1>2, ReturnedWorker, OneWorker DEF Ends
<1>3. CASE Inspect(o)
  <2>1. c.client = "none" /\ c.pc = "inspect"
    BY <1>1, <1>3 DEF Inspect, At, WorkerInv
  <2>2. CASE Goes(o, "observe")
    <3>1. WorkerInv([c EXCEPT !.pc = "observe"])
      BY <1>1, <2>1 DEF WorkerInv
    <3>2. QED
      BY <2>2, <3>1, OneWorker DEF Goes
  <2>3. QED
    BY <1>2, <1>3, <2>1, <2>2 DEF Inspect
<1>4. CASE Observe(o)
  <2>1. c.client = "none" /\ c.pc = "observe"
    BY <1>1, <1>4 DEF Observe, At, WorkerInv
  <2>2. CASE OpenWSS(o)
    <3>1. WorkerInv([[[c EXCEPT !.pc = "prove"] EXCEPT !.via = "wss"] EXCEPT !.client = "open"])
      BY <1>1 DEF WorkerInv
    <3>2. QED
      BY <1>1, <2>2, <3>1, OneWorker DEF OpenWSS
  <2>3. CASE OfferSSH(o)
    <3>1. WorkerInv([[[c EXCEPT !.pc = "gate"] EXCEPT !.via = "ssh"] EXCEPT !.ticket = TRUE])
      BY <1>1, <2>1 DEF WorkerInv
    <3>2. QED
      BY <1>1, <2>3, <3>1, OneWorker DEF OfferSSH
  <2>4. QED
    BY <1>2, <1>4, <2>1, <2>2, <2>3 DEF Observe
<1>5. CASE OpenSSH(o)
  <2>1. c.client = "none"
    BY <1>1, <1>5 DEF OpenSSH, At, WorkerInv
  <2>2. CASE calls' = [calls EXCEPT ![o] =
                         [Redeemed(o) EXCEPT !.pc = "prepare", !.client = "open"]]
    <3>1. WorkerInv([Redeemed(o) EXCEPT !.pc = "prepare", !.client = "open"])
      BY <1>1 DEF WorkerInv, Redeemed
    <3>2. QED
      BY <2>2, <3>1, OneWorker
  <2>3. QED
    BY <1>2, <1>5, <2>1, <2>2 DEF OpenSSH
<1>6. CASE PrepareHost(o)
  <2>1. CASE calls' = [calls EXCEPT ![o] = Returned("closed", Outcome(o, "failed"))]
    BY <2>1, ReturnedWorker, OneWorker
  <2>2. CASE calls' = [calls EXCEPT ![o].pc = "prove", ![o].client = "doomed"]
    <3>1. WorkerInv([[c EXCEPT !.pc = "prove"] EXCEPT !.client = "doomed"])
      BY <1>1 DEF WorkerInv
    <3>2. QED
      BY <1>1, <2>2, <3>1, OneWorker
  <2>3. QED
    BY <1>6, <2>1, <2>2 DEF PrepareHost
<1>7. CASE DialContextEnds(o)
  <2>1. WorkerInv([c EXCEPT !.client = "closed"])
    BY <1>1, <1>7 DEF WorkerInv, DialContextEnds
  <2>2. QED
    BY <1>7, <2>1, OneWorker DEF DialContextEnds
<1>8. CASE Prove(o)
  <2>1. PICK ok \in BOOLEAN : calls' = [calls EXCEPT ![o].pc = "close", ![o].proof = ok]
    BY <1>8 DEF Prove
  <2>2. WorkerInv([[c EXCEPT !.pc = "close"] EXCEPT !.proof = ok])
    BY <1>1 DEF WorkerInv
  <2>3. QED
    BY <1>1, <2>1, <2>2, OneWorker
<1>9. CASE Close(o)
  <2>1. CASE calls' = [calls EXCEPT ![o] = Returned("closed", Outcome(o, "failed"))]
    BY <2>1, ReturnedWorker, OneWorker
  <2>2. ASSUME NEW clean \in BOOLEAN,
               Successful([c EXCEPT !.client = "closed", !.cleanup = clean]),
               calls' = [calls EXCEPT ![o] =
                  [[c EXCEPT !.client = "closed", !.cleanup = clean] EXCEPT !.pc = "commit"]]
        PROVE  CallsInv'
    <3>1. WorkerInv([[c EXCEPT !.client = "closed", !.cleanup = clean] EXCEPT !.pc = "commit"])
      BY <1>1, <2>2 DEF WorkerInv, Successful
    <3>2. QED
      BY <2>2, <3>1, OneWorker
  <2>3. QED
    BY <1>9, <2>1, <2>2 DEF Close
<1>10. CASE CommitRun(o)
  <2>1. c.client = "closed"
    BY <1>1, <1>10 DEF CommitRun, At, WorkerInv
  <2>2. QED
    BY <1>2, <1>10, <2>1 DEF CommitRun
<1>11. QED
  BY <1>3, <1>4, <1>5, <1>6, <1>7, <1>8, <1>9, <1>10 DEF Work

----------------------------------------------------------------------------

\* The workers change by their own steps, and where the screen revokes one or
\* starts one.
LEMMA CallsChange ==
    ASSUME ConsoleNext
    PROVE  \/ calls' = calls
           \/ \E o : RunRevoked(o)
           \/ \E o, n, h : calls' = Started(o, n, h)
           \/ \E o \in Op : Work(o)
<1>1. CASE BeginOnboarding \/ BackOnboarding \/ AskPassword \/ Abandon
  <2>1. LetGo
    BY <1>1 DEF BeginOnboarding, BackOnboarding, AskPassword, Abandon
  <2>2. QED
    BY <2>1 DEF LetGo
<1>2. CASE Connect
  BY <1>2 DEF Connect
<1>3. CASE OpenList \/ Back \/ Quit \/ Inspected \/ Move \/ BeginConfirm \/ BeginForm
           \/ ConfirmDelete \/ SubmitForm \/ NextName \/ NextConnection \/ Finish
  BY <1>3 DEF OpenList, Back, Quit, Inspected, Move, BeginConfirm, BeginForm, ConfirmDelete,
     SubmitForm, NextName, NextConnection, Finish, Shell, Aim, Edit, RunIdle, runVars
<1>4. CASE Arrives
  BY <1>4 DEF Arrives, ListArrives, FailureArrives, ChangeArrives, PromptArrives, ResultArrives,
     RunIdle, runVars
<1>5. CASE Beside
  BY <1>5 DEF Beside, UpdateRuns, DeleteRuns, Stores, ListRuns, Prompt, RunNext, LeaseExpires,
     RunIdle, runVars
<1>6. QED
  BY <1>1, <1>2, <1>3, <1>4, <1>5 DEF ConsoleNext, Keys

LEMMA CallsStep == CallsInv /\ [ConsoleNext]_consoleVars => CallsInv'
<1> SUFFICES ASSUME CallsInv, [ConsoleNext]_consoleVars
             PROVE  CallsInv'
  OBVIOUS
<1>1. CASE calls' = calls
  BY <1>1 DEF CallsInv
<1>2. ASSUME NEW o, RunRevoked(o)
      PROVE  CallsInv'
  <2>1. \A p \in Op : WorkerInv([calls[p] EXCEPT !.cancelled = TRUE])
    BY DEF CallsInv, WorkerInv
  <2>2. QED
    BY <1>2, <2>1 DEF RunRevoked, CallsInv
<1>3. ASSUME NEW o, NEW n, NEW h, calls' = Started(o, n, h)
      PROVE  CallsInv'
  <2> DEFINE c == [Idle EXCEPT !.pc = "inspect", !.name = n, !.host = h]
  <2>1. WorkerInv(c)
    BY DEF Idle, WorkerInv
  <2>2. calls' = [calls EXCEPT ![o] = c]
    BY <1>3 DEF Started
  <2>3. QED
    BY <2>1, <2>2 DEF CallsInv
<1>4. CASE \E o \in Op : Work(o)
  BY <1>4, WorkKeeps
<1>5. QED
  BY <1>1, <1>2, <1>3, <1>4, CallsChange DEF consoleVars

LEMMA CallsInit == ConsoleInit => CallsInv
BY IdleWorker DEF ConsoleInit, RunInit, CallsInv

\* A worker that has returned left no connection open, whatever the operator,
\* the server and the deadlines did in the meantime (Step8Service, SSHRuntimeFactory).
THEOREM WorkersLeaveNothingOpen == ConsoleSpec => []NoConnectionLeft
<1>1. CallsInv => NoConnectionLeft
  BY DEF CallsInv, WorkerInv, NoConnectionLeft, At
<1>2. QED
  BY <1>1, CallsInit, CallsStep, PTL DEF ConsoleSpec

----------------------------------------------------------------------------

LEMMA StoreInit == ConsoleInit => StoreInv
BY DEF ConsoleInit, RunInit, StoreInv, NoCommand

\* The store and the commands keep their shape ...
LEMMA CommandsKeep ==
    ASSUME StoreInv, NEW s, NEW c, "kind" \in DOMAIN c,
           commands' = [commands EXCEPT ![s] = c], DOMAIN profiles' = Name
    PROVE  StoreInv'
BY DEF StoreInv

\* What a step changes in the store, and on whose behalf.
Accounted ==
    \A n \in Name : profiles'[n] # profiles[n] =>
        \/ \E s \in Slot : commands[s].kind \in {"delete", "update"}
                             /\ commands'[s].kind = "changed"
        \/ \E o \in Op : /\ At(o, "commit") /\ calls[o].name = n
                         /\ calls[o].proof /\ calls[o].cleanup

\* ... and every change is accounted for.
LEMMA StoreStep ==
    ASSUME StoreInv, CallsInv, [ConsoleNext]_consoleVars
    PROVE  StoreInv' /\ Accounted
<1>1. "kind" \in DOMAIN NoCommand
  BY DEF NoCommand
<1>2. ASSUME UNCHANGED commands, UNCHANGED profiles
      PROVE  StoreInv' /\ Accounted
  BY <1>2 DEF StoreInv, Accounted
<1>3. ASSUME NEW c, "kind" \in DOMAIN c, Runs(c), UNCHANGED profiles
      PROVE  StoreInv' /\ Accounted
  <2>1. StoreInv'
    BY <1>3, CommandsKeep DEF Runs, StoreInv
  <2>2. QED
    BY <1>3, <2>1 DEF Accounted
<1>4. CASE BeginOnboarding \/ BackOnboarding \/ AskPassword \/ Abandon \/ Connect
  BY <1>2, <1>4 DEF BeginOnboarding, BackOnboarding, AskPassword, Abandon, Connect, LetGo
<1>5. CASE OpenList \/ Finish
  BY <1>1, <1>3, <1>5 DEF OpenList, Finish, Reload, NoCommand, RunIdle, runVars
<1>6. CASE ConfirmDelete \/ SubmitForm
  BY <1>1, <1>3, <1>6 DEF ConfirmDelete, SubmitForm, FormProfile, Edit, NoCommand, RunIdle, runVars
<1>7. CASE Back \/ Quit \/ Inspected \/ Move \/ BeginConfirm \/ BeginForm \/ NextName
           \/ NextConnection
  BY <1>2, <1>7 DEF Back, Quit, Inspected, Move, BeginConfirm, BeginForm, NextName,
     NextConnection, Shell, Aim, RunIdle, runVars
<1>8. CASE PromptArrives \/ Prompt \/ \E o \in Op : ResultArrives(o)
  BY <1>2, <1>8 DEF PromptArrives, Prompt, Captured, ResultArrives, RunIdle, runVars
<1>9. ASSUME NEW s \in Slot, ListArrives(s) \/ FailureArrives(s) \/ ChangeArrives(s) \/ ListRuns(s)
      PROVE  StoreInv' /\ Accounted
  <2>1. UNCHANGED profiles
    BY <1>9 DEF ListArrives, FailureArrives, ChangeArrives, ListRuns, RunIdle, runVars
  <2>2. StoreInv'
    <3>1. "kind" \in DOMAIN [NoCommand EXCEPT !.kind = "list"]
      BY <1>1
    <3>2. "kind" \in DOMAIN [NoCommand EXCEPT !.kind = "listed",
                                            !.names = {n \in Name : profiles[n] # NoHost}]
      BY <1>1
    <3>3. "kind" \in DOMAIN [commands[s] EXCEPT !.kind = "unlisted"]
      BY DEF StoreInv
    <3>4. QED
      BY <1>1, <1>9, <2>1, <3>1, <3>2, <3>3, CommandsKeep
         DEF ListArrives, FailureArrives, ChangeArrives, ListRuns, Answers, StoreInv
  <2>3. QED
    BY <2>1, <2>2 DEF Accounted
<1>10. ASSUME NEW s \in Slot, UpdateRuns(s) \/ DeleteRuns(s)
       PROVE  StoreInv' /\ Accounted
  <2>1. PICK kind, host : kind \in {"update", "delete"} /\ Stores(s, kind, host)
    BY <1>10 DEF UpdateRuns, DeleteRuns
  <2>2. commands[s].kind = kind /\ "kind" \in DOMAIN commands[s]
    BY <2>1 DEF Stores, StoreInv
  <2>3. CASE Answers(s, "failed") /\ UNCHANGED profiles
    <3>1. StoreInv'
      BY <2>2, <2>3, CommandsKeep DEF Answers, StoreInv
    <3>2. QED
      BY <2>3, <3>1 DEF Accounted
  <2>4. CASE /\ profiles' = [profiles EXCEPT ![commands[s].name] = host]
             /\ Answers(s, "changed")
    <3>1. StoreInv'
      BY <2>2, <2>4, CommandsKeep DEF Answers, StoreInv
    <3>2. commands'[s].kind = "changed"
      BY <2>2, <2>4 DEF Answers, StoreInv
    <3>3. QED
      BY <2>1, <2>2, <3>1, <3>2 DEF Accounted
  <2>5. QED
    BY <2>1, <2>3, <2>4 DEF Stores
<1>11. CASE RunNext /\ UNCHANGED uiVars
  <2>1. UNCHANGED commands
    BY <1>11 DEF uiVars
  <2>2. ASSUME NEW o \in Op, CommitRun(o)
        PROVE  StoreInv' /\ Accounted
    <3>1. DOMAIN profiles = Name /\ WorkerInv(calls[o]) /\ At(o, "commit")
      BY <2>2 DEF StoreInv, CallsInv, CommitRun
    <3>2. profiles' \in {profiles, [profiles EXCEPT ![calls[o].name] = calls[o].host]}
      BY <2>2 DEF CommitRun
    <3>3. StoreInv'
      BY <2>1, <3>1, <3>2 DEF StoreInv
    <3>4. calls[o].proof /\ calls[o].cleanup
      BY <3>1 DEF WorkerInv, At
    <3>5. \A n \in Name : profiles'[n] # profiles[n] => n = calls[o].name
      BY <3>1, <3>2
    <3>6. QED
      BY <3>1, <3>3, <3>4, <3>5 DEF Accounted
  <2>3. CASE LeaseExpires
    BY <1>2, <2>1, <2>3 DEF LeaseExpires
  <2>4. ASSUME NEW o \in Op, Work(o), ~CommitRun(o)
        PROVE  UNCHANGED profiles
    BY <2>4 DEF Work, Inspect, Observe, OpenSSH, PrepareHost, DialContextEnds, Prove, Close, WorkerOnly
  <2>5. QED
    BY <1>2, <1>11, <2>1, <2>2, <2>3, <2>4 DEF RunNext
<1>12. CASE UNCHANGED consoleVars
  BY <1>2, <1>12 DEF consoleVars
<1>13. QED
  BY <1>4, <1>5, <1>6, <1>7, <1>8, <1>9, <1>10, <1>11, <1>12
     DEF ConsoleNext, Keys, Arrives, Beside

\* A profile enters or changes in the store by the operator's own command, or by an
\* operation whose proof succeeded and closed its connection: for any number of
\* operations under way at a time.
THEOREM StoreChangesAreAccounted == ConsoleSpec => StoredIsProved
<1>1. StoreInv /\ CallsInv /\ [ConsoleNext]_consoleVars => Accounted
  BY StoreStep
<1>2. StoreInv /\ CallsInv /\ [ConsoleNext]_consoleVars => (StoreInv /\ CallsInv)'
  BY StoreStep, CallsStep
<1>3. Accounted => [\A n \in Name : profiles'[n] # profiles[n] =>
          \/ \E s \in Slot : commands[s].kind \in {"delete", "update"}
                               /\ commands'[s].kind = "changed"
          \/ \E o \in Op : /\ At(o, "commit") /\ calls[o].name = n
                           /\ calls[o].proof /\ calls[o].cleanup]_consoleVars
  BY DEF Accounted
<1>4. QED
  BY <1>1, <1>2, <1>3, StoreInit, CallsInit, PTL DEF ConsoleSpec, StoredIsProved

----------------------------------------------------------------------------

Answer(o) == [kind |-> "answer", op |-> o]

\* Every prompt from the i-th on brings no operation.
Barren(queue, i) == \A j \in i .. Len(queue) : queue[j].op = 0

\* The newest answer with an operation is the lease's, and once it has been taken
\* the screen holds it: an older answer never pushes it out.
Reachable(l, op, queue) ==
    l.op # 0 =>
        \/ l.op = op /\ Barren(queue, 1)
        \/ \E i \in 1 .. Len(queue) : queue[i] = Answer(l.op) /\ Barren(queue, i + 1)

\* The inductive strengthening of LeaseIsReachable.
ReachInv ==
    /\ prompts \in Seq([kind : {"ask", "refused", "answer"}, op : Nat])
    /\ "op" \in DOMAIN ui /\ "op" \in DOMAIN lease
    /\ Reachable(lease, ui.op, prompts)

\* A step that leaves the prompts alone and gives up no operation but the lease's.
LEMMA ReachKeep ==
    ASSUME ReachInv, "op" \in DOMAIN ui', "op" \in DOMAIN lease', UNCHANGED prompts,
           lease'.op \in {0, lease.op}, ui'.op = ui.op
    PROVE  ReachInv'
BY DEF ReachInv, Reachable

\* What LetGo leaves of the lease.
LEMMA LetGoLease ==
    ASSUME ReachInv, LetGo
    PROVE  /\ "op" \in DOMAIN lease' /\ lease'.op \in {0, lease.op}
           /\ lease'.op # 0 => lease'.op # ui.op
BY DEF LetGo, RunRevoked, LeaseAfter, NoLease, ReachInv

LEMMA ReachStep == ReachInv /\ [ConsoleNext]_consoleVars => ReachInv'
<1> SUFFICES ASSUME ReachInv, [ConsoleNext]_consoleVars
             PROVE  ReachInv'
  OBVIOUS
<1> DEFINE Item == [kind : {"ask", "refused", "answer"}, op : Nat]
<1>1. prompts \in Seq(Item) /\ "op" \in DOMAIN ui /\ "op" \in DOMAIN lease
  BY DEF ReachInv
<1>2. CASE BeginOnboarding \/ BackOnboarding
  <2>1. LetGo /\ UNCHANGED prompts
    BY <1>2 DEF BeginOnboarding, BackOnboarding
  <2>2. "op" \in DOMAIN ui'
    BY <1>1, <1>2 DEF BeginOnboarding, BackOnboarding, Rested, Forgetting
  <2>3. QED
    BY <2>1, <2>2, LetGoLease DEF ReachInv, Reachable
<1>3. CASE Abandon
  <2>1. "op" \in DOMAIN ui' /\ ui'.op = ui.op
    BY <1>1, <1>3 DEF Abandon
  <2>2. LetGo /\ UNCHANGED prompts
    BY <1>3 DEF Abandon
  <2>3. QED
    BY <2>1, <2>2, LetGoLease, ReachKeep
<1>4. CASE AskPassword
  <2> DEFINE item == [kind |-> IF Valid THEN "ask" ELSE "refused", op |-> 0]
  <2>1. LetGo /\ prompts' = Append(prompts, item) /\ UNCHANGED ui
    BY <1>4 DEF AskPassword
  <2>2. item \in Item /\ item.op = 0
    OBVIOUS
  <2> HIDE DEF item
  <2>3. /\ prompts' \in Seq(Item) /\ Len(prompts') = Len(prompts) + 1
        /\ \A i \in 1 .. Len(prompts) : prompts'[i] = prompts[i]
        /\ prompts'[Len(prompts) + 1] = item
    BY <1>1, <2>1, <2>2
  <2>4. Reachable(lease', ui.op, prompts)
    BY LetGoLease, <2>1 DEF ReachInv, Reachable
  <2>5. \A i \in Nat \ {0} : Barren(prompts, i) => Barren(prompts', i)
    <3> SUFFICES ASSUME NEW i \in Nat \ {0}, Barren(prompts, i), NEW j \in i .. Len(prompts')
                 PROVE  prompts'[j].op = 0
      BY DEF Barren
    <3>1. CASE j = Len(prompts) + 1
      BY <2>2, <2>3, <3>1
    <3>2. CASE j # Len(prompts) + 1
      <4>1. j \in i .. Len(prompts)
        BY <1>1, <2>3, <3>2
      <4>2. prompts'[j] = prompts[j]
        BY <1>1, <2>3, <4>1
      <4>3. QED
        BY <4>1, <4>2 DEF Barren
    <3>3. QED
      BY <3>1, <3>2
  <2>6. Reachable(lease', ui.op, prompts')
    <3> SUFFICES ASSUME lease'.op # 0
                 PROVE  \/ lease'.op = ui.op /\ Barren(prompts', 1)
                        \/ \E i \in 1 .. Len(prompts') :
                              prompts'[i] = Answer(lease'.op) /\ Barren(prompts', i + 1)
      BY DEF Reachable
    <3>1. CASE lease'.op = ui.op /\ Barren(prompts, 1)
      BY <2>5, <3>1
    <3>2. ASSUME NEW i \in 1 .. Len(prompts),
                 prompts[i] = Answer(lease'.op), Barren(prompts, i + 1)
          PROVE  /\ i \in 1 .. Len(prompts')
                 /\ prompts'[i] = Answer(lease'.op) /\ Barren(prompts', i + 1)
      BY <1>1, <2>3, <2>5, <3>2
    <3>3. QED
      BY <2>4, <3>1, <3>2 DEF Reachable
  <2>7. QED
    BY <1>1, <2>1, <2>3, <2>6, LetGoLease DEF ReachInv
<1>5. CASE Connect
  <2>1. "op" \in DOMAIN ui' /\ ui'.op = ui.op
    BY <1>1, <1>5 DEF Connect
  <2>2. "op" \in DOMAIN lease' /\ lease'.op \in {0, lease.op} /\ UNCHANGED prompts
    BY <1>1, <1>5 DEF Connect, LeaseAfter, NoLease
  <2>3. QED
    BY <2>1, <2>2, ReachKeep
<1>6. CASE Prompt
  <2>1. UNCHANGED ui /\ prompts # <<>> /\ Head(prompts).kind \in {"ask", "refused"}
    BY <1>6 DEF Prompt
  <2>2. PICK o \in Op \cup {0} :
          /\ prompts' = Append(Tail(prompts), Answer(o))
          /\ o # 0 => lease' = [op |-> o, fresh |-> TRUE]
          /\ o = 0 => lease' = lease
    BY <1>6 DEF Prompt, Captured, Op, Answer
  <2>3. Answer(o) \in Item /\ Answer(o).op = o
    BY RunAssumption DEF Answer, Op
  <2>4. /\ prompts' \in Seq(Item) /\ Len(prompts') = Len(prompts) /\ Len(prompts) \in Nat \ {0}
        /\ \A i \in 1 .. Len(prompts) - 1 : prompts'[i] = prompts[i + 1]
        /\ prompts'[Len(prompts)] = Answer(o)
    BY <1>1, <2>1, <2>2, <2>3
  <2>5. CASE o # 0
    <3>1. lease'.op = o /\ "op" \in DOMAIN lease'
      BY <2>2, <2>5
    <3>2. Barren(prompts', Len(prompts) + 1)
      BY <2>4 DEF Barren
    <3>3. Reachable(lease', ui'.op, prompts')
      BY <2>4, <3>1, <3>2 DEF Reachable
    <3>4. QED
      BY <1>1, <2>1, <2>4, <3>1, <3>3 DEF ReachInv
  <2>6. CASE o = 0
    <3>1. ASSUME NEW i \in 1 .. Len(prompts), Barren(prompts, i + 1)
          PROVE  Barren(prompts', i)
      <4> SUFFICES ASSUME NEW j \in i .. Len(prompts')
                   PROVE  prompts'[j].op = 0
        BY DEF Barren
      <4>1. CASE j = Len(prompts)
        BY <2>3, <2>4, <2>6, <4>1
      <4>2. CASE j # Len(prompts)
        <5>1. j \in 1 .. Len(prompts) - 1 /\ j + 1 \in (i + 1) .. Len(prompts)
          BY <2>4, <4>2
        <5>2. QED
          BY <2>4, <3>1, <5>1 DEF Barren
      <4>3. QED
        BY <4>1, <4>2
    <3>2. Barren(prompts, 1) => Barren(prompts', 1)
      BY <2>3, <2>4, <2>6 DEF Barren
    <3>3. prompts[1].kind # "answer"
      BY <1>1, <2>1
    <3>4. ASSUME NEW i \in 1 .. Len(prompts),
                 prompts[i] = Answer(lease.op), Barren(prompts, i + 1)
          PROVE  /\ i - 1 \in 1 .. Len(prompts')
                 /\ prompts'[i - 1] = Answer(lease.op) /\ Barren(prompts', i - 1 + 1)
      <4>1. i # 1
        BY <3>3, <3>4 DEF Answer
      <4>2. QED
        BY <2>4, <3>1, <3>4, <4>1
    <3>5. Reachable(lease, ui.op, prompts')
      BY <3>2, <3>4 DEF ReachInv, Reachable
    <3>6. QED
      BY <1>1, <2>1, <2>2, <2>4, <2>6, <3>5 DEF ReachInv
  <2>7. QED
    BY <2>5, <2>6
<1>7. CASE PromptArrives
  <2>1. /\ prompts # <<>> /\ Head(prompts).kind = "answer" /\ prompts' = Tail(prompts)
        /\ UNCHANGED lease
    BY <1>7 DEF PromptArrives, RunIdle, runVars
  <2>2. /\ prompts' \in Seq(Item) /\ Len(prompts') = Len(prompts) - 1 /\ Len(prompts) \in Nat \ {0}
        /\ \A i \in 1 .. Len(prompts) - 1 : prompts'[i] = prompts[i + 1]
        /\ Head(prompts) = prompts[1]
    BY <1>1, <2>1
  <2>3. "op" \in DOMAIN ui' /\ ui'.op = IF prompts[1].op = 0 THEN ui.op ELSE prompts[1].op
    BY <1>1, <1>7, <2>2 DEF PromptArrives
  <2>4. \A i \in 1 .. Len(prompts) : Barren(prompts, i + 1) => Barren(prompts', i)
    <3> SUFFICES ASSUME NEW i \in 1 .. Len(prompts), Barren(prompts, i + 1),
                        NEW j \in i .. Len(prompts')
                 PROVE  prompts'[j].op = 0
      BY DEF Barren
    <3>1. j + 1 \in (i + 1) .. Len(prompts) /\ prompts'[j] = prompts[j + 1]
      BY <2>2
    <3>2. QED
      BY <3>1 DEF Barren
  <2>5. Reachable(lease, ui'.op, prompts')
    <3> SUFFICES ASSUME lease.op # 0
                 PROVE  \/ lease.op = ui'.op /\ Barren(prompts', 1)
                        \/ \E i \in 1 .. Len(prompts') :
                              prompts'[i] = Answer(lease.op) /\ Barren(prompts', i + 1)
      BY DEF Reachable
    <3>1. CASE lease.op = ui.op /\ Barren(prompts, 1)
      <4>1. ui'.op = ui.op
        BY <2>2, <2>3, <3>1 DEF Barren
      <4>2. ASSUME NEW j \in 1 .. Len(prompts') PROVE prompts'[j].op = 0
        <5>1. j \in 1 .. Len(prompts) - 1 /\ j + 1 \in 1 .. Len(prompts)
          BY <2>2, <4>2
        <5>2. QED
          BY <2>2, <3>1, <5>1 DEF Barren
      <4>3. QED
        BY <3>1, <4>1, <4>2 DEF Barren
    <3>2. ASSUME NEW i \in 1 .. Len(prompts),
                 prompts[i] = Answer(lease.op), Barren(prompts, i + 1), i # 1
          PROVE  /\ i - 1 \in 1 .. Len(prompts')
                 /\ prompts'[i - 1] = Answer(lease.op) /\ Barren(prompts', i - 1 + 1)
      BY <2>2, <2>4, <3>2
    <3>3. CASE prompts[1] = Answer(lease.op) /\ Barren(prompts, 1 + 1)
      <4>1. prompts[1].op = lease.op
        BY <3>3 DEF Answer
      <4>2. QED
        BY <2>2, <2>3, <2>4, <3>3, <4>1
    <3>4. QED
      BY <3>1, <3>2, <3>3 DEF ReachInv, Reachable
  <2>6. QED
    BY <1>1, <2>1, <2>2, <2>3, <2>5 DEF ReachInv
<1>8. CASE RunNext /\ UNCHANGED uiVars
  <2>1. UNCHANGED <<ui, prompts>>
    BY <1>8 DEF uiVars
  <2>2. "op" \in DOMAIN lease' /\ lease'.op = lease.op
    <3>1. CASE LeaseExpires
      BY <1>1, <3>1 DEF LeaseExpires
    <3>2. CASE \E o \in Op : Work(o)
      BY <1>1, <3>2 DEF Work, Inspect, Observe, OpenSSH, PrepareHost, DialContextEnds, Prove, Close,
         CommitRun, WorkerOnly
    <3>3. QED
      BY <1>8, <3>1, <3>2 DEF RunNext
  <2>3. QED
    BY <1>1, <2>1, <2>2, ReachKeep
<1>9. CASE \/ OpenList \/ Back \/ Quit \/ Inspected \/ Move \/ BeginConfirm \/ BeginForm
           \/ ConfirmDelete \/ SubmitForm \/ NextName \/ NextConnection
  <2>1. UNCHANGED <<lease, prompts>> /\ "op" \in DOMAIN ui' /\ ui'.op = ui.op
    BY <1>1, <1>9 DEF OpenList, Back, Quit, Inspected, Move, BeginConfirm, BeginForm,
       ConfirmDelete, SubmitForm, NextName, NextConnection, Shell, Aim, Edit, RunIdle, runVars
  <2>2. QED
    BY <1>1, <2>1, ReachKeep
<1>10. CASE Finish \/ (\E o \in Op : ResultArrives(o))
  <2>1. UNCHANGED <<lease, prompts>> /\ "op" \in DOMAIN ui' /\ ui'.op = ui.op
    BY <1>1, <1>10 DEF Finish, Rested, ResultArrives, RunIdle, runVars
  <2>2. QED
    BY <1>1, <2>1, ReachKeep
<1>11. ASSUME NEW s \in Slot,
              \/ ListArrives(s) \/ FailureArrives(s) \/ ChangeArrives(s)
              \/ UpdateRuns(s) \/ DeleteRuns(s) \/ ListRuns(s)
       PROVE  ReachInv'
  <2>1. UNCHANGED <<lease, prompts>> /\ "op" \in DOMAIN ui' /\ ui'.op = ui.op
    BY <1>1, <1>11 DEF ListArrives, FailureArrives, ChangeArrives, UpdateRuns, DeleteRuns, Stores,
       ListRuns, RunIdle, runVars
  <2>2. QED
    BY <1>1, <2>1, ReachKeep
<1>12. CASE UNCHANGED consoleVars
  BY <1>1, <1>12, ReachKeep DEF consoleVars
<1>13. QED
  BY <1>2, <1>3, <1>4, <1>5, <1>6, <1>7, <1>8, <1>9, <1>10, <1>11, <1>12
     DEF ConsoleNext, Keys, Arrives, Beside

\* A password in memory can always be revoked: the screen holds its operation or the
\* prompt's answer is still to come, for any number of prompts and operations.
THEOREM PasswordsAreRevocable == ConsoleSpec => []LeaseIsReachable
<1>1. ConsoleInit => ReachInv
  BY DEF ConsoleInit, RunInit, NoLease, ReachInv, Reachable
<1>2. ReachInv => LeaseIsReachable
  BY DEF ReachInv, Reachable, LeaseIsReachable, Answer
<1>3. QED
  BY <1>1, <1>2, ReachStep, PTL DEF ConsoleSpec

----------------------------------------------------------------------------

\* The inductive strengthening of CompletionIsOwn.
CompletionInv ==
    {"screen", "op", "running", "shown"} \subseteq DOMAIN ui /\ CompletionIsOwn

\* A worker that has returned takes no further step.
LEMMA DoneStays ==
    ASSUME CallsInv, NEW o \in Op, Work(o), NEW p \in Op, At(p, "done")
    PROVE  calls'[p] = calls[p]
<1>1. calls[o].client \in {"doomed", "open"} => ~At(o, "done")
  BY DEF CallsInv, WorkerInv, At
<1>2. o # p
  BY <1>1 DEF Work, Inspect, Observe, OpenSSH, PrepareHost, DialContextEnds, Prove, Close, CommitRun, At
<1>3. DOMAIN calls = Op
  BY DEF CallsInv
<1>4. CASE Inspect(o) \/ Observe(o) \/ OpenSSH(o) \/ CommitRun(o)
  BY <1>2, <1>3, <1>4 DEF Inspect, Observe, OpenWSS, OfferSSH, OpenSSH, CommitRun, Ends, Goes
<1>5. CASE PrepareHost(o) \/ DialContextEnds(o) \/ Prove(o)
  BY <1>2, <1>3, <1>5 DEF PrepareHost, DialContextEnds, Prove
<1>6. CASE Close(o)
  BY <1>2, <1>3, <1>6 DEF Close
<1>7. QED
  BY <1>4, <1>5, <1>6 DEF Work

LEMMA CompletionStep ==
    ASSUME CompletionInv, CallsInv, [ConsoleNext]_consoleVars
    PROVE  CompletionInv'
<1> DEFINE Shape == {"screen", "op", "running", "shown"} \subseteq DOMAIN ui'
<1>1. {"screen", "op", "running", "shown"} \subseteq DOMAIN ui /\ CompletionIsOwn
  BY DEF CompletionInv
<1>2. ASSUME Shape, ui'.screen # "completion"
      PROVE  CompletionInv'
  BY <1>2 DEF CompletionInv, CompletionIsOwn, On
<1>3. ASSUME UNCHANGED calls, Shape, ui'.screen \in {ui.screen, "crashed"}, ui'.op = ui.op,
             ui'.shown = ui.shown
      PROVE  CompletionInv'
  BY <1>1, <1>3 DEF CompletionInv, CompletionIsOwn, On, At
<1>4. CASE \/ OpenList \/ Back \/ Quit \/ Inspected \/ BeginConfirm \/ BeginForm \/ BeginOnboarding
           \/ BackOnboarding \/ Abandon \/ Finish \/ PromptArrives
  <2>1. Shape /\ ui'.screen # "completion"
    BY <1>1, <1>4 DEF OpenList, Back, Quit, Inspected, BeginConfirm, BeginForm, BeginOnboarding,
       BackOnboarding, Abandon, Finish, PromptArrives, Shell, Aim, Forgetting, Rested
  <2>2. QED
    BY <1>2, <2>1
<1>5. CASE Move \/ NextName \/ NextConnection \/ ConfirmDelete \/ SubmitForm \/ AskPassword
           \/ Connect
  <2>1. ui.screen # "completion" /\ Shape /\ ui'.screen \in {ui.screen, "running"}
    BY <1>1, <1>5 DEF Move, NextName, NextConnection, ConfirmDelete, SubmitForm, AskPassword, Connect,
       Edit, On
  <2>2. QED
    BY <1>2, <2>1
<1>6. ASSUME NEW o \in Op, ResultArrives(o)
      PROVE  CompletionInv'
  <2>1. UNCHANGED calls /\ At(o, "done")
    BY <1>6 DEF ResultArrives, RunIdle, runVars
  <2>2. CASE Wanted(o)
    <3>1. /\ Shape /\ ui'.op = o /\ ui'.shown = calls[o].result
      BY <1>1, <1>6, <2>2 DEF ResultArrives, Wanted
    <3>2. QED
      BY <2>1, <3>1 DEF CompletionInv, CompletionIsOwn, At
  <2>3. CASE ~Wanted(o)
    BY <1>1, <1>3, <1>6, <2>1, <2>3 DEF ResultArrives
  <2>4. QED
    BY <2>2, <2>3
<1>7. ASSUME NEW s \in Slot, ListArrives(s) \/ FailureArrives(s)
      PROVE  CompletionInv'
  <2>1. /\ UNCHANGED calls /\ Shape /\ ui'.screen \in {ui.screen, "crashed"} /\ ui'.op = ui.op
        /\ ui'.shown = ui.shown
    BY <1>1, <1>7 DEF ListArrives, FailureArrives, Viewed, RunIdle, runVars
  <2>2. QED
    BY <1>3, <2>1
<1>8. ASSUME NEW s \in Slot, ChangeArrives(s)
      PROVE  CompletionInv'
  <2>1. Shape /\ ui'.screen # "completion"
    BY <1>1, <1>8 DEF ChangeArrives
  <2>2. QED
    BY <1>2, <2>1
<1>9. CASE Prompt \/ \E s \in Slot : UpdateRuns(s) \/ DeleteRuns(s) \/ ListRuns(s)
  <2>1. UNCHANGED <<ui, calls>>
    BY <1>9 DEF Prompt, UpdateRuns, DeleteRuns, Stores, ListRuns, RunIdle, runVars
  <2>2. QED
    BY <1>1, <1>3, <2>1
<1>10. CASE RunNext /\ UNCHANGED uiVars
  <2>1. UNCHANGED ui
    BY <1>10 DEF uiVars
  <2>2. \A p \in Op : At(p, "done") => calls'[p] = calls[p]
    BY <1>10, DoneStays DEF RunNext, LeaseExpires
  <2>3. QED
    BY <1>1, <2>1, <2>2 DEF CompletionInv, CompletionIsOwn, On, At
<1>11. CASE UNCHANGED consoleVars
  BY <1>1, <1>3, <1>11 DEF consoleVars
<1>12. QED
  BY <1>4, <1>5, <1>6, <1>7, <1>8, <1>9, <1>10, <1>11 DEF ConsoleNext, Keys, Arrives, Beside

\* The result the operator sees is that of the operation the screen is about, not of
\* one abandoned before, for any number of operations and in any order of results.
THEOREM ResultsAreOwn == ConsoleSpec => []CompletionIsOwn
<1>1. ConsoleInit => CompletionInv
  BY DEF ConsoleInit, CompletionInv, CompletionIsOwn, On
<1>2. CompletionInv => CompletionIsOwn
  BY DEF CompletionInv
<1>3. QED
  BY <1>1, <1>2, CallsInit, CallsStep, CompletionStep, PTL DEF ConsoleSpec


----------------------------------------------------------------------------
\* OnboardingCommit.

(* The lock file excludes: a call that holds it is the only one. *)
Exclusive ==
    \A c \in Call : pc[c] \in Holding =>
        locked /\ \A d \in Call : pc[d] \in Holding => d = c

(* What a call has not written yet does not name it. *)
Untouched(c) ==
    /\ pc[c] \in {"idle", "waiting", "prepare", "revoke", "keyring"} =>
           /\ {live, backup, credential, eligibility} \subseteq Writer \ {c}
           /\ \A d \in Call : prior[d] # c
    /\ pc[c] \in {"idle", "waiting", "prepare"} => latest # c
    /\ pc[c] \in {"idle", "waiting"} \cup Forward \cup Backward => result[c] = "none"

(* What is there at each stage on the way forward ... *)
Ahead(c) ==
    /\ pc[c] \in (Forward \cup Backward) \ {"prepare"} => latest = c
    /\ pc[c] \in {"idle", "waiting"} \cup Forward => ~flawed[c]
    /\ pc[c] \in {"keyring", "profile", "publish", "eligibility"} => eligibility = Nobody
    /\ pc[c] \in {"profile", "publish", "eligibility", "audit", "clear"} => credential = c
    /\ pc[c] = "profile" => live # c
    /\ pc[c] = "publish" => existing[c]
    /\ pc[c] \in {"eligibility", "audit", "clear"} => (deletes = 0 => live = c)
    /\ pc[c] \in {"audit", "clear"} => eligibility = c
    /\ pc[c] = "clear" => c \in audited

(* ... and on the way back, if every compensation succeeded so far. *)
Behind(c) ==
    ~flawed[c] =>
    /\ pc[c] \in {"undoProfile", "undoKeyring", "restore"} => eligibility = Nobody
    /\ pc[c] \in {"undoKeyring", "restore", "undoClear"} => (~existing[c] => live # c)
    /\ pc[c] \in {"restore", "undoClear"} => credential # c
    /\ pc[c] = "undoClear" => eligibility = prior[c]

(* What a call has reported. *)
Reported(c) ==
    /\ result[c] = "saved" /\ latest = c =>
           /\ credential = c /\ eligibility = c
           /\ deletes = 0 => live = c
           /\ c \in audited
           /\ ~journal
    /\ result[c] = "failed" /\ latest = c =>
           /\ credential # c
           /\ eligibility = prior[c]
           /\ ~existing[c] => live # c
           /\ ~journal

(* A step back is only reached with the flaw recorded. *)
NotFlawed == \A c \in Call : pc[c] = "undoClear" => ~flawed[c]

(* The types, without what TypeOK says of results. *)
Flags == locked \in BOOLEAN /\ journal \in BOOLEAN
Typed ==
    /\ Flags
    /\ live \in Writer /\ backup \in Writer /\ credential \in Writer
    /\ eligibility \in Writer /\ latest \in Writer
    /\ audited \subseteq Call
    /\ pc \in [Call -> {"idle", "waiting"} \cup Holding \cup Ended]
    /\ existing \in [Call -> BOOLEAN] /\ flawed \in [Call -> BOOLEAN]
    /\ prior \in [Call -> Writer]
    /\ result \in [Call -> {"none", "refused", "saved", "failed", "cleanup"}]
    /\ cancelled \subseteq Call
    /\ faults \in 0..MaxFaults /\ crashes \in 0..MaxCrashes /\ deletes \in 0..MaxDeletes

(* A call that returned has a result. *)
Concluded == \A c \in Call : pc[c] \in {"unlock", "done"} => result[c] # "none"

CommitInv ==
    /\ Typed /\ Exclusive /\ NotFlawed /\ Concluded
    /\ \A c \in Call : Untouched(c) /\ Ahead(c) /\ Behind(c) /\ Reported(c)

LEMMA InitInv == Init => CommitInv
<1> SUFFICES ASSUME Init PROVE CommitInv
  OBVIOUS
<1>0. Flags
  BY Zenon DEF Init, Flags
<1> USE CommitAssumption DEF Init, Holding, Forward, Backward, Ended, Writer
<1>1. Typed BY <1>0 DEF Typed
<1>2. Exclusive /\ NotFlawed /\ Concluded BY DEF Exclusive, NotFlawed, Concluded
<1>3. ASSUME NEW c \in Call PROVE Untouched(c) BY DEF Untouched
<1>4. ASSUME NEW c \in Call PROVE Ahead(c) BY DEF Ahead
<1>5. ASSUME NEW c \in Call PROVE Behind(c) /\ Reported(c) BY DEF Behind, Reported
<1> QED BY <1>1, <1>2, <1>3, <1>4, <1>5 DEF CommitInv

(* The steps that change no durable value and end no stage. *)
LEMMA WaitingStep ==
    ASSUME CommitInv, NEW c \in Call,
           \/ Start(c) \/ Lock(c) \/ GiveUp(c) \/ Cancel(c) \/ Crash(c) \/ Unlock(c)
           \/ PrepareFails(c) \/ Interrupted(c)
    PROVE  CommitInv'
<1> USE CommitAssumption DEF CommitInv, Typed, Flags, Exclusive, NotFlawed, Concluded, Untouched, Ahead,
        Behind, Reported, Holding, Forward, Backward, Ended, Writer, durable, local,
        budget, Step, NoFault, Fault, Conclude
<1>1. CASE Start(c) BY <1>1 DEF Start
<1>2. CASE Lock(c) BY <1>2 DEF Lock, LockFree
<1>3. CASE GiveUp(c) BY <1>3 DEF GiveUp
<1>4. CASE Cancel(c) BY <1>4 DEF Cancel
<1>5. CASE Crash(c) BY <1>5 DEF Crash
<1>6. CASE Unlock(c)
  <2>0. Flags' BY <1>6, Zenon DEF Unlock, Flags
  <2>1. Typed' BY <1>6, <2>0 DEF Unlock
  <2>2. Exclusive' BY <1>6 DEF Unlock
  <2>3. NotFlawed' /\ Concluded' BY <1>6 DEF Unlock
  <2>4. ASSUME NEW q \in Call PROVE (Untouched(q) /\ Ahead(q) /\ Behind(q) /\ Reported(q))'
    BY <1>6 DEF Unlock
  <2> QED BY <2>1, <2>2, <2>3, <2>4
<1>7. CASE PrepareFails(c) BY <1>7 DEF PrepareFails
<1>8. CASE Interrupted(c) BY <1>8 DEF Interrupted
<1> QED BY <1>1, <1>2, <1>3, <1>4, <1>5, <1>6, <1>7, <1>8

LEMMA ForwardStep ==
    ASSUME CommitInv, NEW c \in Call,
           \/ Prepare(c) \/ RevokePrior(c) \/ RevokeFails(c) \/ StoreKeyring(c)
           \/ StoreKeyringFails(c) \/ Save(c) \/ MoveAside(c) \/ SaveFails(c)
           \/ Publish(c) \/ PublishFails(c) \/ SaveEligibility(c)
           \/ SaveEligibilityFails(c) \/ AuditCommitted(c) \/ AuditFails(c)
           \/ ClearJournal(c, "clear", "saved")
    PROVE  CommitInv'
<1> USE CommitAssumption DEF CommitInv, Typed, Flags, Exclusive, NotFlawed, Concluded, Untouched, Ahead,
        Behind, Reported, Holding, Forward, Backward, Ended, Writer, durable, local,
        budget, Step, NoFault, Fault, Conclude
<1>1. CASE Prepare(c) BY <1>1 DEF Prepare
<1>2. CASE RevokePrior(c) BY <1>2 DEF RevokePrior, Revoked
<1>3. CASE RevokeFails(c) BY <1>3 DEF RevokeFails, Revoked
<1>4. CASE StoreKeyring(c) BY <1>4 DEF StoreKeyring
<1>5. CASE StoreKeyringFails(c) BY <1>5 DEF StoreKeyringFails, UndoFromKeyring
<1>6. CASE Save(c) BY <1>6 DEF Save
<1>7. CASE MoveAside(c) BY <1>7 DEF MoveAside
<1>8. CASE SaveFails(c) BY <1>8 DEF SaveFails
<1>9. CASE Publish(c) BY <1>9 DEF Publish
<1>10. CASE PublishFails(c) BY <1>10 DEF PublishFails
<1>11. CASE SaveEligibility(c) BY <1>11 DEF SaveEligibility
<1>12. CASE SaveEligibilityFails(c) BY <1>12 DEF SaveEligibilityFails
<1>13. CASE AuditCommitted(c) BY <1>13 DEF AuditCommitted
<1>14. CASE AuditFails(c) BY <1>14 DEF AuditFails
<1>15. CASE ClearJournal(c, "clear", "saved")
  <2>0. Flags' BY <1>15, Zenon DEF ClearJournal, Flags
  <2>1. Typed' BY <1>15, <2>0 DEF ClearJournal
  <2>2. Exclusive' BY <1>15 DEF ClearJournal
  <2>3. NotFlawed' /\ Concluded' BY <1>15 DEF ClearJournal
  <2>4. ASSUME NEW q \in Call PROVE (Untouched(q) /\ Ahead(q) /\ Behind(q))'
    BY <1>15 DEF ClearJournal
  <2>5. ASSUME NEW q \in Call PROVE Reported(q)'
    BY <1>15 DEF ClearJournal
  <2> QED BY <2>1, <2>2, <2>3, <2>4, <2>5
<1> QED
  BY <1>1, <1>2, <1>3, <1>4, <1>5, <1>6, <1>7, <1>8, <1>9, <1>10, <1>11, <1>12,
     <1>13, <1>14, <1>15

LEMMA BackwardStep ==
    ASSUME CommitInv, NEW c \in Call,
           \/ UndoEligibility(c) \/ UndoProfile(c) \/ UndoKeyring(c)
           \/ RestorePrior(c) \/ RestoreFails(c)
           \/ ClearJournal(c, "undoClear", "failed")
    PROVE  CommitInv'
<1> USE CommitAssumption DEF CommitInv, Typed, Flags, Exclusive, NotFlawed, Concluded,
        Untouched, Ahead, Behind, Reported, Holding, Forward, Backward, Ended, Writer,
        durable, local, budget, Step, NoFault, Fault, Conclude, Undone
<1>1. CASE UndoEligibility(c) BY <1>1 DEF UndoEligibility
<1>2. CASE UndoProfile(c) BY <1>2 DEF UndoProfile
<1>3. CASE UndoKeyring(c) BY <1>3 DEF UndoKeyring, AfterDeletion
<1>4. CASE RestorePrior(c) BY <1>4 DEF RestorePrior
<1>5. CASE RestoreFails(c) BY <1>5 DEF RestoreFails
<1>6. CASE ClearJournal(c, "undoClear", "failed")
  <2>0. Flags' BY <1>6, Zenon DEF ClearJournal
  <2>1. Typed' BY <1>6, <2>0 DEF ClearJournal
  <2>2. Exclusive' BY <1>6 DEF ClearJournal
  <2>3. NotFlawed' /\ Concluded' BY <1>6 DEF ClearJournal
  <2>4. ASSUME NEW q \in Call PROVE (Untouched(q) /\ Ahead(q) /\ Behind(q))'
    BY <1>6 DEF ClearJournal
  <2>5. ASSUME NEW q \in Call PROVE Reported(q)'
    BY <1>6 DEF ClearJournal
  <2> QED BY <2>1, <2>2, <2>3, <2>4, <2>5
<1> QED BY <1>1, <1>2, <1>3, <1>4, <1>5, <1>6

(* The operator's steps. *)
LEMMA OperatorStep ==
    ASSUME CommitInv, DeleteProfile \/ RemoveLock
    PROVE  CommitInv'
<1> USE CommitAssumption DEF CommitInv, Typed, Flags, Exclusive, NotFlawed, Concluded,
        Untouched, Ahead, Behind, Reported, Holding, Forward, Backward, Ended, Writer,
        durable, local, budget
<1>1. CASE DeleteProfile BY <1>1 DEF DeleteProfile
<1>2. CASE RemoveLock
  <2>1. \A c \in Call : pc[c] \notin Holding BY <1>2 DEF RemoveLock, Stale, Quiet
  <2>2. Flags' BY <1>2, Zenon DEF RemoveLock
  <2> QED BY <1>2, <2>1, <2>2 DEF RemoveLock
<1> QED BY <1>1, <1>2

LEMMA StutterStep ==
    ASSUME CommitInv, UNCHANGED vars
    PROVE  CommitInv'
BY DEF CommitInv, Typed, Flags, Exclusive, NotFlawed, Concluded, Untouched, Ahead,
   Behind, Reported, vars, durable, local, budget

THEOREM CommitInvariant == Spec => []CommitInv
<1>1. Init => CommitInv
  BY InitInv
<1>2. CommitInv /\ [Next]_vars => CommitInv'
  BY WaitingStep, ForwardStep, BackwardStep, OperatorStep, StutterStep DEF Next, Commit
<1> QED
  BY <1>1, <1>2, PTL DEF Spec

(* Type correctness: the variables of the transaction keep their types, and *)
(* a call that returned has a result.                                       *)
THEOREM CommitTypes == Spec => []TypeOK
<1>1. CommitInv => TypeOK
  BY DEF CommitInv, Typed, Flags, Concluded, TypeOK
<1> QED
  BY <1>1, CommitInvariant, PTL

(* What a call reported as saved is all on disk until another call begins.  *)
THEOREM SavedCallsAreWhole == Spec => []SavedIsWhole
<1>1. CommitInv => SavedIsWhole
  BY DEF CommitInv, Reported, SavedIsWhole
<1> QED
  BY <1>1, CommitInvariant, PTL

(* A call that failed without asking for a cleanup left nothing of its own. *)
THEOREM FailedCallsAreClean == Spec => []FailedIsClean
<1>1. CommitInv => FailedIsClean
  BY DEF CommitInv, Reported, FailedIsClean
<1> QED
  BY <1>1, CommitInvariant, PTL

(* No password is replaced while its profile is served. *)
THEOREM ReplacedAfterRevocation == Spec => RevokedBeforeReplaced
<1>1. CommitInv /\ [Next]_vars => (credential' \notin {credential, Nobody} => eligibility = Nobody)
  <2> SUFFICES ASSUME CommitInv, [Next]_vars, credential' \notin {credential, Nobody}
               PROVE  eligibility = Nobody
    OBVIOUS
  <2>1. PICK c \in Call : StoreKeyring(c) \/ StoreKeyringFails(c)
    BY DEF Next, Commit, vars, durable, Start, Lock, GiveUp, Unlock, Prepare, PrepareFails,
       RevokePrior, RevokeFails, Interrupted, Save, MoveAside, SaveFails, Publish,
       PublishFails, SaveEligibility, SaveEligibilityFails, AuditCommitted, AuditFails,
       ClearJournal, UndoEligibility, UndoProfile, UndoKeyring, RestorePrior,
       RestoreFails, Cancel, Crash, DeleteProfile, RemoveLock
  <2> QED
    BY <2>1 DEF CommitInv, Ahead, StoreKeyring, StoreKeyringFails, Step
<1> QED
  BY <1>1, CommitInvariant, PTL DEF Spec, RevokedBeforeReplaced

-----------------------------------------------------------------------------
(* The records of failed onboardings.  A call decides on a list that may be *)
(* stale by the time it adds its file, so the invariant counts the calls    *)
(* that will add one without removing one first.                            *)

\* What a call listed and has not removed, and what of it is too old.
Listed(p) == entry[p].unread \cup entry[p].found
TooOld(p) == {r \in Listed(p) : stamp[r] + MaxAge < entry[p].now}

\* A call that will add a file without removing one first.
WillAdd(p) ==
    \/ entry[p].pc = "create"
    \/ /\ entry[p].pc \in {"read", "prune"}
       /\ TooOld(p) = {} /\ Cardinality(Listed(p)) < MaxRecords
Adding == {p \in Recorder : WillAdd(p)}

\* Where a call stands in its list: it is new, or partly read, or read.
ListInv(p) ==
    /\ Listed(p) \subseteq 1..drawn
    /\ entry[p].pc = "list" => entry[p].found = {}
    /\ entry[p].pc \in {"prune", "evict"} => entry[p].unread = {}

\* Each call becomes such a call while there is room, or by removing a file itself.
RecordInv ==
    /\ DiagnosticsTypeOK
    /\ \A p \in Recorder : ListInv(p)
    /\ Cardinality(present) + Cardinality(Adding) <= MaxRecords + Cardinality(Recorder) - 1

LEMMA StoreIsFinite ==
    ASSUME DiagnosticsTypeOK
    PROVE  /\ IsFiniteSet(present) /\ IsFiniteSet(Adding)
           /\ Cardinality(present) \in Nat /\ Cardinality(Adding) \in Nat
           /\ Cardinality(Recorder) \in Nat /\ Cardinality(Adding) <= Cardinality(Recorder)
<1>1. IsFiniteSet(Ref)
  BY FS_Interval, RecorderAssumption DEF Ref
<1>2. IsFiniteSet(present)
  BY <1>1, FS_Subset DEF DiagnosticsTypeOK
<1>3. IsFiniteSet(Adding) /\ Cardinality(Adding) <= Cardinality(Recorder)
  BY FS_Subset, RecorderAssumption DEF Adding
<1> QED
  BY <1>2, <1>3, FS_CardinalityType, RecorderAssumption

\* A step of one call does not change what another one will do.
LEMMA OthersStay ==
    ASSUME RecordInv, NEW p \in Recorder, NEW e, entry' = [entry EXCEPT ![p] = e],
           \A r \in 1..drawn : stamp'[r] = stamp[r]
    PROVE  \A q \in Recorder \ {p} : WillAdd(q)' <=> WillAdd(q)
<1> SUFFICES ASSUME NEW q \in Recorder \ {p} PROVE WillAdd(q)' <=> WillAdd(q)
  OBVIOUS
<1>1. entry'[q] = entry[q]
  BY DEF RecordInv, DiagnosticsTypeOK
<1>2. Listed(q)' = Listed(q) /\ Listed(q) \subseteq 1..drawn
  BY <1>1 DEF Listed, RecordInv, ListInv
<1>3. TooOld(q)' = TooOld(q)
  BY <1>1, <1>2 DEF TooOld
<1> QED
  BY <1>1, <1>2, <1>3 DEF WillAdd

\* What the steps do to the sum: nothing is added and nobody starts to add;
LEMMA SumStays ==
    ASSUME RecordInv, DiagnosticsTypeOK', NEW p \in Recorder,
           \A q \in Recorder \ {p} : WillAdd(q)' <=> WillAdd(q),
           present' = present, WillAdd(p)' => WillAdd(p)
    PROVE  (Cardinality(present) + Cardinality(Adding) <= MaxRecords + Cardinality(Recorder) - 1)'
<1>1. Adding' \subseteq Adding
  BY DEF Adding
<1>2. Cardinality(Adding') <= Cardinality(Adding) /\ Cardinality(Adding') \in Nat
  BY <1>1, StoreIsFinite, FS_Subset, FS_CardinalityType DEF RecordInv
<1> QED
  BY <1>2, StoreIsFinite, RecorderAssumption DEF RecordInv

\* a call removes a file and may then add one;
LEMMA SumAfterRemoval ==
    ASSUME RecordInv, NEW p \in Recorder, NEW r \in present, present' = present \ {r},
           \A q \in Recorder \ {p} : WillAdd(q)' <=> WillAdd(q)
    PROVE  (Cardinality(present) + Cardinality(Adding) <= MaxRecords + Cardinality(Recorder) - 1)'
<1> DEFINE both == Adding \cup {p}
<1>1. Adding' \subseteq both
  BY DEF Adding
<1>2. IsFiniteSet(both) /\ Cardinality(both) <= Cardinality(Adding) + 1 /\ Cardinality(both) \in Nat
  <2>1. CASE p \in Adding
    <3>1. both = Adding
      BY <2>1
    <3>2. IsFiniteSet(Adding) /\ Cardinality(Adding) \in Nat
      BY StoreIsFinite DEF RecordInv
    <3> HIDE DEF both, Adding
    <3> QED
      BY <3>1, <3>2
  <2>2. CASE p \notin Adding
    <3>1. IsFiniteSet(Adding) /\ Cardinality(Adding) \in Nat
      BY StoreIsFinite DEF RecordInv
    <3>2. Cardinality(both) = Cardinality(Adding) + 1 /\ IsFiniteSet(both)
      BY <2>2, <3>1, FS_AddElement
    <3> HIDE DEF both, Adding
    <3> QED
      BY <3>1, <3>2
  <2> QED
    BY <2>1, <2>2
<1>3. Cardinality(Adding') <= Cardinality(both) /\ Cardinality(Adding') \in Nat
  BY <1>1, <1>2, FS_Subset, FS_CardinalityType
<1>4. Cardinality(present') = Cardinality(present) - 1
  BY StoreIsFinite, FS_RemoveElement DEF RecordInv
<1> HIDE DEF both
<1> QED
  BY <1>2, <1>3, <1>4, StoreIsFinite, RecorderAssumption DEF RecordInv

\* a call that was going to add a file does so;
LEMMA SumAfterCreation ==
    ASSUME RecordInv, NEW p \in Recorder, NEW r, r \notin present, present' = present \cup {r},
           \A q \in Recorder \ {p} : WillAdd(q)' <=> WillAdd(q),
           WillAdd(p), ~WillAdd(p)'
    PROVE  (Cardinality(present) + Cardinality(Adding) <= MaxRecords + Cardinality(Recorder) - 1)'
<1>1. Adding' = Adding \ {p} /\ p \in Adding
  BY DEF Adding
<1>2. Cardinality(Adding') = Cardinality(Adding) - 1
  BY <1>1, StoreIsFinite, FS_RemoveElement DEF RecordInv
<1>3. Cardinality(present') = Cardinality(present) + 1
  BY StoreIsFinite, FS_AddElement DEF RecordInv
<1> QED
  BY <1>2, <1>3, StoreIsFinite, RecorderAssumption DEF RecordInv

\* a call finds that there is room.
LEMMA SumAfterListing ==
    ASSUME RecordInv, DiagnosticsTypeOK', present' = present, Cardinality(present) < MaxRecords
    PROVE  (Cardinality(present) + Cardinality(Adding) <= MaxRecords + Cardinality(Recorder) - 1)'
<1>1. Adding' \subseteq Recorder
  BY DEF Adding
<1>2. Cardinality(Adding') <= Cardinality(Recorder) /\ Cardinality(Adding') \in Nat
  BY <1>1, FS_Subset, FS_CardinalityType, RecorderAssumption
<1> QED
  BY <1>2, StoreIsFinite, RecorderAssumption DEF RecordInv

\* A call keeps its place in its list.
LEMMA ListsStay ==
    ASSUME RecordInv, NEW p \in Recorder, NEW e \in EntryState,
           entry' = [entry EXCEPT ![p] = e],
           drawn' \in Nat, drawn <= drawn', e.unread \cup e.found \subseteq 1..drawn',
           e.pc = "list" => e.found = {}, e.pc \in {"prune", "evict"} => e.unread = {}
    PROVE  \A q \in Recorder : ListInv(q)'
<1> SUFFICES ASSUME NEW q \in Recorder PROVE ListInv(q)'
  OBVIOUS
<1>1. CASE q = p
  <2>1. entry'[q] = e
    BY <1>1 DEF RecordInv, DiagnosticsTypeOK
  <2> QED
    BY <2>1 DEF ListInv, Listed
<1>2. CASE q # p
  <2>1. entry'[q] = entry[q]
    BY <1>2 DEF RecordInv, DiagnosticsTypeOK
  <2>2. 1..drawn \subseteq 1..drawn'
    BY DEF RecordInv, DiagnosticsTypeOK
  <2>3. ListInv(q)
    BY DEF RecordInv
  <2> QED
    BY <2>1, <2>2, <2>3 DEF ListInv, Listed
<1> QED
  BY <1>1, <1>2

LEMMA NothingUnderWay == NoEntry \in EntryState /\ NoEntry.found = {} /\ NoEntry.unread = {}
                         /\ NoEntry.pc = "idle"
BY RecorderAssumption DEF NoEntry, EntryState, RecordSteps, Tick

\* A step that leaves the files alone and after which the call adds only what it was
\* going to add.
LEMMA IdleStep ==
    ASSUME RecordInv, NEW p \in Recorder, NEW e \in EntryState,
           entry' = [entry EXCEPT ![p] = e],
           UNCHANGED <<present, stamp, drawn, tick>>,
           whole' \subseteq present, mishaps' \in 0..MaxMishaps,
           e.unread \cup e.found \subseteq 1..drawn,
           e.pc = "list" => e.found = {}, e.pc \in {"prune", "evict"} => e.unread = {},
           WillAdd(p)' => WillAdd(p)
    PROVE  RecordInv'
<1>1. DiagnosticsTypeOK'
  BY DEF RecordInv, DiagnosticsTypeOK
<1>2. drawn' \in Nat /\ drawn <= drawn' /\ e.unread \cup e.found \subseteq 1..drawn'
  BY DEF RecordInv, DiagnosticsTypeOK
<1>3. \A q \in Recorder : ListInv(q)'
  BY <1>2, ListsStay
<1>4. \A q \in Recorder \ {p} : WillAdd(q)' <=> WillAdd(q)
  BY OthersStay
<1> QED
  BY <1>1, <1>3, <1>4, SumStays DEF RecordInv

LEMMA RecordKeeps == ASSUME RecordInv, NEW p \in Recorder, Record(p) PROVE RecordInv'
<1> DEFINE e == [NoEntry EXCEPT !.pc = "list", !.now = tick]
<1>1. /\ entry' = [entry EXCEPT ![p] = e]
      /\ UNCHANGED <<present, whole, stamp, drawn, tick, mishaps>>
  BY DEF Record, Becomes
<1>2. e \in EntryState /\ e.pc = "list" /\ e.found = {} /\ e.unread = {}
  BY NothingUnderWay DEF EntryState, RecordSteps, RecordInv, DiagnosticsTypeOK
<1> HIDE DEF e
<1>3. entry'[p] = e
  BY <1>1 DEF RecordInv, DiagnosticsTypeOK
<1>4. ~WillAdd(p)'
  BY <1>2, <1>3 DEF WillAdd
<1>5. whole' \subseteq present /\ mishaps' \in 0..MaxMishaps
  BY <1>1 DEF RecordInv, DiagnosticsTypeOK
<1> QED
  BY <1>1, <1>2, <1>4, <1>5, IdleStep

LEMMA ListKeeps == ASSUME RecordInv, NEW p \in Recorder, List(p) PROVE RecordInv'
<1> DEFINE e == [entry[p] EXCEPT !.pc = "read", !.unread = present]
<1>1. /\ entry[p].pc = "list" /\ entry[p] \in EntryState
      /\ UNCHANGED <<present, whole, stamp, drawn, tick, mishaps>>
      /\ entry' = [entry EXCEPT ![p] = e]
  BY DEF List, Becomes, RecordInv, DiagnosticsTypeOK
<1>2. entry[p].found = {} /\ present \subseteq 1..drawn /\ present \subseteq Ref /\ drawn \in Nat
  BY <1>1 DEF RecordInv, ListInv, DiagnosticsTypeOK
<1>3. e \in EntryState /\ e.pc = "read" /\ e.unread = present /\ e.found = {}
  BY <1>1, <1>2 DEF EntryState, RecordSteps
<1> HIDE DEF e
<1>4. entry'[p] = e
  BY <1>1 DEF RecordInv, DiagnosticsTypeOK
<1>5. DiagnosticsTypeOK'
  BY <1>1, <1>3 DEF RecordInv, DiagnosticsTypeOK
<1>6. \A q \in Recorder : ListInv(q)'
  <2>1. drawn' \in Nat /\ drawn <= drawn' /\ e.unread \cup e.found \subseteq 1..drawn'
    BY <1>1, <1>2, <1>3
  <2> QED
    BY <2>1, <1>1, <1>3, ListsStay
<1>7. \A q \in Recorder \ {p} : WillAdd(q)' <=> WillAdd(q)
  BY <1>1, OthersStay
<1>8. (Cardinality(present) + Cardinality(Adding) <= MaxRecords + Cardinality(Recorder) - 1)'
  <2>1. CASE Cardinality(present) < MaxRecords
    BY <2>1, <1>1, <1>5, SumAfterListing
  <2>2. CASE ~(Cardinality(present) < MaxRecords)
    <3>1. Listed(p)' = present
      BY <1>3, <1>4 DEF Listed
    <3>2. ~WillAdd(p)'
      BY <3>1, <2>2, <1>3, <1>4 DEF WillAdd
    <3> QED
      BY <3>2, <1>1, <1>5, <1>7, SumStays
  <2> QED
    BY <2>1, <2>2
<1> QED
  BY <1>5, <1>6, <1>8 DEF RecordInv

LEMMA ReadRecordKeeps == ASSUME RecordInv, NEW p \in Recorder, ReadRecord(p) PROVE RecordInv'
<1>1. PICK r \in entry[p].unread \cap whole :
          Becomes(p, "read", [entry[p] EXCEPT !.unread = @ \ {r}, !.found = @ \cup {r}])
  BY DEF ReadRecord
<1> DEFINE e == [entry[p] EXCEPT !.unread = @ \ {r}, !.found = @ \cup {r}]
<1>2. /\ entry[p].pc = "read" /\ entry[p] \in EntryState
      /\ UNCHANGED <<present, whole, stamp, drawn, tick, mishaps>>
      /\ entry' = [entry EXCEPT ![p] = e]
  BY <1>1 DEF ReadRecord, Becomes, RecordInv, DiagnosticsTypeOK
<1>3. /\ e \in EntryState /\ e.pc = "read" /\ e.now = entry[p].now
      /\ e.unread \cup e.found = Listed(p)
  BY <1>2 DEF EntryState, Listed
<1> HIDE DEF e
<1>4. entry'[p] = e
  BY <1>2 DEF RecordInv, DiagnosticsTypeOK
<1>5. Listed(p)' = Listed(p) /\ TooOld(p)' = TooOld(p)
  BY <1>2, <1>3, <1>4 DEF Listed, TooOld
<1>6. WillAdd(p)' => WillAdd(p)
  BY <1>2, <1>3, <1>4, <1>5 DEF WillAdd
<1>7. Listed(p) \subseteq 1..drawn /\ whole' \subseteq present /\ mishaps' \in 0..MaxMishaps
  BY <1>2 DEF RecordInv, ListInv, DiagnosticsTypeOK
<1> QED
  BY <1>2, <1>3, <1>6, <1>7, IdleStep

LEMMA ReadAllKeeps == ASSUME RecordInv, NEW p \in Recorder, ReadAll(p) PROVE RecordInv'
<1> DEFINE e == [entry[p] EXCEPT !.pc = "prune"]
<1>1. /\ entry[p].pc = "read" /\ entry[p].unread = {} /\ entry[p] \in EntryState
      /\ UNCHANGED <<present, whole, stamp, drawn, tick, mishaps>>
      /\ entry' = [entry EXCEPT ![p] = e]
  BY DEF ReadAll, Becomes, RecordInv, DiagnosticsTypeOK
<1>2. /\ e \in EntryState /\ e.pc = "prune" /\ e.now = entry[p].now /\ e.unread = {}
      /\ e.unread \cup e.found = Listed(p)
  BY <1>1 DEF EntryState, RecordSteps, Listed
<1> HIDE DEF e
<1>3. entry'[p] = e
  BY <1>1 DEF RecordInv, DiagnosticsTypeOK
<1>4. Listed(p)' = Listed(p) /\ TooOld(p)' = TooOld(p)
  BY <1>1, <1>2, <1>3 DEF Listed, TooOld
<1>5. WillAdd(p)' => WillAdd(p)
  BY <1>1, <1>2, <1>3, <1>4 DEF WillAdd
<1>6. Listed(p) \subseteq 1..drawn /\ whole' \subseteq present /\ mishaps' \in 0..MaxMishaps
  BY <1>1 DEF RecordInv, ListInv, DiagnosticsTypeOK
<1> QED
  BY <1>1, <1>2, <1>5, <1>6, IdleStep

LEMMA PrunedKeeps == ASSUME RecordInv, NEW p \in Recorder, Pruned(p) PROVE RecordInv'
<1> DEFINE e == [entry[p] EXCEPT !.pc = IF Full(p) THEN "evict" ELSE "create"]
<1>1. /\ entry[p].pc = "prune" /\ Expired(p) = {} /\ entry[p] \in EntryState
      /\ UNCHANGED <<present, whole, stamp, drawn, tick, mishaps>>
      /\ entry' = [entry EXCEPT ![p] = e]
  BY DEF Pruned, Becomes, RecordInv, DiagnosticsTypeOK
<1>2. entry[p].unread = {} /\ entry[p].found \subseteq 1..drawn /\ drawn \in Nat
  BY <1>1 DEF RecordInv, ListInv, Listed, DiagnosticsTypeOK
<1>3. /\ e \in EntryState /\ e.unread = {} /\ e.found = entry[p].found
      /\ e.pc = (IF Full(p) THEN "evict" ELSE "create")
  BY <1>1, <1>2 DEF EntryState, RecordSteps
<1> HIDE DEF e
<1>4. entry'[p] = e
  BY <1>1 DEF RecordInv, DiagnosticsTypeOK
<1>5. WillAdd(p)' => WillAdd(p)
  <2>1. Listed(p) = entry[p].found
    BY <1>2 DEF Listed
  <2>2. TooOld(p) = {}
    BY <2>1, <1>1 DEF TooOld, Expired
  <2>3. Cardinality(entry[p].found) \in Nat
    <3>1. IsFiniteSet(1..drawn)
      BY <1>2, FS_Interval
    <3>2. IsFiniteSet(entry[p].found)
      BY <1>2, <3>1, FS_Subset
    <3> QED
      BY <3>2, FS_CardinalityType
  <2>4. ~Full(p) => WillAdd(p)
    BY <1>1, <2>1, <2>2, <2>3, RecorderAssumption DEF WillAdd, Full
  <2>5. Full(p) => ~WillAdd(p)'
    BY <1>3, <1>4 DEF WillAdd
  <2> QED
    BY <2>4, <2>5
<1>6. whole' \subseteq present /\ mishaps' \in 0..MaxMishaps
  BY <1>1 DEF RecordInv, DiagnosticsTypeOK
<1>7. e.unread \cup e.found \subseteq 1..drawn /\ e.pc # "list"
  BY <1>2, <1>3
<1> QED
  BY <1>1, <1>3, <1>5, <1>6, <1>7, IdleStep

\* A step that removes one file the call has found.
LEMMA RemovalStep ==
    ASSUME RecordInv, NEW p \in Recorder, NEW e \in EntryState, NEW r,
           entry' = [entry EXCEPT ![p] = e], Removes(r), UNCHANGED <<stamp, drawn, tick, mishaps>>,
           e.unread = {}, e.found \subseteq entry[p].found, e.pc # "list"
    PROVE  RecordInv'
<1>1. r \in present /\ present' = present \ {r} /\ whole' = whole \ {r}
  BY DEF Removes
<1>2. DiagnosticsTypeOK'
  <2>1. present' \subseteq Ref /\ whole' \subseteq present' /\ present' \subseteq 1..drawn'
    BY <1>1 DEF RecordInv, DiagnosticsTypeOK
  <2> QED
    BY <2>1 DEF RecordInv, DiagnosticsTypeOK
<1>3. drawn' \in Nat /\ drawn <= drawn' /\ e.unread \cup e.found \subseteq 1..drawn'
  BY DEF RecordInv, DiagnosticsTypeOK, ListInv, Listed
<1>4. \A q \in Recorder : ListInv(q)'
  BY <1>3, ListsStay
<1>5. \A q \in Recorder \ {p} : WillAdd(q)' <=> WillAdd(q)
  BY OthersStay
<1> QED
  BY <1>1, <1>2, <1>4, <1>5, SumAfterRemoval DEF RecordInv

LEMMA PruneKeeps == ASSUME RecordInv, NEW p \in Recorder, Prune(p) PROVE RecordInv'
<1>1. PICK r \in Expired(p) :
          Becomes(p, "prune", [entry[p] EXCEPT !.found = @ \ {r}]) /\ Removes(r)
  BY DEF Prune
<1> DEFINE e == [entry[p] EXCEPT !.found = @ \ {r}]
<1>2. /\ entry[p].pc = "prune" /\ entry[p] \in EntryState
      /\ UNCHANGED <<stamp, drawn, tick, mishaps>>
      /\ entry' = [entry EXCEPT ![p] = e]
  BY <1>1 DEF Prune, Becomes, RecordInv, DiagnosticsTypeOK
<1>3. entry[p].unread = {}
  BY <1>2 DEF RecordInv, ListInv
<1>4. e \in EntryState /\ e.unread = {} /\ e.found \subseteq entry[p].found /\ e.pc # "list"
  BY <1>2, <1>3 DEF EntryState
<1> HIDE DEF e
<1> QED
  BY <1>1, <1>2, <1>4, RemovalStep

LEMMA EvictKeeps == ASSUME RecordInv, NEW p \in Recorder, Evict(p) PROVE RecordInv'
<1>1. PICK r \in Oldest(entry[p].found) :
          Becomes(p, "evict", [entry[p] EXCEPT !.pc = "create"]) /\ Removes(r)
  BY DEF Evict
<1> DEFINE e == [entry[p] EXCEPT !.pc = "create"]
<1>2. /\ entry[p].pc = "evict" /\ entry[p] \in EntryState
      /\ UNCHANGED <<stamp, drawn, tick, mishaps>>
      /\ entry' = [entry EXCEPT ![p] = e]
  BY <1>1 DEF Evict, Becomes, RecordInv, DiagnosticsTypeOK
<1>3. entry[p].unread = {}
  BY <1>2 DEF RecordInv, ListInv
<1>4. e \in EntryState /\ e.unread = {} /\ e.found \subseteq entry[p].found /\ e.pc # "list"
  BY <1>2, <1>3 DEF EntryState, RecordSteps
<1> HIDE DEF e
<1> QED
  BY <1>1, <1>2, <1>4, RemovalStep

LEMMA CreateFileKeeps == ASSUME RecordInv, NEW p \in Recorder, CreateFile(p) PROVE RecordInv'
<1> DEFINE new == drawn + 1
           e == [entry[p] EXCEPT !.pc = "write", !.ref = new]
<1>1. /\ entry[p].pc = "create" /\ entry[p] \in EntryState
      /\ drawn \in 0..MaxReferences /\ drawn < MaxReferences /\ drawn' = new
      /\ UNCHANGED <<whole, tick, mishaps>>
      /\ entry' = [entry EXCEPT ![p] = e]
      /\ present' = present \cup {new}
      /\ stamp' = [stamp EXCEPT ![new] = entry[p].now]
  BY DEF CreateFile, Becomes, RecordInv, DiagnosticsTypeOK
<1>2. new \in Ref /\ new \in 0..MaxReferences /\ drawn \in Nat /\ new \in Nat /\ drawn <= new
  BY <1>1, RecorderAssumption DEF Ref
<1>3. /\ e \in EntryState /\ e.pc = "write"
      /\ e.unread = entry[p].unread /\ e.found = entry[p].found
  BY <1>1, <1>2 DEF EntryState, RecordSteps
<1>4. entry[p].now \in Tick
  BY <1>1 DEF EntryState
<1>5. 1..drawn \subseteq 1..new /\ new \in 1..new /\ new \notin 1..drawn
  BY <1>2
<1> HIDE DEF e, new
<1>6. entry'[p] = e
  BY <1>1 DEF RecordInv, DiagnosticsTypeOK
<1>7. DiagnosticsTypeOK'
  BY <1>1, <1>2, <1>3, <1>4, <1>5 DEF RecordInv, DiagnosticsTypeOK
<1>8. \A r \in 1..drawn : stamp'[r] = stamp[r]
  BY <1>1, <1>2, <1>5 DEF RecordInv, DiagnosticsTypeOK
<1>9. \A q \in Recorder \ {p} : WillAdd(q)' <=> WillAdd(q)
  BY <1>1, <1>8, OthersStay
<1>10. e.unread \cup e.found \subseteq 1..drawn'
  BY <1>1, <1>3, <1>5 DEF RecordInv, ListInv, Listed
<1>11. \A q \in Recorder : ListInv(q)'
  BY <1>1, <1>2, <1>3, <1>10, ListsStay
<1>12. WillAdd(p) /\ ~WillAdd(p)' /\ new \notin present
  BY <1>1, <1>3, <1>5, <1>6 DEF WillAdd, RecordInv, DiagnosticsTypeOK
<1> QED
  BY <1>1, <1>7, <1>9, <1>11, <1>12, SumAfterCreation DEF RecordInv

LEMMA WriteRecordKeeps == ASSUME RecordInv, NEW p \in Recorder, WriteRecord(p) PROVE RecordInv'
<1> DEFINE e == [entry[p] EXCEPT !.pc = "sync"]
<1>1. /\ entry[p].ref \in present /\ entry[p] \in EntryState
      /\ UNCHANGED <<present, stamp, drawn, tick, mishaps>>
      /\ whole' = whole \cup {entry[p].ref}
      /\ entry' = [entry EXCEPT ![p] = e]
  BY DEF WriteRecord, Becomes, RecordInv, DiagnosticsTypeOK
<1>2. /\ e \in EntryState /\ e.pc = "sync"
      /\ e.unread = entry[p].unread /\ e.found = entry[p].found
  BY <1>1 DEF EntryState, RecordSteps
<1> HIDE DEF e
<1>3. entry'[p] = e
  BY <1>1 DEF RecordInv, DiagnosticsTypeOK
<1>4. ~WillAdd(p)'
  BY <1>2, <1>3 DEF WillAdd
<1>5. /\ whole' \subseteq present /\ mishaps' \in 0..MaxMishaps
      /\ e.unread \cup e.found \subseteq 1..drawn
  BY <1>1, <1>2 DEF RecordInv, DiagnosticsTypeOK, ListInv, Listed
<1> QED
  BY <1>1, <1>2, <1>4, <1>5, IdleStep

\* A call returns, fails or dies.
LEMMA EndingKeeps ==
    ASSUME RecordInv, NEW p \in Recorder, Return(p) \/ RecordFails(p) \/ Die(p)
    PROVE  RecordInv'
<1>1. /\ entry' = [entry EXCEPT ![p] = NoEntry]
      /\ UNCHANGED <<present, whole, stamp, drawn, tick>>
  BY DEF Return, RecordFails, Die, Becomes
<1>2. mishaps' \in 0..MaxMishaps
  BY RecorderAssumption DEF Return, RecordFails, Die, Mishap, RecordInv, DiagnosticsTypeOK
<1>3. ~WillAdd(p)'
  <2>1. entry'[p] = NoEntry
    BY <1>1 DEF RecordInv, DiagnosticsTypeOK
  <2> QED
    BY <2>1, NothingUnderWay DEF WillAdd
<1>4. whole' \subseteq present
  BY <1>1 DEF RecordInv, DiagnosticsTypeOK
<1> QED
  BY <1>1, <1>2, <1>3, <1>4, NothingUnderWay, IdleStep

LEMMA RecorderInit == DiagnosticsInit => RecordInv
<1> SUFFICES ASSUME DiagnosticsInit PROVE RecordInv
  OBVIOUS
<1>1. 0 \in 0..MaxReferences /\ 0 \in 0..LastTick /\ 0 \in 0..MaxMishaps
  BY RecorderAssumption
<1>2. DiagnosticsTypeOK
  BY <1>1, NothingUnderWay DEF DiagnosticsInit, DiagnosticsTypeOK, Tick
<1>3. \A p \in Recorder : entry[p] = NoEntry
  BY DEF DiagnosticsInit
<1>4. \A p \in Recorder : ListInv(p)
  BY <1>3, NothingUnderWay DEF ListInv, Listed
<1>5. Adding = {}
  BY <1>3, NothingUnderWay DEF Adding, WillAdd
<1>6. Cardinality(present) = 0 /\ Cardinality(Adding) = 0 /\ Cardinality(Recorder) \in Nat
  BY <1>5, FS_EmptySet, FS_CardinalityType, RecorderAssumption DEF DiagnosticsInit
<1> QED
  BY <1>2, <1>4, <1>6, RecorderAssumption DEF RecordInv

LEMMA RecorderStep == RecordInv /\ [DiagnosticsNext]_diagnosticsVars => RecordInv'
<1> SUFFICES ASSUME RecordInv, [DiagnosticsNext]_diagnosticsVars PROVE RecordInv'
  OBVIOUS
<1>1. ASSUME NEW p \in Recorder, Recording(p) PROVE RecordInv'
  BY <1>1, RecordKeeps, ListKeeps, ReadRecordKeeps, ReadAllKeeps, PruneKeeps, PrunedKeeps,
     EvictKeeps, CreateFileKeeps, WriteRecordKeeps, EndingKeeps DEF Recording
<1>2. ASSUME UNCHANGED <<present, whole, stamp, drawn, entry, mishaps>>, tick' \in Tick
      PROVE  RecordInv'
  <2>1. DiagnosticsTypeOK'
    BY <1>2 DEF RecordInv, DiagnosticsTypeOK
  <2>2. \A p \in Recorder : ListInv(p)' /\ (WillAdd(p)' <=> WillAdd(p))
    BY <1>2 DEF RecordInv, ListInv, Listed, WillAdd, TooOld
  <2>3. Adding' = Adding
    BY <2>2 DEF Adding
  <2> QED
    BY <1>2, <2>1, <2>2, <2>3 DEF RecordInv
<1>3. CASE Passes
  BY <1>3, <1>2, RecorderAssumption DEF Passes, Tick, RecordInv, DiagnosticsTypeOK
<1>4. CASE UNCHANGED diagnosticsVars
  BY <1>4, <1>2 DEF diagnosticsVars, RecordInv, DiagnosticsTypeOK
<1> QED
  BY <1>1, <1>3, <1>4 DEF DiagnosticsNext

(* However many processes record failures, and whatever fails half way, the *)
(* store holds its limit and at most one record more for every process but  *)
(* the first (Store.Record, which lists, removes and creates unlocked).     *)
THEOREM DiagnosticsStayBounded == DiagnosticsSpec => []StaysBounded
<1>1. RecordInv => StaysBounded
  BY StoreIsFinite, RecorderAssumption DEF RecordInv, StaysBounded
<1> QED
  BY <1>1, RecorderInit, RecorderStep, PTL DEF DiagnosticsSpec
=============================================================================
