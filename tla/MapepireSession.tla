-------------------------- MODULE MapepireSession --------------------------
(***************************************************************************)
(* One Mapepire session (internal/mapepire/typed_session.go) over either   *)
(* of its transports (sshstdio, wss), driven either by the fixed proof of  *)
(* the enrolment or by one Catalogados query (catalogados.go).  Callers,   *)
(* the reader goroutine, the owner that may close the session and the      *)
(* remote server run at the same time; `fail` runs once, and whoever calls *)
(* it meanwhile waits for it.                                              *)
(***************************************************************************)
EXTENDS FiniteSets, Integers, Sequences

CONSTANTS
    Ping,           \* calls of other users of the same session
    MaxPending,     \* MaxPendingRequests
    MaxCursors,     \* MaxCursors
    MaxOdd          \* bound on the server's answers that are not in order

ASSUME SessionAssumption ==
    /\ MaxPending \in Nat \ {0} /\ MaxCursors \in Nat \ {0} /\ MaxOdd \in Nat
    /\ Ping \cap {"connect", "prepare", "close", "exit", "none", "reader", "driver"} = {}

VARIABLES
    driver,         \* who uses the session, how far it is, and what it reports
    call,           \* every call: where it is, its error and its result
    pending,        \* calls the reader may still answer
    cursors,        \* requests whose cursor the session believes to be open
    box,            \* each call's result channel, of capacity one
    once,           \* the sync.Once around fail, and who runs it
    closed,         \* the closed channel
    transport,      \* "open" or "closed"
    reader,         \* the reader goroutine and the answer it is handling
    wire,           \* answers on their way
    answered,       \* calls the server carried out
    odd             \* odd answers so far

sessionVars == <<driver, call, pending, cursors, box, once, closed, transport, reader, wire,
                 answered, odd>>

Script == {"connect", "prepare", "close", "exit"}
Call == Script \cup Ping
None == "none"

\* A good answer, one that also names its cursor, and one that lacks what the
\* driver needs: the job of a connect, the completed result set of a query.
Answers == {"ok", "named", "bare"}
\* "context" is a cancellation or a deadline of the call's own bounded context.
Errors == {"limit", "violation", "closed", "context", "transport", "sql"}

\* The fields each request carries, as the constructors set them, and the rules
\* of ValidateRequest: what a kind must and what it may carry.
Kind == [k \in Call |-> IF k \in Script THEN k ELSE "ping"]
Carries ==
    [connect |-> {"application", "username", "password", "props"}, prepare |-> {"sql", "rows"},
     close |-> {"contID"}, exit |-> {}, ping |-> {}]
Required ==
    [connect |-> {"application"}, prepare |-> {"sql", "rows"}, close |-> {"contID"},
     exit |-> {}, ping |-> {}]
Allowed ==
    [connect |-> {"application", "username", "password", "props"},
     prepare |-> {"sql", "rows", "application", "props", "parameters"},
     close |-> {"contID", "application", "props", "parameters"},
     exit |-> {"props"}, ping |-> {"props"}]
Valid(k) ==
    LET fields == Carries[Kind[k]]
    IN  Required[Kind[k]] \subseteq fields /\ fields \subseteq Allowed[Kind[k]]

Message == [id : Call \cup {None}, kind : Answers \cup {"sqlerror", "garbage", "large"}]
NoMessage == [id |-> None, kind |-> "garbage"]

SessionInit ==
    /\ driver \in [role : {"proof", "query"}, at : {"connect"}, result : {None}]
    /\ call = [k \in Call |-> [pc |-> "idle", error |-> None, result |-> None]]
    /\ pending = {} /\ cursors = {}
    /\ box = [k \in Call |-> None]
    /\ once = [state |-> "unused", by |-> None]
    /\ closed = FALSE /\ transport = "open"
    /\ reader = [pc |-> "off", message |-> NoMessage, error |-> None]
    /\ wire = {} /\ answered = {} /\ odd = 0

(***************************************************************************)
(* fail                                                                    *)
(***************************************************************************)

\* Errors other than a cancellation, a deadline or a limit reach the pending
\* calls as a protocol violation, an SQL error and a broken frame included.
Reported(e) == IF e \in {"context", "limit"} THEN e ELSE "violation"

\* Someone is inside fail and has not come out of it.
Failing(x) ==
    \/ x = "reader" /\ reader.pc = "failing"
    \/ x \in Call /\ call[x].pc = "failing"
    \/ x = "driver" /\ driver.at = "closing"

ErrorOf(x) ==
    CASE x = "reader" -> reader.error
      [] x \in Call   -> call[x].error
      [] OTHER        -> "closed"

\* The first one in gives every pending call its error ...
FailDrain(x) ==
    /\ Failing(x) /\ once.state = "unused"
    /\ once' = [state |-> "drained", by |-> x]
    /\ box' = [k \in Call |-> IF k \in pending THEN Reported(ErrorOf(x)) ELSE box[k]]
    /\ pending' = {}
    /\ UNCHANGED <<driver, call, cursors, closed, transport, reader, wire, answered, odd>>

\* Mutant: the transport stays open.
FailCloseHalf(x) ==
    /\ once = [state |-> "drained", by |-> x]
    /\ once' = [once EXCEPT !.state = "done"]
    /\ closed' = TRUE
    /\ UNCHANGED <<driver, call, pending, cursors, box, transport, reader, wire, answered, odd>>

\* ... closes the session and then the transport.
FailClose(x) ==
    /\ once = [state |-> "drained", by |-> x]
    /\ once' = [once EXCEPT !.state = "done"]
    /\ closed' = TRUE /\ transport' = "closed"
    /\ UNCHANGED <<driver, call, pending, cursors, box, reader, wire, answered, odd>>

(***************************************************************************)
(* Call                                                                    *)
(***************************************************************************)

Become(k, pc, error, result) ==
    call' = [call EXCEPT ![k] = [pc |-> pc, error |-> error, result |-> result]]
Return(k, result) == Become(k, "returned", None, result)

\* A completed page has removed its cursor, so closing it again is a protocol
\* violation; the proof puts the cursor back first.
CursorAllows(k) ==
    CASE Kind[k] = "close"   -> "prepare" \in cursors
      [] Kind[k] = "prepare" -> Cardinality(cursors) < MaxCursors
      [] OTHER               -> TRUE

\* What a request is refused with; None: it is admitted.
Refusal(k) ==
    IF ~Valid(k) THEN "violation"
    ELSE IF Cardinality(pending) >= MaxPending THEN "limit"
    ELSE IF closed THEN "closed"
    ELSE IF CursorAllows(k) THEN None
    ELSE IF Kind[k] = "prepare" THEN "limit" ELSE "violation"

\* The request is checked, the reader started and the call registered, or
\* refused; a session past its lifetime, or a context already done, fails it.
Register(k) ==
    /\ call[k].pc = "idle"
    /\ k \in Script => driver.at = k
    /\ \/ /\ \E e \in {"limit", "context"} : Become(k, "failing", e, None)
          /\ UNCHANGED <<pending, cursors, reader>>
       \/ /\ reader' = IF reader.pc = "off" THEN [reader EXCEPT !.pc = "receive"] ELSE reader
          /\ IF Refusal(k) # None
             THEN Return(k, Refusal(k)) /\ UNCHANGED <<pending, cursors>>
             ELSE /\ Become(k, "send", None, None)
                  /\ pending' = pending \cup {k}
                  /\ cursors' = IF k = "prepare" THEN cursors \cup {k} ELSE cursors
    /\ UNCHANGED <<driver, box, once, closed, transport, wire, answered, odd>>

\* What a transport reports when it cannot send.
SendErrors == {"transport", "context"}

\* A transport that cannot send closes itself; the error of the caller's own
\* context comes first.
Send(k) ==
    /\ call[k].pc = "send"
    /\ \/ transport = "open" /\ Become(k, "wait", None, None) /\ UNCHANGED transport
       \/ /\ \E e \in SendErrors : Become(k, "failing", e, None)
          /\ transport' = "closed"
    /\ UNCHANGED <<driver, pending, cursors, box, once, closed, reader, wire, answered, odd>>

\* A result wins over the closed session.
Wait(k) ==
    /\ call[k].pc = "wait"
    /\ \/ box[k] # None /\ Return(k, box[k]) /\ box' = [box EXCEPT ![k] = None]
       \/ box[k] = None /\ closed /\ Return(k, "closed") /\ UNCHANGED box
    /\ UNCHANGED <<driver, pending, cursors, once, closed, transport, reader, wire, answered, odd>>

\* Mutant: the call waits on a context without a deadline.
TimeOutNever(k) == call[k].pc = "wait" /\ closed /\ UNCHANGED sessionVars

\* The call's bounded context is done, and the whole session fails with it.
TimeOut(k) ==
    /\ call[k].pc = "wait"
    /\ Become(k, "failing", "context", None)
    /\ UNCHANGED <<driver, pending, cursors, box, once, closed, transport, reader, wire, answered,
                   odd>>

\* fail has returned: so does the call, with the error it failed with.
FailReturns(k) ==
    /\ call[k].pc = "failing" /\ once.state = "done"
    /\ Return(k, call[k].error)
    /\ UNCHANGED <<driver, pending, cursors, box, once, closed, transport, reader, wire, answered,
                   odd>>

(***************************************************************************)
(* The reader goroutine                                                    *)
(***************************************************************************)

\* What a transport does not hand on as a frame.
Broken(m) == m.kind \in {"garbage", "large"}

ReaderFails(e) == reader' = [reader EXCEPT !.pc = "failing", !.error = e]

\* A frame that is too large, is no object or cannot be decoded fails the
\* session, as does a transport that was closed or has ended; what it had
\* buffered before may still be read.
Receive ==
    /\ reader.pc = "receive"
    /\ \/ /\ transport = "closed"
          /\ ReaderFails("violation")
          /\ UNCHANGED wire
       \/ \E m \in wire :
          /\ wire' = wire \ {m}
          /\ IF Broken(m)
             THEN ReaderFails(IF m.kind = "large" THEN "limit" ELSE "violation")
             ELSE reader' = [reader EXCEPT !.pc = "lookup", !.message = m]
    /\ UNCHANGED <<driver, call, pending, cursors, box, once, closed, transport, answered, odd>>

\* Mutant: an answer is given to whatever call is pending.
LookupAny ==
    /\ reader.pc = "lookup"
    /\ IF \E k \in pending : TRUE
       THEN \E k \in pending : reader' = [reader EXCEPT !.pc = "accept", !.message.id = k]
       ELSE ReaderFails("violation")
    /\ UNCHANGED <<driver, call, pending, cursors, box, once, closed, transport, wire, answered,
                   odd>>

\* An answer to nothing that is pending is a protocol violation.
Lookup ==
    /\ reader.pc = "lookup"
    /\ IF reader.message.id \in pending
       THEN reader' = [reader EXCEPT !.pc = "accept"]
       ELSE ReaderFails("violation")
    /\ UNCHANGED <<driver, call, pending, cursors, box, once, closed, transport, wire, answered,
                   odd>>

\* acceptResponse keeps the cursors: a completed page and an error drop theirs.
CursorsAfter(m) ==
    CASE m.id = "prepare" -> IF m.kind = "bare" THEN cursors \cup {m.id} ELSE cursors \ {m.id}
      [] m.id = "close" /\ m.kind \in Answers -> cursors \ {"prepare"}
      [] OTHER -> cursors

\* The call leaves the table and gets its answer; the channel holds one result,
\* and behind another one the reader waits.
Accept ==
    LET m == reader.message
    IN  /\ reader.pc = "accept"
        /\ cursors' = CursorsAfter(m)
        /\ \/ /\ m.kind = "sqlerror"
              /\ ReaderFails("sql")
              /\ UNCHANGED <<pending, box>>
           \/ /\ m.kind \in Answers /\ box[m.id] = None
              /\ reader' = [reader EXCEPT !.pc = "receive"]
              /\ pending' = pending \ {m.id}
              /\ box' = [box EXCEPT ![m.id] = m.kind]
        /\ UNCHANGED <<driver, call, once, closed, transport, wire, answered, odd>>

ReaderStops ==
    /\ reader.pc = "failing" /\ once.state = "done"
    /\ reader' = [reader EXCEPT !.pc = "stopped"]
    /\ UNCHANGED <<driver, call, pending, cursors, box, once, closed, transport, wire, answered,
                   odd>>

(***************************************************************************)
(* The drivers: FixedProof and AuthenticatedExecutor.Resolve               *)
(***************************************************************************)

\* sanitizeCatalogError and ClassifyFixedProofError: what each driver reports.
Sanitized(role, result) ==
    IF result \in {"ok", "context"} THEN result
    ELSE IF role = "query" THEN "unavailable"
    ELSE IF result = "limit" THEN "limit"
    ELSE IF result \in {"violation", "named", "bare"} THEN "protocol" ELSE "unknown"

Ended(result) ==
    driver' = [driver EXCEPT !.at = "closing", !.result = Sanitized(driver.role, result)]
Goes(k) == driver' = [driver EXCEPT !.at = k]

\* Mutant: the proof leaves a completed cursor alone.
AfterPrepareLazy(result) == IF result = "named" THEN "close" ELSE "exit"

\* The query closes a cursor only if the answer names one; the proof always does,
\* and puts it back among the open ones first.
AfterPrepare(result) == IF driver.role = "proof" \/ result = "named" THEN "close" ELSE "exit"

\* The next call of the script, or the end of it.
Advance ==
    LET k == driver.at
        result == call[k].result
    IN  /\ k \in Script /\ call[k].pc = "returned"
        /\ IF result \in Errors \/ result = "bare"
           THEN Ended(result)
           ELSE CASE k = "connect" -> Goes("prepare")
                  [] k = "prepare" -> Goes(AfterPrepare(result))
                  [] k = "close"   -> Goes("exit")
                  [] k = "exit"    -> Ended("ok")
        /\ cursors' = IF k = "prepare" /\ driver.role = "proof" /\ result \in {"ok", "named"}
                      THEN cursors \cup {k} ELSE cursors
        /\ UNCHANGED <<call, pending, box, once, closed, transport, reader, wire, answered, odd>>

\* The deferred Close returns once fail has run.
DriverReturns ==
    /\ driver.at = "closing" /\ once.state = "done"
    /\ driver' = [driver EXCEPT !.at = "returned"]
    /\ UNCHANGED <<call, pending, cursors, box, once, closed, transport, reader, wire, answered,
                   odd>>

(***************************************************************************)
(* The server and the connection                                           *)
(***************************************************************************)

\* The server carries out a request it was sent and answers it, in any order.  Of
\* the answers on their way one is enough: a later one could as well be sent later.
Answer(k) ==
    /\ call[k].pc \in {"wait", "failing"} /\ k \notin answered
    /\ transport = "open" /\ wire = {}
    /\ answered' = answered \cup {k}
    /\ \E kind \in CASE k = "prepare" -> Answers [] k = "connect" -> {"ok", "bare"} [] OTHER -> {"ok"} :
         wire' = wire \cup {[id |-> k, kind |-> kind]}
    /\ UNCHANGED <<driver, call, pending, cursors, box, once, closed, transport, reader, odd>>

\* Or it says something else: an error, an answer again or to nothing, no frame.
AnswerOddly ==
    /\ odd < MaxOdd /\ transport = "open" /\ wire = {}
    /\ odd' = odd + 1
    /\ \E m \in Message :
         /\ m.kind \in {"ok", "sqlerror", "garbage", "large"}
         /\ m.kind = "ok" => m.id \in answered \cup {None}
         /\ m.kind = "sqlerror" => m.id # None /\ call[m.id].pc = "wait"
         /\ m.kind \in {"garbage", "large"} => m.id = None
         /\ wire' = wire \cup {m}
    /\ UNCHANGED <<driver, call, pending, cursors, box, once, closed, transport, reader, answered>>

Disconnect ==
    /\ transport = "open"
    /\ transport' = "closed"
    /\ UNCHANGED <<driver, call, pending, cursors, box, once, closed, reader, wire, answered, odd>>

Failer == Call \cup {"reader", "driver"}

Calling(k) == Register(k) \/ Send(k) \/ Wait(k) \/ TimeOut(k) \/ FailReturns(k)
Reading == Receive \/ Lookup \/ Accept \/ ReaderStops
Driving == Advance \/ DriverReturns

SessionNext ==
    \/ \E k \in Call : Calling(k) \/ Answer(k)
    \/ \E x \in Failer : FailDrain(x) \/ FailClose(x)
    \/ Reading \/ Driving \/ AnswerOddly \/ Disconnect

\* Some goroutine of the program goes on while one can: the bounded context of a
\* call ends every wait.  The server and the connection owe nothing.
Progress ==
    \/ \E k \in Call : Calling(k)
    \/ \E x \in Failer : FailDrain(x) \/ FailClose(x)
    \/ Reading \/ Driving

SessionSpec == SessionInit /\ [][SessionNext]_sessionVars /\ WF_sessionVars(Progress)

(***************************************************************************)
(* Properties                                                              *)
(***************************************************************************)

\* Every variable keeps its type.
SessionTypeOK ==
    /\ driver.role \in {"proof", "query"}
    /\ driver.at \in Script \cup {"closing", "returned"}
    /\ driver.result \in {None, "ok", "context", "unavailable", "limit", "protocol", "unknown"}
    /\ call \in [Call -> [pc : {"idle", "send", "wait", "failing", "returned"},
                          error : Errors \cup {None}, result : Answers \cup Errors \cup {None}]]
    /\ pending \subseteq Call /\ cursors \subseteq Call /\ answered \subseteq Call
    /\ box \in [Call -> Answers \cup Errors \cup {None}]
    /\ reader.message \in Message /\ wire \subseteq Message
    /\ odd \in 0..MaxOdd

\* An answer belongs to its call: no call, late, timed out or racing the failure
\* of the session, ever returns an answer the server did not give to it.
Correlated == \A k \in Call : call[k].result \in Answers => k \in answered

\* A driver that reports success had every step carried out in turn, the cursor
\* of the proof closed and the server told to exit.
SuccessIsWhole ==
    driver.result = "ok"
        => /\ {"connect", "prepare", "exit"} \subseteq answered
           /\ driver.role = "proof" => "close" \in answered

\* Every call returns, whatever the server does, and so does the driver: the bounded
\* context, the result channels and fail leave no caller behind, and none comes back.
SessionCallsReturn ==
    <>[](driver.at = "returned" /\ \A k \in Call : call[k].pc \in {"idle", "returned"})

\* A driver that is done has closed the connection and with it the remote process,
\* whoever else was failing the session at that moment.
DriverReleases == driver.at = "returned" => transport = "closed"

=============================================================================
