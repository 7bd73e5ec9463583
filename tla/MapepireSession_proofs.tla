----------------------- MODULE MapepireSession_proofs -----------------------
(***************************************************************************)
(* An answer belongs to its call, and success means that every step was    *)
(* carried out, for any number of callers, any bound on pending calls and  *)
(* cursors, and any number of odd answers.                                 *)
(*                                                                         *)
(* Correlated speaks of results only.  An answer passes through the wire,  *)
(* the reader's hand and the call's channel before it is a result, so the  *)
(* invariant says the same of all four places.                             *)
(***************************************************************************)
EXTENDS MapepireSession, TLAPS

Stage == {"idle", "send", "wait", "failing", "returned"}
Result == Answers \cup Errors \cup {None}

Typed ==
    /\ call \in [Call -> [pc : Stage, error : Errors \cup {None}, result : Result]]
    /\ box \in [Call -> Result]
    /\ reader \in [pc : {"off", "receive", "lookup", "accept", "failing", "stopped"},
                   message : Message, error : Errors \cup {None}]
    /\ wire \subseteq Message
    /\ pending \subseteq Call

(* An answer that names a call was given to it.                            *)
Given(m) == m.kind \in Answers /\ m.id \in Call => m.id \in answered

OnTheWire == \A m \in wire : Given(m)
InHand ==
    /\ reader.pc \in {"lookup", "accept"} => Given(reader.message)
    /\ reader.pc = "accept" => reader.message.id \in Call
InTheBox == \A k \in Call : box[k] \in Answers => k \in answered

CorrelationInv == Typed /\ OnTheWire /\ InHand /\ InTheBox /\ Correlated

LEMMA Distinct ==
  /\ Answers \cap Errors = {} /\ None \notin Answers \cup Errors /\ None \notin Call
  /\ "violation" \in Errors /\ "closed" \in Errors /\ "context" \in Errors
  /\ "limit" \in Errors /\ "sql" \in Errors
  BY SessionAssumption DEF Answers, Errors, None, Call, Script

LEMMA ReportsAreErrors == \A e : Reported(e) \in Errors
  BY DEF Reported, Errors

-----------------------------------------------------------------------------
LEMMA CorrelationInit == SessionInit => CorrelationInv
<1> SUFFICES ASSUME SessionInit PROVE CorrelationInv
  OBVIOUS
<1>1. Typed
  BY DEF SessionInit, Typed, Stage, Result, Message, NoMessage, Answers
<1>2. InTheBox /\ Correlated
  BY Distinct DEF SessionInit, InTheBox, Correlated
<1>3. OnTheWire /\ InHand
  BY DEF SessionInit, OnTheWire, InHand
<1> QED
  BY <1>1, <1>2, <1>3 DEF CorrelationInv

(* A step that leaves the answers where they are.                          *)
LEMMA NothingMoves ==
  ASSUME CorrelationInv,
         UNCHANGED <<box, reader, wire, pending, answered>>,
         \/ UNCHANGED call
         \/ \E k \in Call, pc \in Stage, e \in Errors \cup {None}, r \in Errors \cup {None} :
               Become(k, pc, e, r)
  PROVE  CorrelationInv'
<1>1. Typed'
  BY DEF CorrelationInv, Typed, Become, Result
<1>2. OnTheWire' /\ InHand' /\ InTheBox'
  BY DEF CorrelationInv, OnTheWire, InHand, InTheBox, Given
<1>3. Correlated'
  BY Distinct DEF CorrelationInv, Correlated, Become, Typed
<1> QED
  BY <1>1, <1>2, <1>3 DEF CorrelationInv

(* What a caller does itself.                                              *)
LEMMA CallerStep ==
  ASSUME CorrelationInv, NEW k \in Call, Calling(k)
  PROVE  CorrelationInv'
<1>1. CASE Register(k)
  <2>1. CASE UNCHANGED <<pending, reader>>
    <3>1. \E pc \in Stage, e \in Errors \cup {None}, r \in Errors \cup {None} : Become(k, pc, e, r)
      BY <1>1, Distinct DEF Register, Return, Refusal, Stage
    <3> QED
      BY <2>1, <3>1, <1>1, NothingMoves DEF Register
  <2>2. CASE ~UNCHANGED <<pending, reader>>
    <3>1. /\ reader' = IF reader.pc = "off" THEN [reader EXCEPT !.pc = "receive"] ELSE reader
          /\ pending' \in {pending, pending \cup {k}}
          /\ UNCHANGED <<box, wire, answered>>
      BY <1>1, <2>2 DEF Register
    <3>2. \E pc \in Stage, e \in Errors \cup {None}, r \in Errors \cup {None} : Become(k, pc, e, r)
      BY <1>1, Distinct DEF Register, Return, Refusal, Stage
    <3>3. Typed'
      BY <3>1, <3>2 DEF CorrelationInv, Typed, Become, Result
    <3>4. OnTheWire' /\ InHand' /\ InTheBox'
      BY <3>1 DEF CorrelationInv, OnTheWire, InHand, InTheBox, Given, Typed
    <3>5. Correlated'
      BY <3>1, <3>2, Distinct DEF CorrelationInv, Correlated, Become, Typed
    <3> QED
      BY <3>3, <3>4, <3>5 DEF CorrelationInv
  <2> QED
    BY <2>1, <2>2
<1>2. CASE Send(k)
  <2>1. \E pc \in Stage, e \in Errors \cup {None}, r \in Errors \cup {None} : Become(k, pc, e, r)
    BY <1>2 DEF Send, Stage, SendErrors, Errors
  <2> QED
    BY <2>1, <1>2, NothingMoves DEF Send
<1>3. CASE Wait(k)
  <2>1. CASE Return(k, "closed") /\ UNCHANGED box
    BY <1>3, <2>1, NothingMoves, Distinct DEF Wait, Return, Stage
  <2>2. CASE box[k] # None /\ Return(k, box[k]) /\ box' = [box EXCEPT ![k] = None]
    <3>1. UNCHANGED <<reader, wire, pending, answered>>
      BY <1>3 DEF Wait
    <3>2. Typed'
      BY <3>1, <2>2 DEF CorrelationInv, Typed, Return, Become, Result, Stage
    <3>3. OnTheWire' /\ InHand'
      BY <3>1 DEF CorrelationInv, OnTheWire, InHand, Given
    <3>4. InTheBox' /\ Correlated'
      BY <3>1, <2>2, Distinct DEF CorrelationInv, InTheBox, Correlated, Return, Become, Typed
    <3> QED
      BY <3>2, <3>3, <3>4 DEF CorrelationInv
  <2> QED
    BY <1>3, <2>1, <2>2 DEF Wait
<1>4. CASE TimeOut(k)
  BY <1>4, NothingMoves DEF TimeOut, Stage, Errors
<1>5. CASE FailReturns(k)
  <2>1. call[k].error \in Errors \cup {None}
    BY DEF CorrelationInv, Typed
  <2> QED
    BY <2>1, <1>5, NothingMoves DEF FailReturns, Return, Stage
<1> QED
  BY <1>1, <1>2, <1>3, <1>4, <1>5 DEF Calling

(* What the reader goroutine does.                                         *)
LEMMA ReaderStep ==
  ASSUME CorrelationInv, Reading
  PROVE  CorrelationInv'
<1>1. CASE Receive
  <2>1. CASE \E m \in wire : wire' = wire \ {m} /\ ~Broken(m)
                              /\ reader' = [reader EXCEPT !.pc = "lookup", !.message = m]
    <3>1. PICK m \in wire : wire' = wire \ {m}
                             /\ reader' = [reader EXCEPT !.pc = "lookup", !.message = m]
      BY <2>1
    <3>2. UNCHANGED <<call, box, pending, answered>>
      BY <1>1 DEF Receive
    <3>3. Typed'
      BY <3>1, <3>2 DEF CorrelationInv, Typed
    <3>4. OnTheWire' /\ InHand' /\ InTheBox' /\ Correlated'
      BY <3>1, <3>2 DEF CorrelationInv, OnTheWire, InHand, InTheBox, Correlated, Given, Typed
    <3> QED
      BY <3>3, <3>4 DEF CorrelationInv
  <2>2. CASE (\E e \in Errors : ReaderFails(e)) /\ wire' \subseteq wire
    <3>1. UNCHANGED <<call, box, pending, answered>>
      BY <1>1 DEF Receive
    <3>2. Typed'
      BY <3>1, <2>2 DEF CorrelationInv, Typed, ReaderFails
    <3>3. OnTheWire' /\ InHand' /\ InTheBox' /\ Correlated'
      BY <3>1, <2>2 DEF CorrelationInv, OnTheWire, InHand, InTheBox, Correlated, Given, Typed, ReaderFails
    <3> QED
      BY <3>2, <3>3 DEF CorrelationInv
  <2> QED
    BY <1>1, <2>1, <2>2, Distinct DEF Receive
<1>2. CASE Lookup
  <2>1. UNCHANGED <<call, box, pending, answered, wire>>
    BY <1>2 DEF Lookup
  <2>2. Typed'
    BY <1>2, <2>1, Distinct DEF CorrelationInv, Typed, Lookup, ReaderFails
  <2>3. OnTheWire' /\ InTheBox' /\ Correlated'
    BY <2>1 DEF CorrelationInv, OnTheWire, InTheBox, Correlated, Given
  <2>4. InHand'
    BY <1>2, <2>1 DEF CorrelationInv, InHand, Given, Typed, Lookup, ReaderFails
  <2> QED
    BY <2>2, <2>3, <2>4 DEF CorrelationInv
<1>3. CASE Accept
  <2>1. UNCHANGED <<call, wire, answered>>
    BY <1>3 DEF Accept
  <2>2. CASE ReaderFails("sql") /\ UNCHANGED <<pending, box>>
    <3>1. Typed'
      BY <2>1, <2>2, Distinct DEF CorrelationInv, Typed, ReaderFails
    <3>2. OnTheWire' /\ InHand' /\ InTheBox' /\ Correlated'
      BY <2>1, <2>2 DEF CorrelationInv, OnTheWire, InHand, InTheBox, Correlated, Given, Typed, ReaderFails
    <3> QED
      BY <3>1, <3>2 DEF CorrelationInv
  <2>3. CASE LET m == reader.message
             IN  /\ m.kind \in Answers
                 /\ reader' = [reader EXCEPT !.pc = "receive"]
                 /\ pending' = pending \ {m.id}
                 /\ box' = [box EXCEPT ![m.id] = m.kind]
    <3> DEFINE m == reader.message
    <3>1. m.id \in Call /\ m.id \in answered
      BY <1>3, <2>3 DEF Accept, CorrelationInv, InHand, Given
    <3>2. Typed'
      BY <2>1, <2>3, <3>1 DEF CorrelationInv, Typed, Result
    <3>3. OnTheWire' /\ InHand' /\ Correlated'
      BY <2>1, <2>3 DEF CorrelationInv, OnTheWire, InHand, Correlated, Given, Typed
    <3>4. InTheBox'
      BY <2>1, <2>3, <3>1 DEF CorrelationInv, InTheBox, Typed
    <3> QED
      BY <3>2, <3>3, <3>4 DEF CorrelationInv
  <2> QED
    BY <1>3, <2>2, <2>3 DEF Accept
<1>4. CASE ReaderStops
  <2>1. UNCHANGED <<call, box, pending, answered, wire>> /\ reader' = [reader EXCEPT !.pc = "stopped"]
    BY <1>4 DEF ReaderStops
  <2>2. Typed'
    BY <2>1 DEF CorrelationInv, Typed
  <2>3. OnTheWire' /\ InHand' /\ InTheBox' /\ Correlated'
    BY <2>1 DEF CorrelationInv, OnTheWire, InHand, InTheBox, Correlated, Given, Typed
  <2> QED
    BY <2>2, <2>3 DEF CorrelationInv
<1> QED
  BY <1>1, <1>2, <1>3, <1>4 DEF Reading

(* fail, whoever runs it, and the server's answers.                        *)
LEMMA OtherStep ==
  ASSUME CorrelationInv,
         \/ \E x \in Failer : FailDrain(x) \/ FailClose(x)
         \/ \E k \in Call : Answer(k)
         \/ AnswerOddly
         \/ Driving \/ Disconnect \/ UNCHANGED sessionVars
  PROVE  CorrelationInv'
<1>1. ASSUME NEW x \in Failer, FailDrain(x)
      PROVE  CorrelationInv'
  <2>1. /\ box' = [k \in Call |-> IF k \in pending THEN Reported(ErrorOf(x)) ELSE box[k]]
        /\ pending' = {} /\ UNCHANGED <<call, reader, wire, answered>>
    BY <1>1 DEF FailDrain
  <2>2. Typed'
    BY <2>1, ReportsAreErrors DEF CorrelationInv, Typed, Result
  <2>3. InTheBox'
    BY <2>1, ReportsAreErrors, Distinct DEF CorrelationInv, InTheBox
  <2>4. OnTheWire' /\ InHand' /\ Correlated'
    BY <2>1 DEF CorrelationInv, OnTheWire, InHand, Correlated, Given
  <2> QED
    BY <2>2, <2>3, <2>4 DEF CorrelationInv
<1>2. ASSUME NEW x \in Failer, FailClose(x)
      PROVE  CorrelationInv'
  BY <1>2, NothingMoves DEF FailClose
<1>3. ASSUME NEW k \in Call, Answer(k)
      PROVE  CorrelationInv'
  <2>1. /\ answered' = answered \cup {k} /\ UNCHANGED <<call, box, pending, reader>>
    BY <1>3 DEF Answer
  <2>2. PICK kind \in Answers : wire' = wire \cup {[id |-> k, kind |-> kind]}
    BY <1>3 DEF Answer, Answers
  <2>3. Typed'
    BY <2>1, <2>2 DEF CorrelationInv, Typed, Message
  <2>4. OnTheWire'
    BY <2>1, <2>2 DEF CorrelationInv, OnTheWire, Given
  <2>5. InHand' /\ InTheBox' /\ Correlated'
    BY <2>1 DEF CorrelationInv, InHand, InTheBox, Correlated, Given
  <2> QED
    BY <2>3, <2>4, <2>5 DEF CorrelationInv
<1>4. CASE AnswerOddly
  <2>1. UNCHANGED <<call, box, pending, reader, answered>>
    BY <1>4 DEF AnswerOddly
  <2>2. PICK m \in Message : /\ m.kind \in {"ok", "sqlerror", "garbage", "large"}
                             /\ m.kind = "ok" => m.id \in answered \cup {None}
                             /\ wire' = wire \cup {m}
    BY <1>4 DEF AnswerOddly
  <2>3. Typed'
    BY <2>1, <2>2 DEF CorrelationInv, Typed
  <2>4. OnTheWire'
    BY <2>1, <2>2, Distinct DEF CorrelationInv, OnTheWire, Given, Answers
  <2>5. InHand' /\ InTheBox' /\ Correlated'
    BY <2>1 DEF CorrelationInv, InHand, InTheBox, Correlated, Given
  <2> QED
    BY <2>3, <2>4, <2>5 DEF CorrelationInv
<1>5. CASE Driving
  BY <1>5, NothingMoves DEF Driving, Advance, DriverReturns
<1>6. CASE Disconnect \/ UNCHANGED sessionVars
  BY <1>6, NothingMoves DEF Disconnect, sessionVars
<1> QED
  BY <1>1, <1>2, <1>3, <1>4, <1>5, <1>6

LEMMA CorrelationStep == CorrelationInv /\ [SessionNext]_sessionVars => CorrelationInv'
  BY CallerStep, ReaderStep, OtherStep DEF SessionNext

(* An answer belongs to its call, whatever comes late, twice or unasked    *)
(* (Call and acceptResponse of typed_session.go).                          *)
THEOREM AnswersAreCorrelated == SessionSpec => []Correlated
<1>1. CorrelationInv => Correlated
  BY DEF CorrelationInv
<1> QED
  BY <1>1, CorrelationInit, CorrelationStep, PTL DEF SessionSpec

-----------------------------------------------------------------------------
(***************************************************************************)
(* Success.  A driver reports it only from the last call of its script, so *)
(* the invariant says what each place in the script has behind it.  That   *)
(* needs to know what a returned call can have as its result, and that a   *)
(* failing call has an error to return.                                    *)
(***************************************************************************)
Behind(k) ==
    CASE k = "connect" -> {}
      [] k = "prepare" -> {"connect"}
      [] k = "close"   -> {"connect", "prepare"}
      [] k = "exit"    -> {"connect", "prepare"} \cup
                          (IF driver.role = "proof" THEN {"close"} ELSE {})

Scripted ==
    /\ driver \in [role : {"proof", "query"}, at : Script \cup {"closing", "returned"},
                   result : {None, "ok", "context", "unavailable", "limit", "protocol", "unknown"}]
    /\ driver.at \in Script => Behind(driver.at) \subseteq answered /\ driver.result # "ok"

Concluded ==
    \A k \in Call : /\ call[k].pc = "failing" => call[k].error # None
                    /\ call[k].pc = "returned" => call[k].result # None

SuccessInv == CorrelationInv /\ Concluded /\ Scripted /\ SuccessIsWhole

LEMMA SuccessInit == SessionInit => SuccessInv
<1> SUFFICES ASSUME SessionInit PROVE SuccessInv
  OBVIOUS
<1>1. Concluded
  BY DEF SessionInit, Concluded
<1>2. Scripted /\ SuccessIsWhole
  BY DEF SessionInit, Scripted, Script, Behind, SuccessIsWhole, None
<1> QED
  BY <1>1, <1>2, CorrelationInit DEF SuccessInv

(* Only a caller's own step changes a call.                                *)
LEMMA ConcludedStep ==
  ASSUME CorrelationInv, Concluded, [SessionNext]_sessionVars
  PROVE  Concluded'
<1>1. ASSUME NEW k \in Call, Calling(k)
      PROVE  Concluded'
  <2>1. ASSUME NEW pc, NEW e, NEW r, Become(k, pc, e, r),
               pc = "failing" => e # None, pc = "returned" => r # None
        PROVE  Concluded'
    BY <2>1 DEF Concluded, Become, CorrelationInv, Typed
  <2>2. CASE Register(k)
    BY <2>1, <2>2 DEF Register, Return, None
  <2>3. CASE Send(k)
    BY <2>1, <2>3 DEF Send, SendErrors, None
  <2>4. CASE Wait(k)
    BY <2>1, <2>4 DEF Wait, Return, None
  <2>5. CASE TimeOut(k)
    BY <2>1, <2>5 DEF TimeOut, None
  <2>6. CASE FailReturns(k)
    <3>1. call[k].error # None
      BY <2>6 DEF FailReturns, Concluded
    <3> QED
      BY <2>1, <2>6, <3>1 DEF FailReturns, Return
  <2> QED
    BY <1>1, <2>2, <2>3, <2>4, <2>5, <2>6 DEF Calling
<1>2. CASE UNCHANGED call
  BY <1>2 DEF Concluded
<1>3. UNCHANGED call \/ \E k \in Call : Calling(k)
  BY DEF SessionNext, Answer, FailDrain, FailClose, Reading, Receive, Lookup, Accept, ReaderStops,
         Driving, Advance, DriverReturns, AnswerOddly, Disconnect, sessionVars
<1> QED
  BY <1>1, <1>2, <1>3

(* A driver's step: a good answer to the call it is at was given by the    *)
(* server, and that call joins the ones behind it.                         *)
LEMMA DriverStep ==
  ASSUME SuccessInv, Driving
  PROVE  Scripted' /\ SuccessIsWhole'
<1>1. CASE Advance
  <2> DEFINE k == driver.at
             result == call[k].result
  <2>1. /\ k \in Script /\ k \in Call /\ call[k].pc = "returned" /\ result \in Result \ {None}
        /\ UNCHANGED answered
    BY <1>1 DEF Advance, Call, SuccessInv, CorrelationInv, Typed, Concluded
  <2>2. CASE result \in Errors \/ result = "bare"
    <3>1. Ended(result)
      BY <1>1, <2>2 DEF Advance
    <3>2. Sanitized(driver.role, result) \in {"context", "unavailable", "limit", "protocol", "unknown"}
      BY <2>2 DEF Sanitized, Errors
    <3> QED
      BY <3>1, <3>2, <2>1 DEF Ended, SuccessInv, Scripted, SuccessIsWhole, Script
  <2>3. CASE ~(result \in Errors \/ result = "bare")
    <3>1. k \in answered
      BY <2>1, <2>3 DEF Result, SuccessInv, CorrelationInv, Correlated
    <3>2. /\ k = "connect" => Goes("prepare")
          /\ k = "prepare" => Goes(AfterPrepare(result))
          /\ k = "close" => Goes("exit")
          /\ k = "exit" => Ended("ok")
      BY <1>1, <2>3, <2>1 DEF Advance, Script
    <3>3. Behind(k) \subseteq answered
      BY <2>1 DEF SuccessInv, Scripted
    <3>4. CASE k = "exit"
      <4>0. Sanitized(driver.role, "ok") = "ok"
        BY DEF Sanitized
      <4>1. driver' = [driver EXCEPT !.at = "closing", !.result = "ok"]
        BY <3>2, <3>4, <4>0 DEF Ended
      <4>2. Scripted'
        BY <4>1 DEF SuccessInv, Scripted, Script
      <4>3. {"connect", "prepare"} \subseteq answered /\ (driver.role = "proof" => "close" \in answered)
        BY <3>3, <3>4 DEF Behind
      <4> QED
        BY <4>1, <4>2, <4>3, <3>1, <3>4, <2>1 DEF SuccessIsWhole, SuccessInv, Scripted
    <3>5. CASE k \in {"connect", "prepare", "close"}
      <4>1. PICK next \in {"prepare", "close", "exit"} :
              /\ driver' = [driver EXCEPT !.at = next]
              /\ Behind(next) \subseteq Behind(k) \cup {k}
        BY <3>2, <3>5 DEF Goes, AfterPrepare, Behind, SuccessInv, Scripted
      <4>2. driver.result # "ok" /\ Behind(next)' = Behind(next)
        BY <2>1, <4>1 DEF SuccessInv, Scripted, Behind
      <4>3. Behind(next) \subseteq answered
        BY <4>1, <3>1, <3>3
      <4>4. Scripted'
        BY <4>1, <4>2, <4>3, <2>1 DEF SuccessInv, Scripted, Script
      <4> QED
        BY <4>1, <4>2, <4>4 DEF SuccessIsWhole, SuccessInv, Scripted
    <3> QED
      BY <3>4, <3>5, <2>1 DEF Script
  <2> QED
    BY <2>2, <2>3
<1>2. CASE DriverReturns
  <2>1. driver' = [driver EXCEPT !.at = "returned"] /\ UNCHANGED answered
    BY <1>2 DEF DriverReturns
  <2> QED
    BY <2>1 DEF SuccessInv, Scripted, Script, SuccessIsWhole
<1> QED
  BY <1>1, <1>2 DEF Driving

LEMMA SuccessStep == SuccessInv /\ [SessionNext]_sessionVars => SuccessInv'
<1> SUFFICES ASSUME SuccessInv, [SessionNext]_sessionVars PROVE SuccessInv'
  OBVIOUS
<1>1. CorrelationInv' /\ Concluded'
  BY CorrelationStep, ConcludedStep DEF SuccessInv
<1>2. CASE Driving
  BY <1>1, <1>2, DriverStep DEF SuccessInv
<1>3. CASE UNCHANGED driver /\ answered \subseteq answered'
  BY <1>1, <1>3 DEF SuccessInv, Scripted, Behind, SuccessIsWhole
<1>4. Driving \/ (UNCHANGED driver /\ answered \subseteq answered')
  BY DEF SessionNext, Answer, FailDrain, FailClose, Reading, Receive, Lookup, Accept, ReaderStops,
         AnswerOddly, Disconnect, sessionVars, Calling, Register, Send, Wait, TimeOut, FailReturns
<1> QED
  BY <1>2, <1>3, <1>4

(* A proof or a query that reports success was connected, answered and     *)
(* ended, the proof with its cursor closed (FixedProof, and Resolve of catalogados.go).  *)
THEOREM SuccessMeansEveryStep == SessionSpec => []SuccessIsWhole
<1>1. SuccessInv => SuccessIsWhole
  BY DEF SuccessInv
<1> QED
  BY <1>1, SuccessInit, SuccessStep, PTL DEF SessionSpec

-----------------------------------------------------------------------------
(* Whoever failed the session closed its transport before anybody's fail    *)
(* returned, and the driver returns only from fail.                         *)
ReleaseInv ==
    /\ once.state = "done" => transport = "closed"
    /\ driver.at = "returned" => once.state = "done"

LEMMA ReleaseStep == SuccessInv /\ ReleaseInv /\ [SessionNext]_sessionVars => ReleaseInv'
<1> SUFFICES ASSUME SuccessInv, ReleaseInv, [SessionNext]_sessionVars PROVE ReleaseInv'
  OBVIOUS
<1> USE DEF ReleaseInv
<1>1. CASE \E x \in Failer : FailDrain(x) \/ FailClose(x)
  <2> PICK x \in Failer : FailDrain(x) \/ FailClose(x)
    BY <1>1
  <2>1. CASE FailDrain(x)
    BY <2>1 DEF FailDrain
  <2>2. CASE FailClose(x)
    BY <2>2 DEF FailClose
  <2> QED
    BY <2>1, <2>2
<1>2. CASE Advance
  <2>1. (\E at \in Script : Goes(at)) \/ (\E result : Ended(result))
    BY <1>2 DEF Advance, AfterPrepare, Script
  <2>2. driver'.at # "returned"
    BY <2>1 DEF Goes, Ended, Script, SuccessInv, Scripted
  <2> QED
    BY <1>2, <2>2 DEF Advance
<1>3. CASE DriverReturns
  BY <1>3 DEF DriverReturns
<1>4. CASE UNCHANGED <<once, driver>> /\ transport' \in {transport, "closed"}
  BY <1>4
<1>5. \/ \E x \in Failer : FailDrain(x) \/ FailClose(x)
      \/ Advance \/ DriverReturns
      \/ UNCHANGED <<once, driver>> /\ transport' \in {transport, "closed"}
  BY DEF SessionNext, Answer, Reading, Driving, Receive, Lookup, Accept, ReaderStops,
         AnswerOddly, Disconnect, sessionVars, Calling, Register, Send, Wait, TimeOut, FailReturns
<1> QED
  BY <1>1, <1>2, <1>3, <1>4, <1>5

(* A driver that has returned left no connection to the server open,        *)
(* whichever caller, the reader or the driver itself failed the session     *)
(* (fail and its sync.Once in typed_session.go).                            *)
THEOREM ConnectionIsReleased == SessionSpec => []DriverReleases
<1>1. SessionInit => ReleaseInv
  BY DEF SessionInit, ReleaseInv
<1>2. ReleaseInv => DriverReleases
  BY DEF ReleaseInv, DriverReleases
<1> QED
  BY <1>1, <1>2, SuccessInit, SuccessStep, ReleaseStep, PTL DEF SessionSpec
=============================================================================
