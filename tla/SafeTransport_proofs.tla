------------------------ MODULE SafeTransport_proofs ------------------------
(***************************************************************************)
(* Proofs about one transport session, for any number of fetches, any      *)
(* endpoints and any policy.  Every lemma about a step has one case per    *)
(* action; the invariant Inv and why it is needed are in SafeTransport.    *)
(***************************************************************************)
EXTENDS SafeTransport, FiniteSetTheorems, TLAPS

(* The answers of a resolution are endpoints, and there is a first one. *)
LEMMA AnswerFacts ==
  ASSUME NEW answers \in Answers
  PROVE  /\ Range(answers) \subseteq Endpoint
         /\ answers # <<>> => answers[1] \in Range(answers)
<1>1. PICK n \in 0..MaxAnswers : answers \in [1..n -> Endpoint]
  BY DEF Answers
<1>2. Range(answers) \subseteq Endpoint
  BY <1>1 DEF Range
<1>3. ASSUME answers # <<>> PROVE 1 \in DOMAIN answers
  <2>1. CASE n = 0
    <3>1. answers = <<>>
      BY <1>1, <2>1, BoundAssumption
    <3> QED
      BY <3>1, <1>3
  <2>2. CASE n # 0
    BY <1>1, <2>2, BoundAssumption
  <2> QED
    BY <2>1, <2>2
<1> QED
  BY <1>2, <1>3 DEF Range

(* What fetch answers when its work ends with a code. *)
LEMMA CaughtFacts ==
  ASSUME TypeOK, NEW f \in Fetch, NEW code \in Codes \cup {"none"}
  PROVE  /\ CaughtAs(f, code) \in Codes \cup {"none"}
         /\ \/ CaughtAs(f, code) = code
            \/ CaughtAs(f, code) = "caller-aborted" /\ caller[f]
         /\ caller[f] => CaughtAs(f, code) \notin PhaseTimeouts
<1>1. CASE ~caller[f]
  <2>1. CaughtAs(f, code) = code
    BY <1>1, Zenon DEF CaughtAs
  <2> QED
    BY <1>1, <2>1
<1>2. CASE caller[f] /\ code \in Returned \cup {"timeout"}
  <2>1. CaughtAs(f, code) = code
    BY <1>2, Zenon DEF CaughtAs
  <2>2. code \notin PhaseTimeouts
    BY <1>2 DEF Returned, PhaseTimeouts
  <2> QED
    BY <1>2, <2>1, <2>2
<1>3. CASE caller[f] /\ code \notin Returned \cup {"timeout"}
  <2>1. CaughtAs(f, code) = "caller-aborted"
    BY <1>3 DEF CaughtAs
  <2>2. "caller-aborted" \in Codes
    BY DEF Codes, Stops
  <2>3. "caller-aborted" \notin PhaseTimeouts
    BY DEF PhaseTimeouts
  <2> QED
    BY <1>3, <2>1, <2>2, <2>3
<1> QED
  BY <1>1, <1>2, <1>3

(***************************************************************************)
(* Types are kept by every step.                                           *)
(***************************************************************************)
LEMMA TypeStep == TypeOK /\ [Next]_vars => TypeOK'
<1> SUFFICES ASSUME TypeOK, [Next]_vars PROVE TypeOK'
  OBVIOUS
<1> USE PolicyAssumption, PeerAssumption, BoundAssumption
<1> USE DEF TypeOK, session, pins, link, reading, body, Codes, Returned,
            BudgetErrors, OperationErrors, PhaseTimeouts, Stops
<1>1. ASSUME NEW f \in Fetch, Call(f) PROVE TypeOK'
  BY <1>1 DEF Call, NotAuthorized, HopLimit, AlreadyAborted, NoTimeLeft, Answer,
     Refuse, Start, Charged, Finish, Over, Settle, CaughtAs
<1>2. ASSUME NEW f \in Fetch, Resolves(f) PROVE TypeOK'
  <2>1. PICK answers \in Answers :
          IF signal[f] THEN Finish(f, "dns-timeout")
          ELSE IF pinDestination(answers) = "pinned" THEN Pinned(f, answers)
          ELSE Finish(f, pinDestination(answers))
    BY <1>2 DEF Resolves
  <2>2. pinDestination(answers) \in Codes \cup {"pinned"}
    BY DEF pinDestination
  <2>3. pinDestination(answers) = "pinned" => answers # <<>>
    BY DEF pinDestination
  <2>4. CASE ~signal[f] /\ pinDestination(answers) = "pinned"
    <3>1. Pinned(f, answers)
      BY <2>1, <2>4
    <3>2. Range(answers) \subseteq Endpoint /\ answers[1] \in Endpoint
      BY <2>3, <2>4, AnswerFacts
    <3> QED
      BY <1>2, <3>1, <3>2 DEF Resolves, Pinned
  <2>5. ASSUME NEW code \in Codes, Finish(f, code) PROVE TypeOK'
    BY <1>2, <2>5, CaughtFacts DEF Resolves, Finish, Over, Settle
  <2> QED
    BY <2>1, <2>2, <2>4, <2>5
<1>3. ASSUME NEW f \in Fetch, ResolveFails(f) \/ ConnectFails(f) PROVE TypeOK'
  BY <1>3 DEF ResolveFails, ConnectFails, Fails, operationCause, Finish, Over, Settle, CaughtAs
<1>4. ASSUME NEW f \in Fetch, Connects(f) PROVE TypeOK'
  BY <1>4 DEF Connects, Accept, Verdict, Leave
<1>5. ASSUME NEW f \in Fetch, Responds(f) \/ RespondsBadly(f) \/ ExchangeFails(f) PROVE TypeOK'
  BY <1>5 DEF Responds, RespondsBadly, ExchangeFails, OpenBody, operationCause, Leave
<1>6. ASSUME NEW f \in Fetch, Chunk(f) PROVE TypeOK'
  BY <1>6 DEF Chunk, Charge, Keep, Leave
<1>7. ASSUME NEW f \in Fetch, NextWindow(f) \/ TooSlow(f) PROVE TypeOK'
  BY <1>7 DEF NextWindow, TooSlow, WindowDue, Leave
<1>8. ASSUME NEW f \in Fetch, BodyAborted(f) \/ BodyUndecodable(f) \/ BodyTooLarge(f) PROVE TypeOK'
  BY <1>8 DEF BodyAborted, BodyUndecodable, BodyTooLarge, Leave
<1>9. ASSUME NEW f \in Fetch, BodyDecoded(f) PROVE TypeOK'
  BY <1>9 DEF BodyDecoded, Leave
<1>10. ASSUME NEW f \in Fetch, Closes(f) PROVE TypeOK'
  <2>1. CaughtAs(f, result[f]) \in Codes \cup {"none"}
    BY CaughtFacts
  <2> HIDE DEF Codes
  <2> QED
    BY <1>10, <2>1 DEF Closes, Over, Settle
<1>11. ASSUME NEW f \in Fetch, Deadline(f) \/ CallerAborts(f) PROVE TypeOK'
  <2>1. CASE Deadline(f)
    BY <2>1 DEF Deadline
  <2>2. CASE CallerAborts(f)
    BY <2>2 DEF CallerAborts
  <2> QED
    BY <1>11, <2>1, <2>2
<1>12. CASE Tick
  BY <1>12 DEF Tick
<1>13. CASE UNCHANGED vars
  BY <1>13 DEF vars
<1>14. QED
  BY <1>1, <1>2, <1>3, <1>4, <1>5, <1>6, <1>7, <1>8, <1>9, <1>10, <1>11, <1>12, <1>13
     DEF Next, Work

(***************************************************************************)
(* No step takes a counter of the session past its limit: not a chunk of   *)
(* an abandoned read, and not two bodies decoded one after the other.      *)
(***************************************************************************)
LEMMA CapsStep == TypeOK /\ CapsHeld /\ [Next]_vars => CapsHeld'
<1> SUFFICES ASSUME TypeOK, CapsHeld, [Next]_vars PROVE CapsHeld'
  OBVIOUS
<1> USE PolicyAssumption DEF CapsHeld, session
<1>1. ASSUME NEW f \in Fetch, Call(f) PROVE CapsHeld'
  BY <1>1 DEF Call, NotAuthorized, HopLimit, AlreadyAborted, NoTimeLeft, Answer,
     Refuse, Start, Charged
<1>2. ASSUME NEW f \in Fetch, Chunk(f) PROVE CapsHeld'
  BY <1>2, BoundAssumption DEF Chunk, Charge, TypeOK
<1>3. ASSUME NEW f \in Fetch, BodyTooLarge(f) PROVE CapsHeld'
  BY <1>3 DEF BodyTooLarge
<1>4. ASSUME NEW f \in Fetch, BodyDecoded(f) PROVE CapsHeld'
  BY <1>4 DEF BodyDecoded, DecodeLimit, remainingDecoded, TypeOK
<1>5. CASE UNCHANGED session
  BY <1>5
<1> QED
  BY <1>1, <1>2, <1>3, <1>4, <1>5 DEF Next, Work, Tick, vars, Resolves,
     ResolveFails, ConnectFails, Fails, Connects, Responds, RespondsBadly,
     ExchangeFails, NextWindow, TooSlow, BodyAborted, BodyUndecodable, Closes,
     Deadline, CallerAborts

(***************************************************************************)
(* What an attempt has pinned stays vetted until its work is over, and it  *)
(* sends nothing before the peer has been compared with it.                *)
(***************************************************************************)
LEMMA PinsStep ==
  TypeOK /\ PinsKept /\ OnlyVettedPeers /\ [Next]_vars
    => (PinsKept /\ OnlyVettedPeers)'
<1> SUFFICES ASSUME TypeOK, PinsKept, OnlyVettedPeers, [Next]_vars
             PROVE  (PinsKept /\ OnlyVettedPeers)'
  OBVIOUS
<1> DEFINE Goal == (PinsKept /\ OnlyVettedPeers)'
<1> USE DEF TypeOK, PinsKept, OnlyVettedPeers, Vetted, session, pins, link
<1>1. ASSUME NEW f \in Fetch, Call(f) PROVE Goal
  BY <1>1 DEF Call, NotAuthorized, HopLimit, AlreadyAborted, NoTimeLeft, Answer,
     Refuse, Start, Charged, Finish, Over
<1>2. ASSUME NEW f \in Fetch, Resolves(f) PROVE Goal
  <2>1. PICK answers \in Answers :
          IF signal[f] THEN Finish(f, "dns-timeout")
          ELSE IF pinDestination(answers) = "pinned" THEN Pinned(f, answers)
          ELSE Finish(f, pinDestination(answers))
    BY <1>2 DEF Resolves
  <2>2. ASSUME pinDestination(answers) = "pinned", Pinned(f, answers) PROVE Goal
    <3>1. answers # <<>> /\ Range(answers) \subseteq Allowed
      BY <2>2 DEF pinDestination
    <3>2. answers[1] \in Range(answers)
      BY <3>1, AnswerFacts
    <3> QED
      BY <2>2, <3>1, <3>2 DEF Pinned
  <2>3. ASSUME NEW code, Finish(f, code) PROVE Goal
    BY <2>3 DEF Finish, Over
  <2> QED
    BY <2>1, <2>2, <2>3
<1>3. ASSUME NEW f \in Fetch, ResolveFails(f) \/ ConnectFails(f) PROVE Goal
  BY <1>3 DEF ResolveFails, ConnectFails, Fails, Finish, Over
<1>4. ASSUME NEW f \in Fetch, Connects(f) PROVE Goal
  BY <1>4 DEF Connects, Accept, Verdict, Leave
<1>5. ASSUME NEW f \in Fetch, Responds(f) \/ RespondsBadly(f) \/ ExchangeFails(f)
      PROVE  Goal
  BY <1>5 DEF Responds, RespondsBadly, ExchangeFails, OpenBody, Leave
<1>6. ASSUME NEW f \in Fetch, Chunk(f) PROVE Goal
  BY <1>6 DEF Chunk, Keep, Leave
<1>7. ASSUME NEW f \in Fetch, NextWindow(f) \/ TooSlow(f) PROVE Goal
  BY <1>7 DEF NextWindow, TooSlow, Leave
<1>8. ASSUME NEW f \in Fetch,
             BodyAborted(f) \/ BodyUndecodable(f) \/ BodyTooLarge(f) \/ BodyDecoded(f)
      PROVE  Goal
  BY <1>8 DEF BodyAborted, BodyUndecodable, BodyTooLarge, BodyDecoded, Leave
<1>9. ASSUME NEW f \in Fetch, Closes(f) PROVE Goal
  BY <1>9 DEF Closes, Over
<1>10. ASSUME NEW f \in Fetch, Deadline(f) \/ CallerAborts(f) PROVE Goal
  BY <1>10 DEF Deadline, CallerAborts
<1>11. CASE Tick
  BY <1>11 DEF Tick
<1>12. CASE UNCHANGED vars
  BY <1>12 DEF vars
<1> QED
  BY <1>1, <1>2, <1>3, <1>4, <1>5, <1>6, <1>7, <1>8, <1>9, <1>10, <1>11, <1>12
     DEF Next, Work

(***************************************************************************)
(* Work that ends without a connection to close: a true code gives a true  *)
(* answer.                                                                 *)
(***************************************************************************)
Causes == AbortsExplained /\ ResultsAreTrue /\ CausesAreTrue

LEMMA OverIsTrue ==
  ASSUME TypeOK, Causes, NEW f \in Fetch, NEW code \in Codes \cup {"none"},
         code # "caller-aborted", code = "timeout" => now >= MaxTotalTime,
         Over(f, code), UNCHANGED <<now, signal, caller>>
  PROVE  Causes'
<1> USE DEF Causes, AbortsExplained, ResultsAreTrue, CausesAreTrue
<1>1. outcome'[f] = IF outcome[f] = "none" THEN CaughtAs(f, code) ELSE outcome[f]
  BY DEF Over, Settle, TypeOK
<1>2. \A g \in Fetch \ {f} : outcome'[g] = outcome[g] /\ result'[g] = result[g]
  BY DEF Over, Settle, TypeOK
<1>3. result'[f] = "none"
  BY DEF Over, TypeOK
<1>4. ResultsAreTrue'
  BY <1>2, <1>3
<1>5. AbortsExplained'
  <2>1. outcome[f] = "timeout" => outcome'[f] = "timeout"
    BY <1>1
  <2> QED
    BY <1>2, <2>1
<1>6. CausesAreTrue'
  <2>1. CASE outcome[f] # "none"
    BY <1>1, <1>2, <2>1
  <2>2. CASE outcome[f] = "none"
    <3>1. outcome'[f] = CaughtAs(f, code)
      BY <1>1, <2>2
    <3>2. outcome'[f] = "timeout" => now >= MaxTotalTime
      BY <3>1, CaughtFacts
    <3>3. outcome'[f] = "caller-aborted" => caller[f]
      BY <3>1, CaughtFacts
    <3>4. signal[f] => caller[f]
      BY <2>2
    <3>5. outcome'[f] \in PhaseTimeouts => ~signal[f]
      BY <3>1, <3>4, CaughtFacts
    <3> QED
      BY <1>2, <3>2, <3>3, <3>5
  <2> QED
    BY <2>1, <2>2
<1> QED
  BY <1>4, <1>5, <1>6

(***************************************************************************)
(* Every answer a step gives is true, and every result it leaves for later *)
(* still will be.                                                          *)
(***************************************************************************)
LEMMA CausesStep == TypeOK /\ IdleUnaborted /\ Causes /\ [Next]_vars => Causes'
<1> SUFFICES ASSUME TypeOK, IdleUnaborted, Causes, [Next]_vars PROVE Causes'
  OBVIOUS
<1>1. ASSUME NEW f \in Fetch, Call(f) PROVE Causes'
  <2>1. ASSUME NEW code \in {"authorization-required", "hop-limit"}, Answer(f, code)
        PROVE  Causes'
    BY <2>1 DEF Answer, IdleUnaborted, TypeOK, Causes, AbortsExplained,
       ResultsAreTrue, CausesAreTrue, PhaseTimeouts
  <2>2. CASE AlreadyAborted(f)
    BY <2>2 DEF AlreadyAborted, Answer, TypeOK, Causes, AbortsExplained,
       ResultsAreTrue, CausesAreTrue, PhaseTimeouts
  <2>3. CASE NoTimeLeft(f)
    BY <2>3, PolicyAssumption DEF NoTimeLeft, remainingTime, Answer, TypeOK, Causes,
       AbortsExplained, ResultsAreTrue, CausesAreTrue, PhaseTimeouts
  <2>4. CASE Refuse(f)
    <3>1. "refused" \in Codes
      BY DEF Codes, Returned
    <3>2. Over(f, "refused") /\ UNCHANGED <<now, signal, caller>>
      BY <2>4 DEF Refuse, Charged, Finish
    <3> QED
      BY <3>1, <3>2, OverIsTrue
  <2>5. CASE Start(f)
    BY <2>5 DEF Start, Charged, Causes, AbortsExplained, ResultsAreTrue, CausesAreTrue
  <2> QED
    BY <1>1, <2>1, <2>2, <2>3, <2>4, <2>5 DEF Call, NotAuthorized, HopLimit
<1>2. ASSUME NEW f \in Fetch, Resolves(f) PROVE Causes'
  <2>1. PICK answers \in Answers :
          IF signal[f] THEN Finish(f, "dns-timeout")
          ELSE IF pinDestination(answers) = "pinned" THEN Pinned(f, answers)
          ELSE Finish(f, pinDestination(answers))
    BY <1>2 DEF Resolves
  <2>2. pinDestination(answers)
          \in {"dns-not-found", "dns-malformed", "prohibited-address", "pinned"}
    BY DEF pinDestination
  <2>3. ASSUME Pinned(f, answers) PROVE Causes'
    BY <1>2, <2>3 DEF Resolves, Pinned, Causes, AbortsExplained, ResultsAreTrue,
       CausesAreTrue
  <2>4. ASSUME NEW code \in {"dns-timeout", "dns-not-found", "dns-malformed",
                             "prohibited-address"},
               Finish(f, code)
        PROVE  Causes'
    <3>1. code \in Codes /\ code # "caller-aborted" /\ code # "timeout"
      BY DEF Codes, Returned, OperationErrors, PhaseTimeouts
    <3> QED
      BY <1>2, <2>4, <3>1, OverIsTrue DEF Resolves, Finish
  <2> QED
    BY <2>1, <2>2, <2>3, <2>4
<1>3. ASSUME NEW f \in Fetch, NEW phase \in {"dns", "connect"}, Fails(f, phase)
      PROVE  Causes'
  <2>1. PICK code \in operationCause(phase) : Finish(f, code)
    BY <1>3 DEF Fails
  <2>2. code \in Codes /\ code # "caller-aborted" /\ code # "timeout"
    BY DEF operationCause, Codes, OperationErrors, PhaseTimeouts
  <2> QED
    BY <1>3, <2>1, <2>2, OverIsTrue DEF Fails, Finish
<1>4. ASSUME NEW f \in Fetch, NEW code, Leave(f, code), UNCHANGED <<now, signal, caller>>,
             code # "caller-aborted", code = "timeout" => now >= MaxTotalTime
      PROVE  Causes'
  BY <1>4 DEF Leave, TypeOK, Causes, AbortsExplained, ResultsAreTrue, CausesAreTrue
<1>5. ASSUME UNCHANGED <<now, signal, caller, result, outcome>> PROVE Causes'
  BY <1>5 DEF Causes, AbortsExplained, ResultsAreTrue, CausesAreTrue
<1>6. ASSUME NEW f \in Fetch, Connects(f) PROVE Causes'
  <2>1. PICK peer \in Endpoint, tls \in BOOLEAN :
          IF Verdict(f, peer, tls) = "accepted" THEN Accept(f)
          ELSE Leave(f, Verdict(f, peer, tls))
    BY <1>6 DEF Connects
  <2>2. Verdict(f, peer, tls) # "caller-aborted" /\ Verdict(f, peer, tls) # "timeout"
    BY DEF Verdict
  <2> QED
    BY <1>4, <1>5, <1>6, <2>1, <2>2 DEF Connects, Accept
<1>7. ASSUME NEW f \in Fetch, Responds(f) \/ RespondsBadly(f) \/ ExchangeFails(f)
      PROVE  Causes'
  BY <1>4, <1>5, <1>7 DEF Responds, RespondsBadly, ExchangeFails, OpenBody, operationCause
<1>8. ASSUME NEW f \in Fetch, Chunk(f) \/ NextWindow(f) \/ TooSlow(f) PROVE Causes'
  BY <1>4, <1>5, <1>8 DEF Chunk, Keep, NextWindow, TooSlow
<1>9. ASSUME NEW f \in Fetch, BodyAborted(f) \/ BodyUndecodable(f) \/ BodyTooLarge(f)
      PROVE  Causes'
  BY <1>4, <1>9 DEF BodyAborted, BodyUndecodable, BodyTooLarge
<1>10. ASSUME NEW f \in Fetch, BodyDecoded(f) PROVE Causes'
  BY <1>4, <1>10, PolicyAssumption DEF BodyDecoded, InTime, remainingTime, TypeOK
<1>11. ASSUME NEW f \in Fetch, Closes(f) PROVE Causes'
  <2>1. result[f] \in Codes \cup {"none"} /\ result[f] # "caller-aborted"
    BY DEF TypeOK, Causes, ResultsAreTrue
  <2>2. result[f] = "timeout" => now >= MaxTotalTime
    BY DEF Causes, ResultsAreTrue
  <2> QED
    BY <1>11, <2>1, <2>2, OverIsTrue DEF Closes
<1>12. ASSUME NEW f \in Fetch, Deadline(f) PROVE Causes'
  BY <1>12, PolicyAssumption DEF Deadline, InFlight, remainingTime, TypeOK, Causes,
     AbortsExplained, ResultsAreTrue, CausesAreTrue, PhaseTimeouts
<1>13. ASSUME NEW f \in Fetch, CallerAborts(f) PROVE Causes'
  BY <1>13 DEF CallerAborts, InFlight, TypeOK, Causes, AbortsExplained,
     ResultsAreTrue, CausesAreTrue, PhaseTimeouts
<1>14. CASE Tick
  BY <1>14, PolicyAssumption DEF Tick, TypeOK, Causes, AbortsExplained,
     ResultsAreTrue, CausesAreTrue
<1>15. CASE UNCHANGED vars
  BY <1>5, <1>15 DEF vars
<1> QED
  BY <1>1, <1>2, <1>3, <1>6, <1>7, <1>8, <1>9, <1>10, <1>11, <1>12, <1>13, <1>14, <1>15
     DEF Next, Work, ResolveFails, ConnectFails

(***************************************************************************)
(* How one step moves the work of a fetch, whatever else it does.          *)
(***************************************************************************)
Moves(f) ==
  \/ pc'[f] = pc[f]
  \/ pc'[f] \in {"close", "done"}
  \/ pc[f] = "idle" /\ pc'[f] = "dns"
  \/ pc[f] = "dns" /\ pc'[f] = "connect" /\ ~signal[f]
  \/ pc[f] = "connect" /\ pc'[f] = "http" /\ ~signal[f]
  \/ pc[f] = "http" /\ pc'[f] = "body" /\ ~signal[f]

LEMMA MovesStep == TypeOK /\ Next => \A g \in Fetch : Moves(g)
<1> SUFFICES ASSUME TypeOK, Next, NEW g \in Fetch PROVE Moves(g)
  OBVIOUS
<1> USE DEF Moves, TypeOK
<1>1. ASSUME NEW f \in Fetch, NEW code, Over(f, code) \/ Leave(f, code) PROVE Moves(g)
  BY <1>1 DEF Over, Leave
<1>2. ASSUME NEW f \in Fetch, Call(f) PROVE Moves(g)
  BY <1>2 DEF Call, NotAuthorized, HopLimit, AlreadyAborted, NoTimeLeft, Answer,
     Refuse, Start, Charged, Finish, Over
<1>3. ASSUME NEW f \in Fetch, Resolves(f) PROVE Moves(g)
  BY <1>1, <1>3 DEF Resolves, Pinned, Finish
<1>4. ASSUME NEW f \in Fetch, ResolveFails(f) \/ ConnectFails(f) PROVE Moves(g)
  BY <1>1, <1>4 DEF ResolveFails, ConnectFails, Fails, Finish
<1>5. ASSUME NEW f \in Fetch, Connects(f) PROVE Moves(g)
  BY <1>1, <1>5 DEF Connects, Accept, Verdict
<1>6. ASSUME NEW f \in Fetch, Responds(f) \/ RespondsBadly(f) \/ ExchangeFails(f)
      PROVE  Moves(g)
  BY <1>1, <1>6 DEF Responds, RespondsBadly, ExchangeFails, OpenBody
<1>7. ASSUME NEW f \in Fetch, Chunk(f) \/ NextWindow(f) \/ TooSlow(f) PROVE Moves(g)
  BY <1>1, <1>7 DEF Chunk, Keep, NextWindow, TooSlow
<1>8. ASSUME NEW f \in Fetch,
             BodyAborted(f) \/ BodyUndecodable(f) \/ BodyTooLarge(f) \/ BodyDecoded(f)
      PROVE  Moves(g)
  BY <1>1, <1>8 DEF BodyAborted, BodyUndecodable, BodyTooLarge, BodyDecoded
<1>9. ASSUME NEW f \in Fetch, Closes(f) PROVE Moves(g)
  BY <1>1, <1>9 DEF Closes
<1>10. ASSUME NEW f \in Fetch, Deadline(f) \/ CallerAborts(f) PROVE Moves(g)
  BY <1>10 DEF Deadline, CallerAborts
<1>11. CASE Tick
  BY <1>11 DEF Tick
<1> QED
  BY <1>2, <1>3, <1>4, <1>5, <1>6, <1>7, <1>8, <1>9, <1>10, <1>11 DEF Next, Work

(* A signal is raised only on work that is under way. *)
LEMMA IdleStep == TypeOK /\ IdleUnaborted /\ [Next]_vars => IdleUnaborted'
<1> SUFFICES ASSUME TypeOK, IdleUnaborted, [Next]_vars, NEW g \in Fetch,
                    pc'[g] = "idle"
             PROVE  ~signal'[g]
  BY DEF IdleUnaborted
<1>1. CASE UNCHANGED vars
  BY <1>1 DEF vars, IdleUnaborted
<1>2. CASE Next
  <2>1. pc[g] = "idle" /\ ~signal[g]
    BY <1>2, MovesStep DEF Moves, IdleUnaborted
  <2>2. ASSUME NEW f \in Fetch, Deadline(f) \/ CallerAborts(f) PROVE ~signal'[g]
    BY <2>1, <2>2 DEF Deadline, CallerAborts, InFlight, TypeOK
  <2>3. CASE UNCHANGED signal
    BY <2>1, <2>3
  <2> QED
    BY <1>2, <2>2, <2>3 DEF Next, Call, Work, NotAuthorized, HopLimit, AlreadyAborted,
       NoTimeLeft, Answer, Refuse, Start, Charged, Resolves, ResolveFails, ConnectFails,
       Fails, Connects, Responds, RespondsBadly, ExchangeFails, Chunk, NextWindow,
       TooSlow, BodyAborted, BodyUndecodable, BodyTooLarge, BodyDecoded, Closes, Tick
<1> QED
  BY <1>1, <1>2

-----------------------------------------------------------------------------
LEMMA InvInit == Init => Inv
  BY PolicyAssumption, PeerAssumption DEF Init, Inv, TypeOK, CapsHeld, PinsKept,
     OnlyVettedPeers, IdleUnaborted, AbortsExplained, ResultsAreTrue, CausesAreTrue,
     PhaseTimeouts

LEMMA InvStep == Inv /\ [Next]_vars => Inv'
  BY TypeStep, CapsStep, PinsStep, CausesStep, IdleStep DEF Inv, Causes

LEMMA Invariance == Spec => []Inv
  BY InvInit, InvStep, PTL DEF Spec

(***************************************************************************)
(* Every variable of a session keeps its type: an outcome is a published   *)
(* code and the peer of a connection an endpoint.                          *)
(***************************************************************************)
THEOREM TransportTyped == Spec => []TypeOK
  BY Invariance, PTL DEF Inv

(***************************************************************************)
(* For every policy and any number of concurrent and abandoned fetches, no *)
(* request travels to a peer other than a pinned and wholly vetted one     *)
(* (execute, safe-transport.ts:201-249).                                   *)
(***************************************************************************)
THEOREM VettedPeers == Spec => []OnlyVettedPeers
  BY Invariance, PTL DEF Inv

(***************************************************************************)
(* The hop, encoded and decoded counters of a session never pass their     *)
(* limits, abandoned work included (execute and readEncodedBody).          *)
(***************************************************************************)
THEOREM SessionCaps == Spec => []CapsHeld
  BY Invariance, PTL DEF Inv

(***************************************************************************)
(* No fetch blames the deadline before it has passed, a caller who has not *)
(* aborted, or the peer for an abort of our own (the catch of fetch).      *)
(***************************************************************************)
THEOREM TrueCauses == Spec => []CausesAreTrue
  BY Invariance, PTL DEF Inv

(***************************************************************************)
(* An aborted fetch opens nothing more: its work only winds down.          *)
(***************************************************************************)
THEOREM AbortStopsWork == Spec => NoWorkAfterAbort
<1> DEFINE WindsDown ==
      \A f \in Fetch : (signal[f] /\ pc'[f] # pc[f]) => pc'[f] \in {"close", "done"}
<1>1. Inv /\ [Next]_vars => [WindsDown]_vars
  BY MovesStep DEF Moves, Inv, IdleUnaborted
<1> QED
  BY <1>1, Invariance, PTL DEF Spec, NoWorkAfterAbort

-----------------------------------------------------------------------------
(* n more bytes of one fetch are n more bytes of the session. *)
LEMMA TotalGrows ==
  ASSUME NEW c \in [Fetch -> Nat], IsFiniteSet(Bytes(c)), NEW f \in Fetch, NEW n \in Nat
  PROVE  LET d == [c EXCEPT ![f] = @ + n]
         IN  /\ IsFiniteSet(Bytes(d)) /\ Total(d) \in Nat /\ Total(c) \in Nat
             /\ Total(d) <= Total(c) + n
<1> DEFINE d == [c EXCEPT ![f] = @ + n]
           I == (c[f] + 1)..(c[f] + n)
           new == {f} \X I
<1>1. Bytes(d) = Bytes(c) \cup new
  <2>1. ASSUME NEW g \in Fetch
        PROVE  {g} \X (1..d[g]) = ({g} \X (1..c[g])) \cup (IF g = f THEN new ELSE {})
    OBVIOUS
  <2> QED
    BY <2>1 DEF Bytes
<1>2. IsFiniteSet(I) /\ Cardinality(I) = n
  <2>1. PICK a \in Int, b \in Int : a = c[f] + 1 /\ b = c[f] + n /\ c[f] \in Nat
    OBVIOUS
  <2>2. IsFiniteSet(a..b) /\ Cardinality(a..b) = IF a > b THEN 0 ELSE b - a + 1
    BY FS_Interval
  <2> QED
    BY <2>1, <2>2
<1>3. IsFiniteSet(new) /\ Cardinality(new) \in Nat /\ Cardinality(new) <= n
  <2> DEFINE tag == [i \in I |-> <<f, i>>]
  <2>1. \A t \in new : \E i \in I : tag[i] = t
    <3> SUFFICES ASSUME NEW t \in new PROVE \E i \in I : tag[i] = t
      OBVIOUS
    <3>1. PICK i \in I : t = <<f, i>>
      OBVIOUS
    <3> QED
      BY <3>1
  <2>2. tag \in [I -> new]
    OBVIOUS
  <2>3. tag \in Surjection(I, new)
    BY <2>1, <2>2 DEF Surjection
  <2> HIDE DEF tag, I, new
  <2> QED
    BY <1>2, <2>3, FS_Surjection, FS_CardinalityType
<1>4. Cardinality(Bytes(c) \cap new) \in Nat
  BY FS_Intersection, FS_CardinalityType
<1> HIDE DEF new
<1>5. /\ IsFiniteSet(Bytes(c) \cup new)
      /\ Cardinality(Bytes(c) \cup new)
           = Cardinality(Bytes(c)) + Cardinality(new) - Cardinality(Bytes(c) \cap new)
  BY <1>3, FS_Union
<1>6. Cardinality(Bytes(c)) \in Nat /\ Cardinality(Bytes(c) \cup new) \in Nat
  BY <1>5, FS_CardinalityType
<1> HIDE DEF d
<1>7. /\ IsFiniteSet(Bytes(d)) /\ Total(d) \in Nat /\ Total(c) \in Nat
      /\ Total(d) <= Total(c) + n
  BY <1>1, <1>3, <1>4, <1>5, <1>6 DEF Total
<1> QED
  BY <1>7 DEF d

(***************************************************************************)
(* Work begins once, by Start, and does not come back when it is over.     *)
(***************************************************************************)
Begins(f) == pc[f] = "idle" /\ pc'[f] \notin {"idle", "done"}

LEMMA BeginsStep == TypeOK /\ Next => \A g \in Fetch : Begins(g) => Start(g)
<1> SUFFICES ASSUME TypeOK, Next, NEW g \in Fetch, Begins(g) PROVE Start(g)
  OBVIOUS
<1> USE DEF Begins, TypeOK
<1>1. ASSUME NEW f \in Fetch, NEW code, Over(f, code) PROVE FALSE
  BY <1>1 DEF Over
<1>2. ASSUME NEW f \in Fetch, NEW code, pc[f] # "idle", Leave(f, code) PROVE FALSE
  BY <1>2 DEF Leave
<1>3. ASSUME NEW f \in Fetch, Call(f) PROVE Start(g)
  BY <1>1, <1>3 DEF Call, NotAuthorized, HopLimit, AlreadyAborted, NoTimeLeft, Answer,
     Refuse, Finish, Start
<1>4. ASSUME NEW f \in Fetch, Resolves(f) PROVE FALSE
  BY <1>1, <1>4 DEF Resolves, Pinned, Finish
<1>5. ASSUME NEW f \in Fetch, ResolveFails(f) \/ ConnectFails(f) PROVE FALSE
  BY <1>1, <1>5 DEF ResolveFails, ConnectFails, Fails, Finish
<1>6. ASSUME NEW f \in Fetch, Connects(f) PROVE FALSE
  BY <1>2, <1>6 DEF Connects, Accept, Verdict
<1>7. ASSUME NEW f \in Fetch, Responds(f) \/ RespondsBadly(f) \/ ExchangeFails(f) PROVE FALSE
  BY <1>2, <1>7 DEF Responds, RespondsBadly, ExchangeFails, OpenBody
<1>8. ASSUME NEW f \in Fetch, Chunk(f) \/ NextWindow(f) \/ TooSlow(f) PROVE FALSE
  BY <1>2, <1>8 DEF Chunk, Keep, NextWindow, TooSlow, WindowDue
<1>9. ASSUME NEW f \in Fetch,
             BodyAborted(f) \/ BodyUndecodable(f) \/ BodyTooLarge(f) \/ BodyDecoded(f)
      PROVE  FALSE
  BY <1>2, <1>9 DEF BodyAborted, BodyUndecodable, BodyTooLarge, BodyDecoded
<1>10. ASSUME NEW f \in Fetch, Closes(f) PROVE FALSE
  BY <1>1, <1>10 DEF Closes
<1>11. ASSUME NEW f \in Fetch, Deadline(f) \/ CallerAborts(f) PROVE FALSE
  BY <1>11 DEF Deadline, CallerAborts
<1>12. CASE Tick
  BY <1>12 DEF Tick
<1> QED
  BY <1>3, <1>4, <1>5, <1>6, <1>7, <1>8, <1>9, <1>10, <1>11, <1>12 DEF Next, Work

LEMMA StaysOver ==
  TypeOK /\ Next =>
    \A g \in Fetch : pc'[g] \notin {"close", "done"} => pc[g] \notin {"close", "done"}
<1> SUFFICES ASSUME TypeOK, Next, NEW g \in Fetch, pc'[g] \notin {"close", "done"}
             PROVE  pc[g] \notin {"close", "done"}
  OBVIOUS
<1> QED
  BY MovesStep DEF Moves

WorkingSet == {f \in Fetch : Working(f)}

(***************************************************************************)
(* The session's accounts: what the fetches hold has been charged, a fetch *)
(* decodes one body, and work under way has taken a hop.                   *)
(***************************************************************************)
ReceivedCharged == IsFiniteSet(Bytes(received)) /\ Total(received) <= encodedBytes

DecodedCharged ==
  /\ IsFiniteSet(Bytes(decoded)) /\ Total(decoded) <= decompressedBytes
  /\ \A f \in Fetch : pc[f] \notin {"close", "done"} => decoded[f] = 0

WorkCharged == IsFiniteSet(WorkingSet) /\ Cardinality(WorkingSet) <= hops

LEMMA ReceivedStep ==
  TypeOK /\ CapsHeld /\ ReceivedCharged /\ [Next]_vars => ReceivedCharged'
<1> SUFFICES ASSUME TypeOK, CapsHeld, ReceivedCharged, [Next]_vars PROVE ReceivedCharged'
  OBVIOUS
<1>0. /\ encodedBytes \in Nat /\ encodedBytes <= MaxResponseBytes
      /\ MaxResponseBytes \in Nat /\ received \in [Fetch -> Nat] /\ Total(received) \in Nat
  BY PolicyAssumption, FS_CardinalityType DEF TypeOK, CapsHeld, ReceivedCharged, Total
<1>1. ASSUME received' = received, encodedBytes' >= encodedBytes, encodedBytes' \in Nat
      PROVE  ReceivedCharged'
  <2>1. Bytes(received)' = Bytes(received) /\ Total(received)' = Total(received)
    BY <1>1 DEF Total, Bytes
  <2> QED
    BY <1>0, <1>1, <2>1 DEF ReceivedCharged
<1>2. ASSUME NEW f \in Fetch, Chunk(f) PROVE ReceivedCharged'
  <2>1. PICK n \in 1..MaxChunk :
          /\ Charge(n)
          /\ IF encodedBytes + n <= MaxResponseBytes THEN Keep(f, n)
             ELSE Leave(f, "response-too-large") /\ UNCHANGED received
    BY <1>2 DEF Chunk
  <2>2. n \in Nat
    BY BoundAssumption
  <2>3. CASE encodedBytes + n <= MaxResponseBytes
    <3>1. encodedBytes' = encodedBytes + n
      BY <1>0, <2>1, <2>2, <2>3 DEF Charge
    <3>2. received' = [received EXCEPT ![f] = @ + n]
      BY <2>1, <2>3 DEF Keep
    <3>3. PICK d : d = [received EXCEPT ![f] = @ + n]
      OBVIOUS
    <3>4. IsFiniteSet(Bytes(d)) /\ Total(d) \in Nat /\ Total(d) <= Total(received) + n
      BY <1>0, <2>2, <3>3, TotalGrows DEF ReceivedCharged
    <3>5. Bytes(received)' = Bytes(d) /\ Total(received)' = Total(d)
      BY <3>2, <3>3 DEF Total, Bytes
    <3> QED
      BY <1>0, <2>2, <3>1, <3>4, <3>5 DEF ReceivedCharged
  <2>4. CASE ~ (encodedBytes + n <= MaxResponseBytes)
    BY <1>0, <1>1, <2>1, <2>2, <2>4 DEF Charge
  <2> QED
    BY <2>3, <2>4
<1>3. CASE UNCHANGED <<received, encodedBytes>>
  BY <1>0, <1>1, <1>3
<1> QED
  BY <1>2, <1>3 DEF Next, Call, Work, Tick, vars, session, body, NotAuthorized, HopLimit,
     AlreadyAborted, NoTimeLeft, Answer, Refuse, Start, Charged, Resolves, ResolveFails,
     ConnectFails, Fails, Connects, Responds, RespondsBadly, ExchangeFails, NextWindow,
     TooSlow, BodyAborted, BodyUndecodable, BodyTooLarge, BodyDecoded, Closes, Deadline,
     CallerAborts

LEMMA DecodedStep ==
  TypeOK /\ CapsHeld /\ DecodedCharged /\ [Next]_vars => DecodedCharged'
<1> SUFFICES ASSUME TypeOK, CapsHeld, DecodedCharged, [Next]_vars PROVE DecodedCharged'
  OBVIOUS
<1>0. /\ decompressedBytes \in Nat /\ decompressedBytes <= MaxDecompressedBytes
      /\ MaxDecompressedBytes \in Nat /\ decoded \in [Fetch -> Nat] /\ Total(decoded) \in Nat
  BY PolicyAssumption, FS_CardinalityType DEF TypeOK, CapsHeld, DecodedCharged, Total
<1>1. ASSUME decoded' = decoded, decompressedBytes' >= decompressedBytes,
             decompressedBytes' \in Nat, [Next]_vars
      PROVE  DecodedCharged'
  <2>1. Bytes(decoded)' = Bytes(decoded) /\ Total(decoded)' = Total(decoded)
    BY <1>1 DEF Total, Bytes
  <2>2. \A f \in Fetch : pc'[f] \notin {"close", "done"} => pc[f] \notin {"close", "done"}
    <3>1. CASE UNCHANGED vars
      BY <3>1 DEF vars
    <3>2. CASE Next
      BY <3>2, StaysOver
    <3> QED
      BY <1>1, <3>1, <3>2
  <2> QED
    BY <1>0, <1>1, <2>1, <2>2 DEF DecodedCharged
<1>2. ASSUME NEW f \in Fetch, BodyTooLarge(f) PROVE DecodedCharged'
  BY <1>0, <1>1, <1>2 DEF BodyTooLarge, body
<1>3. ASSUME NEW f \in Fetch, BodyDecoded(f) PROVE DecodedCharged'
  <2>1. PICK n \in 0..MaxDecompressedBytes :
          /\ decompressedBytes' = decompressedBytes + n
          /\ decoded' = [decoded EXCEPT ![f] = n]
    BY <1>3 DEF BodyDecoded
  <2>2. n \in Nat /\ decoded[f] = 0
    BY <1>0, <1>3 DEF BodyDecoded, DecodedCharged
  <2>3. PICK d : d = [decoded EXCEPT ![f] = @ + n]
    OBVIOUS
  <2>4. IsFiniteSet(Bytes(d)) /\ Total(d) \in Nat /\ Total(d) <= Total(decoded) + n
    BY <1>0, <2>2, <2>3, TotalGrows DEF DecodedCharged
  <2>5. decoded' = d
    BY <1>0, <2>1, <2>2, <2>3
  <2>6. Bytes(decoded)' = Bytes(d) /\ Total(decoded)' = Total(d)
    BY <2>5 DEF Total, Bytes
  <2>7. \A g \in Fetch : pc'[g] \notin {"close", "done"} => decoded'[g] = 0
    BY <1>0, <1>3, <2>1 DEF BodyDecoded, Leave, TypeOK, DecodedCharged
  <2> QED
    BY <1>0, <2>1, <2>2, <2>4, <2>6, <2>7 DEF DecodedCharged
<1>4. CASE UNCHANGED <<decoded, decompressedBytes>>
  BY <1>0, <1>1, <1>4
<1> QED
  BY <1>2, <1>3, <1>4 DEF Next, Call, Work, Tick, vars, session, body, NotAuthorized,
     HopLimit, AlreadyAborted, NoTimeLeft, Answer, Refuse, Start, Charged, Resolves,
     ResolveFails, ConnectFails, Fails, Connects, Responds, RespondsBadly, ExchangeFails,
     Chunk, NextWindow, TooSlow, BodyAborted, BodyUndecodable, Closes, Deadline,
     CallerAborts

LEMMA DoneStep == TypeOK /\ Next => \A g \in Fetch : pc[g] = "done" => pc'[g] = "done"
<1> SUFFICES ASSUME TypeOK, Next, NEW g \in Fetch, pc[g] = "done" PROVE pc'[g] = "done"
  OBVIOUS
<1> USE DEF TypeOK
<1>1. ASSUME NEW f \in Fetch, NEW code, Over(f, code) PROVE pc'[g] = "done"
  BY <1>1 DEF Over
<1>2. ASSUME NEW f \in Fetch, NEW code, pc[f] # "done", Leave(f, code) PROVE pc'[g] = "done"
  BY <1>2 DEF Leave
<1>3. ASSUME NEW f \in Fetch, Call(f) PROVE pc'[g] = "done"
  BY <1>1, <1>3 DEF Call, NotAuthorized, HopLimit, AlreadyAborted, NoTimeLeft, Answer,
     Refuse, Finish, Start, Charged
<1>4. ASSUME NEW f \in Fetch, Resolves(f) \/ ResolveFails(f) \/ ConnectFails(f) \/ Closes(f)
      PROVE  pc'[g] = "done"
  BY <1>1, <1>4 DEF Resolves, Pinned, Finish, ResolveFails, ConnectFails, Fails, Closes
<1>5. ASSUME NEW f \in Fetch,
             Connects(f) \/ Responds(f) \/ RespondsBadly(f) \/ ExchangeFails(f)
      PROVE  pc'[g] = "done"
  BY <1>2, <1>5 DEF Connects, Accept, Responds, RespondsBadly, ExchangeFails, OpenBody
<1>6. ASSUME NEW f \in Fetch, Chunk(f) \/ NextWindow(f) \/ TooSlow(f) PROVE pc'[g] = "done"
  BY <1>2, <1>6 DEF Chunk, Keep, NextWindow, TooSlow, WindowDue
<1>7. ASSUME NEW f \in Fetch,
             BodyAborted(f) \/ BodyUndecodable(f) \/ BodyTooLarge(f) \/ BodyDecoded(f)
      PROVE  pc'[g] = "done"
  BY <1>2, <1>7 DEF BodyAborted, BodyUndecodable, BodyTooLarge, BodyDecoded
<1>8. CASE UNCHANGED pc
  BY <1>8
<1> QED
  BY <1>3, <1>4, <1>5, <1>6, <1>7, <1>8 DEF Next, Work, Deadline, CallerAborts, Tick

LEMMA WorkStep == TypeOK /\ WorkCharged /\ [Next]_vars => WorkCharged'
<1> SUFFICES ASSUME TypeOK, WorkCharged, [Next]_vars PROVE WorkCharged'
  OBVIOUS
<1>0. hops \in Nat /\ Cardinality(WorkingSet) \in Nat
  BY FS_CardinalityType DEF TypeOK, WorkCharged
<1>1. ASSUME NEW f \in Fetch, Start(f) PROVE WorkCharged'
  <2>1. hops' = hops + 1 /\ pc' = [pc EXCEPT ![f] = "dns"]
    BY <1>1 DEF Start, Charged
  <2>2. WorkingSet' = WorkingSet \cup {f}
    BY <1>1, <2>1 DEF WorkingSet, Working, TypeOK
  <2>3. /\ IsFiniteSet(WorkingSet \cup {f})
        /\ Cardinality(WorkingSet \cup {f})
             = IF f \in WorkingSet THEN Cardinality(WorkingSet) ELSE Cardinality(WorkingSet) + 1
    BY FS_AddElement DEF WorkCharged
  <2> QED
    BY <1>0, <2>1, <2>2, <2>3 DEF WorkCharged
<1>2. ASSUME WorkingSet' \subseteq WorkingSet, hops' >= hops, hops' \in Nat
      PROVE  WorkCharged'
  <2>1. PICK W : W = WorkingSet'
    OBVIOUS
  <2>2. IsFiniteSet(W) /\ Cardinality(W) <= Cardinality(WorkingSet) /\ Cardinality(W) \in Nat
    BY <1>2, <2>1, FS_Subset, FS_CardinalityType DEF WorkCharged
  <2>3. Cardinality(WorkingSet)' = Cardinality(W)
    BY <2>1
  <2> QED
    BY <1>0, <1>2, <2>1, <2>2, <2>3 DEF WorkCharged
<1>3. CASE UNCHANGED vars
  BY <1>0, <1>2, <1>3 DEF vars, session, WorkingSet, Working
<1>4. CASE Next /\ ~ \E f \in Fetch : Start(f)
  <2>1. hops' \in Nat /\ hops' >= hops
    BY <1>0, <1>4 DEF Next, Call, Work, Tick, session, NotAuthorized, HopLimit,
       AlreadyAborted, NoTimeLeft, Answer, Refuse, Charged, Resolves, ResolveFails,
       ConnectFails, Fails, Connects, Responds, RespondsBadly, ExchangeFails, Chunk,
       NextWindow, TooSlow, BodyAborted, BodyUndecodable, BodyTooLarge, BodyDecoded,
       Closes, Deadline, CallerAborts
  <2>2. ASSUME NEW g \in Fetch, pc'[g] \notin {"idle", "done"}
        PROVE  pc[g] \notin {"idle", "done"}
    <3>1. ~ Begins(g)
      BY <1>4, BeginsStep
    <3>2. pc[g] # "done"
      BY <1>4, <2>2, DoneStep
    <3> QED
      BY <2>2, <3>1, <3>2 DEF Begins
  <2>3. WorkingSet' \subseteq WorkingSet
    BY <2>2 DEF WorkingSet, Working
  <2> QED
    BY <1>2, <2>1, <2>3
<1> QED
  BY <1>1, <1>3, <1>4

(* One more window closed is one more floor delivered. *)
LEMMA WindowsCounted ==
  ASSUME NEW d \in Nat
  PROVE  (d + Window) \div Window = (d \div Window) + 1 /\ d \div Window \in Nat
<1>1. Window \in Nat /\ Window > 0
  BY PolicyAssumption
<1>2. PICK q \in Int, r \in 0..(Window - 1) : d = Window * q + r /\ q = d \div Window
  BY <1>1
<1>3. d + Window = Window * (q + 1) + r
  BY <1>1, <1>2
<1> QED
  BY <1>1, <1>2, <1>3

(* A body that is read started its window at or after its start, and what  *)
(* is counted in a window is counted while the body is read.               *)
FloorInv ==
  /\ FloorHeld
  /\ \A f \in Fetch : IF pc[f] = "body" THEN windowStart[f] >= bodyStart[f]
                                        ELSE windowBytes[f] = 0

LEMMA FloorStep == TypeOK /\ FloorInv /\ [Next]_vars => FloorInv'
<1> SUFFICES ASSUME TypeOK, FloorInv, [Next]_vars PROVE FloorInv'
  OBVIOUS
<1> DEFINE Floor(g) ==
      IF pc[g] = "body"
      THEN /\ windowStart[g] >= bodyStart[g]
           /\ received[g] - windowBytes[g] >=
                MinThroughputBytes * ((windowStart[g] - bodyStart[g]) \div Window)
      ELSE windowBytes[g] = 0
<1>1. \A g \in Fetch : Floor(g)
  BY DEF FloorInv, FloorHeld
<1>2. SUFFICES ASSUME NEW g \in Fetch PROVE Floor(g)'
  BY DEF FloorInv, FloorHeld
<1>3. /\ received[g] \in Nat /\ windowBytes[g] \in Nat /\ windowStart[g] \in Nat
      /\ bodyStart[g] \in Nat /\ MinThroughputBytes \in Nat /\ Window \in Nat /\ Window > 0
      /\ now \in Nat
  BY PolicyAssumption DEF TypeOK
<1>4. ASSUME (pc'[g] = "body") <=> (pc[g] = "body"), received'[g] = received[g],
             windowBytes'[g] = windowBytes[g], windowStart'[g] = windowStart[g],
             bodyStart'[g] = bodyStart[g]
      PROVE  Floor(g)'
  BY <1>1, <1>4
<1>5. ASSUME NEW f \in Fetch, NEW code, pc[f] # "body" \/ f # g, Over(f, code),
             UNCHANGED <<received, reading>>
      PROVE  Floor(g)'
  BY <1>4, <1>5 DEF Over, reading, TypeOK
<1>6. ASSUME NEW f \in Fetch, NEW code, Leave(f, code), UNCHANGED received
      PROVE  Floor(g)'
  <2>1. CASE f = g
    BY <1>6, <2>1 DEF Leave, TypeOK
  <2>2. CASE f # g
    BY <1>4, <1>6, <2>2 DEF Leave, TypeOK
  <2> QED
    BY <2>1, <2>2
<1>7. ASSUME NEW f \in Fetch, \E n \in 1..MaxChunk : Keep(f, n), pc[f] = "body"
      PROVE  Floor(g)'
  <2>1. PICK n \in Nat : Keep(f, n)
    BY <1>7, BoundAssumption
  <2>2. CASE f = g
    <3>1. /\ received'[g] = received[g] + n /\ windowBytes'[g] = windowBytes[g] + n
          /\ pc'[g] = pc[g] /\ windowStart'[g] = windowStart[g] /\ bodyStart'[g] = bodyStart[g]
      BY <2>1, <2>2 DEF Keep, TypeOK
    <3>2. received'[g] - windowBytes'[g] = received[g] - windowBytes[g]
      BY <1>3, <3>1
    <3> QED
      BY <1>1, <1>7, <2>2, <3>1, <3>2
  <2>3. CASE f # g
    BY <1>4, <2>1, <2>3 DEF Keep, TypeOK
  <2> QED
    BY <2>2, <2>3
<1>8. ASSUME NEW f \in Fetch, NextWindow(f) PROVE Floor(g)'
  <2>1. CASE f = g
    <3>1. /\ received'[g] = received[g] /\ windowBytes'[g] = 0 /\ pc'[g] = "body"
          /\ windowStart'[g] = windowStart[g] + Window /\ bodyStart'[g] = bodyStart[g]
          /\ windowBytes[g] >= MinThroughputBytes /\ pc[g] = "body"
      BY <1>8, <2>1 DEF NextWindow, WindowDue, body, TypeOK
    <3>2. PICK d \in Nat : d = windowStart[g] - bodyStart[g]
      BY <1>1, <1>3, <3>1
    <3>3. PICK k \in Nat : k = d \div Window
      BY WindowsCounted
    <3>4. (d + Window) \div Window = k + 1
      BY <3>3, WindowsCounted
    <3>5. windowStart'[g] - bodyStart'[g] = d + Window
      BY <1>3, <3>1, <3>2
    <3>6. received[g] - windowBytes[g] >= MinThroughputBytes * k
      BY <1>1, <3>1, <3>2, <3>3
    <3>7. MinThroughputBytes * (k + 1) = MinThroughputBytes * k + MinThroughputBytes
      BY <1>3
    <3>8. PICK m \in Nat : m = MinThroughputBytes * k
      BY <1>3
    <3>9. received[g] >= m + MinThroughputBytes
      BY <1>3, <3>1, <3>6, <3>8
    <3>10. received'[g] - windowBytes'[g] >= MinThroughputBytes * (k + 1)
      BY <1>3, <3>1, <3>7, <3>8, <3>9
    <3>11. windowStart'[g] >= bodyStart'[g]
      BY <1>1, <1>3, <3>1
    <3> QED
      BY <3>1, <3>4, <3>5, <3>10, <3>11
  <2>2. CASE f # g
    BY <1>4, <1>8, <2>2 DEF NextWindow, body, TypeOK
  <2> QED
    BY <2>1, <2>2
<1>9. ASSUME NEW f \in Fetch, pc[f] = "http", OpenBody(f), UNCHANGED received PROVE Floor(g)'
  <2>1. CASE f = g
    <3>1. /\ received'[g] = received[g] /\ windowBytes'[g] = 0 /\ pc'[g] = "body"
          /\ windowStart'[g] = now /\ bodyStart'[g] = now
      BY <1>1, <1>9, <2>1 DEF OpenBody, TypeOK
    <3>2. (now - now) \div Window = 0 /\ now >= now /\ MinThroughputBytes * 0 = 0
      BY <1>3
    <3> QED
      BY <1>3, <3>1, <3>2
  <2>2. CASE f # g
    BY <1>4, <1>9, <2>2 DEF OpenBody, TypeOK
  <2> QED
    BY <2>1, <2>2
<1> HIDE DEF Floor
<1>10. ASSUME NEW f \in Fetch, Call(f) PROVE Floor(g)'
  <2>1. CASE Refuse(f)
    BY <1>5, <2>1 DEF Refuse, Charged, Finish, body
  <2>2. CASE NotAuthorized(f) \/ HopLimit(f) \/ AlreadyAborted(f) \/ NoTimeLeft(f) \/ Start(f)
    <3>1. /\ UNCHANGED <<received, windowBytes, windowStart, bodyStart>>
          /\ (pc'[g] = "body") <=> (pc[g] = "body")
      BY <2>2 DEF NotAuthorized, HopLimit, AlreadyAborted, NoTimeLeft, Answer, Start,
         Charged, reading, body, TypeOK
    <3> QED
      BY <1>4, <3>1
  <2> QED
    BY <1>10, <2>1, <2>2 DEF Call
<1>11. ASSUME NEW f \in Fetch, Resolves(f) \/ ResolveFails(f) \/ ConnectFails(f) \/ Closes(f)
       PROVE  Floor(g)'
  <2>1. ASSUME NEW answers, Pinned(f, answers), UNCHANGED received, pc[f] = "dns"
        PROVE  Floor(g)'
    BY <1>4, <2>1 DEF Pinned, reading, TypeOK
  <2> QED
    BY <1>5, <1>11, <2>1 DEF Resolves, Finish, ResolveFails, ConnectFails, Fails, Closes, body
<1>12. ASSUME NEW f \in Fetch,
              Connects(f) \/ Responds(f) \/ RespondsBadly(f) \/ ExchangeFails(f)
       PROVE  Floor(g)'
  <2>1. ASSUME Accept(f), UNCHANGED received, pc[f] = "connect" PROVE Floor(g)'
    BY <1>4, <2>1 DEF Accept, reading, TypeOK
  <2> QED
    BY <1>6, <1>9, <1>12, <2>1 DEF Connects, Responds, RespondsBadly, ExchangeFails, body
<1>13. ASSUME NEW f \in Fetch, Chunk(f) \/ TooSlow(f) PROVE Floor(g)'
  BY <1>6, <1>7, <1>13 DEF Chunk, TooSlow, body
<1>14. ASSUME NEW f \in Fetch,
              BodyAborted(f) \/ BodyUndecodable(f) \/ BodyTooLarge(f) \/ BodyDecoded(f)
       PROVE  Floor(g)'
  BY <1>6, <1>14 DEF BodyAborted, BodyUndecodable, BodyTooLarge, BodyDecoded, body
<1>15. CASE UNCHANGED <<pc, received, reading>>
  BY <1>4, <1>15 DEF reading
<1> QED
  BY <1>8, <1>10, <1>11, <1>12, <1>13, <1>14, <1>15 DEF Next, Work, Deadline, CallerAborts,
     Tick, vars, body

-----------------------------------------------------------------------------
(***************************************************************************)
(* Success is decided while the body is decoded and answered when the      *)
(* connection has closed: it is nowhere before that.  Past the deadline    *)
(* nothing that is still awaited can come to it.                           *)
(***************************************************************************)
SuccessIsLast ==
  \A f \in Fetch : /\ pc[f] # "done" => outcome[f] # "success"
                   /\ pc[f] # "close" => result[f] = "none"

TooLate(f) ==
  now >= MaxTotalTime /\ pc[f] # "idle" /\ outcome[f] # "success" /\ result[f] # "success"

LEMMA SuccessStep == TypeOK /\ SuccessIsLast /\ [Next]_vars => SuccessIsLast'
<1> SUFFICES ASSUME TypeOK, SuccessIsLast, [Next]_vars, NEW g \in Fetch
             PROVE  /\ pc'[g] # "done" => outcome'[g] # "success"
                    /\ pc'[g] # "close" => result'[g] = "none"
  BY DEF SuccessIsLast
<1> DEFINE Last(f) == /\ pc[f] # "done" => outcome[f] # "success"
                      /\ pc[f] # "close" => result[f] = "none"
<1>0. Last(g)
  BY DEF SuccessIsLast
<1> SUFFICES Last(g)'
  OBVIOUS
<1>1. ASSUME NEW f \in Fetch, NEW code, Over(f, code) PROVE Last(g)'
  BY <1>0, <1>1 DEF Over, Settle, TypeOK
<1>2. ASSUME NEW f \in Fetch, NEW code, pc[f] # "done", Leave(f, code) PROVE Last(g)'
  BY <1>0, <1>2 DEF Leave, TypeOK
<1>3. ASSUME NEW f \in Fetch, pc[f] \notin {"close", "done"}, pc'[f] # "close",
             pc' = [pc EXCEPT ![f] = pc'[f]], UNCHANGED <<outcome, result>>
      PROVE  Last(g)'
  BY <1>0, <1>3 DEF TypeOK
<1>4. ASSUME UNCHANGED <<pc, result, outcome>> PROVE Last(g)'
  BY <1>0, <1>4
<1>5. ASSUME NEW f \in Fetch, NEW code, Answer(f, code) PROVE Last(g)'
  BY <1>0, <1>5 DEF Answer, TypeOK
<1>6. ASSUME NEW f \in Fetch, Deadline(f) PROVE Last(g)'
  BY <1>0, <1>6 DEF Deadline, TypeOK
<1> HIDE DEF Last
<1>7. ASSUME NEW f \in Fetch, Call(f) PROVE Last(g)'
  <2>1. CASE Start(f)
    BY <1>3, <2>1 DEF Start, Charged, TypeOK
  <2> QED
    BY <1>1, <1>5, <1>7, <2>1 DEF Call, NotAuthorized, HopLimit, AlreadyAborted, NoTimeLeft,
       Refuse, Finish
<1>8. ASSUME NEW f \in Fetch, Resolves(f) \/ ResolveFails(f) \/ ConnectFails(f) \/ Closes(f)
      PROVE  Last(g)'
  <2>1. ASSUME NEW answers, Pinned(f, answers), pc[f] = "dns" PROVE Last(g)'
    BY <1>3, <2>1 DEF Pinned, TypeOK
  <2> QED
    BY <1>1, <1>8, <2>1 DEF Resolves, Finish, ResolveFails, ConnectFails, Fails, Closes
<1>9. ASSUME NEW f \in Fetch,
             Connects(f) \/ Responds(f) \/ RespondsBadly(f) \/ ExchangeFails(f)
      PROVE  Last(g)'
  <2>1. ASSUME Accept(f), pc[f] = "connect" PROVE Last(g)'
    BY <1>3, <2>1 DEF Accept, TypeOK
  <2>2. ASSUME OpenBody(f), pc[f] = "http" PROVE Last(g)'
    BY <1>3, <2>2 DEF OpenBody, TypeOK
  <2> QED
    BY <1>2, <1>9, <2>1, <2>2 DEF Connects, Responds, RespondsBadly, ExchangeFails
<1>10. ASSUME NEW f \in Fetch, Chunk(f) \/ NextWindow(f) \/ TooSlow(f) PROVE Last(g)'
  BY <1>2, <1>4, <1>10 DEF Chunk, Keep, NextWindow, TooSlow, WindowDue
<1>11. ASSUME NEW f \in Fetch,
              BodyAborted(f) \/ BodyUndecodable(f) \/ BodyTooLarge(f) \/ BodyDecoded(f)
       PROVE  Last(g)'
  BY <1>2, <1>11 DEF BodyAborted, BodyUndecodable, BodyTooLarge, BodyDecoded
<1>12. CASE (\E f \in Fetch : CallerAborts(f)) \/ Tick \/ UNCHANGED vars
  BY <1>4, <1>12 DEF CallerAborts, Tick, vars
<1> QED
  BY <1>6, <1>7, <1>8, <1>9, <1>10, <1>11, <1>12 DEF Next, Work

LEMMA LateStep ==
  ASSUME NEW g \in Fetch
  PROVE  TypeOK /\ SuccessIsLast /\ TooLate(g) /\ [Next]_vars => TooLate(g)'
<1> SUFFICES ASSUME TypeOK, SuccessIsLast, TooLate(g), [Next]_vars PROVE TooLate(g)'
  OBVIOUS
<1>0. /\ now >= MaxTotalTime /\ now \in Nat /\ MaxTotalTime \in Nat
      /\ pc[g] # "idle" /\ outcome[g] # "success" /\ result[g] # "success"
      /\ pc \in [Fetch -> {"idle", "dns", "connect", "http", "body", "close", "done"}]
      /\ DOMAIN outcome = Fetch /\ DOMAIN result = Fetch
  BY PolicyAssumption DEF TypeOK, TooLate
<1>1. now' >= MaxTotalTime /\ pc'[g] # "idle"
  <2>1. now' = now \/ now' = now + 1
    BY DEF Next, Call, Work, Tick, vars, NotAuthorized, HopLimit, AlreadyAborted, NoTimeLeft,
       Answer, Refuse, Start, Charged, Resolves, ResolveFails, ConnectFails, Fails, Connects,
       Responds, RespondsBadly, ExchangeFails, Chunk, NextWindow, TooSlow, BodyAborted,
       BodyUndecodable, BodyTooLarge, BodyDecoded, Closes, Deadline, CallerAborts
  <2>2. pc'[g] # "idle"
    <3>1. CASE UNCHANGED vars
      BY <1>0, <3>1 DEF vars
    <3>2. CASE Next
      BY <1>0, <3>2, MovesStep DEF Moves
    <3> QED
      BY <3>1, <3>2
  <2> QED
    BY <1>0, <2>1, <2>2
<1> DEFINE Fails2 == outcome'[g] # "success" /\ result'[g] # "success"
<1> SUFFICES Fails2
  BY <1>1 DEF TooLate
<1>2. ASSUME NEW f \in Fetch, NEW code, f = g => code # "success", Over(f, code)
      PROVE  Fails2
  <2>1. f = g => CaughtAs(f, code) # "success"
    BY <1>2 DEF CaughtAs
  <2> QED
    BY <1>0, <1>2, <2>1 DEF Over, Settle
<1>3. ASSUME NEW f \in Fetch, NEW code, code # "success", Leave(f, code) PROVE Fails2
  BY <1>0, <1>3 DEF Leave
<1>4. ASSUME UNCHANGED <<outcome, result>> PROVE Fails2
  BY <1>0, <1>4
<1>5. ASSUME NEW f \in Fetch, NEW code, Answer(f, code) PROVE Fails2
  BY <1>0, <1>5 DEF Answer
<1>6. ASSUME NEW f \in Fetch, Deadline(f) PROVE Fails2
  BY <1>0, <1>6 DEF Deadline
<1> HIDE DEF Fails2
<1>7. ASSUME NEW f \in Fetch, Call(f) PROVE Fails2
  BY <1>2, <1>4, <1>5, <1>7 DEF Call, NotAuthorized, HopLimit, AlreadyAborted, NoTimeLeft,
     Refuse, Finish, Start
<1>8. ASSUME NEW f \in Fetch, Resolves(f) \/ ResolveFails(f) \/ ConnectFails(f)
      PROVE  Fails2
  BY <1>2, <1>4, <1>8 DEF Resolves, Finish, ResolveFails, ConnectFails, Fails, Pinned,
     pinDestination, operationCause
<1>9. ASSUME NEW f \in Fetch, Closes(f) PROVE Fails2
  BY <1>0, <1>2, <1>9 DEF Closes
<1>10. ASSUME NEW f \in Fetch,
              Connects(f) \/ Responds(f) \/ RespondsBadly(f) \/ ExchangeFails(f)
       PROVE  Fails2
  BY <1>3, <1>4, <1>10 DEF Connects, Responds, RespondsBadly, ExchangeFails, Accept,
     OpenBody, Verdict, operationCause
<1>11. ASSUME NEW f \in Fetch, Chunk(f) \/ NextWindow(f) \/ TooSlow(f) PROVE Fails2
  BY <1>3, <1>4, <1>11 DEF Chunk, Keep, NextWindow, TooSlow
<1>12. ASSUME NEW f \in Fetch, BodyAborted(f) \/ BodyUndecodable(f) \/ BodyTooLarge(f)
       PROVE  Fails2
  BY <1>3, <1>12 DEF BodyAborted, BodyUndecodable, BodyTooLarge
<1>13. ASSUME NEW f \in Fetch, BodyDecoded(f) PROVE Fails2
  <2>1. ~ InTime
    BY <1>0 DEF InTime, remainingTime
  <2> QED
    BY <1>3, <1>13, <2>1 DEF BodyDecoded
<1>14. CASE (\E f \in Fetch : CallerAborts(f)) \/ Tick \/ UNCHANGED vars
  BY <1>4, <1>14 DEF CallerAborts, Tick, vars
<1> QED
  BY <1>6, <1>7, <1>8, <1>9, <1>10, <1>11, <1>12, <1>13, <1>14 DEF Next, Work

-----------------------------------------------------------------------------
LEMMA BudgetsInit ==
  Init => ReceivedCharged /\ DecodedCharged /\ WorkCharged /\ FloorInv /\ SuccessIsLast
<1> SUFFICES ASSUME Init
             PROVE  ReceivedCharged /\ DecodedCharged /\ WorkCharged /\ FloorInv
                      /\ SuccessIsLast
  OBVIOUS
<1>1. \A f \in Fetch : {f} \X (1..0) = {}
  OBVIOUS
<1>2. Bytes(received) = {} /\ Bytes(decoded) = {}
  BY <1>1 DEF Init, Bytes
<1>3. WorkingSet = {}
  BY DEF Init, WorkingSet, Working
<1> QED
  BY <1>2, <1>3, FS_EmptySet DEF Init, ReceivedCharged, DecodedCharged, WorkCharged, FloorInv,
     FloorHeld, SuccessIsLast, Total

(***************************************************************************)
(* For every policy and any number of fetches, abandoned ones included:    *)
(* the encoded bytes of all bodies together, and the decoded ones, are     *)
(* within what the session was charged and so within the policy; and there *)
(* is never more work than hops taken (fetch, execute, readEncodedBody).   *)
(***************************************************************************)
THEOREM BudgetsKept == Spec => []BudgetsHeld
<1>1. Inv /\ ReceivedCharged /\ DecodedCharged /\ WorkCharged => BudgetsHeld
  BY DEF Inv, ReceivedCharged, DecodedCharged, WorkCharged, WorkingSet, BudgetsHeld
<1>2. Inv /\ ReceivedCharged /\ [Next]_vars => ReceivedCharged'
  BY ReceivedStep DEF Inv
<1>3. Inv /\ DecodedCharged /\ [Next]_vars => DecodedCharged'
  BY DecodedStep DEF Inv
<1>4. Inv /\ WorkCharged /\ [Next]_vars => WorkCharged'
  BY WorkStep DEF Inv
<1> QED
  BY <1>1, <1>2, <1>3, <1>4, BudgetsInit, Invariance, PTL DEF Spec

(***************************************************************************)
(* For every floor and window: a body that is still read has delivered the *)
(* floor for each window that has closed (readEncodedBody).                *)
(***************************************************************************)
THEOREM FloorKept == Spec => []FloorHeld
<1>1. Inv /\ FloorInv /\ [Next]_vars => FloorInv'
  BY FloorStep DEF Inv
<1>2. FloorInv => FloorHeld
  BY DEF FloorInv
<1> QED
  BY <1>1, <1>2, BudgetsInit, Invariance, PTL DEF Spec

(***************************************************************************)
(* Work that is still awaited at the deadline never becomes a success,     *)
(* however late the timer fires (execute, safe-transport.ts:294-303).      *)
(***************************************************************************)
THEOREM LateIsNoSuccess == Spec => LateIsNeverSuccess
<1> SUFFICES ASSUME NEW f \in Fetch
             PROVE  Spec => []((Awaited(f) /\ remainingTime <= 0) => [](outcome[f] # "success"))
  BY DEF LateIsNeverSuccess
<1>1. Inv /\ SuccessIsLast /\ [Next]_vars => SuccessIsLast'
  BY SuccessStep DEF Inv
<1>2. Inv /\ SuccessIsLast /\ TooLate(f) /\ [Next]_vars => TooLate(f)'
  BY LateStep DEF Inv
<1>3. Inv /\ SuccessIsLast /\ Awaited(f) /\ remainingTime <= 0 => TooLate(f)
  BY PolicyAssumption DEF Inv, TypeOK, SuccessIsLast, Awaited, remainingTime, TooLate
<1>4. TooLate(f) => outcome[f] # "success"
  BY DEF TooLate
<1> QED
  BY <1>1, <1>2, <1>3, <1>4, BudgetsInit, Invariance, PTL DEF Spec
=============================================================================
