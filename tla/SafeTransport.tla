---------------------------- MODULE SafeTransport ---------------------------
(***************************************************************************)
(* One session of the online package's transport boundary                  *)
(* (transport/safe-transport.ts) with any number of fetches over it,       *)
(* concurrent or one after the other.  A fetch races its work (resolve,    *)
(* pin, connect, request, read, decode, close) against the session's       *)
(* deadline; work that loses the race is abandoned, not stopped, and goes  *)
(* on touching the session until its ports settle.                         *)
(*                                                                         *)
(* The resolver, the connector and the HTTP port are external: each await  *)
(* of one of them ends in any of the ways its type allows, or never.  An   *)
(* Endpoint stands for the protocol, address and port of a peer.  Time is  *)
(* in whole units, timers fire when due or later.                          *)
(***************************************************************************)
EXTENDS Integers, Sequences, FiniteSets, Functions

CONSTANTS
  Fetch,                  \* calls of fetch on this session
  Secure,                 \* the ones whose URL is https
  Endpoint,               \* what a resolver may answer and a socket may reach
  Allowed,                \* endpoints classifyTransportAddress lets through
  Malformed,              \* answers that are not an IP address
  None,                   \* no endpoint
  MaxHops, MaxResponseBytes, MaxDecompressedBytes, MaxTotalTime,
  MinThroughputBytes, Window,       \* resolveTransportPolicy
  MaxAnswers,             \* bound: answers of one resolution
  MaxChunk,               \* bound: bytes of one chunk
  MaxTime                 \* bound: end of modelled time

(* resolveTransportPolicy refuses a limit that is not positive. *)
ASSUME PolicyAssumption ==
  /\ MaxHops \in Nat \ {0}
  /\ MaxResponseBytes \in Nat \ {0}
  /\ MaxDecompressedBytes \in Nat \ {0}
  /\ MaxTotalTime \in Nat \ {0}
  /\ MinThroughputBytes \in Nat \ {0}
  /\ Window \in Nat \ {0}

ASSUME PeerAssumption ==
  /\ Secure \subseteq Fetch
  /\ Allowed \subseteq Endpoint
  /\ Malformed \subseteq Endpoint
  /\ Allowed \cap Malformed = {}
  /\ None \notin Endpoint

ASSUME BoundAssumption ==
  MaxAnswers \in Nat /\ MaxChunk \in Nat /\ MaxTime \in Nat

VARIABLES
  now,                \* time since the session was created
  hops, encodedBytes, decompressedBytes,      \* the session's counters
  pc,                 \* where the work of a fetch is
  signal,             \* its operationController has been aborted
  caller,             \* the caller's own signal has been aborted
  resolved, selected, \* AttemptState: the answers and the pinned one
  remote, authorized, \* the open connection: its peer, its TLS verdict
  received,           \* bytes of the body read so far
  bodyStart, windowStart, windowBytes,        \* readEncodedBody
  decoded,            \* bytes of the decoded body
  result,             \* what the work returns or throws
  outcome             \* what fetch has resolved with

session == <<hops, encodedBytes, decompressedBytes>>
pins    == <<resolved, selected>>
link    == <<remote, authorized>>
reading == <<bodyStart, windowStart, windowBytes>>
body    == <<received, decoded>>
vars == <<now, session, pc, signal, caller, pins, link, reading, body, result,
          outcome>>

(***************************************************************************)
(* Outcomes, by how fetch comes to answer them: execute returns the first  *)
(* ones and throws the others.  "refused" stands for the five refusals of  *)
(* a request by its shape (invalid-url to referer-not-same-origin).        *)
(***************************************************************************)
Returned == {"refused", "prohibited-address", "success"}

PhaseTimeouts == {"dns-timeout", "connect-timeout", "http-timeout"}
BudgetErrors ==
  {"response-too-large", "response-too-slow", "response-headers-too-large",
   "decompressed-response-too-large"}
OperationErrors ==
  PhaseTimeouts \cup
  {"dns-not-found", "dns-malformed", "dns-error", "connect-error",
   "connection-address-mismatch", "tls-certificate", "http-malformed",
   "http-error", "unsupported-content-encoding", "decompression-error"}
Stops == {"hop-limit", "caller-aborted", "timeout"}

Codes == Returned \cup BudgetErrors \cup OperationErrors \cup Stops
           \cup {"authorization-required"}

(***************************************************************************)
(* A port rejects with a code of its own or with an error that carries     *)
(* none, which becomes the phase's.  The other codes ports assert are told *)
(* apart by nothing here.                                                  *)
(***************************************************************************)
operationCause(phase) ==
  CASE phase = "dns"     -> {"dns-error", "dns-timeout"}
    [] phase = "connect" -> {"connect-error", "connect-timeout"}
    [] OTHER             -> {"http-error", "http-timeout", "http-malformed"}

Init ==
  /\ now = 0
  /\ hops = 0 /\ encodedBytes = 0 /\ decompressedBytes = 0
  /\ pc = [f \in Fetch |-> "idle"]
  /\ signal = [f \in Fetch |-> FALSE]
  /\ caller = [f \in Fetch |-> FALSE]
  /\ resolved = [f \in Fetch |-> {}]
  /\ selected = [f \in Fetch |-> None]
  /\ remote = [f \in Fetch |-> None]
  /\ authorized = [f \in Fetch |-> FALSE]
  /\ received = [f \in Fetch |-> 0]
  /\ bodyStart = [f \in Fetch |-> 0]
  /\ windowStart = [f \in Fetch |-> 0]
  /\ windowBytes = [f \in Fetch |-> 0]
  /\ decoded = [f \in Fetch |-> 0]
  /\ result = [f \in Fetch |-> "none"]
  /\ outcome = [f \in Fetch |-> "none"]

remainingTime == MaxTotalTime - now

-----------------------------------------------------------------------------
(* Fault: the error is looked at before the caller's signal. *)
CaughtErrorFirst(f, code) ==
  IF code \notin Returned \cup {"timeout"} \cup PhaseTimeouts /\ caller[f]
  THEN "caller-aborted" ELSE code

(***************************************************************************)
(* How work ends.  The catch of fetch asks for the deadline first, then    *)
(* for the caller's signal, then for the error; a fetch the deadline has   *)
(* answered already keeps its answer.                                      *)
(***************************************************************************)
CaughtAs(f, code) ==
  IF code \notin Returned \cup {"timeout"} /\ caller[f]
  THEN "caller-aborted" ELSE code

Settle(f, code) ==
  outcome' = IF outcome[f] = "none"
             THEN [outcome EXCEPT ![f] = CaughtAs(f, code)] ELSE outcome

(* The work is over; what it knew is in the evidence of the outcome only. *)
Over(f, code) ==
  /\ pc' = [pc EXCEPT ![f] = "done"]
  /\ resolved' = [resolved EXCEPT ![f] = {}]
  /\ selected' = [selected EXCEPT ![f] = None]
  /\ result' = [result EXCEPT ![f] = "none"]
  /\ Settle(f, code)

(* It ends before it holds a connection. *)
Finish(f, code) == Over(f, code) /\ UNCHANGED <<link, reading>>

(***************************************************************************)
(* It ends with one: the finally clause closes it first.  The locals of    *)
(* readEncodedBody are gone.                                               *)
(***************************************************************************)
Leave(f, code) ==
  /\ pc' = [pc EXCEPT ![f] = "close"]
  /\ result' = [result EXCEPT ![f] = code]
  /\ bodyStart' = [bodyStart EXCEPT ![f] = 0]
  /\ windowStart' = [windowStart EXCEPT ![f] = 0]
  /\ windowBytes' = [windowBytes EXCEPT ![f] = 0]
  /\ UNCHANGED <<pins, outcome>>

-----------------------------------------------------------------------------
(* fetch before it charges a hop: each early return. *)
Answer(f, code) ==
  /\ pc[f] = "idle"
  /\ pc' = [pc EXCEPT ![f] = "done"]
  /\ outcome' = [outcome EXCEPT ![f] = code]
  /\ UNCHANGED <<now, session, signal, caller, pins, link, reading, body, result>>

NotAuthorized(f) == Answer(f, "authorization-required")

HopLimit(f) == hops + 1 > MaxHops /\ Answer(f, "hop-limit")

AlreadyAborted(f) ==
  hops + 1 <= MaxHops /\ caller[f] /\ Answer(f, "caller-aborted")

NoTimeLeft(f) ==
  /\ hops + 1 <= MaxHops
  /\ ~caller[f]
  /\ remainingTime <= 0
  /\ Answer(f, "timeout")

Charged(f) ==
  /\ pc[f] = "idle"
  /\ hops + 1 <= MaxHops
  /\ ~caller[f]
  /\ remainingTime > 0
  /\ hops' = hops + 1
  /\ UNCHANGED <<now, encodedBytes, decompressedBytes, signal, caller, body>>

(* The hop is charged and execute refuses the request by its shape. *)
Refuse(f) == Charged(f) /\ Finish(f, "refused")

(* The hop is charged and the resolver is asked. *)
Start(f) ==
  /\ Charged(f)
  /\ pc' = [pc EXCEPT ![f] = "dns"]
  /\ UNCHANGED <<pins, link, reading, result, outcome>>

-----------------------------------------------------------------------------
(* Fault: only the answer that is taken is vetted. *)
PinFirst(answers) ==
  IF answers = <<>> THEN "dns-not-found"
  ELSE IF Range(answers) \cap Malformed # {} THEN "dns-malformed"
  ELSE IF answers[1] \notin Allowed THEN "prohibited-address"
  ELSE "pinned"

(* pinDestination: every answer is vetted before the first one is taken. *)
pinDestination(answers) ==
  IF answers = <<>> THEN "dns-not-found"
  ELSE IF Range(answers) \cap Malformed # {} THEN "dns-malformed"
  ELSE IF ~(Range(answers) \subseteq Allowed) THEN "prohibited-address"
  ELSE "pinned"

Answers == UNION {[1..n -> Endpoint] : n \in 0..MaxAnswers}

Pinned(f, answers) ==
  /\ resolved' = [resolved EXCEPT ![f] = Range(answers)]
  /\ selected' = [selected EXCEPT ![f] = answers[1]]
  /\ pc' = [pc EXCEPT ![f] = "connect"]
  /\ UNCHANGED <<link, reading, result, outcome>>

Resolves(f) ==
  /\ pc[f] = "dns"
  /\ \E answers \in Answers :
       IF signal[f] THEN Finish(f, "dns-timeout")
       ELSE IF pinDestination(answers) = "pinned" THEN Pinned(f, answers)
       ELSE Finish(f, pinDestination(answers))
  /\ UNCHANGED <<now, session, signal, caller, body>>

(* A port rejects; nothing has been opened yet. *)
Fails(f, phase) ==
  /\ pc[f] = phase
  /\ \E code \in operationCause(phase) : Finish(f, code)
  /\ UNCHANGED <<now, session, signal, caller, body>>

ResolveFails(f) == Fails(f, "dns")
ConnectFails(f) == Fails(f, "connect")

(* Fault: the signal is not looked at when the connection arrives. *)
VerdictIgnoringAbort(f, peer, tls) ==
  IF peer # selected[f] THEN "connection-address-mismatch"
  ELSE IF f \in Secure /\ ~tls THEN "tls-certificate"
  ELSE "accepted"

(***************************************************************************)
(* A connection arrives, late perhaps, to any peer and with any TLS        *)
(* verdict.  It is held from here on, whatever is wrong with it.           *)
(***************************************************************************)
Verdict(f, peer, tls) ==
  IF signal[f] THEN "connect-timeout"
  ELSE IF peer # selected[f] THEN "connection-address-mismatch"
  ELSE IF f \in Secure /\ ~tls THEN "tls-certificate"
  ELSE "accepted"

Accept(f) ==
  /\ pc' = [pc EXCEPT ![f] = "http"]
  /\ UNCHANGED <<pins, reading, result, outcome>>

Connects(f) ==
  /\ pc[f] = "connect"
  /\ \E peer \in Endpoint, tls \in BOOLEAN :
       /\ remote' = [remote EXCEPT ![f] = peer]
       /\ authorized' = [authorized EXCEPT ![f] = tls]
       /\ IF Verdict(f, peer, tls) = "accepted" THEN Accept(f)
          ELSE Leave(f, Verdict(f, peer, tls))
  /\ UNCHANGED <<now, session, signal, caller, body>>

-----------------------------------------------------------------------------
(* The request is out; a head comes back and the body is opened. *)
OpenBody(f) ==
  /\ pc' = [pc EXCEPT ![f] = "body"]
  /\ bodyStart' = [bodyStart EXCEPT ![f] = now]
  /\ windowStart' = [windowStart EXCEPT ![f] = now]
  /\ UNCHANGED <<pins, windowBytes, result, outcome>>

Responds(f) ==
  /\ pc[f] = "http"
  /\ IF signal[f] THEN Leave(f, "http-timeout") ELSE OpenBody(f)
  /\ UNCHANGED <<now, session, signal, caller, link, body>>

(* A head with no valid status, or one over exceedsHeaderBudget's limits. *)
RespondsBadly(f) ==
  /\ pc[f] = "http"
  /\ ~signal[f]
  /\ \E code \in {"http-malformed", "response-headers-too-large"} : Leave(f, code)
  /\ UNCHANGED <<now, session, signal, caller, link, body>>

(***************************************************************************)
(* The exchange rejects, before its head or in the middle of its body, or  *)
(* the body yields something that is not bytes.                            *)
(***************************************************************************)
ExchangeFails(f) ==
  /\ pc[f] \in {"http", "body"}
  /\ \E code \in operationCause("http") : Leave(f, code)
  /\ UNCHANGED <<now, session, signal, caller, link, body>>

(***************************************************************************)
(* A chunk of n bytes wins the race against the window; an empty one       *)
(* changes nothing.  The loop does not look at the signal: an abandoned    *)
(* read still charges the session.                                         *)
(***************************************************************************)
Charge(n) ==
  encodedBytes' = IF encodedBytes + n > MaxResponseBytes
                  THEN MaxResponseBytes ELSE encodedBytes + n

Keep(f, n) ==
  /\ received' = [received EXCEPT ![f] = @ + n]
  /\ windowBytes' = [windowBytes EXCEPT ![f] = @ + n]
  /\ UNCHANGED <<pc, pins, bodyStart, windowStart, result, outcome>>

Chunk(f) ==
  /\ pc[f] = "body"
  /\ \E n \in 1..MaxChunk :
       /\ Charge(n)
       /\ IF encodedBytes + n <= MaxResponseBytes THEN Keep(f, n)
          ELSE Leave(f, "response-too-large") /\ UNCHANGED received
  /\ UNCHANGED <<now, hops, decompressedBytes, signal, caller, link, decoded>>

(* The window's timer wins: the floor was met, or the read is abandoned. *)
WindowDue(f) == pc[f] = "body" /\ now - windowStart[f] >= Window

(* Fault: the bytes of the last window count again. *)
NextWindowKeepsBytes(f) ==
  /\ WindowDue(f)
  /\ windowBytes[f] >= MinThroughputBytes
  /\ windowStart' = [windowStart EXCEPT ![f] = @ + Window]
  /\ UNCHANGED <<now, session, pc, signal, caller, pins, link, bodyStart, body,
                 windowBytes, result, outcome>>

NextWindow(f) ==
  /\ WindowDue(f)
  /\ windowBytes[f] >= MinThroughputBytes
  /\ windowStart' = [windowStart EXCEPT ![f] = @ + Window]
  /\ windowBytes' = [windowBytes EXCEPT ![f] = 0]
  /\ UNCHANGED <<now, session, pc, signal, caller, pins, link, bodyStart, body,
                 result, outcome>>

TooSlow(f) ==
  /\ WindowDue(f)
  /\ windowBytes[f] < MinThroughputBytes
  /\ Leave(f, "response-too-slow")
  /\ UNCHANGED <<now, session, signal, caller, link, body>>

-----------------------------------------------------------------------------
(* Fault: every response has the whole budget. *)
DecodedPerHop == MaxDecompressedBytes

(***************************************************************************)
(* The body ends and is decoded in one synchronous step, under what is     *)
(* left of the session's decoded bytes.  n is what it decodes to.  The     *)
(* clock is read again at the end; that decoding takes time is in the Tick *)
(* that may come before this step, for nothing else reads the clock here.  *)
(***************************************************************************)
remainingDecoded == MaxDecompressedBytes - decompressedBytes

DecodeLimit(f, n) == received[f] > 0 /\ (remainingDecoded = 0 \/ n > remainingDecoded)

BodyAborted(f) ==
  /\ pc[f] = "body"
  /\ signal[f]
  /\ Leave(f, "http-timeout")
  /\ UNCHANGED <<now, session, signal, caller, link, body>>

BodyUndecodable(f) ==
  /\ pc[f] = "body"
  /\ ~signal[f]
  /\ received[f] > 0 /\ remainingDecoded # 0
  /\ \E code \in {"unsupported-content-encoding", "decompression-error"} : Leave(f, code)
  /\ UNCHANGED <<now, session, signal, caller, link, body>>

BodyTooLarge(f) ==
  /\ pc[f] = "body"
  /\ ~signal[f]
  /\ \E n \in 1..(MaxDecompressedBytes + 1) : DecodeLimit(f, n)
  /\ decompressedBytes' = MaxDecompressedBytes
  /\ Leave(f, "decompressed-response-too-large")
  /\ UNCHANGED <<now, hops, encodedBytes, signal, caller, link, body>>

(* Fault: the clock is not read again after decoding. *)
InTimeAlways == TRUE

InTime == remainingTime > 0

BodyDecoded(f) ==
  /\ pc[f] = "body"
  /\ ~signal[f]
  /\ \E n \in 0..MaxDecompressedBytes :
       /\ received[f] = 0 => n = 0
       /\ ~DecodeLimit(f, n)
       /\ decompressedBytes' = decompressedBytes + n
       /\ decoded' = [decoded EXCEPT ![f] = n]
  /\ Leave(f, IF InTime THEN "success" ELSE "timeout")
  /\ UNCHANGED <<now, hops, encodedBytes, signal, caller, link, received>>

(* Fault: an aborted connection is taken to be closed. *)
ClosesUnlessAborted(f) ==
  /\ pc[f] = "close"
  /\ Over(f, result[f])
  /\ remote' = [remote EXCEPT ![f] = IF signal[f] THEN @ ELSE None]
  /\ authorized' = [authorized EXCEPT ![f] = FALSE]
  /\ UNCHANGED <<now, session, signal, caller, reading, body>>

(* close settles, well or badly: the work is over. *)
Closes(f) ==
  /\ pc[f] = "close"
  /\ Over(f, result[f])
  /\ remote' = [remote EXCEPT ![f] = None]
  /\ authorized' = [authorized EXCEPT ![f] = FALSE]
  /\ UNCHANGED <<now, session, signal, caller, reading, body>>

-----------------------------------------------------------------------------
InFlight(f) == pc[f] # "idle" /\ outcome[f] = "none"

(* Fault: the deadline aborts the work and leaves the answer to it. *)
DeadlineOnlyAborts(f) ==
  /\ InFlight(f)
  /\ remainingTime <= 0
  /\ signal' = [signal EXCEPT ![f] = TRUE]
  /\ UNCHANGED <<now, session, pc, caller, pins, link, reading, body, result, outcome>>

(* The deadline's timer: it answers the fetch and aborts what is left. *)
Deadline(f) ==
  /\ InFlight(f)
  /\ remainingTime <= 0
  /\ outcome' = [outcome EXCEPT ![f] = "timeout"]
  /\ signal' = [signal EXCEPT ![f] = TRUE]
  /\ UNCHANGED <<now, session, pc, caller, pins, link, reading, body, result>>

(* The caller aborts: the work is told so, the fetch waits on for it. *)
CallerAborts(f) ==
  /\ ~caller[f]
  /\ caller' = [caller EXCEPT ![f] = TRUE]
  /\ signal' = IF InFlight(f) THEN [signal EXCEPT ![f] = TRUE] ELSE signal
  /\ UNCHANGED <<now, session, pc, pins, link, reading, body, result, outcome>>

Tick ==
  /\ now < MaxTime
  /\ now' = now + 1
  /\ UNCHANGED <<session, pc, signal, caller, pins, link, reading, body, result, outcome>>

Call(f) ==
  NotAuthorized(f) \/ HopLimit(f) \/ AlreadyAborted(f) \/ NoTimeLeft(f)
    \/ Refuse(f) \/ Start(f)

(* What the ports do, and the window's timer. *)
Work(f) ==
  \/ Resolves(f) \/ ResolveFails(f) \/ Connects(f) \/ ConnectFails(f)
  \/ Responds(f) \/ RespondsBadly(f) \/ ExchangeFails(f)
  \/ Chunk(f) \/ NextWindow(f) \/ TooSlow(f)
  \/ BodyAborted(f) \/ BodyUndecodable(f) \/ BodyTooLarge(f) \/ BodyDecoded(f)
  \/ Closes(f)

Next ==
  \/ \E f \in Fetch : Call(f) \/ Work(f) \/ Deadline(f) \/ CallerAborts(f)
  \/ Tick

(***************************************************************************)
(* Fairness: time passes and the deadline's timer fires.  Nothing is asked *)
(* of the ports in Spec; PortSpec adds that every await of a port settles. *)
(***************************************************************************)
Spec ==
  /\ Init /\ [][Next]_vars
  /\ WF_vars(Tick)
  /\ \A f \in Fetch : WF_vars(Deadline(f))

PortSpec == Spec /\ \A f \in Fetch : WF_vars(Work(f))

-----------------------------------------------------------------------------
Awaited(f) == pc[f] \in {"dns", "connect", "http", "body"}
Working(f) == pc[f] \notin {"idle", "done"}

TypeOK ==
  /\ now \in Nat
  /\ hops \in Nat /\ encodedBytes \in Nat /\ decompressedBytes \in Nat
  /\ pc \in [Fetch -> {"idle", "dns", "connect", "http", "body", "close", "done"}]
  /\ signal \in [Fetch -> BOOLEAN]
  /\ caller \in [Fetch -> BOOLEAN]
  /\ resolved \in [Fetch -> SUBSET Endpoint]
  /\ selected \in [Fetch -> Endpoint \cup {None}]
  /\ remote \in [Fetch -> Endpoint \cup {None}]
  /\ authorized \in [Fetch -> BOOLEAN]
  /\ received \in [Fetch -> Nat]
  /\ bodyStart \in [Fetch -> Nat]
  /\ windowStart \in [Fetch -> Nat]
  /\ windowBytes \in [Fetch -> Nat]
  /\ decoded \in [Fetch -> Nat]
  /\ result \in [Fetch -> Codes \cup {"none"}]
  /\ outcome \in [Fetch -> Codes \cup {"none"}]

(***************************************************************************)
(* A request only ever travels over a connection whose observed peer is    *)
(* the pinned answer, which is one of the resolver's answers, all of them  *)
(* allowed, and over TLS only to an authorized peer                        *)
(* (safe-transport.ts:201-249, pin.ts:44-65).                              *)
(***************************************************************************)
OnlyVettedPeers ==
  \A f \in Fetch :
    pc[f] \in {"http", "body"} =>
      /\ remote[f] = selected[f]
      /\ selected[f] \in resolved[f]
      /\ resolved[f] \subseteq Allowed
      /\ f \in Secure => authorized[f]

(***************************************************************************)
(* The budgets belong to the session: together, and with the reads that    *)
(* were abandoned at the deadline, the bodies of all fetches never exceed  *)
(* what has been charged, and the charge never exceeds the policy          *)
(* (safe-transport.ts:113-121, 275-292, 366-372).                          *)
(***************************************************************************)
Bytes(count) == UNION {{f} \X (1..count[f]) : f \in Fetch}
Total(count) == Cardinality(Bytes(count))

CapsHeld ==
  /\ hops <= MaxHops
  /\ encodedBytes <= MaxResponseBytes
  /\ decompressedBytes <= MaxDecompressedBytes

BudgetsHeld ==
  /\ CapsHeld
  /\ Cardinality({f \in Fetch : Working(f)}) <= hops
  /\ Total(received) <= encodedBytes
  /\ Total(decoded) <= decompressedBytes

(***************************************************************************)
(* Once a fetch is aborted, by its caller or by the deadline, its work     *)
(* only winds down: no connection is opened, no request sent and no body   *)
(* begun after the abort (the four signal.aborted checks of execute).      *)
(***************************************************************************)
NoWorkAfterAbort ==
  [][\A f \in Fetch :
       (signal[f] /\ pc'[f] # pc[f]) => pc'[f] \in {"close", "done"}]_vars

(***************************************************************************)
(* Causes are true: a fetch says timeout only past the deadline and        *)
(* caller-aborted only after its caller aborted, and never blames the peer *)
(* for an abort of our own: the phase timeouts thrown after an abort are   *)
(* not seen outside (safe-transport.ts:139-155).                           *)
(***************************************************************************)
CausesAreTrue ==
  \A f \in Fetch :
    /\ outcome[f] = "timeout" => now >= MaxTotalTime
    /\ outcome[f] = "caller-aborted" => caller[f]
    /\ outcome[f] \in PhaseTimeouts => ~signal[f]

(***************************************************************************)
(* The throughput floor: a body still being read has delivered the floor   *)
(* for every window that has closed since it began, late timers included   *)
(* (readEncodedBody, safe-transport.ts:345-374).                           *)
(***************************************************************************)
FloorHeld ==
  \A f \in Fetch :
    pc[f] = "body" =>
      received[f] - windowBytes[f] >=
        MinThroughputBytes * ((windowStart[f] - bodyStart[f]) \div Window)

(***************************************************************************)
(* Work that is not over at the deadline is never a success, even when     *)
(* decoding held the event loop and the timer fires late                   *)
(* (safe-transport.ts:294-303).                                            *)
(***************************************************************************)
LateIsNeverSuccess ==
  \A f \in Fetch :
    []((Awaited(f) /\ remainingTime <= 0) => [](outcome[f] # "success"))

(***************************************************************************)
(* Every fetch settles, whatever the resolver, the peer and the socket do  *)
(* or fail to do (the race of safe-transport.ts:128-138).                  *)
(***************************************************************************)
EveryFetchSettles ==
  \A f \in Fetch : pc[f] # "idle" ~> outcome[f] # "none"

(***************************************************************************)
(* Every connection is released once the ports settle, also one that       *)
(* arrives for a fetch that has been answered, or that is turned away      *)
(* (the finally clause, safe-transport.ts:313-322).                        *)
(***************************************************************************)
ConnectionsReleased ==
  \A f \in Fetch : remote[f] # None ~> remote[f] = None

(***************************************************************************)
(* What the comment at safe-transport.ts:376 says: a read that is given up *)
(* for being too slow is settled by the abort that follows every           *)
(* non-success path.                                                       *)
(***************************************************************************)
AbandonedReadAborted ==
  \A f \in Fetch : outcome[f] = "response-too-slow" ~> signal[f]

-----------------------------------------------------------------------------
(***************************************************************************)
(* The inductive invariant behind the two state properties.  What is       *)
(* pinned stays vetted while the connection is awaited; an abort is the    *)
(* caller's or has been answered as the timeout it was; and what the work  *)
(* holds while its connection closes is true already.                      *)
(***************************************************************************)
Vetted(f) == selected[f] \in resolved[f] /\ resolved[f] \subseteq Allowed

PinsKept ==
  \A f \in Fetch : pc[f] \in {"connect", "http", "body"} => Vetted(f)

AbortsExplained ==
  \A f \in Fetch : signal[f] => caller[f] \/ outcome[f] = "timeout"

IdleUnaborted == \A f \in Fetch : pc[f] = "idle" => ~signal[f]

ResultsAreTrue ==
  \A f \in Fetch :
    /\ result[f] # "caller-aborted"
    /\ result[f] = "timeout" => now >= MaxTotalTime

Inv ==
  /\ TypeOK
  /\ CapsHeld
  /\ PinsKept
  /\ OnlyVettedPeers
  /\ IdleUnaborted
  /\ AbortsExplained
  /\ ResultsAreTrue
  /\ CausesAreTrue

=============================================================================
