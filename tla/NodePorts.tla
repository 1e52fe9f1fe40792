------------------------------ MODULE NodePorts ------------------------------
(***************************************************************************)
(* The transport's Node adapters: one-shot pinned sockets shared by the    *)
(* connector and the HTTP port (transport/node.ts), the resolver           *)
(* (node-resolver.ts) and the clock (system-clock.ts), with the headers    *)
(* the session sends (headers.ts).  Node's event loop decides the order of *)
(* events: an error, an abort or a reset may come between any two calls of *)
(* the session.                                                            *)
(***************************************************************************)
EXTENDS Integers, FiniteSets

CONSTANTS
  Attempt,       \* calls of connect, each with at most one request and close
  SocketError,   \* error codes a socket may emit
  HttpError      \* error codes a client request may emit

VARIABLES
  dials,          \* what became of each call
  sockets,           \* the map from connection ids to dials
  nextConnectionId,
  lookup,            \* one NodeResolver.resolve
  sleeper,           \* one SystemClock.sleep
  unheard            \* an error event or a rejection met no listener: Node ends

portVars == <<dials, sockets, nextConnectionId, lookup, sleeper, unheard>>

Untried ==
  [call |-> "idle", protocol |-> "none", cause |-> "none", socket |-> "none",
   listeners |-> {}, id |-> 0, aborted |-> FALSE, http |-> "idle", httpCause |-> "none"]

PortsInit ==
  /\ dials = [a \in Attempt |-> Untried]
  /\ sockets = <<>>
  /\ nextConnectionId = 1
  /\ lookup = [call |-> "idle", running |-> FALSE, listening |-> FALSE, caught |-> FALSE]
  /\ sleeper = [call |-> "idle", timer |-> FALSE, listening |-> FALSE]
  /\ unheard = FALSE

SocketsOnly == UNCHANGED <<lookup, sleeper>>

-----------------------------------------------------------------------------
(* Adapter failures carry a code; any other error is raw, and the session *)
(* names it by its phase.                                                 *)
isCertificateError(code) == code \in {"CERT_HAS_EXPIRED", "ERR_TLS_CERT_ALTNAME_INVALID"}

connectCause(a, code) ==
  IF a.aborted THEN "abort"
  ELSE CASE code = "ECONNREFUSED" -> "connect-refused"
         [] code = "ETIMEDOUT" -> "connect-timeout"
         [] OTHER -> IF a.protocol = "http:" THEN "raw"
                     ELSE IF isCertificateError(code) THEN "tls-certificate" ELSE "tls-handshake"

requestFailure(code) ==
  CASE code \in {"ECONNRESET", "EPIPE"} -> "http-reset"
    [] code = "ETIMEDOUT" -> "http-timeout"
    [] code = "HPE_HEADER_OVERFLOW" -> "response-headers-too-large"
    [] code \in {"ERR_INVALID_CHAR", "ERR_INVALID_HTTP_TOKEN"} -> "http-malformed"
    [] OTHER -> "raw"

(* The event: Node destroys the socket and calls whoever listens. *)
Errored(a, code) ==
  [a EXCEPT !.socket = "destroyed", !.listeners = {},
            !.call = IF @ = "opening" THEN "rejected" ELSE @,
            !.cause = IF a.call = "opening" THEN connectCause(a, code) ELSE @,
            !.http = IF @ = "sent" THEN "failed" ELSE @,
            !.httpCause = IF a.http = "sent"
                          THEN IF a.aborted THEN "raw" ELSE requestFailure(code) ELSE @]

(***************************************************************************)
(* openSocket and connect.                                                 *)
(***************************************************************************)
ConnectBegins(i) ==
  /\ dials[i].call = "idle"
  /\ \E protocol \in {"http:", "https:"} :
       \/ dials' = [dials EXCEPT ![i] =      \* net.connect throws
            [@ EXCEPT !.call = "rejected", !.protocol = protocol, !.cause = "connect-error"]]
       \/ dials' = [dials EXCEPT ![i] =
            [@ EXCEPT !.call = "opening", !.protocol = protocol, !.socket = "open",
                      !.listeners = {"onError"}]]
  /\ UNCHANGED <<sockets, nextConnectionId, unheard>> /\ SocketsOnly

SocketFails(i) ==
  /\ dials[i].socket = "open"
  /\ \E code \in SocketError :
       /\ isCertificateError(code) => dials[i].call = "opening" /\ dials[i].protocol = "https:"
       /\ dials' = [dials EXCEPT ![i] = Errored(@, code)]
  /\ unheard' = (unheard \/ dials[i].listeners = {})
  /\ UNCHANGED <<sockets, nextConnectionId>> /\ SocketsOnly

(* The signal given to connect stays with the socket for its whole life. *)
SignalAborts(i) ==
  /\ dials[i].call # "idle" /\ ~dials[i].aborted
  /\ LET a == [dials[i] EXCEPT !.aborted = TRUE]
     IN  IF a.socket = "open"
         THEN /\ dials' = [dials EXCEPT ![i] = Errored(a, "ABORT_ERR")]
              /\ unheard' = (unheard \/ a.listeners = {})
         ELSE dials' = [dials EXCEPT ![i] = a] /\ UNCHANGED unheard
  /\ UNCHANGED <<sockets, nextConnectionId>> /\ SocketsOnly

(* "connect" or "secureConnect": onConnected does not rely on what Node has *)
(* verified under rejectUnauthorized and checks chain and name again.      *)
checkServerIdentity(a, verified) == a.protocol = "http:" \/ verified

(* Fault: the open promise's own listener goes and nothing takes its place. *)
HandOffAlone == {}

HandOff == {"ignoreSocketError"}

(* What getpeername says after the handshake: nothing, once it was reset;  *)
(* a destroyed socket has no handle left to ask.                           *)
observedPeer(a) == IF a.socket = "open" THEN BOOLEAN ELSE {FALSE}

Registered(i, a, id) ==
  /\ dials' = [dials EXCEPT ![i] = [a EXCEPT !.call = "resolved", !.id = id]]
  /\ sockets' = [n \in DOMAIN sockets \cup {id} |-> IF n = id THEN i ELSE sockets[n]]
  /\ nextConnectionId' = id + 1

(* Fault: the socket without a peer is left to itself. *)
PeerlessStays(a) == [a EXCEPT !.call = "rejected", !.cause = "connect-error"]

Peerless(a) ==
  [a EXCEPT !.call = "rejected", !.cause = "connect-error", !.socket = "destroyed",
            !.listeners = {}]

(* The open promise settles in the event. *)
Connected(i) ==
  /\ dials[i].call = "opening" /\ dials[i].socket = "open"
  /\ LET a == dials[i]
     IN  \E verified \in BOOLEAN :
           dials' = [dials EXCEPT ![i] =
             IF checkServerIdentity(a, verified)
             THEN [a EXCEPT !.call = "connected", !.listeners = HandOff]
             ELSE [a EXCEPT !.call = "rejected", !.cause = "tls-certificate",
                            !.socket = "destroyed", !.listeners = {}]]
  /\ UNCHANGED <<sockets, nextConnectionId, unheard>> /\ SocketsOnly

(* connect goes on when its turn comes; an abort or an error may have come *)
(* first.                                                                  *)
ConnectResumes(i) ==
  /\ dials[i].call = "connected"
  /\ LET a == dials[i]
     IN  \E peer \in observedPeer(a) :
           \/ /\ ~peer
              /\ dials' = [dials EXCEPT ![i] = Peerless(a)]
              /\ UNCHANGED <<sockets, nextConnectionId>>
           \/ peer /\ Registered(i, a, nextConnectionId)
  /\ UNCHANGED unheard /\ SocketsOnly

(***************************************************************************)
(* request and close, by the id that connect gave.                         *)
(***************************************************************************)
(* destinationHeaders: the forwarded few, the destination's own host, and  *)
(* a referer that sameOriginRefererValue let through without its fragment. *)
sameOriginRefererValue(candidate) ==
  IF candidate = "same-origin" THEN "same-origin" ELSE "none"

destinationHeaders(input, referer) ==
  {"host", "accept-encoding"}
  \cup {h \in DOMAIN input \cap {"accept", "accept-language", "user-agent"} :
          input[h] # "splits"}
  \cup (IF referer = "none" THEN {} ELSE {"referer"})

HeaderInputs == [{"accept", "cookie", "host"} -> {"plain", "splits", "not-latin-1"}]

Fails(i, cause) ==
  dials' = [dials EXCEPT ![i] = [@ EXCEPT !.http = "failed", !.httpCause = cause]]

(* A value that is no wire text is refused before anything is sent. *)
Sends(i) ==
  \E input \in HeaderInputs, candidate \in {"none", "same-origin", "other-origin"} :
    LET referer == sameOriginRefererValue(candidate)
        sent == destinationHeaders(input, referer)
    IN  IF \E h \in sent \cap DOMAIN input : h # "host" /\ input[h] = "not-latin-1"
        THEN Fails(i, "http-malformed")
        ELSE dials' = [dials EXCEPT ![i] =
               [dials[i] EXCEPT !.http = "sent", !.listeners = @ \cup {"ClientRequest"}]]

RequestBegins(i) ==
  /\ dials[i].call = "resolved" /\ dials[i].http = "idle"
  /\ \/ dials[i].id \notin DOMAIN sockets /\ Fails(i, "http-reset")
     \/ dials[i].id \in DOMAIN sockets /\ Sends(i)
  /\ UNCHANGED <<sockets, nextConnectionId, unheard>> /\ SocketsOnly

RequestSettles(i) ==
  /\ dials[i].http = "sent"
  /\ \/ dials[i].socket = "open" /\ dials' = [dials EXCEPT ![i] = [@ EXCEPT !.http = "answered"]]
     \/ \E code \in HttpError : Fails(i, requestFailure(code))
  /\ UNCHANGED <<sockets, nextConnectionId, unheard>> /\ SocketsOnly

(* Fault: the id is forgotten and its socket kept. *)
ForgetsOnly(i) ==
  /\ dials[i].call = "resolved" /\ dials[i].id \in DOMAIN sockets
  /\ sockets' = [n \in DOMAIN sockets \ {dials[i].id} |-> sockets[n]]
  /\ UNCHANGED <<dials, nextConnectionId, unheard>> /\ SocketsOnly

CloseConnection(i) ==
  /\ dials[i].call = "resolved" /\ dials[i].id \in DOMAIN sockets
  /\ sockets' = [n \in DOMAIN sockets \ {dials[i].id} |-> sockets[n]]
  /\ dials' = [dials EXCEPT ![i] =
       [dials[i] EXCEPT !.socket = "destroyed", !.listeners = {},
                        !.http = IF @ = "sent" THEN "failed" ELSE @,
                        !.httpCause = IF dials[i].http = "sent" THEN "http-reset" ELSE @]]
  /\ UNCHANGED <<nextConnectionId, unheard>> /\ SocketsOnly

(***************************************************************************)
(* The resolver races the system's lookup against the signal; a lookup     *)
(* that lost goes on and may still reject.  The session never starts it    *)
(* under a signal that is already aborted.                                 *)
(***************************************************************************)
LookupsOnly == UNCHANGED <<dials, sockets, nextConnectionId, sleeper>>

LookupBegins ==
  /\ lookup.call = "idle"
  /\ lookup' = [call |-> "waiting", running |-> TRUE, listening |-> TRUE, caught |-> FALSE]
  /\ UNCHANGED unheard /\ LookupsOnly

(* Fault: the race is the only one who waits for the lookup. *)
RaceOnly(l, call) == [l EXCEPT !.call = call, !.listening = FALSE]

abortable(l, call) == [l EXCEPT !.call = call, !.listening = FALSE, !.caught = TRUE]

LookupAborts ==
  /\ lookup.call = "waiting"
  /\ lookup' = abortable(lookup, "abort")
  /\ UNCHANGED unheard /\ LookupsOnly

resolveCause(code) ==
  CASE code \in {"ENOTFOUND", "ENODATA"} -> "dns-not-found"
    [] code \in {"EAI_AGAIN", "ETIMEOUT"} -> "dns-timeout"
    [] OTHER -> "dns-error"

LookupSettles ==
  /\ lookup.running
  /\ \/ /\ lookup' = [IF lookup.call = "waiting" THEN abortable(lookup, "answered") ELSE lookup
                      EXCEPT !.running = FALSE]
        /\ UNCHANGED unheard
     \/ \E code \in {"ENOTFOUND", "EAI_AGAIN", "other"} :
          /\ lookup' = [IF lookup.call = "waiting" THEN abortable(lookup, resolveCause(code))
                        ELSE lookup EXCEPT !.running = FALSE]
          /\ unheard' = (unheard \/ (lookup.call # "waiting" /\ ~lookup.caught))
  /\ LookupsOnly

(***************************************************************************)
(* The clock's sleep.                                                      *)
(***************************************************************************)
ClockOnly == UNCHANGED <<dials, sockets, nextConnectionId, lookup, unheard>>

SleepBegins ==
  /\ sleeper.call = "idle"
  /\ \/ sleeper' = [sleeper EXCEPT !.call = "range-error"]      \* a negative delay
     \/ sleeper' = [sleeper EXCEPT !.call = "abort"]            \* aborted already
     \/ sleeper' = [call |-> "sleeping", timer |-> TRUE, listening |-> TRUE]
  /\ ClockOnly

TimerFires ==
  /\ sleeper.timer
  /\ sleeper' = [call |-> "slept", timer |-> FALSE, listening |-> FALSE]
  /\ ClockOnly

SleepAborts ==
  /\ sleeper.call = "sleeping"
  /\ sleeper' = [call |-> "abort", timer |-> FALSE, listening |-> FALSE]
  /\ ClockOnly

-----------------------------------------------------------------------------
SocketsNext ==
  \E i \in Attempt :
    \/ ConnectBegins(i) \/ SocketFails(i) \/ SignalAborts(i) \/ Connected(i) \/ ConnectResumes(i)
    \/ RequestBegins(i) \/ RequestSettles(i) \/ CloseConnection(i)

WaitsNext ==
  \/ LookupBegins \/ LookupAborts \/ LookupSettles
  \/ SleepBegins \/ TimerFires \/ SleepAborts

-----------------------------------------------------------------------------
(* A socket that is open is waited for by a connect that has not answered, *)
(* or stands in the map under the id the caller was given, so that close   *)
(* can end it: no order of errors, aborts and closes leaves one behind     *)
(* (openSocket's destroys, connect's null peer, close), and a sleep that   *)
(* is over leaves neither its timer nor its listener on the signal.        *)
SocketsAccounted ==
  /\ \A i \in Attempt :
       dials[i].socket = "open" =>
         \/ dials[i].call \in {"opening", "connected"}
         \/ dials[i].id \in DOMAIN sockets /\ sockets[dials[i].id] = i
  /\ sleeper.call # "sleeping" => ~sleeper.timer /\ ~sleeper.listening
  /\ lookup.call # "waiting" => ~lookup.listening

(* Whatever happens between two calls, an error event finds a listener and *)
(* a rejection a handler, so that a peer that resets at a bad moment never *)
(* ends the process (onConnected's hand-off to ignoreSocketError,          *)
(* abortable's detached catch).                                            *)
ErrorsAreHeard == ~unheard
=============================================================================
