---------------------------- MODULE ProviderHttp ----------------------------
(***************************************************************************)
(* One provider call over node:http, in its two shapes.  The mirror client *)
(* (mirrors/mirror-http-node.ts) follows redirects itself, under one       *)
(* deadline, and carries the caller's credential.  The RDAP client         *)
(* (reputation/rdap-node.ts) makes one request under a deadline of its own *)
(* and fetchRdapDomain (reputation/rdap-client.ts) follows redirects.      *)
(*                                                                         *)
(* A URL is a record of what the code inspects; DNS may answer the same    *)
(* name differently each time; the server may answer anything.             *)
(***************************************************************************)
EXTENDS Integers, Sequences, FiniteSets

CONSTANTS
  Url,                \* well-formed URLs: [scheme, host, userinfo]
  NotAUrl,            \* a string new URL() refuses
  Address,            \* addresses
  Literal,            \* hosts that are IP literals, as addresses
  Allowed,            \* what classifyTransportAddress allows
  AllowInsecureUrl,   \* the mirror client's documented test seam
  MaxRedirects,       \* MIRROR_MAX_REDIRECT_HOPS, and fetchRdapDomain's maxRedirects
  MaxResponseBytes,   \* policy.maxResponseBytes
  MaxChunk            \* bound on one chunk of a body

ASSUME ProviderAssumption ==
  /\ Literal \subseteq Address /\ Allowed \subseteq Address
  /\ AllowInsecureUrl \in BOOLEAN
  /\ MaxRedirects \in Nat /\ MaxResponseBytes \in Nat /\ MaxChunk \in Nat
  /\ \A u \in Url : u.scheme \in {"https", "http", "other"} /\ u.userinfo \in BOOLEAN

VARIABLES
  client,      \* "mirror" or "rdap"
  stage,       \* where the call is
  url,         \* the URL of the current hop
  headers,     \* the request headers of the current hop
  hopOrigins,  \* the origin ledger, appended before each request
  seen,        \* URLs fetchRdapDomain has requested
  received,    \* bytes of the current body
  status,      \* class of the current response's status
  aborted,     \* the caller's signal
  timedOut,    \* the deadline of this request has fired
  cached,      \* the RDAP record cache: "none", "fresh" or "stale"
  wire,        \* history: requests put on a socket
  result       \* what the call settled with

vars == <<client, stage, url, headers, hopOrigins, seen, received, status,
          aborted, timedOut, cached, wire, result>>

Pending == [kind |-> "pending", code |-> "none"]
Raised(code) == [kind |-> "failure", code |-> code]
Answered(code) == [kind |-> "answer", code |-> code]
Skipped(code) == [kind |-> "skipped", code |-> code]

Origin(u) == <<u.scheme, u.host>>

(***************************************************************************)
(* Header names.  The caller's credential, its validators and its agent    *)
(* name are the mirror's; "splitting" is one requestHeaders refuses and    *)
(* "unsendable" one that only node:http refuses.                           *)
(***************************************************************************)
MIRROR_DEFAULTS == {"accept", "accept-encoding"}
CROSS_ORIGIN_SAFE_HEADERS == {"accept", "accept-encoding", "user-agent"}
CallerHeaders == {"auth-key", "if-none-match", "user-agent", "splitting", "unsendable"}

(* Fault: only the credential's usual names are dropped. *)
ForwardUnlessAuthorization(hs) == hs \ {"authorization", "cookie"}

crossOriginHeaders(hs) == hs \cap CROSS_ORIGIN_SAFE_HEADERS

(***************************************************************************)
(* providerUrl: why a URL is refused, or "ok".  The fragment it strips is  *)
(* not represented.                                                        *)
(***************************************************************************)
MirrorUrl(u) ==
  CASE u = NotAUrl -> "invalid-url"
    [] u # NotAUrl /\ u.scheme # "https" /\ ~(u.scheme = "http" /\ AllowInsecureUrl)
         -> "unsupported-scheme"
    [] OTHER -> IF u.userinfo THEN "url-credentials" ELSE "ok"

RdapUrl(u) ==
  CASE u = NotAUrl -> "invalid-url"
    [] u # NotAUrl /\ u.scheme = "other" -> "unsupported-scheme"
    [] OTHER -> IF u.userinfo THEN "url-credentials" ELSE "ok"

(***************************************************************************)
(* How an error of a request leaves the client: the caller's abort is      *)
(* reported ahead of the deadline, the deadline ahead of everything else.  *)
(* fetchRdapDomain then only looks at the signal.                          *)
(***************************************************************************)
(* Fault: the deadline is looked at first. *)
DeadlineFirst(code) ==
  Raised(IF timedOut THEN "http-timeout" ELSE IF aborted THEN "abort" ELSE code)

MirrorThrows(code) ==
  Raised(IF aborted THEN "abort" ELSE IF timedOut THEN "http-timeout" ELSE code)

RdapThrows(code) ==
  IF aborted THEN Skipped("rdap-caller-aborted") ELSE Raised("rdap-network-error")

Thrown(code) == IF client = "mirror" THEN MirrorThrows(code) ELSE RdapThrows(code)

Settle(r) ==
  /\ result' = r
  /\ stage' = "done"
  /\ UNCHANGED <<client, url, headers, hopOrigins, seen, received, status,
                 aborted, timedOut, cached, wire>>

Fails(code) == Settle(Thrown(code))

Silent == ~aborted /\ ~timedOut

-----------------------------------------------------------------------------
Init ==
  /\ client \in {"mirror", "rdap"}
  /\ stage = "start"
  /\ url \in Url \cup {NotAUrl}
  /\ headers \in SUBSET CallerHeaders
  /\ client = "rdap" => headers = {}
  /\ hopOrigins = <<>> /\ seen = {} /\ received = 0 /\ status = "none"
  /\ aborted \in BOOLEAN /\ timedOut = FALSE
  /\ cached \in (IF client = "rdap" THEN {"none", "fresh", "stale"} ELSE {"none"})
  /\ wire = <<>> /\ result = Pending

(***************************************************************************)
(* request() of the mirror client, up to its first hop.                    *)
(***************************************************************************)
MirrorRequest ==
  /\ client = "mirror" /\ stage = "start"
  /\ \/ aborted /\ Settle(Raised("abort"))
     \/ /\ ~aborted /\ MirrorUrl(url) # "ok"
        /\ Settle(Raised(MirrorUrl(url)))
     \/ /\ ~aborted /\ MirrorUrl(url) = "ok" /\ "splitting" \in headers
        /\ Settle(Raised("http-malformed"))
     \/ /\ ~aborted /\ MirrorUrl(url) = "ok" /\ "splitting" \notin headers
        /\ headers' = headers \cup MIRROR_DEFAULTS
        /\ stage' = "hop"
        /\ UNCHANGED <<client, url, hopOrigins, seen, received, status, aborted,
                       timedOut, cached, wire, result>>

(***************************************************************************)
(* fetchRdapDomain, up to its loop: a fresh cached record answers without  *)
(* a request; an unroutable name (no URL) is skipped.                      *)
(***************************************************************************)
FetchRdapDomain ==
  /\ client = "rdap" /\ stage = "start"
  /\ \/ aborted /\ Settle(Skipped("rdap-caller-aborted"))
     \/ ~aborted /\ Settle(Skipped("rdap-invalid-domain"))     \* toALabel
     \/ ~aborted /\ cached = "fresh" /\ Settle(Answered("from-cache"))
     \/ ~aborted /\ cached # "fresh" /\ url = NotAUrl
          /\ Settle(Skipped("rdap-unsupported-tld"))
     \/ /\ ~aborted /\ cached # "fresh" /\ url # NotAUrl
        /\ stage' = "hop"
        /\ UNCHANGED <<client, url, headers, hopOrigins, seen, received, status,
                       aborted, timedOut, cached, wire, result>>

(***************************************************************************)
(* The synchronous part of send: an IP literal is classified here, as no   *)
(* lookup will see it; node:http may refuse the headers.                   *)
(***************************************************************************)
(* Fault: only the lookup gate classifies addresses. *)
DispatchAnyLiteral ==
  /\ stage' = "connect" /\ received' = 0
  /\ UNCHANGED <<client, url, status, aborted, cached, wire, result>>

Dispatch ==
  /\ ~(url.host \in Literal /\ url.host \notin Allowed)
  /\ "unsendable" \notin headers
  /\ stage' = "connect" /\ received' = 0
  /\ UNCHANGED <<client, url, status, aborted, cached, wire, result>>

Refusal ==
  IF url.host \in Literal /\ url.host \notin Allowed THEN "prohibited-address"
  ELSE IF "unsendable" \in headers THEN "http-malformed" ELSE "ok"

MirrorHop ==
  /\ client = "mirror" /\ stage = "hop"
  /\ \/ /\ Dispatch
        /\ hopOrigins' = Append(hopOrigins, Origin(url))
        /\ UNCHANGED <<headers, seen, timedOut>>
     \/ Refusal # "ok" /\ Fails(Refusal)

RdapHop ==
  /\ client = "rdap" /\ stage = "hop"
  /\ \/ aborted /\ Settle(Skipped("rdap-caller-aborted"))
     \/ ~aborted /\ url \in seen /\ Settle(Raised("rdap-too-many-redirects"))
     \/ ~aborted /\ url \notin seen /\ RdapUrl(url) # "ok" /\ Fails(RdapUrl(url))
     \/ ~aborted /\ url \notin seen /\ RdapUrl(url) = "ok" /\ Refusal # "ok"
          /\ Fails(Refusal)
     \/ /\ ~aborted /\ url \notin seen /\ RdapUrl(url) = "ok"
        /\ Dispatch
        /\ headers' = MIRROR_DEFAULTS
        /\ hopOrigins' = Append(hopOrigins, Origin(url))
        /\ seen' = seen \cup {url}
        /\ timedOut' = FALSE

(***************************************************************************)
(* policedLookup: every answer must be allowed before any is handed back,  *)
(* and node:http connects to one of them.  It asks for none on a literal.  *)
(***************************************************************************)
(* Fault: the first answer decides. *)
SomeAnswerAllowed(answers) == answers \cap Allowed # {}

Policed(answers) == answers # {} /\ answers \subseteq Allowed

Peers == IF url.host \in Literal THEN {url.host}
         ELSE UNION {answers \in SUBSET Address : Policed(answers)}

Connect ==
  /\ stage = "connect" /\ Silent
  /\ \E peer \in Peers :
       wire' = Append(wire, [origin |-> Origin(url), peer |-> peer, headers |-> headers])
  /\ stage' = "head"
  /\ UNCHANGED <<client, url, headers, hopOrigins, seen, received, status,
                 aborted, timedOut, cached, result>>

LookupRefuses ==
  /\ stage = "connect" /\ Silent /\ url.host \notin Literal
  /\ \E answers \in SUBSET Address :
       /\ ~Policed(answers)
       /\ Fails(IF answers = {} THEN "dns-not-found" ELSE "prohibited-address")

(***************************************************************************)
(* requestFailure: what a node:http error is reported as.                  *)
(***************************************************************************)
RequestFailures ==
  {"connect-refused", "connect-timeout", "dns-not-found", "dns-timeout", "http-reset",
   "response-headers-too-large", "tls-certificate", "tls-handshake", "http-error"}

SocketFails ==
  /\ stage \in {"connect", "head"} /\ Silent
  /\ \E code \in RequestFailures : Fails(code)

(* Fault: the body is read without the composed signal. *)
CancelledBeforeBody ==
  /\ stage \in {"connect", "head"} /\ ~Silent
  /\ Fails("abort")

(* An aborted signal destroys the request, in any of its stages. *)
Cancelled ==
  /\ stage \in {"connect", "head", "body"} /\ ~Silent
  /\ Fails("abort")

(***************************************************************************)
(* readResponse.  The mirror client answers a redirect with a usable       *)
(* Location from the head alone and drops its body; the RDAP client reads  *)
(* every body.                                                             *)
(***************************************************************************)
TooManyFields ==
  /\ stage = "head" /\ Silent
  /\ Fails("response-headers-too-large")

HeadArrives ==
  /\ stage = "head" /\ Silent
  /\ \E s \in {"ok", "redirect", "not-found", "throttled", "error"} :
       /\ client = "mirror" => s \in {"ok", "error"}
       /\ status' = s
  /\ stage' = "body"
  /\ UNCHANGED <<client, url, headers, hopOrigins, seen, received, aborted,
                 timedOut, cached, wire, result>>

MirrorRedirect ==
  /\ client = "mirror" /\ stage = "head" /\ Silent
  /\ \E u \in Url \cup {NotAUrl} :
       \/ Len(hopOrigins) > MaxRedirects /\ Fails("hop-limit")
       \/ Len(hopOrigins) <= MaxRedirects /\ MirrorUrl(u) # "ok" /\ Fails(MirrorUrl(u))
       \/ /\ Len(hopOrigins) <= MaxRedirects /\ MirrorUrl(u) = "ok"
          /\ url' = u
          /\ headers' = IF Origin(u) # Origin(url) THEN crossOriginHeaders(headers)
                        ELSE headers
          /\ stage' = "hop"
          /\ UNCHANGED <<client, hopOrigins, seen, received, status, aborted,
                         timedOut, cached, wire, result>>

(***************************************************************************)
(* readEncodedBody and decode.  An error of the stream itself is rethrown  *)
(* as it is.                                                               *)
(***************************************************************************)
DecodeFailures ==
  {"decompressed-response-too-large", "unsupported-content-encoding", "decompression-error"}

Chunk ==
  /\ stage = "body" /\ Silent
  /\ \E n \in 1..MaxChunk :
       \/ received + n > MaxResponseBytes /\ Fails("response-too-large")
       \/ /\ received + n <= MaxResponseBytes
          /\ received' = received + n
          /\ UNCHANGED <<client, stage, url, headers, hopOrigins, seen, status,
                         aborted, timedOut, cached, wire, result>>

StreamBreaks ==
  /\ stage = "body" /\ Silent
  /\ Fails("raw-stream-error")

DecodeFails ==
  /\ stage = "body" /\ Silent
  /\ \E code \in DecodeFailures : Fails(code)

MirrorAnswers ==
  /\ client = "mirror" /\ stage = "body" /\ Silent
  /\ Settle(Answered(status))

(***************************************************************************)
(* The RDAP redirect loop and its terminal responses.                      *)
(***************************************************************************)
(* Fault: the last redirect is followed too. *)
OneMoreRdapHop == Len(hopOrigins) <= MaxRedirects + 1

MayFollow == Len(hopOrigins) <= MaxRedirects

RdapRedirect ==
  /\ client = "rdap" /\ stage = "body" /\ Silent /\ status = "redirect"
  /\ \/ Settle(Raised("rdap-http-error"))                  \* no Location
     \/ ~MayFollow /\ Settle(Raised("rdap-too-many-redirects"))
     \/ \E u \in Url \cup {NotAUrl} :
          /\ MayFollow
          /\ url' = u
          /\ stage' = "hop"
          /\ UNCHANGED <<client, headers, hopOrigins, seen, received, status,
                         aborted, timedOut, cached, wire, result>>

terminalResult ==
  /\ client = "rdap" /\ stage = "body" /\ Silent /\ status # "redirect"
  /\ \/ status = "not-found" /\ Settle(Answered("no-hit"))
     \/ status = "throttled" /\ Settle(Skipped("rdap-throttled"))
     \/ status = "error" /\ Settle(Raised("rdap-http-error"))
     \/ status = "ok" /\ Settle(Raised("rdap-malformed"))
     \/ /\ status = "ok"
        /\ result' = Answered("found")
        /\ cached' \in {"fresh", "stale"}         \* by cacheTtlMs
        /\ stage' = "done"
        /\ UNCHANGED <<client, url, headers, hopOrigins, seen, received, status,
                       aborted, timedOut, wire>>

(***************************************************************************)
(* The caller's signal and the client's own deadline.                      *)
(***************************************************************************)
Abort ==
  /\ stage # "done" /\ ~aborted
  /\ aborted' = TRUE
  /\ UNCHANGED <<client, stage, url, headers, hopOrigins, seen, received, status,
                 timedOut, cached, wire, result>>

Deadline ==
  /\ stage \in {"connect", "head", "body"} /\ ~timedOut
  /\ timedOut' = TRUE
  /\ UNCHANGED <<client, stage, url, headers, hopOrigins, seen, received, status,
                 aborted, cached, wire, result>>

Step ==
  \/ MirrorRequest \/ FetchRdapDomain \/ MirrorHop \/ RdapHop
  \/ Connect \/ LookupRefuses \/ SocketFails \/ Cancelled
  \/ TooManyFields \/ HeadArrives \/ MirrorRedirect
  \/ Chunk \/ StreamBreaks \/ DecodeFails \/ MirrorAnswers
  \/ RdapRedirect \/ terminalResult

Next == Step \/ Abort \/ Deadline

(* The event loop runs what is due: the client's own code, the timer, and  *)
(* the destruction of an aborted request.  The network owes nothing.       *)
Fairness ==
  /\ WF_vars(MirrorRequest) /\ WF_vars(FetchRdapDomain)
  /\ WF_vars(MirrorHop) /\ WF_vars(RdapHop)
  /\ WF_vars(Cancelled) /\ WF_vars(Deadline)

Spec == Init /\ [][Next]_vars /\ Fairness

-----------------------------------------------------------------------------
(* The headers that are the caller's own and nobody else's. *)
Private == {"auth-key", "if-none-match"}

(* A credential or validator of the caller is only ever put on a socket to *)
(* the origin the caller named, and never again once a redirect has left   *)
(* that origin, also when a later one comes back (follow,                  *)
(* crossOriginHeaders: "Once dropped they stay dropped").                  *)
CredentialStaysHome ==
  \A i \in DOMAIN wire :
    wire[i].headers \cap Private # {} =>
      \A j \in 1..i : wire[j].origin = wire[1].origin

(* Whatever DNS answers on each hop and wherever redirects lead, a socket  *)
(* is only opened to an address the policy allows, the mirror client never *)
(* falls back to cleartext, and no call makes more than MaxRedirects + 1   *)
(* requests (send, policedLookup, providerUrl, the two redirect caps).     *)
EveryHopPoliced ==
  /\ Len(wire) <= MaxRedirects + 1
  /\ \A i \in DOMAIN wire :
       /\ wire[i].peer \in Allowed
       /\ client = "mirror" /\ ~AllowInsecureUrl => wire[i].origin[1] = "https"

(* An error after the caller's abort is reported as that abort, even when  *)
(* the deadline fired too, and neither is ever claimed when it did not     *)
(* happen (request: "Caller cancellation is reported ahead of the          *)
(* deadline"; fetchRdapDomain's catch).                                    *)
CauseIsOwned ==
  LET abort == result \in {Raised("abort"), Skipped("rdap-caller-aborted")}
  IN  /\ abort => aborted
      /\ aborted /\ result.kind = "failure" => abort
      /\ result = Raised("http-timeout") => timedOut

(* Every call settles, whatever the server withholds: the client's own     *)
(* deadline ends each request, and the hops are bounded.                   *)
CallSettles == <>(stage = "done")
=============================================================================
