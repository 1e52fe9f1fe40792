--------------------------- MODULE RedirectChain ----------------------------
(***************************************************************************)
(* createRedirectChainEnricher (packages/online/src/resolution/            *)
(* redirect-chain.ts): one enrich call that follows HTTP redirects and     *)
(* declarative refreshes hop by hop.  Each hop is authorized by the host   *)
(* and fetched through one session of the safe transport; what came of it  *)
(* is folded into a report when the loop breaks.                           *)
(*                                                                         *)
(* URLs are model values.  The WHATWG parser is the constants canonical    *)
(* and resolve, which already drop the fragment; offline is what inspect   *)
(* says of each URL.  The session is taken at its promise: it settles with *)
(* a success or a cause, and refuses a call whose signal is aborted.       *)
(***************************************************************************)
EXTENDS Integers, Sequences, FiniteSets

CONSTANTS
  Url,          \* http and https URLs within the length limit
  Https,        \* those of them whose scheme is https
  Outside,      \* URLs of another scheme, or too long
  Ref,          \* references as inputs, Location and Refresh carry them
  NoUrl,        \* no URL: a reference that does not parse, an absent target
  NoRef,        \* the empty target of a refresh
  canonical,    \* canonicalHttpUrl of a reference, NoUrl for null
  resolve,      \* new URL(ref, current) with its fragment removed
  Code,         \* reason codes of the offline checks
  offline,      \* offline[u]: score (-1 for null), codes and registrable domain
  Bases,        \* the offline results an enrich call may be given
  Responses,    \* the answers a hop may get
  Method,       \* "GET" or "HEAD"
  MaxHops

Kinds  == {"http-redirect", "http-refresh", "html-meta-refresh"}
Suspicion == "open_redirect_param"

ASSUME UrlAssumption ==
  /\ Https \subseteq Url
  /\ Url \cap Outside = {} /\ NoUrl \notin Url \cup Outside /\ NoRef \notin Ref
  /\ canonical \in [Ref -> Url \cup {NoUrl}]
  /\ resolve \in [Ref -> [Url -> Url \cup Outside \cup {NoUrl}]]
ASSUME ChainAssumption ==
  /\ MaxHops \in Nat \ {0}
  /\ \A b \in Bases : b.input \in Ref

(* A header, or a meta element, as singleHeader and the scan classify it. *)
ASSUME ResponsesAssumption ==
  \A r \in Responses :
    /\ r.redirect \in BOOLEAN
    /\ \A h \in {r.location, r.refresh, r.meta} :
         /\ h.state \in {"missing", "ambiguous", "value"}
         /\ h.state = "value" /\ ~ h.malformed => h.ref \in Ref \cup {NoRef}
    /\ ~ r.location.malformed /\ r.meta.state # "ambiguous"

(* What a hop is observed to do has codes of its own, which no offline check *)
(* raises.                                                                   *)
Observed == {"open_redirect_observed", "content_type_mismatch", "https_downgrade_observed"}

ASSUME OfflineAssumption ==
  /\ Code \cap Observed = {}
  /\ \A u \in Url : offline[u].score \in Int /\ offline[u].codes \subseteq Code
  /\ \A b \in Bases : b.codes \subseteq Code

VARIABLES
  base,         \* the offline result of the input
  pc,           \* where enrich is suspended
  currentUrl,
  reason,       \* why currentUrl is next, and after which URL
  fromUrl,
  asked,        \* the request before the host's authorizer
  hops,         \* fetched hops: url, response, transition
  seen,
  attempts,     \* calls of session.fetch: the URL and the request it was granted for
  aborted,      \* context.signal
  report        \* the outcomes returned

vars == <<base, pc, currentUrl, reason, fromUrl, asked, hops, seen, attempts,
          aborted, report>>

-----------------------------------------------------------------------------
(* What a response leads to.                                               *)

Terminal == [status |-> "terminal", kind |-> "none", target |-> NoUrl, code |-> "none"]

(* A stop; target is the URL it is about when that is not the current one. *)
stop(status, code, target) ==
  [status |-> status, kind |-> "none", target |-> target, code |-> code]

follow(kind, target) ==
  [status |-> "follow", kind |-> kind, target |-> target, code |-> "none"]

resolveTransition(kind, ref, current) ==
  LET target == IF ref = NoRef THEN current ELSE resolve[ref][current] IN
  IF target = NoUrl THEN stop("failure", "invalid-target", NoUrl)
  ELSE IF target \in Outside THEN stop("failure", "invalid-target", target)
  ELSE follow(kind, target)

(***************************************************************************)
(* The value of a Refresh: "<seconds>; url=<target>".  One that does not   *)
(* match, or whose delay is no number, is malformed.                       *)
(***************************************************************************)
parseRefreshTransition(kind, value, current) ==
  IF value.malformed THEN stop("failure", "invalid-refresh", NoUrl)
  ELSE IF value.late THEN stop("skipped", "refresh-delay-exceeded", NoUrl)
  ELSE resolveTransition(kind, value.ref, current)

IsHtml(response) == response.type \in {"text/html", "application/xhtml+xml"}

(* The header form looks at size, type and charset before the value. *)
Eligible(response) == response.size # "large" /\ IsHtml(response) /\ response.charsetKnown

refreshEligibility(response) ==
  IF response.size = "large" THEN stop("skipped", "refresh-body-too-large", NoUrl)
  ELSE IF ~ IsHtml(response) THEN stop("skipped", "refresh-mime-unsupported", NoUrl)
  ELSE stop("failure", "refresh-charset-unsupported", NoUrl)

transitionFor(response, current) ==
  CASE response.redirect /\ response.location.state # "value" ->
         stop("failure", "invalid-target", NoUrl)
    [] response.redirect /\ response.location.state = "value" ->
         resolveTransition("http-redirect", response.location.ref, current)
    [] ~ response.redirect /\ response.refresh.state = "ambiguous" ->
         stop("failure", "invalid-refresh", NoUrl)
    [] ~ response.redirect /\ response.refresh.state = "value" ->
         IF Eligible(response)
         THEN parseRefreshTransition("http-refresh", response.refresh, current)
         ELSE refreshEligibility(response)
    [] ~ response.redirect /\ response.refresh.state = "missing" ->
         IF Method = "HEAD" \/ ~ IsHtml(response) THEN Terminal
         ELSE IF response.size = "large" THEN stop("skipped", "refresh-body-too-large", NoUrl)
         ELSE IF ~ response.charsetKnown
              THEN stop("failure", "refresh-charset-unsupported", NoUrl)
         ELSE IF response.meta.state = "missing" THEN Terminal
         ELSE parseRefreshTransition("html-meta-refresh", response.meta, current)

-----------------------------------------------------------------------------
(* The report.                                                             *)

degradationOutcome(url, status, code) ==
  <<[status |-> status, subject |-> url, code |-> code, findings |-> {}]>>

LastHop(hs) == {k \in DOMAIN hs : k = Len(hs)}

(* The first hop with the highest offline score. *)
worstHop(hs) ==
  {k \in DOMAIN hs :
     /\ \A j \in DOMAIN hs : offline[hs[j].url].score <= offline[hs[k].url].score
     /\ \A j \in 1..(k - 1) : offline[hs[j].url].score < offline[hs[k].url].score}

offlineFindings(hop) == offline[hop.url].codes \ base.codes

(***************************************************************************)
(* The first hop on a domain that the suspected parameter names, when the  *)
(* input raised the suspicion.  Payloads never name the input's domain.    *)
(***************************************************************************)
OnPayload(hop) ==
  offline[hop.url].domain \in base.payloads \ {base.domain}

correlateOpenRedirect(hs) ==
  {k \in DOMAIN hs :
     /\ Suspicion \in base.codes
     /\ OnPayload(hs[k])
     /\ \A j \in 1..(k - 1) : ~ OnPayload(hs[j])}

(* The bytes of a response that declares something else would run as markup. *)
ActiveMime(response) ==
  /\ Method # "HEAD" /\ response.size # "empty"
  /\ response.type \notin {"none", "text/html", "text/xml"}
  /\ ~ response.noSniff
  /\ response.sniffed \in {"text/html", "text/xml"}

(* Fault: the scheme of one hop decides. *)
PlainHop(hop) == hop.url \notin Https

httpsDowngradeFor(hop) ==
  hop.transition.kind # "none" /\ hop.url \in Https /\ hop.transition.target \notin Https

hopOutcome(hs, k) ==
  [status |-> "success", subject |-> hs[k].url, code |-> "none",
   findings |->
     (IF k \in worstHop(hs) THEN offlineFindings(hs[k]) ELSE {})
     \cup (IF k \in correlateOpenRedirect(hs) THEN {"open_redirect_observed"} ELSE {})
     \cup (IF ActiveMime(hs[k].response) THEN {"content_type_mismatch"} ELSE {})
     \cup (IF httpsDowngradeFor(hs[k]) THEN {"https_downgrade_observed"} ELSE {})]

outcomes(hs, stops) == [k \in DOMAIN hs |-> hopOutcome(hs, k)] \o stops

-----------------------------------------------------------------------------
NoRequest == [url |-> NoUrl, hop |-> 0, reason |-> "none", fromUrl |-> NoUrl]

Init ==
  /\ base \in Bases
  /\ pc = "created"
  /\ currentUrl = NoUrl
  /\ reason = "initial"
  /\ fromUrl = NoUrl
  /\ asked = NoRequest
  /\ hops = << >>
  /\ seen = {}
  /\ attempts = << >>
  /\ aborted = FALSE
  /\ report = << >>

InvalidInput ==
  /\ pc = "created" /\ canonical[base.input] = NoUrl
  /\ pc' = "returned"
  /\ report' = degradationOutcome(base.input, "failure", "invalid-target")
  /\ UNCHANGED <<base, currentUrl, reason, fromUrl, asked, hops, seen, attempts, aborted>>

Begin ==
  /\ pc = "created" /\ canonical[base.input] # NoUrl
  /\ currentUrl' = canonical[base.input]
  /\ pc' = "loop"
  /\ UNCHANGED <<base, reason, fromUrl, asked, hops, seen, attempts, aborted, report>>

(* break, after which the report is put together. *)
Break(stops) ==
  /\ pc' = "returned"
  /\ report' = outcomes(hops', stops)
  /\ UNCHANGED <<base, currentUrl, reason, fromUrl, asked, aborted>>

Stop(status, code) ==
  UNCHANGED hops /\ Break(degradationOutcome(currentUrl, status, code))

(***************************************************************************)
(* The head of the loop.  The signal may have fired while the last fetch   *)
(* was awaited.                                                            *)
(***************************************************************************)
StopAborted ==
  /\ pc = "loop" /\ aborted
  /\ Stop("skipped", "caller-aborted")
  /\ UNCHANGED <<seen, attempts>>

StopLoop ==
  /\ pc = "loop" /\ ~ aborted
  /\ currentUrl \in seen
  /\ Stop("failure", "redirect-loop")
  /\ UNCHANGED <<seen, attempts>>

LimitReached == Len(hops) >= MaxHops

StopHopLimit ==
  /\ pc = "loop" /\ ~ aborted
  /\ currentUrl \notin seen /\ LimitReached
  /\ Stop("failure", "hop-limit")
  /\ UNCHANGED <<seen, attempts>>

(* Fault: the request that was granted first serves every hop. *)
RequestOnce ==
  IF asked = NoRequest
  THEN [url |-> currentUrl, hop |-> 1, reason |-> reason, fromUrl |-> fromUrl]
  ELSE asked

Request == [url |-> currentUrl, hop |-> Len(hops) + 1, reason |-> reason, fromUrl |-> fromUrl]

Ask ==
  /\ pc = "loop" /\ ~ aborted
  /\ currentUrl \notin seen /\ ~ LimitReached
  /\ asked' = Request
  /\ pc' = "authorizing"
  /\ UNCHANGED <<base, currentUrl, reason, fromUrl, hops, seen, attempts, aborted, report>>

AuthorizeThrows ==
  /\ pc = "authorizing"
  /\ Stop("failure", "authorization-error")
  /\ UNCHANGED <<seen, attempts>>

AuthorizeDenies ==
  /\ pc = "authorizing"
  /\ Stop("skipped", "authorization-denied")
  /\ UNCHANGED <<seen, attempts>>

Attempted ==
  /\ seen' = seen \cup {currentUrl}
  /\ attempts' = Append(attempts, [url |-> currentUrl, grant |-> asked])

AuthorizeGrants ==
  /\ pc = "authorizing" /\ ~ aborted
  /\ Attempted
  /\ pc' = "fetching"
  /\ UNCHANGED <<base, currentUrl, reason, fromUrl, asked, hops, aborted, report>>

(***************************************************************************)
(* The grant came after the abort: there is no check here, and the session *)
(* turns the call away, for its hop limit first (safe-transport.ts:113).   *)
(***************************************************************************)
GrantedTooLate ==
  /\ pc = "authorizing" /\ aborted
  /\ Attempted
  /\ \E code \in {"hop-limit", "caller-aborted"} : Stop("failure", code)

(***************************************************************************)
(* transportDegradation: blocked is skipped, incomplete is failure.        *)
(***************************************************************************)
FetchBlocked ==
  /\ pc = "fetching"
  /\ Stop("skipped", "blocked")
  /\ UNCHANGED <<seen, attempts>>

FetchIncomplete ==
  /\ pc = "fetching"
  /\ \E code \in {"incomplete", "hop-limit"} \cup (IF aborted THEN {"caller-aborted"} ELSE {}) :
       Stop("failure", code)
  /\ UNCHANGED <<seen, attempts>>

Hop(response, d) ==
  [url |-> currentUrl, response |-> response,
   transition |-> IF d.status = "follow" THEN [kind |-> d.kind, target |-> d.target]
                  ELSE [kind |-> "none", target |-> NoUrl]]

StopsOf(d) ==
  IF d.status = "terminal" THEN << >>
  ELSE degradationOutcome(IF d.target = NoUrl THEN currentUrl ELSE d.target, d.status, d.code)

(***************************************************************************)
(* The hop is kept whatever comes next; the chain goes on only when the    *)
(* response leads somewhere.                                               *)
(***************************************************************************)
Ends(response) ==
  LET d == transitionFor(response, currentUrl) IN
  /\ pc = "fetching" /\ d.status # "follow"
  /\ hops' = Append(hops, Hop(response, d))
  /\ Break(StopsOf(d))
  /\ UNCHANGED <<seen, attempts>>

Follows(response) ==
  LET d == transitionFor(response, currentUrl) IN
  /\ pc = "fetching" /\ d.status = "follow"
  /\ hops' = Append(hops, Hop(response, d))
  /\ fromUrl' = currentUrl
  /\ currentUrl' = d.target
  /\ reason' = d.kind
  /\ pc' = "loop"
  /\ UNCHANGED <<base, asked, seen, attempts, aborted, report>>

CallerAborts ==
  /\ ~ aborted /\ pc # "returned"
  /\ aborted' = TRUE
  /\ UNCHANGED <<base, pc, currentUrl, reason, fromUrl, asked, hops, seen, attempts, report>>

Returned == pc = "returned" /\ UNCHANGED vars

Next ==
  \/ InvalidInput \/ Begin
  \/ StopAborted \/ StopLoop \/ StopHopLimit \/ Ask
  \/ AuthorizeThrows \/ AuthorizeDenies \/ AuthorizeGrants \/ GrantedTooLate
  \/ FetchBlocked \/ FetchIncomplete
  \/ \E response \in Responses : Ends(response) \/ Follows(response)
  \/ CallerAborts \/ Returned

Spec == Init /\ [][Next]_vars

-----------------------------------------------------------------------------
Requests ==
  [url : Url \cup {NoUrl}, hop : Nat, reason : Kinds \cup {"initial", "none"},
   fromUrl : Url \cup {NoUrl}]

Hops ==
  [url : Url, response : Responses,
   transition : [kind : Kinds \cup {"none"}, target : Url \cup {NoUrl}]]

TypeOK ==
  /\ base \in Bases
  /\ pc \in {"created", "loop", "authorizing", "fetching", "returned"}
  /\ currentUrl \in Url \cup {NoUrl}
  /\ reason \in Kinds \cup {"initial"}
  /\ fromUrl \in Url \cup {NoUrl}
  /\ asked \in Requests
  /\ hops \in Seq(Hops)
  /\ seen \in SUBSET Url
  /\ attempts \in Seq([url : Url, grant : Requests])
  /\ aborted \in BOOLEAN

Done == pc = "returned" /\ currentUrl # NoUrl

(***************************************************************************)
(* The requests of one call form one chain: at most MaxHops of them, no    *)
(* URL twice, each to where the last response led and each granted for     *)
(* exactly that URL, hop, mechanism and origin (redirect-chain.ts:178-258).*)
(***************************************************************************)
Origin(k) ==
  IF k = 1 THEN [url |-> canonical[base.input], hop |-> 1, reason |-> "initial", fromUrl |-> NoUrl]
  ELSE [url |-> hops[k - 1].transition.target, hop |-> k,
        reason |-> hops[k - 1].transition.kind, fromUrl |-> hops[k - 1].url]

OneAuthorizedChain ==
  /\ Len(attempts) <= MaxHops
  /\ Len(attempts) \in {Len(hops), Len(hops) + 1}
  /\ \A k \in 1..Len(attempts) :
       /\ attempts[k].grant = Origin(k)
       /\ attempts[k].url = attempts[k].grant.url
       /\ \A j \in 1..Len(attempts) : attempts[j].url = attempts[k].url => j = k
  /\ \A k \in 1..Len(hops) : hops[k].url = attempts[k].url

LedOn == hops # << >> /\ hops[Len(hops)].transition.kind # "none"

(***************************************************************************)
(* What the loop keeps true between awaits, from which the properties      *)
(* follow: seen is the URLs attempted; at the head of the loop every       *)
(* attempt has become a hop and the next request continues the chain.      *)
(***************************************************************************)
LoopInv ==
  /\ pc = "created" => /\ hops = << >> /\ attempts = << >> /\ currentUrl = NoUrl
                       /\ reason = "initial" /\ fromUrl = NoUrl
  /\ pc \notin {"created", "returned"} =>
       currentUrl \in Url /\ (hops = << >> \/ LedOn)
  /\ seen = {attempts[k].url : k \in 1..Len(attempts)}
  /\ pc \in {"loop", "authorizing"} =>
       /\ Len(attempts) = Len(hops)
       /\ Request = Origin(Len(hops) + 1)
  /\ pc = "authorizing" =>
       asked = Request /\ currentUrl \notin seen /\ Len(hops) < MaxHops
  /\ pc = "fetching" =>
       /\ Len(attempts) = Len(hops) + 1
       /\ attempts[Len(attempts)].url = currentUrl

(***************************************************************************)
(* A chain never ends in silence: unless its last response led nowhere,    *)
(* the report closes with one stop, about the URL that was not reached,    *)
(* and the stop's cause is true of the chain (redirect-chain.ts:178-300).  *)
(***************************************************************************)
Stops == SubSeq(report, Len(hops) + 1, Len(report))

StopIsTrue(s) ==
  /\ s.status # "success"
  /\ s.code = "caller-aborted" => aborted
  /\ s.code = "redirect-loop" => \E k \in 1..Len(hops) : hops[k].url = s.subject
  /\ (s.code = "hop-limit" /\ Len(hops) = Len(attempts)) => Len(hops) = MaxHops
  /\ s.subject \in Outside => s.code = "invalid-target"

EndIsNamed ==
  Done =>
    /\ Len(report) \in {Len(hops), Len(hops) + 1}
    /\ \A k \in 1..Len(Stops) : StopIsTrue(Stops[k])
    /\ (hops = << >> \/ LedOn) => Len(Stops) = 1 /\ Stops[1].subject = currentUrl
    /\ (hops # << >> /\ ~ LedOn) =>
         (Stops = << >> <=>
            transitionFor(hops[Len(hops)].response, currentUrl).status = "terminal")

(***************************************************************************)
(* What was observed is reported, once and where it happened: a hop is     *)
(* said to leave TLS exactly when its response led from https to http,     *)
(* also when the chain was cut before the target; an open redirect only    *)
(* when it was suspected and a hop reached a payload's domain.             *)
(***************************************************************************)
ObservationsAreTrue ==
  Done =>
    \A k \in 1..Len(hops) :
      /\ "https_downgrade_observed" \in report[k].findings <=>
           LET d == transitionFor(hops[k].response, hops[k].url) IN
           d.status = "follow" /\ hops[k].url \in Https /\ d.target \notin Https
      /\ "open_redirect_observed" \in report[k].findings =>
           /\ Suspicion \in base.codes
           /\ offline[hops[k].url].domain # base.domain
           /\ \A j \in 1..Len(hops) :
                j # k => "open_redirect_observed" \notin report[j].findings

(***************************************************************************)
(* Nothing is counted twice and the worst is not lost: a code that already *)
(* counts for the input is not raised again, no other is raised by two     *)
(* hops, and every code of a hop that scores above all others is there     *)
(* (redirect-chain.ts:302-325).                                            *)
(***************************************************************************)
WorstHopSpeaksOnce ==
  Done =>
    /\ \A k \in 1..Len(hops) : report[k].findings \cap base.codes = {}
    /\ \A c \in Code : Cardinality({k \in 1..Len(hops) : c \in report[k].findings}) <= 1
    /\ \A k \in 1..Len(hops) :
         (\A j \in 1..Len(hops) \ {k} :
            offline[hops[j].url].score < offline[hops[k].url].score)
           => offline[hops[k].url].codes \subseteq base.codes \cup report[k].findings

(***************************************************************************)
(* What the chain is said to be is what happened on it, and the worst hop  *)
(* speaks once.                                                            *)
(***************************************************************************)
ChainIsToldTruly == ObservationsAreTrue /\ WorstHopSpeaksOnce

=============================================================================
