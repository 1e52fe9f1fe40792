-------------------------- MODULE Resolution_proofs --------------------------
(***************************************************************************)
(* Proofs about the redirect chain, the Node ports, the divergence probe   *)
(* and the decoding of wrappers: any number of sockets and variants, any   *)
(* error codes and bodies, texts of any length, wrappers of any depth.     *)
(***************************************************************************)
EXTENDS MCResolution, FiniteSetTheorems, SequenceTheorems, WellFoundedInduction, TLAPS

(***************************************************************************)
(* The requests of one enrich call form one authorized chain, for any      *)
(* URLs, responses, authorizer and limit.                                  *)
(***************************************************************************)
Inv == TypeOK /\ LoopInv /\ OneAuthorizedChain

(***************************************************************************)
(* A response that is followed leads to a URL of http or https by one of   *)
(* the three mechanisms.                                                   *)
(***************************************************************************)
LEMMA ResolvedTarget ==
  ASSUME NEW kind \in Kinds, NEW ref \in Ref \cup {NoRef}, NEW u \in Url,
         resolveTransition(kind, ref, u).status = "follow"
  PROVE  /\ resolveTransition(kind, ref, u).kind = kind
         /\ resolveTransition(kind, ref, u).target \in Url
<1> DEFINE t == IF ref = NoRef THEN u ELSE resolve[ref][u]
<1>1. t \in Url \cup Outside \cup {NoUrl}
  BY UrlAssumption
<1>2. t # NoUrl /\ t \notin Outside
  BY DEF resolveTransition, stop
<1> QED
  BY <1>1, <1>2 DEF resolveTransition, follow

LEMMA FollowedTarget ==
  ASSUME NEW r \in Responses, NEW u \in Url, transitionFor(r, u).status = "follow"
  PROVE  /\ transitionFor(r, u).kind \in Kinds
         /\ transitionFor(r, u).target \in Url
<1>1. /\ r.redirect \in BOOLEAN
      /\ \A h \in {r.location, r.refresh, r.meta} :
           /\ h.state \in {"missing", "ambiguous", "value"}
           /\ h.state = "value" /\ ~ h.malformed => h.ref \in Ref \cup {NoRef}
      /\ ~ r.location.malformed /\ r.meta.state # "ambiguous"
  BY ResponsesAssumption
<1>2. /\ "http-redirect" \in Kinds /\ "http-refresh" \in Kinds
      /\ "html-meta-refresh" \in Kinds
  BY DEF Kinds
<1>3. CASE r.redirect
  <2>1. transitionFor(r, u) = resolveTransition("http-redirect", r.location.ref, u)
    BY <1>1, <1>3 DEF transitionFor, stop
  <2>2. r.location.ref \in Ref \cup {NoRef}
    BY <1>1, <1>3 DEF transitionFor, stop
  <2> QED
    BY <1>2, <2>1, <2>2, ResolvedTarget
<1>4. ASSUME NEW kind \in Kinds, NEW h \in {r.refresh, r.meta}, h.state = "value",
             transitionFor(r, u) = parseRefreshTransition(kind, h, u)
      PROVE  /\ transitionFor(r, u).kind \in Kinds
             /\ transitionFor(r, u).target \in Url
  <2>1. ~ h.malformed /\ transitionFor(r, u) = resolveTransition(kind, h.ref, u)
    BY <1>4 DEF parseRefreshTransition, stop
  <2>2. h.ref \in Ref \cup {NoRef}
    BY <1>1, <1>4, <2>1
  <2> QED
    BY <2>1, <2>2, ResolvedTarget
<1>5. CASE ~ r.redirect /\ r.refresh.state = "value"
  <2>1. transitionFor(r, u) = parseRefreshTransition("http-refresh", r.refresh, u)
    BY <1>5 DEF transitionFor, refreshEligibility, stop
  <2> QED
    BY <1>2, <1>4, <1>5, <2>1
<1>6. CASE ~ r.redirect /\ r.refresh.state # "value"
  <2>1. /\ transitionFor(r, u) = parseRefreshTransition("html-meta-refresh", r.meta, u)
        /\ r.meta.state # "missing"
    BY <1>1, <1>6 DEF transitionFor, Terminal, stop
  <2> QED
    BY <1>1, <1>2, <1>4, <2>1
<1> QED
  BY <1>1, <1>3, <1>5, <1>6

LEMMA InvInit == Init => Inv
<1> SUFFICES ASSUME Init PROVE Inv
  OBVIOUS
<1>1. TypeOK
  <2>1. NoRequest \in Requests
    BY DEF NoRequest, Requests
  <2>2. << >> \in Seq(Hops) /\ << >> \in Seq([url : Url, grant : Requests])
    OBVIOUS
  <2> QED
    BY <2>1, <2>2 DEF Init, TypeOK
<1>2. LoopInv
  BY DEF Init, LoopInv
<1>3. OneAuthorizedChain
  BY ChainAssumption DEF Init, OneAuthorizedChain
<1> QED
  BY <1>1, <1>2, <1>3 DEF Inv

(***************************************************************************)
(* Steps that touch neither hops nor attempts keep the chain.              *)
(***************************************************************************)
LEMMA ChainKept ==
  ASSUME OneAuthorizedChain, base' = base, hops' = hops, attempts' = attempts
  PROVE  OneAuthorizedChain'
BY DEF OneAuthorizedChain, Origin

LEMMA StopKeeps ==
  ASSUME Inv, pc' = "returned", seen' = seen, hops' = hops, attempts' = attempts,
         UNCHANGED <<base, currentUrl, reason, fromUrl, asked, aborted>>
  PROVE  Inv'
<1>1. TypeOK'
  BY DEF Inv, TypeOK
<1>2. LoopInv'
  BY DEF Inv, LoopInv
<1>3. OneAuthorizedChain'
  BY ChainKept DEF Inv
<1> QED
  BY <1>1, <1>2, <1>3 DEF Inv

(***************************************************************************)
(* A granted request continues the chain.                                  *)
(***************************************************************************)
LEMMA AttemptKeeps ==
  ASSUME Inv, pc = "authorizing", Attempted, base' = base, hops' = hops
  PROVE  /\ seen' \in SUBSET Url
         /\ attempts' \in Seq([url : Url, grant : Requests])
         /\ seen' = {attempts'[k].url : k \in 1..Len(attempts')}
         /\ Len(attempts') = Len(hops) + 1
         /\ attempts'[Len(attempts')].url = currentUrl
         /\ OneAuthorizedChain'
<1> DEFINE n == Len(hops)
           a == [url |-> currentUrl, grant |-> asked]
<1>1. /\ currentUrl \in Url /\ asked \in Requests /\ seen \in SUBSET Url
      /\ attempts \in Seq([url : Url, grant : Requests])
      /\ hops \in Seq(Hops) /\ n \in Nat /\ MaxHops \in Nat
      /\ Len(attempts) = n /\ n < MaxHops
      /\ asked = Request /\ Request = Origin(n + 1)
      /\ currentUrl \notin seen
      /\ seen = {attempts[k].url : k \in 1..Len(attempts)}
  BY ChainAssumption DEF Inv, TypeOK, LoopInv
<1>2. a \in [url : Url, grant : Requests] /\ a.url = currentUrl /\ a.grant = asked
  BY <1>1
<1>3. /\ attempts' = Append(attempts, a)
      /\ seen' = seen \cup {currentUrl}
  BY DEF Attempted
<1> HIDE DEF a
<1>4. /\ attempts' \in Seq([url : Url, grant : Requests])
      /\ Len(attempts') = n + 1
      /\ attempts'[n + 1] = a
      /\ \A k \in 1..n : attempts'[k] = attempts[k]
  BY <1>1, <1>2, <1>3
<1>5. seen' = {attempts'[k].url : k \in 1..Len(attempts')}
  BY <1>1, <1>2, <1>3, <1>4
<1>6. OneAuthorizedChain'
  <2>1. \A k \in 1..(n + 1) : Origin(k)' = Origin(k)
    BY DEF Origin
  <2>2. \A k \in 1..n : /\ attempts[k].grant = Origin(k)
                        /\ attempts[k].url = attempts[k].grant.url
                        /\ attempts[k].url # currentUrl
                        /\ hops[k].url = attempts[k].url
                        /\ \A j \in 1..n : attempts[j].url = attempts[k].url => j = k
    BY <1>1 DEF Inv, OneAuthorizedChain
  <2>3. a.grant = Origin(n + 1) /\ a.url = a.grant.url
    BY <1>1, <1>2 DEF Request
  <2>4. \A k \in 1..(n + 1) :
          /\ attempts'[k].grant = Origin(k)'
          /\ attempts'[k].url = attempts'[k].grant.url
          /\ \A j \in 1..(n + 1) : attempts'[j].url = attempts'[k].url => j = k
    <3>1. \A k \in 1..n : /\ attempts'[k].grant = Origin(k)'
                          /\ attempts'[k].url = attempts'[k].grant.url
                          /\ attempts'[k].url # currentUrl
                          /\ \A j \in 1..n : attempts'[j].url = attempts'[k].url => j = k
      BY <1>1, <1>4, <2>1, <2>2
    <3>2. /\ attempts'[n + 1].grant = Origin(n + 1)'
          /\ attempts'[n + 1].url = attempts'[n + 1].grant.url
          /\ attempts'[n + 1].url = currentUrl
      BY <1>1, <1>2, <1>4, <2>1, <2>3
    <3>3. \A k \in 1..(n + 1) : k \in 1..n \/ k = n + 1
      BY <1>1
    <3> QED
      BY <3>1, <3>2, <3>3
  <2>5. \A k \in 1..n : hops'[k].url = attempts'[k].url
    BY <1>4, <2>2
  <2>6. Len(attempts') <= MaxHops /\ Len(attempts') \in {n, n + 1}
    BY <1>1, <1>4
  <2> QED
    BY <1>4, <2>4, <2>5, <2>6 DEF OneAuthorizedChain
<1> QED
  BY <1>1, <1>2, <1>3, <1>4, <1>5, <1>6

(***************************************************************************)
(* A fetched hop is where the last attempt went.                           *)
(***************************************************************************)
LEMMA HopKeeps ==
  ASSUME Inv, pc = "fetching", NEW r \in Responses,
         hops' = Append(hops, Hop(r, transitionFor(r, currentUrl))),
         base' = base, attempts' = attempts
  PROVE  /\ hops' \in Seq(Hops)
         /\ Len(hops') = Len(hops) + 1
         /\ Len(attempts') = Len(hops')
         /\ hops'[Len(hops')] = Hop(r, transitionFor(r, currentUrl))
         /\ OneAuthorizedChain'
<1> DEFINE n == Len(hops)
           d == transitionFor(r, currentUrl)
           h == Hop(r, d)
<1>1. /\ currentUrl \in Url /\ hops \in Seq(Hops) /\ n \in Nat
      /\ Len(attempts) = n + 1 /\ attempts[n + 1].url = currentUrl
  BY DEF Inv, TypeOK, LoopInv
<1>2. d.status = "follow" => d.kind \in Kinds /\ d.target \in Url
  BY <1>1, FollowedTarget
<1>3. h \in Hops /\ h.url = currentUrl
  <2> HIDE DEF d
  <2> QED
    BY <1>1, <1>2 DEF Hop, Hops
<1> HIDE DEF h, d
<1>4. /\ hops' \in Seq(Hops) /\ Len(hops') = n + 1 /\ hops'[n + 1] = h
      /\ \A k \in 1..n : hops'[k] = hops[k]
  BY <1>1, <1>3 DEF h, d
<1>5. \A k \in 1..(n + 1) : Origin(k)' = Origin(k)
  BY <1>1, <1>4 DEF Origin
<1>6. OneAuthorizedChain'
  BY <1>1, <1>3, <1>4, <1>5 DEF Inv, OneAuthorizedChain
<1> QED
  BY <1>1, <1>4, <1>6 DEF h, d

LEMMA InvNext == Inv /\ [Next]_vars => Inv'
<1> SUFFICES ASSUME Inv, [Next]_vars PROVE Inv'
  OBVIOUS
<1> USE DEF Inv
<1>1. CASE InvalidInput
  BY <1>1, StopKeeps DEF InvalidInput
<1>2. CASE Begin
  <2>1. canonical[base.input] \in Url
    BY <1>2, UrlAssumption, ChainAssumption DEF Begin, TypeOK
  <2>2. TypeOK'
    BY <1>2, <2>1 DEF Begin, TypeOK
  <2>3. Request' = Origin(1)'
    BY <1>2 DEF Begin, LoopInv, Request, Origin
  <2>4. LoopInv'
    BY <1>2, <2>1, <2>3 DEF Begin, LoopInv
  <2>5. OneAuthorizedChain'
    BY <1>2, ChainKept DEF Begin
  <2> QED
    BY <2>2, <2>4, <2>5
<1>3. CASE StopAborted \/ StopLoop \/ StopHopLimit \/ AuthorizeThrows \/ AuthorizeDenies
           \/ FetchBlocked \/ FetchIncomplete
  BY <1>3, StopKeeps DEF StopAborted, StopLoop, StopHopLimit, AuthorizeThrows,
     AuthorizeDenies, FetchBlocked, FetchIncomplete, Stop, Break
<1>4. CASE Ask
  <2>1. Request \in Requests /\ currentUrl \in Url
    BY <1>4 DEF Ask, Request, Requests, TypeOK, LoopInv
  <2>2. TypeOK'
    BY <1>4, <2>1 DEF Ask, TypeOK
  <2>3. Request' = Request /\ Origin(Len(hops) + 1)' = Origin(Len(hops) + 1)
    BY <1>4 DEF Ask, Request, Origin
  <2>4. Len(hops) < MaxHops
    BY <1>4, ChainAssumption DEF Ask, LimitReached, TypeOK
  <2>5. LoopInv'
    BY <1>4, <2>1, <2>3, <2>4 DEF Ask, LoopInv, LedOn
  <2>6. OneAuthorizedChain'
    BY <1>4, ChainKept DEF Ask
  <2> QED
    BY <2>2, <2>5, <2>6
<1>5. CASE AuthorizeGrants
  <2>1. /\ seen' \in SUBSET Url
        /\ attempts' \in Seq([url : Url, grant : Requests])
        /\ seen' = {attempts'[k].url : k \in 1..Len(attempts')}
        /\ Len(attempts') = Len(hops) + 1
        /\ attempts'[Len(attempts')].url = currentUrl
        /\ OneAuthorizedChain'
    BY <1>5, AttemptKeeps DEF AuthorizeGrants
  <2>2. TypeOK'
    BY <1>5, <2>1 DEF AuthorizeGrants, TypeOK
  <2>3. LoopInv'
    BY <1>5, <2>1 DEF AuthorizeGrants, LoopInv, LedOn
  <2> QED
    BY <2>1, <2>2, <2>3
<1>6. CASE GrantedTooLate
  <2>1. /\ pc = "authorizing" /\ Attempted /\ pc' = "returned" /\ hops' = hops
        /\ UNCHANGED <<base, currentUrl, reason, fromUrl, asked, aborted>>
    BY <1>6 DEF GrantedTooLate, Stop, Break
  <2>2. /\ seen' \in SUBSET Url
        /\ attempts' \in Seq([url : Url, grant : Requests])
        /\ seen' = {attempts'[k].url : k \in 1..Len(attempts')}
        /\ OneAuthorizedChain'
    BY <2>1, AttemptKeeps
  <2>3. TypeOK'
    BY <2>1, <2>2 DEF TypeOK
  <2>4. LoopInv'
    BY <2>1, <2>2 DEF LoopInv
  <2> QED
    BY <2>2, <2>3, <2>4
<1>7. ASSUME NEW r \in Responses, Ends(r) \/ Follows(r)
      PROVE  Inv'
  <2> DEFINE d == transitionFor(r, currentUrl)
  <2>1. /\ pc = "fetching" /\ hops' = Append(hops, Hop(r, d))
        /\ UNCHANGED <<base, asked, seen, attempts, aborted>>
    BY <1>7 DEF Ends, Follows, Break
  <2>2. /\ hops' \in Seq(Hops)
        /\ Len(hops') = Len(hops) + 1
        /\ Len(attempts') = Len(hops')
        /\ hops'[Len(hops')] = Hop(r, d)
        /\ OneAuthorizedChain'
    BY <2>1, HopKeeps
  <2>3. CASE Ends(r)
    <3>1. pc' = "returned" /\ UNCHANGED <<currentUrl, reason, fromUrl>>
      BY <2>3 DEF Ends, Break
    <3>2. TypeOK'
      BY <2>1, <2>2, <3>1 DEF TypeOK
    <3>3. LoopInv'
      BY <2>1, <2>2, <3>1 DEF LoopInv
    <3> QED
      BY <2>2, <3>2, <3>3
  <2>4. CASE Follows(r)
    <3>1. /\ d.status = "follow" /\ fromUrl' = currentUrl /\ currentUrl' = d.target
          /\ reason' = d.kind /\ pc' = "loop"
      BY <2>4 DEF Follows
    <3>2. currentUrl \in Url /\ d.kind \in Kinds /\ d.target \in Url
      BY <2>1, <3>1, FollowedTarget DEF LoopInv
    <3> HIDE DEF d
    <3>3. TypeOK'
      BY <2>1, <2>2, <3>1, <3>2 DEF TypeOK
    <3>4. /\ hops'[Len(hops')].url = currentUrl
          /\ hops'[Len(hops')].transition.kind = d.kind
          /\ hops'[Len(hops')].transition.target = d.target
      BY <2>2, <3>1 DEF Hop
    <3>5. Request' = Origin(Len(hops) + 1)'
      <4>1. Len(hops) \in Nat
        BY DEF TypeOK
      <4> QED
        BY <2>2, <3>1, <3>4, <4>1 DEF Request, Origin
    <3>6. LedOn'
      <4>1. Len(hops) \in Nat /\ d.kind # "none"
        BY <3>2 DEF TypeOK, Kinds
      <4> QED
        BY <2>2, <3>4, <4>1 DEF LedOn
    <3>7. LoopInv'
      BY <2>1, <2>2, <3>1, <3>2, <3>5, <3>6 DEF LoopInv
    <3> QED
      BY <2>2, <3>3, <3>7
  <2> QED
    BY <1>7, <2>3, <2>4
<1>8. CASE CallerAborts
  <2>1. TypeOK'
    BY <1>8 DEF CallerAborts, TypeOK
  <2>2. LoopInv'
    BY <1>8 DEF CallerAborts, LoopInv, LedOn, Request, Origin
  <2>3. OneAuthorizedChain'
    BY <1>8, ChainKept DEF CallerAborts
  <2> QED
    BY <2>1, <2>2, <2>3
<1>9. CASE UNCHANGED vars
  <2>1. TypeOK'
    BY <1>9 DEF vars, TypeOK
  <2>2. LoopInv'
    BY <1>9 DEF vars, LoopInv, LedOn, Request, Origin
  <2>3. OneAuthorizedChain'
    BY <1>9, ChainKept DEF vars
  <2> QED
    BY <2>1, <2>2, <2>3
<1> QED
  BY <1>1, <1>2, <1>3, <1>4, <1>5, <1>6, <1>7, <1>8, <1>9 DEF Next, Returned

LEMMA InvHolds == Spec => []Inv
BY InvInit, InvNext, PTL DEF Spec

(***************************************************************************)
(* Whatever the responses and the authorizer do, the requests of one call  *)
(* are one chain of at most MaxHops URLs, all different, each granted for  *)
(* itself (createRedirectChainEnricher).                                   *)
(***************************************************************************)
THEOREM ChainAuthorized == Spec => []OneAuthorizedChain
<1>1. Inv => OneAuthorizedChain
  BY DEF Inv
<1> QED
  BY <1>1, InvHolds, PTL

-----------------------------------------------------------------------------
(***************************************************************************)
(* The stops a report was closed with can be read off its end.             *)
(***************************************************************************)
LEMMA ReportEnd ==
  ASSUME NEW S, NEW hs \in Seq(S), NEW T, NEW stops \in Seq(T)
  PROVE  LET r == outcomes(hs, stops) IN
         /\ Len(r) = Len(hs) + Len(stops)
         /\ SubSeq(r, Len(hs) + 1, Len(r)) = stops
<1> DEFINE f == [k \in DOMAIN hs |-> hopOutcome(hs, k)]
           V == {hopOutcome(hs, k) : k \in DOMAIN hs} \cup T
<1>1. f \in Seq(V) /\ Len(f) = Len(hs) /\ stops \in Seq(V) /\ Len(hs) \in Nat
  <2>1. DOMAIN hs = 1..Len(hs) /\ Len(hs) \in Nat
    OBVIOUS
  <2>2. \A k \in 1..Len(hs) : hopOutcome(hs, k) \in V
    BY <2>1
  <2>3. stops \in Seq(V)
    OBVIOUS
  <2> QED
    BY <2>1, <2>2, <2>3
<1> HIDE DEF f, V
<1>2. outcomes(hs, stops) = f \o stops
  BY DEF outcomes, f
<1>3. Len(f \o stops) = Len(hs) + Len(stops)
  BY <1>1
<1>4. SubSeq(f \o stops, Len(hs) + 1, Len(f \o stops)) = stops
  <2>1. Len(stops) \in Nat
    BY <1>1
  <2>2. SubSeq(f \o stops, Len(hs) + 1, Len(f \o stops)) =
          [i \in 1..Len(stops) |-> (f \o stops)[i + Len(hs)]]
    BY <1>1, <1>3, <2>1
  <2>3. \A i \in 1..Len(stops) : (f \o stops)[i + Len(hs)] = stops[i]
    BY <1>1, <2>1
  <2>4. stops = [i \in 1..Len(stops) |-> stops[i]]
    OBVIOUS
  <2> QED
    BY <2>2, <2>3, <2>4
<1> QED
  BY <1>2, <1>3, <1>4

(***************************************************************************)
(* A response that is not followed ends the chain or stops it with one of  *)
(* the codes of transitionFor, about a foreign URL only as invalid.        *)
(***************************************************************************)
TransitionCodes ==
  {"invalid-target", "invalid-refresh", "refresh-delay-exceeded",
   "refresh-body-too-large", "refresh-mime-unsupported", "refresh-charset-unsupported"}

StoppedBy(d) ==
  /\ d.status \in {"skipped", "failure"}
  /\ d.code \in TransitionCodes
  /\ d.target \in Outside => d.code = "invalid-target"

LEMMA StoppedDecision ==
  ASSUME NEW r \in Responses, NEW u \in Url, transitionFor(r, u).status # "follow"
  PROVE  transitionFor(r, u) = Terminal \/ StoppedBy(transitionFor(r, u))
<1>1. /\ r.redirect \in BOOLEAN
      /\ \A h \in {r.location, r.refresh, r.meta} :
           h.state \in {"missing", "ambiguous", "value"}
  BY ResponsesAssumption
<1>2. \A status \in {"skipped", "failure"}, code \in TransitionCodes :
        StoppedBy(stop(status, code, NoUrl))
  BY UrlAssumption DEF StoppedBy, stop
<1>3. \A kind, ref : resolveTransition(kind, ref, u).status # "follow" =>
                       StoppedBy(resolveTransition(kind, ref, u))
  BY UrlAssumption DEF resolveTransition, follow, stop, StoppedBy, TransitionCodes
<1>4. \A kind, h : parseRefreshTransition(kind, h, u).status # "follow" =>
                     StoppedBy(parseRefreshTransition(kind, h, u))
  BY <1>2, <1>3 DEF parseRefreshTransition, TransitionCodes
<1>5. StoppedBy(refreshEligibility(r))
  BY <1>2 DEF refreshEligibility, TransitionCodes
<1>6. CASE r.redirect
  BY <1>1, <1>2, <1>3, <1>6 DEF transitionFor, TransitionCodes
<1>7. CASE ~ r.redirect /\ r.refresh.state # "missing"
  BY <1>1, <1>2, <1>4, <1>5, <1>7 DEF transitionFor, TransitionCodes
<1>8. CASE ~ r.redirect /\ r.refresh.state = "missing"
  BY <1>1, <1>2, <1>4, <1>8 DEF transitionFor, TransitionCodes
<1> QED
  BY <1>1, <1>6, <1>7, <1>8

(***************************************************************************)
(* A stop about the URL that was next names where the chain ended.         *)
(***************************************************************************)
LEMMA StopNames ==
  ASSUME Inv, pc \notin {"created", "returned"},
         NEW status \in {"skipped", "failure"}, NEW code,
         Stop(status, code),
         code = "caller-aborted" => aborted,
         code = "redirect-loop" => \E k \in 1..Len(hops) : hops[k].url = currentUrl,
         (code = "hop-limit" /\ Len(hops) = Len(attempts')) => Len(hops) = MaxHops
  PROVE  EndIsNamed'
<1> DEFINE o == [status |-> status, subject |-> currentUrl, code |-> code, findings |-> {}]
<1>1. /\ hops' = hops /\ currentUrl' = currentUrl /\ aborted' = aborted
      /\ report' = outcomes(hops, <<o>>)
  BY DEF Stop, Break, degradationOutcome
<1>2. hops \in Seq(Hops) /\ Len(hops) \in Nat /\ currentUrl \in Url /\ (hops = << >> \/ LedOn)
  BY DEF Inv, TypeOK, LoopInv
<1>3. <<o>> \in Seq({o}) /\ Len(<<o>>) = 1 /\ <<o>>[1] = o
  OBVIOUS
<1>4. Len(report') = Len(hops) + 1 /\ Stops' = <<o>>
  BY <1>1, <1>2, <1>3, ReportEnd DEF Stops
<1>5. /\ o.status # "success" /\ o.subject = currentUrl /\ o.code = code
      /\ o.subject \notin Outside
  BY <1>2, UrlAssumption
<1>6. hops' = << >> \/ LedOn'
  BY <1>1, <1>2 DEF LedOn
<1> HIDE DEF o
<1>7. Stops'[1] = o /\ Len(Stops') = 1 /\ o.subject = currentUrl
  BY <1>3, <1>4 DEF o
<1>8. \A k \in 1..Len(Stops') : StopIsTrue(Stops[k])'
  <2>1. \A k \in 1..Len(Stops') : Stops'[k] = o
    BY <1>7
  <2> QED
    BY <1>1, <1>5, <2>1 DEF StopIsTrue
<1> QED
  BY <1>1, <1>4, <1>6, <1>7, <1>8 DEF EndIsNamed

(***************************************************************************)
(* The last response ended the chain, or its stop says why.                *)
(***************************************************************************)
LEMMA EndsNames ==
  ASSUME Inv, NEW r \in Responses, Ends(r)
  PROVE  EndIsNamed'
<1> DEFINE d == transitionFor(r, currentUrl)
           n == Len(hops)
<1>1. /\ pc = "fetching" /\ d.status # "follow"
      /\ hops' = Append(hops, Hop(r, d))
      /\ report' = outcomes(hops', StopsOf(d))
      /\ currentUrl' = currentUrl /\ base' = base /\ attempts' = attempts /\ aborted' = aborted
  BY DEF Ends, Break
<1>2. currentUrl \in Url /\ n \in Nat
  BY <1>1 DEF Inv, TypeOK, LoopInv
<1>3. d = Terminal \/ StoppedBy(d)
  BY <1>1, <1>2, StoppedDecision
<1>4. /\ hops' \in Seq(Hops) /\ Len(hops') = n + 1 /\ hops'[n + 1] = Hop(r, d)
  BY <1>1, HopKeeps
<1> HIDE DEF d
<1>5. Hop(r, d).response = r /\ Hop(r, d).transition.kind = "none"
  BY <1>1 DEF Hop
<1>6. hops' # << >> /\ ~ LedOn'
  BY <1>2, <1>4, <1>5 DEF LedOn
<1>7. transitionFor(hops'[Len(hops')].response, currentUrl') = d
  BY <1>1, <1>4, <1>5 DEF d
<1>8. CASE d = Terminal
  <2>1. d.status = "terminal" /\ StopsOf(d) = << >>
    BY <1>8 DEF StopsOf, Terminal
  <2>2. << >> \in Seq({}) /\ Len(<< >>) = 0
    OBVIOUS
  <2>3. Len(report') = Len(hops') /\ Stops' = << >>
    <3>1. report' = outcomes(hops', << >>)
      BY <1>1, <2>1
    <3>2. /\ Len(outcomes(hops', << >>)) = Len(hops') + Len(<< >>)
          /\ SubSeq(outcomes(hops', << >>), Len(hops') + 1, Len(outcomes(hops', << >>))) = << >>
      BY <1>4, <2>2, ReportEnd
    <3> QED
      BY <1>2, <1>4, <2>2, <3>1, <3>2 DEF Stops
  <2> QED
    BY <1>6, <1>7, <2>1, <2>2, <2>3 DEF EndIsNamed
<1>9. CASE StoppedBy(d)
  <2> DEFINE s == IF d.target = NoUrl THEN currentUrl ELSE d.target
             o == [status |-> d.status, subject |-> s, code |-> d.code, findings |-> {}]
  <2>1. d.status # "terminal" /\ StopsOf(d) = <<o>>
    BY <1>9 DEF StoppedBy, StopsOf, degradationOutcome
  <2>2. /\ o.status # "success" /\ o.code \in TransitionCodes
        /\ o.subject \in Outside => o.code = "invalid-target"
    BY <1>2, <1>9, UrlAssumption DEF StoppedBy
  <2> HIDE DEF o
  <2>3. <<o>> \in Seq({o}) /\ Len(<<o>>) = 1 /\ <<o>>[1] = o /\ <<o>> # << >>
    OBVIOUS
  <2>4. Len(report') = Len(hops') + 1 /\ Stops' = <<o>>
    <3>1. report' = outcomes(hops', <<o>>)
      BY <1>1, <2>1
    <3>2. /\ Len(outcomes(hops', <<o>>)) = Len(hops') + Len(<<o>>)
          /\ SubSeq(outcomes(hops', <<o>>), Len(hops') + 1, Len(outcomes(hops', <<o>>))) = <<o>>
      BY <1>4, <2>3, ReportEnd
    <3> QED
      BY <1>2, <1>4, <2>3, <3>1, <3>2 DEF Stops
  <2>5. \A k \in 1..Len(Stops') : Stops'[k] = o
    BY <2>3, <2>4
  <2>6. \A k \in 1..Len(Stops') : StopIsTrue(Stops[k])'
    BY <2>2, <2>5 DEF StopIsTrue, TransitionCodes
  <2>7. Stops' # << >>
    BY <2>3, <2>4
  <2> QED
    BY <1>6, <1>7, <2>1, <2>4, <2>6, <2>7 DEF EndIsNamed
<1> QED
  BY <1>3, <1>8, <1>9

LEMMA EndNext == Inv /\ EndIsNamed /\ [Next]_vars => EndIsNamed'
<1> SUFFICES ASSUME Inv, EndIsNamed, [Next]_vars PROVE EndIsNamed'
  OBVIOUS
<1>1. CASE InvalidInput
  BY <1>1 DEF InvalidInput, Inv, LoopInv, EndIsNamed, Done
<1>2. CASE Begin \/ Ask \/ AuthorizeGrants \/ CallerAborts
           \/ \E r \in Responses : Follows(r)
  BY <1>2 DEF Begin, Ask, AuthorizeGrants, CallerAborts, Follows, EndIsNamed, Done
<1>3. CASE StopAborted
  BY <1>3, StopNames DEF StopAborted
<1>4. CASE StopLoop
  <2>1. \E k \in 1..Len(hops) : hops[k].url = currentUrl
    BY <1>4 DEF StopLoop, Inv, LoopInv, OneAuthorizedChain
  <2> QED
    BY <1>4, <2>1, StopNames DEF StopLoop
<1>5. CASE StopHopLimit
  <2>1. Len(hops) = MaxHops
    BY <1>5, ChainAssumption DEF StopHopLimit, LimitReached, Inv, LoopInv, TypeOK,
       OneAuthorizedChain
  <2> QED
    BY <1>5, <2>1, StopNames DEF StopHopLimit
<1>6. CASE AuthorizeThrows \/ AuthorizeDenies
  BY <1>6, StopNames DEF AuthorizeThrows, AuthorizeDenies
<1>7. CASE GrantedTooLate
  <2>1. Len(attempts') = Len(hops) + 1 /\ Len(hops) \in Nat
    BY <1>7, AttemptKeeps DEF GrantedTooLate, Stop, Break, Inv, TypeOK
  <2> QED
    BY <1>7, <2>1, StopNames DEF GrantedTooLate
<1>8. CASE FetchBlocked \/ FetchIncomplete
  <2>1. Len(attempts) = Len(hops) + 1 /\ Len(hops) \in Nat /\ attempts' = attempts
    BY <1>8 DEF FetchBlocked, FetchIncomplete, Inv, LoopInv, TypeOK
  <2>2. CASE FetchBlocked
    BY <2>2, StopNames DEF FetchBlocked
  <2>3. CASE FetchIncomplete
    <3>1. PICK code \in {"incomplete", "hop-limit"} \cup (IF aborted THEN {"caller-aborted"} ELSE {}) :
            Stop("failure", code)
      BY <2>3 DEF FetchIncomplete
    <3>2. code # "redirect-loop" /\ (code = "caller-aborted" => aborted)
      BY <3>1
    <3> QED
      BY <2>1, <2>3, <3>1, <3>2, StopNames DEF FetchIncomplete
  <2> QED
    BY <1>8, <2>2, <2>3
<1>9. CASE \E r \in Responses : Ends(r)
  BY <1>9, EndsNames
<1>10. CASE UNCHANGED vars
  BY <1>10 DEF vars, EndIsNamed, Done, Stops, StopIsTrue, LedOn
<1> QED
  BY <1>1, <1>2, <1>3, <1>4, <1>5, <1>6, <1>7, <1>8, <1>9, <1>10 DEF Next, Returned

(***************************************************************************)
(* However a chain ends, its report says so: with one stop about the URL   *)
(* that was not reached and a cause that is true, unless the last response *)
(* led nowhere (createRedirectChainEnricher).                              *)
(***************************************************************************)
THEOREM ChainEndNamed == Spec => []EndIsNamed
<1>1. Init => EndIsNamed
  BY DEF Init, EndIsNamed, Done
<1> QED
  BY <1>1, InvHolds, EndNext, PTL DEF Spec

-----------------------------------------------------------------------------
(***************************************************************************)
(* Every hop carries the transition its own response led to, and the       *)
(* report has one outcome per hop, made of the hops as they are.           *)
(***************************************************************************)
TransitionIsTrue(hop) ==
  LET d == transitionFor(hop.response, hop.url) IN
  IF d.status = "follow"
  THEN /\ hop.transition.kind # "none"
       /\ hop.transition.target = d.target
  ELSE hop.transition.kind = "none"

HopsAreTrue == \A k \in 1..Len(hops) : TransitionIsTrue(hops[k])

ReportIsOfHops ==
  Done => \A k \in 1..Len(hops) : report[k] = hopOutcome(hops, k)

TruthInv == HopsAreTrue /\ ReportIsOfHops

LEMMA ReportHead ==
  ASSUME NEW S, NEW hs \in Seq(S), NEW T, NEW stops \in Seq(T)
  PROVE  \A k \in 1..Len(hs) : outcomes(hs, stops)[k] = hopOutcome(hs, k)
<1> DEFINE f == [k \in DOMAIN hs |-> hopOutcome(hs, k)]
           V == {hopOutcome(hs, k) : k \in DOMAIN hs} \cup T
<1>1. DOMAIN hs = 1..Len(hs) /\ Len(hs) \in Nat
  OBVIOUS
<1>2. \A k \in 1..Len(hs) : hopOutcome(hs, k) \in V
  BY <1>1
<1>3. f \in Seq(V) /\ Len(f) = Len(hs) /\ stops \in Seq(V)
  BY <1>1, <1>2
<1>4. \A k \in 1..Len(hs) : f[k] = hopOutcome(hs, k)
  BY <1>1
<1> HIDE DEF f, V
<1>5. outcomes(hs, stops) = f \o stops
  BY DEF outcomes, f
<1>6. \A k \in 1..Len(hs) : (f \o stops)[k] = f[k]
  BY <1>1, <1>3
<1> QED
  BY <1>4, <1>5, <1>6

(* The report a break puts together is of the hops as they are then. *)
LEMMA BreakTells ==
  ASSUME HopsAreTrue', hops' \in Seq(Hops), base' = base, NEW T, NEW stops \in Seq(T),
         report' = outcomes(hops', stops)
  PROVE  TruthInv'
<1>1. \A k \in 1..Len(hops') : report'[k] = hopOutcome(hops', k)
  BY ReportHead
<1>2. \A k : hopOutcome(hops, k)' = hopOutcome(hops', k)
  BY DEF hopOutcome, worstHop, correlateOpenRedirect, OnPayload, offlineFindings,
         ActiveMime, httpsDowngradeFor
<1>3. ReportIsOfHops'
  BY <1>1, <1>2 DEF ReportIsOfHops
<1> QED
  BY <1>3 DEF TruthInv

(* A chain that breaks without another hop. *)
LEMMA StopTells ==
  ASSUME Inv, TruthInv, NEW status, NEW code, Stop(status, code)
  PROVE  TruthInv'
<1> DEFINE o == [status |-> status, subject |-> currentUrl, code |-> code, findings |-> {}]
<1>1. hops' = hops /\ base' = base /\ report' = outcomes(hops', <<o>>)
  BY DEF Stop, Break, degradationOutcome
<1>2. hops \in Seq(Hops)
  BY DEF Inv, TypeOK
<1>3. <<o>> \in Seq({o})
  OBVIOUS
<1>4. HopsAreTrue'
  BY <1>1 DEF TruthInv, HopsAreTrue, TransitionIsTrue
<1> HIDE DEF o
<1> QED
  BY <1>1, <1>2, <1>3, <1>4, BreakTells

(* A fetched hop carries what its response led to. *)
LEMMA HopTells ==
  ASSUME Inv, TruthInv, pc = "fetching", NEW r \in Responses,
         hops' = Append(hops, Hop(r, transitionFor(r, currentUrl)))
  PROVE  HopsAreTrue' /\ hops' \in Seq(Hops)
<1> DEFINE d == transitionFor(r, currentUrl)
           h == Hop(r, d)
<1>1. currentUrl \in Url /\ hops \in Seq(Hops) /\ Len(hops) \in Nat
  BY DEF Inv, TypeOK, LoopInv
<1>2. d.status = "follow" => d.kind \in Kinds /\ d.target \in Url
  BY <1>1, FollowedTarget
<1>3. h \in Hops /\ h.url = currentUrl /\ h.response = r
  <2> HIDE DEF d
  <2> QED
    BY <1>1, <1>2 DEF Hop, Hops
<1>4. IF d.status = "follow" THEN h.transition.kind = d.kind /\ h.transition.target = d.target
      ELSE h.transition.kind = "none"
  <2> HIDE DEF d
  <2> QED
    BY DEF Hop
<1>5. "none" \notin Kinds
  BY DEF Kinds
<1>6. transitionFor(h.response, h.url) = d
  BY <1>3
<1> HIDE DEF d
<1>7. TransitionIsTrue(h)
  <2> HIDE DEF h
  <2> QED
    BY <1>2, <1>4, <1>5, <1>6 DEF TransitionIsTrue
<1>8. hops' = Append(hops, h)
  BY DEF d
<1> HIDE DEF h
<1>9. /\ hops' \in Seq(Hops) /\ Len(hops') = Len(hops) + 1 /\ hops'[Len(hops) + 1] = h
      /\ \A k \in 1..Len(hops) : hops'[k] = hops[k]
  BY <1>1, <1>3, <1>8
<1>10. \A k \in 1..Len(hops') : TransitionIsTrue(hops'[k])
  <2>1. \A k \in 1..Len(hops) : TransitionIsTrue(hops'[k])
    BY <1>9 DEF TruthInv, HopsAreTrue
  <2> QED
    BY <1>1, <1>7, <1>9, <2>1
<1> QED
  BY <1>9, <1>10 DEF HopsAreTrue

LEMMA TruthNext == Inv /\ TruthInv /\ [Next]_vars => TruthInv'
<1> SUFFICES ASSUME Inv, TruthInv, [Next]_vars PROVE TruthInv'
  OBVIOUS
<1>1. CASE InvalidInput
  BY <1>1 DEF InvalidInput, Inv, LoopInv, TruthInv, HopsAreTrue, TransitionIsTrue,
     ReportIsOfHops, Done
<1>2. CASE Begin \/ Ask \/ AuthorizeGrants \/ CallerAborts
  <2>1. pc' # "returned" /\ hops' = hops
    BY <1>2 DEF Begin, Ask, AuthorizeGrants, CallerAborts
  <2> QED
    BY <2>1 DEF TruthInv, HopsAreTrue, TransitionIsTrue, ReportIsOfHops, Done
<1>3. CASE StopAborted \/ StopLoop \/ StopHopLimit \/ AuthorizeThrows \/ AuthorizeDenies
           \/ GrantedTooLate \/ FetchBlocked \/ FetchIncomplete
  BY <1>3, StopTells DEF StopAborted, StopLoop, StopHopLimit, AuthorizeThrows,
     AuthorizeDenies, GrantedTooLate, FetchBlocked, FetchIncomplete
<1>4. ASSUME NEW r \in Responses, Follows(r)
      PROVE  TruthInv'
  <2>1. HopsAreTrue'
    BY <1>4, HopTells DEF Follows
  <2>2. pc' = "loop"
    BY <1>4 DEF Follows
  <2> QED
    BY <2>1, <2>2 DEF TruthInv, ReportIsOfHops, Done
<1>5. ASSUME NEW r \in Responses, Ends(r)
      PROVE  TruthInv'
  <2> DEFINE d == transitionFor(r, currentUrl)
  <2>1. HopsAreTrue' /\ hops' \in Seq(Hops)
    BY <1>5, HopTells DEF Ends
  <2>2. base' = base /\ report' = outcomes(hops', StopsOf(d))
    BY <1>5 DEF Ends, Break
  <2> HIDE DEF d
  <2>3. \E T : StopsOf(d) \in Seq(T)
    <3>1. CASE d.status = "terminal"
      <4>1. \A S : << >> \in Seq(S)
        OBVIOUS
      <4> QED
        BY <3>1, <4>1 DEF StopsOf
    <3>2. CASE d.status # "terminal"
      <4> DEFINE o == [status |-> d.status,
                       subject |-> IF d.target = NoUrl THEN currentUrl ELSE d.target,
                       code |-> d.code, findings |-> {}]
      <4>1. StopsOf(d) = <<o>>
        BY <3>2 DEF StopsOf, degradationOutcome
      <4>2. <<o>> \in Seq({o})
        OBVIOUS
      <4> HIDE DEF o
      <4> QED
        BY <4>1, <4>2
    <3> QED
      BY <3>1, <3>2
  <2> QED
    BY <2>1, <2>2, <2>3, BreakTells
<1>6. CASE UNCHANGED vars
  <2>1. \A k : hopOutcome(hops, k)' = hopOutcome(hops, k)
    BY <1>6 DEF vars, hopOutcome, worstHop, correlateOpenRedirect, OnPayload,
       offlineFindings, ActiveMime, httpsDowngradeFor
  <2> QED
    BY <1>6, <2>1 DEF vars, TruthInv, HopsAreTrue, TransitionIsTrue, ReportIsOfHops, Done
<1> QED
  BY <1>1, <1>2, <1>3, <1>4, <1>5, <1>6 DEF Next, Returned

(* A hop went to a URL, which has a score and codes of offline checks. *)
LEMMA HopUrls ==
  ASSUME Inv
  PROVE  \A k \in 1..Len(hops) :
           /\ hops[k].url \in Url
           /\ offline[hops[k].url].score \in Int
           /\ offline[hops[k].url].codes \subseteq Code
<1>1. \A k \in 1..Len(hops) : hops[k] \in Hops
  BY DEF Inv, TypeOK
<1>2. \A h \in Hops : h.url \in Url
  BY DEF Hops
<1> QED
  BY <1>1, <1>2, OfflineAssumption

(* At most one hop is the worst, and at most one is where the payload led. *)
LEMMA OneSpeaks ==
  ASSUME Inv, NEW j \in 1..Len(hops), NEW k \in 1..Len(hops)
  PROVE  /\ j \in worstHop(hops) /\ k \in worstHop(hops) => j = k
         /\ j \in correlateOpenRedirect(hops) /\ k \in correlateOpenRedirect(hops) => j = k
<1>1. Len(hops) \in Nat /\ DOMAIN hops = 1..Len(hops) /\ hops \in Seq(Hops)
  BY DEF Inv, TypeOK
<1>2. offline[hops[j].url].score \in Int /\ offline[hops[k].url].score \in Int
  BY HopUrls
<1>3. j < k \/ k < j \/ j = k
  BY <1>1
<1>4. j \in worstHop(hops) /\ k \in worstHop(hops) => j = k
  BY <1>1, <1>2, <1>3 DEF worstHop
<1>5. j \in correlateOpenRedirect(hops) /\ k \in correlateOpenRedirect(hops) => j = k
  BY <1>1, <1>3 DEF correlateOpenRedirect
<1> QED
  BY <1>4, <1>5

(* What an outcome says of a hop. *)
LEMMA FindingsSay ==
  ASSUME Inv, NEW k \in 1..Len(hops)
  PROVE  LET F == hopOutcome(hops, k).findings IN
         /\ "https_downgrade_observed" \in F <=> httpsDowngradeFor(hops[k])
         /\ "open_redirect_observed" \in F <=> k \in correlateOpenRedirect(hops)
         /\ F \cap base.codes = {}
         /\ \A c \in Code : c \in F => k \in worstHop(hops)
         /\ k \in worstHop(hops) => offline[hops[k].url].codes \subseteq base.codes \cup F
<1>1. base \in Bases
  BY DEF Inv, TypeOK
<1>2. /\ offline[hops[k].url].codes \subseteq Code /\ base.codes \subseteq Code
      /\ Code \cap Observed = {}
  BY <1>1, OfflineAssumption, HopUrls
<1> DEFINE O == IF k \in worstHop(hops) THEN offline[hops[k].url].codes \ base.codes ELSE {}
           C == IF k \in correlateOpenRedirect(hops) THEN {"open_redirect_observed"} ELSE {}
           A == IF ActiveMime(hops[k].response) THEN {"content_type_mismatch"} ELSE {}
           D == IF httpsDowngradeFor(hops[k]) THEN {"https_downgrade_observed"} ELSE {}
           F == hopOutcome(hops, k).findings
<1>3. F = O \cup C \cup A \cup D
  BY DEF hopOutcome, offlineFindings
<1>4. O \subseteq Code \ base.codes
  BY <1>2
<1>5. /\ "open_redirect_observed" \notin Code /\ "content_type_mismatch" \notin Code
      /\ "https_downgrade_observed" \notin Code
  BY <1>2 DEF Observed
<1>6. k \in worstHop(hops) => offline[hops[k].url].codes \subseteq base.codes \cup O
  OBVIOUS
<1>7. k \notin worstHop(hops) => O = {}
  OBVIOUS
<1>8. C \subseteq {"open_redirect_observed"}
      /\ ("open_redirect_observed" \in C <=> k \in correlateOpenRedirect(hops))
  OBVIOUS
<1>9. D \subseteq {"https_downgrade_observed"}
      /\ ("https_downgrade_observed" \in D <=> httpsDowngradeFor(hops[k]))
  OBVIOUS
<1>10. A \subseteq {"content_type_mismatch"}
  OBVIOUS
<1> HIDE DEF F, O, C, A, D
<1>11. "https_downgrade_observed" \in F <=> httpsDowngradeFor(hops[k])
  BY <1>3, <1>4, <1>5, <1>8, <1>9, <1>10
<1>12. "open_redirect_observed" \in F <=> k \in correlateOpenRedirect(hops)
  BY <1>3, <1>4, <1>5, <1>8, <1>9, <1>10
<1>13. F \cap base.codes = {}
  BY <1>2, <1>3, <1>4, <1>5, <1>8, <1>9, <1>10
<1>14. \A c \in Code : c \in F => k \in worstHop(hops)
  BY <1>3, <1>5, <1>7, <1>8, <1>9, <1>10
<1>15. k \in worstHop(hops) => offline[hops[k].url].codes \subseteq base.codes \cup F
  BY <1>3, <1>6
<1> QED
  BY <1>11, <1>12, <1>13, <1>14, <1>15 DEF F

(***************************************************************************)
(* What a chain is said to have done is what its responses did, for any    *)
(* URLs, responses and offline verdicts: a hop is said to leave TLS        *)
(* exactly when it did, an open redirect is confirmed at most once and     *)
(* only off the input's domain, no code of the input is raised again, none *)
(* is raised by two hops, and those of the worst hop are all there         *)
(* (redirect-chain.ts:302-325, httpsDowngradeFor, correlateOpenRedirect).  *)
(***************************************************************************)
THEOREM ChainToldTruly == Spec => []ChainIsToldTruly
<1>1. Init => TruthInv
  BY DEF Init, TruthInv, HopsAreTrue, ReportIsOfHops, Done
<1>2. Inv /\ TruthInv => ObservationsAreTrue
  <2> SUFFICES ASSUME Inv, TruthInv, Done, NEW k \in 1..Len(hops)
               PROVE  /\ "https_downgrade_observed" \in report[k].findings <=>
                           LET d == transitionFor(hops[k].response, hops[k].url) IN
                           d.status = "follow" /\ hops[k].url \in Https /\ d.target \notin Https
                      /\ "open_redirect_observed" \in report[k].findings =>
                           /\ Suspicion \in base.codes
                           /\ offline[hops[k].url].domain # base.domain
                           /\ \A j \in 1..Len(hops) :
                                j # k => "open_redirect_observed" \notin report[j].findings
    BY DEF ObservationsAreTrue
  <2>1. \A j \in 1..Len(hops) : report[j] = hopOutcome(hops, j)
    BY DEF TruthInv, ReportIsOfHops
  <2>2. TransitionIsTrue(hops[k])
    BY DEF TruthInv, HopsAreTrue
  <2>3. "https_downgrade_observed" \in report[k].findings <=> httpsDowngradeFor(hops[k])
    BY <2>1, FindingsSay
  <2>4. \A j \in 1..Len(hops) :
          "open_redirect_observed" \in report[j].findings <=> j \in correlateOpenRedirect(hops)
    BY <2>1, FindingsSay
  <2>5. k \in correlateOpenRedirect(hops) =>
          Suspicion \in base.codes /\ offline[hops[k].url].domain # base.domain
    BY DEF correlateOpenRedirect, OnPayload
  <2> QED
    BY <2>2, <2>3, <2>4, <2>5, OneSpeaks DEF TransitionIsTrue, httpsDowngradeFor
<1>3. Inv /\ TruthInv => WorstHopSpeaksOnce
  <2> SUFFICES ASSUME Inv, TruthInv, Done
               PROVE  /\ \A k \in 1..Len(hops) : report[k].findings \cap base.codes = {}
                      /\ \A c \in Code :
                           Cardinality({k \in 1..Len(hops) : c \in report[k].findings}) <= 1
                      /\ \A k \in 1..Len(hops) :
                           (\A j \in 1..Len(hops) \ {k} :
                              offline[hops[j].url].score < offline[hops[k].url].score)
                             => offline[hops[k].url].codes
                                  \subseteq base.codes \cup report[k].findings
    BY DEF WorstHopSpeaksOnce
  <2>1. \A j \in 1..Len(hops) : report[j] = hopOutcome(hops, j)
    BY DEF TruthInv, ReportIsOfHops
  <2>2. \A k \in 1..Len(hops) :
          /\ report[k].findings \cap base.codes = {}
          /\ \A c \in Code : c \in report[k].findings => k \in worstHop(hops)
          /\ k \in worstHop(hops) =>
               offline[hops[k].url].codes \subseteq base.codes \cup report[k].findings
    BY <2>1, FindingsSay
  <2>3. ASSUME NEW c \in Code
        PROVE  Cardinality({k \in 1..Len(hops) : c \in report[k].findings}) <= 1
    <3> DEFINE K == {k \in 1..Len(hops) : c \in report[k].findings}
    <3> SUFFICES Cardinality(K) <= 1
      OBVIOUS
    <3>1. \A j, k \in K : j = k
      BY <2>2, OneSpeaks
    <3>2. CASE K = {}
      <4>1. Cardinality({}) = 0
        BY FS_EmptySet
      <4> HIDE DEF K
      <4> QED
        BY <3>2, <4>1
    <3>3. ASSUME NEW k \in K
          PROVE  Cardinality(K) <= 1
      <4>1. K = {k}
        BY <3>1, <3>3
      <4>2. Cardinality({k}) = 1
        BY FS_Singleton
      <4> HIDE DEF K
      <4> QED
        BY <4>1, <4>2
    <3> QED
      BY <3>2, <3>3
  <2>4. ASSUME NEW k \in 1..Len(hops),
               \A j \in 1..Len(hops) \ {k} :
                 offline[hops[j].url].score < offline[hops[k].url].score
        PROVE  k \in worstHop(hops)
    <3>1. Len(hops) \in Nat /\ DOMAIN hops = 1..Len(hops) /\ hops \in Seq(Hops)
      BY DEF Inv, TypeOK
    <3>2. \A j \in 1..Len(hops) : offline[hops[j].url].score \in Int
      BY HopUrls
    <3>3. \A j \in 1..Len(hops) : offline[hops[j].url].score <= offline[hops[k].url].score
      BY <2>4, <3>2
    <3>4. \A j \in 1..(k - 1) : offline[hops[j].url].score < offline[hops[k].url].score
      BY <2>4, <3>1
    <3> QED
      BY <3>1, <3>3, <3>4 DEF worstHop
  <2> QED
    BY <2>2, <2>3, <2>4
<1> QED
  BY <1>1, <1>2, <1>3, InvHolds, TruthNext, PTL DEF Spec, ChainIsToldTruly

(***************************************************************************)
(* The adapters, the probe and the wrappers.                               *)
(***************************************************************************)
(* A connection attempt and its socket. *)
IsDial(d) ==
  d = [call |-> d.call, protocol |-> d.protocol, cause |-> d.cause, socket |-> d.socket,
       listeners |-> d.listeners, id |-> d.id, aborted |-> d.aborted, http |-> d.http,
       httpCause |-> d.httpCause]

(***************************************************************************)
(* An open socket belongs to a connect that still listens to it or has yet *)
(* to go on, or was handed over with a listener and an id the map knows.   *)
(***************************************************************************)
DialKept(i) ==
  /\ dials[i].call = "idle" => dials[i].socket = "none"
  /\ dials[i].socket = "open" =>
       \/ dials[i].call = "opening" /\ dials[i].listeners = {"onError"}
       \/ dials[i].call = "connected" /\ "ignoreSocketError" \in dials[i].listeners
       \/ /\ dials[i].call = "resolved" /\ "ignoreSocketError" \in dials[i].listeners
          /\ dials[i].id \in DOMAIN sockets /\ sockets[dials[i].id] = i
  /\ dials[i].call = "resolved" => dials[i].id \in Nat /\ dials[i].id < nextConnectionId

IdsDiffer ==
  \A i, j \in Attempt :
    (dials[i].call = "resolved" /\ dials[j].call = "resolved" /\ dials[i].id = dials[j].id)
      => i = j

SocketsInv ==
  /\ dials = [i \in Attempt |-> dials[i]]
  /\ \A i \in Attempt : IsDial(dials[i]) /\ DialKept(i)
  /\ nextConnectionId \in Nat
  /\ \A n \in DOMAIN sockets : n \in Nat /\ n < nextConnectionId
  /\ IdsDiffer

(* A lookup that lost its race has its rejection caught. *)
WaitsInv ==
  /\ lookup = [call |-> lookup.call, running |-> lookup.running,
               listening |-> lookup.listening, caught |-> lookup.caught]
  /\ lookup.running \in BOOLEAN /\ lookup.listening \in BOOLEAN /\ lookup.caught \in BOOLEAN
  /\ lookup.call \notin {"idle", "waiting"} => lookup.caught = TRUE
  /\ lookup.call # "waiting" => lookup.listening = FALSE
  /\ lookup.call = "idle" => lookup.running = FALSE
  /\ sleeper = [call |-> sleeper.call, timer |-> sleeper.timer, listening |-> sleeper.listening]
  /\ sleeper.call # "sleeping" => sleeper.timer = FALSE /\ sleeper.listening = FALSE

PortsInv == SocketsInv /\ WaitsInv /\ unheard = FALSE

-----------------------------------------------------------------------------
(* The probe: the summaries compared are those of the sampled responses. *)
Summaries == {summarize(r) : r \in Response}

Outcomes ==
  {"authorization-error", "authorization-denied", "transport-skipped", "transport-failure",
   "challenge-gate", "success", "divergence", "invalid-target"}

SampledOf(f) == {i \in DOMAIN f : ~ detectChallenge(f[i])}

Matched(f, s) ==
  /\ IsFiniteSet(SampledOf(f)) /\ Cardinality(SampledOf(f)) = Len(s)
  /\ \A k \in 1..Len(s) : \E i \in SampledOf(f) : s[k] = summarize(f[i])
  /\ \A i \in SampledOf(f) : \E k \in 1..Len(s) : s[k] = summarize(f[i])

ProbeInv ==
  /\ probe = [at |-> probe.at, index |-> probe.index, fetched |-> probe.fetched,
              outcomes |-> probe.outcomes, summaries |-> probe.summaries,
              divergent |-> probe.divergent, dimensions |-> probe.dimensions]
  /\ probe.at \in {"variant", "returned"}
  /\ probe.index \in 1..(Len(Variants) + 1)
  /\ probe.fetched \in Seq(Response)
  /\ probe.outcomes \in Seq(Outcomes)
  /\ probe.summaries \in Seq(Summaries)
  /\ probe.at = "variant" => Len(probe.outcomes) = probe.index - 1
  /\ Matched(probe.fetched, probe.summaries)
  /\ DivergenceIsObserved

-----------------------------------------------------------------------------
(* A dial that changes without being registered or closed. *)
LEMMA DialMoves ==
  ASSUME SocketsInv, NEW i \in Attempt, NEW y, IsDial(y),
         dials' = [dials EXCEPT ![i] = y],
         sockets' = sockets, nextConnectionId' = nextConnectionId,
         y.call = "idle" => y.socket = "none",
         y.call = "resolved" => dials[i].call = "resolved" /\ y.id = dials[i].id,
         y.socket = "open" =>
           \/ y.call = "opening" /\ y.listeners = {"onError"}
           \/ y.call = "connected" /\ "ignoreSocketError" \in y.listeners
           \/ /\ y.call = "resolved" /\ dials[i].socket = "open"
              /\ "ignoreSocketError" \in y.listeners
  PROVE  SocketsInv'
<1>1. dials = [j \in Attempt |-> dials[j]]
  BY DEF SocketsInv
<1>2. /\ dials' = [j \in Attempt |-> dials'[j]] /\ dials'[i] = y
      /\ \A j \in Attempt : j # i => dials'[j] = dials[j]
  BY <1>1
<1>3. DialKept(i) /\ IdsDiffer
  BY DEF SocketsInv
<1>4. \A j \in Attempt : IsDial(dials'[j])
  BY <1>2 DEF SocketsInv
<1>5. \A j \in Attempt : j # i => DialKept(j)'
  BY <1>2 DEF SocketsInv, DialKept
<1>6. DialKept(i)'
  BY <1>2, <1>3 DEF DialKept
<1>7. IdsDiffer'
  BY <1>2, <1>3 DEF IdsDiffer
<1> QED
  BY <1>2, <1>4, <1>5, <1>6, <1>7 DEF SocketsInv

(* What an error event leaves of a dial. *)
LEMMA ErroredFacts ==
  ASSUME NEW a, IsDial(a), NEW code
  PROVE  /\ IsDial(Errored(a, code))
         /\ Errored(a, code).socket = "destroyed"
         /\ Errored(a, code).id = a.id
         /\ Errored(a, code).call = IF a.call = "opening" THEN "rejected" ELSE a.call
<1> DEFINE cause == IF a.call = "opening" THEN connectCause(a, code) ELSE a.cause
           http == IF a.http = "sent" THEN "failed" ELSE a.http
           httpCause == IF a.http = "sent"
                        THEN IF a.aborted THEN "raw" ELSE requestFailure(code)
                        ELSE a.httpCause
           call == IF a.call = "opening" THEN "rejected" ELSE a.call
<1>1. a = [call |-> a.call, protocol |-> a.protocol, cause |-> a.cause, socket |-> a.socket,
           listeners |-> a.listeners, id |-> a.id, aborted |-> a.aborted, http |-> a.http,
           httpCause |-> a.httpCause]
  BY DEF IsDial
<1>2. PICK e : /\ e = [a EXCEPT !.socket = "destroyed", !.listeners = {}, !.call = call,
                                !.cause = cause, !.http = http, !.httpCause = httpCause]
               /\ e = Errored(a, code)
  BY Zenon DEF Errored
<1> HIDE DEF cause, http, httpCause, call
<1>3. e = [call |-> call, protocol |-> a.protocol, cause |-> cause, socket |-> "destroyed",
           listeners |-> {}, id |-> a.id, aborted |-> a.aborted, http |-> http,
           httpCause |-> httpCause]
  BY <1>1, <1>2
<1>4. IsDial(e) /\ e.socket = "destroyed" /\ e.id = a.id /\ e.call = call
  BY <1>3 DEF IsDial
<1> QED
  BY <1>2, <1>4 DEF call

(* An open socket has a listener for its error. *)
LEMMA OpenIsHeard ==
  ASSUME SocketsInv, NEW i \in Attempt, dials[i].socket = "open"
  PROVE  dials[i].listeners # {}
  BY DEF SocketsInv, DialKept

LEMMA FailsKeeps ==
  ASSUME SocketsInv, NEW i \in Attempt, SocketFails(i)
  PROVE  SocketsInv' /\ (unheard = FALSE => unheard' = FALSE)
<1>1. PICK code \in SocketError : dials' = [dials EXCEPT ![i] = Errored(dials[i], code)]
  BY DEF SocketFails
<1>2. IsDial(dials[i]) /\ DialKept(i) /\ dials[i].socket = "open"
  BY DEF SocketsInv, SocketFails
<1>3. PICK y : y = Errored(dials[i], code)
  OBVIOUS
<1>4. /\ IsDial(y) /\ y.socket = "destroyed" /\ y.id = dials[i].id
      /\ y.call = IF dials[i].call = "opening" THEN "rejected" ELSE dials[i].call
  BY <1>2, <1>3, ErroredFacts
<1>5. sockets' = sockets /\ nextConnectionId' = nextConnectionId
  BY DEF SocketFails
<1>6. SocketsInv'
  BY <1>1, <1>2, <1>3, <1>4, <1>5, DialMoves DEF DialKept
<1>7. unheard' = (unheard \/ dials[i].listeners = {})
  BY DEF SocketFails
<1> QED
  BY <1>2, <1>6, <1>7, OpenIsHeard

LEMMA AbortKeeps ==
  ASSUME SocketsInv, NEW i \in Attempt, SignalAborts(i)
  PROVE  SocketsInv' /\ (unheard = FALSE => unheard' = FALSE)
<1>0. /\ IsDial(dials[i]) /\ DialKept(i) /\ dials[i].call # "idle"
      /\ sockets' = sockets /\ nextConnectionId' = nextConnectionId
  BY DEF SocketsInv, SignalAborts
<1>1. PICK a : /\ a = [dials[i] EXCEPT !.aborted = TRUE]
               /\ IF a.socket = "open"
                  THEN /\ dials' = [dials EXCEPT ![i] = Errored(a, "ABORT_ERR")]
                       /\ unheard' = (unheard \/ a.listeners = {})
                  ELSE dials' = [dials EXCEPT ![i] = a] /\ unheard' = unheard
  BY DEF SignalAborts
<1>2. PICK d : d = dials[i] /\ IsDial(d)
  BY <1>0
<1>3. a = [call |-> d.call, protocol |-> d.protocol, cause |-> d.cause, socket |-> d.socket,
           listeners |-> d.listeners, id |-> d.id, aborted |-> TRUE, http |-> d.http,
           httpCause |-> d.httpCause]
  BY <1>1, <1>2 DEF IsDial
<1>4. /\ IsDial(a) /\ a.call = dials[i].call /\ a.socket = dials[i].socket
      /\ a.listeners = dials[i].listeners /\ a.id = dials[i].id
  BY <1>2, <1>3 DEF IsDial
<1>5. CASE a.socket = "open"
  <2>1. PICK y : y = Errored(a, "ABORT_ERR")
    OBVIOUS
  <2>2. /\ IsDial(y) /\ y.socket = "destroyed" /\ y.id = a.id
        /\ y.call = IF a.call = "opening" THEN "rejected" ELSE a.call
    BY <1>4, <2>1, ErroredFacts
  <2>3. dials' = [dials EXCEPT ![i] = y]
    BY <1>1, <1>5, <2>1
  <2>4. SocketsInv'
    BY <1>0, <1>4, <2>2, <2>3, DialMoves
  <2>5. a.listeners # {}
    BY <1>4, <1>5, OpenIsHeard
  <2> QED
    BY <1>1, <1>5, <2>4, <2>5
<1>6. CASE a.socket # "open"
  <2>1. SocketsInv'
    BY <1>0, <1>1, <1>4, <1>6, DialMoves
  <2> QED
    BY <1>1, <1>6, <2>1
<1> QED
  BY <1>5, <1>6

LEMMA ConnectBeginsKeeps ==
  ASSUME SocketsInv, NEW i \in Attempt, ConnectBegins(i)
  PROVE  SocketsInv' /\ unheard' = unheard
<1>0. /\ IsDial(dials[i]) /\ DialKept(i) /\ dials[i].call = "idle" /\ unheard' = unheard
      /\ sockets' = sockets /\ nextConnectionId' = nextConnectionId
  BY DEF SocketsInv, ConnectBegins
<1>1. PICK d : d = dials[i] /\ IsDial(d)
  BY <1>0
<1>2. PICK protocol \in {"http:", "https:"} :
        \/ dials' = [dials EXCEPT ![i] =
             [d EXCEPT !.call = "rejected", !.protocol = protocol, !.cause = "connect-error"]]
        \/ dials' = [dials EXCEPT ![i] =
             [d EXCEPT !.call = "opening", !.protocol = protocol, !.socket = "open",
                       !.listeners = {"onError"}]]
  BY <1>1 DEF ConnectBegins
<1>3. d.socket = "none"
  BY <1>0, <1>1 DEF DialKept
<1>4. ASSUME NEW y, dials' = [dials EXCEPT ![i] = y],
             y = [d EXCEPT !.call = "rejected", !.protocol = protocol, !.cause = "connect-error"]
      PROVE  SocketsInv'
  <2>1. y = [call |-> "rejected", protocol |-> protocol, cause |-> "connect-error",
             socket |-> d.socket, listeners |-> d.listeners, id |-> d.id,
             aborted |-> d.aborted, http |-> d.http, httpCause |-> d.httpCause]
    BY <1>1, <1>4 DEF IsDial
  <2>2. IsDial(y) /\ y.call = "rejected" /\ y.socket = "none"
    BY <1>3, <2>1 DEF IsDial
  <2> QED
    BY <1>0, <1>4, <2>2, DialMoves
<1>5. ASSUME NEW y, dials' = [dials EXCEPT ![i] = y],
             y = [d EXCEPT !.call = "opening", !.protocol = protocol, !.socket = "open",
                           !.listeners = {"onError"}]
      PROVE  SocketsInv'
  <2>1. y = [call |-> "opening", protocol |-> protocol, cause |-> d.cause,
             socket |-> "open", listeners |-> {"onError"}, id |-> d.id,
             aborted |-> d.aborted, http |-> d.http, httpCause |-> d.httpCause]
    BY <1>1, <1>5 DEF IsDial
  <2>2. IsDial(y) /\ y.call = "opening" /\ y.socket = "open" /\ y.listeners = {"onError"}
    BY <2>1 DEF IsDial
  <2> QED
    BY <1>0, <1>5, <2>2, DialMoves
<1> QED
  BY <1>0, <1>2, <1>4, <1>5

(* A socket is registered under an id that was never given before. *)
LEMMA RegisteredKeeps ==
  ASSUME SocketsInv, NEW i \in Attempt, dials[i].call = "connected",
         Registered(i, dials[i], nextConnectionId)
  PROVE  SocketsInv'
<1>0. IsDial(dials[i]) /\ nextConnectionId \in Nat
  BY DEF SocketsInv
<1>1. PICK d, n : d = dials[i] /\ IsDial(d) /\ n = nextConnectionId /\ n \in Nat
  BY <1>0
<1>2. PICK y : /\ y = [d EXCEPT !.call = "resolved", !.id = n]
               /\ dials' = [dials EXCEPT ![i] = y]
  BY <1>1 DEF Registered
<1>3. /\ sockets' = [m \in DOMAIN sockets \cup {n} |-> IF m = n THEN i ELSE sockets[m]]
      /\ nextConnectionId' = n + 1
  BY <1>1 DEF Registered
<1>4. y = [call |-> "resolved", protocol |-> d.protocol, cause |-> d.cause,
           socket |-> d.socket, listeners |-> d.listeners, id |-> n,
           aborted |-> d.aborted, http |-> d.http, httpCause |-> d.httpCause]
  BY <1>1, <1>2 DEF IsDial
<1>5. /\ IsDial(y) /\ y.call = "resolved" /\ y.id = n
      /\ y.socket = "open" => "ignoreSocketError" \in y.listeners
  BY <1>1, <1>4 DEF IsDial, SocketsInv, DialKept
<1>6. dials = [j \in Attempt |-> dials[j]]
  BY DEF SocketsInv
<1>7. /\ dials' = [j \in Attempt |-> dials'[j]] /\ dials'[i] = y
      /\ \A j \in Attempt : j # i => dials'[j] = dials[j]
  BY <1>2, <1>6
<1>8. /\ n \in DOMAIN sockets' /\ sockets'[n] = i
      /\ \A m \in DOMAIN sockets : m # n => m \in DOMAIN sockets' /\ sockets'[m] = sockets[m]
      /\ \A m \in DOMAIN sockets' : m = n \/ m \in DOMAIN sockets
  BY <1>3
<1>9. \A m \in DOMAIN sockets : m \in Nat /\ m < n
  BY <1>1 DEF SocketsInv
<1>10. \A m \in DOMAIN sockets' : m \in Nat /\ m < nextConnectionId'
  BY <1>1, <1>3, <1>8, <1>9
<1>11. \A j \in Attempt : IsDial(dials'[j])
  BY <1>5, <1>7 DEF SocketsInv
<1>12. DialKept(i)'
  BY <1>1, <1>3, <1>5, <1>7, <1>8 DEF DialKept
<1>13. ASSUME NEW j \in Attempt, j # i
       PROVE  DialKept(j)'
  <2>1. DialKept(j) /\ dials'[j] = dials[j]
    BY <1>7, <1>13 DEF SocketsInv
  <2>2. dials[j].call = "resolved" => dials[j].id # n /\ dials[j].id < n + 1
    BY <1>1, <2>1 DEF DialKept
  <2> QED
    BY <1>1, <1>3, <1>8, <2>1, <2>2 DEF DialKept
<1>14. IdsDiffer'
  <2>1. \A j \in Attempt : j # i /\ dials[j].call = "resolved" => dials[j].id # n
    BY <1>1 DEF SocketsInv, DialKept
  <2> QED
    BY <1>5, <1>7, <2>1 DEF SocketsInv, IdsDiffer
<1> QED
  BY <1>1, <1>3, <1>7, <1>10, <1>11, <1>12, <1>13, <1>14 DEF SocketsInv

LEMMA ConnectedKeeps ==
  ASSUME SocketsInv, NEW i \in Attempt, Connected(i)
  PROVE  SocketsInv' /\ unheard' = unheard
<1>0. IsDial(dials[i]) /\ dials[i].call = "opening" /\ unheard' = unheard
  BY DEF SocketsInv, Connected
<1>1. PICK d : d = dials[i] /\ IsDial(d)
  BY <1>0
<1>2. PICK y : /\ dials' = [dials EXCEPT ![i] = y]
               /\ \/ y = [d EXCEPT !.call = "connected", !.listeners = HandOff]
                  \/ y = [d EXCEPT !.call = "rejected", !.cause = "tls-certificate",
                                   !.socket = "destroyed", !.listeners = {}]
  BY <1>1 DEF Connected
<1>3. /\ IsDial(y) /\ y.call \in {"connected", "rejected"}
      /\ y.socket = "open" => y.call = "connected" /\ "ignoreSocketError" \in y.listeners
  BY <1>1, <1>2 DEF IsDial, HandOff
<1>4. sockets' = sockets /\ nextConnectionId' = nextConnectionId
  BY DEF Connected
<1> QED
  BY <1>0, <1>2, <1>3, <1>4, DialMoves

LEMMA ResumesKeeps ==
  ASSUME SocketsInv, NEW i \in Attempt, ConnectResumes(i)
  PROVE  SocketsInv' /\ unheard' = unheard
<1>0. IsDial(dials[i]) /\ dials[i].call = "connected" /\ unheard' = unheard
  BY DEF SocketsInv, ConnectResumes
<1>1. ASSUME NEW cause, NEW y, dials' = [dials EXCEPT ![i] = y],
             y = [dials[i] EXCEPT !.call = "rejected", !.cause = cause,
                                  !.socket = "destroyed", !.listeners = {}],
             sockets' = sockets, nextConnectionId' = nextConnectionId
      PROVE  SocketsInv'
  <2>1. PICK d : d = dials[i] /\ IsDial(d)
    BY <1>0
  <2>2. y = [call |-> "rejected", protocol |-> d.protocol, cause |-> cause,
             socket |-> "destroyed", listeners |-> {}, id |-> d.id,
             aborted |-> d.aborted, http |-> d.http, httpCause |-> d.httpCause]
    BY <1>1, <2>1 DEF IsDial
  <2>3. IsDial(y) /\ y.call = "rejected" /\ y.socket = "destroyed"
    BY <2>2 DEF IsDial
  <2> QED
    BY <1>1, <2>3, DialMoves
<1>2. \/ /\ dials' = [dials EXCEPT ![i] = Peerless(dials[i])]
         /\ UNCHANGED <<sockets, nextConnectionId>>
      \/ Registered(i, dials[i], nextConnectionId)
  BY DEF ConnectResumes
<1>3. Peerless(dials[i]) = [dials[i] EXCEPT !.call = "rejected", !.cause = "connect-error",
                                            !.socket = "destroyed", !.listeners = {}]
  BY DEF Peerless
<1>4. SocketsInv'
  BY <1>0, <1>1, <1>2, <1>3, RegisteredKeeps
<1> QED
  BY <1>0, <1>4

(* The request changes what is listened to and how it ends, not the socket. *)
LEMMA RequestKeeps ==
  ASSUME SocketsInv, NEW i \in Attempt, RequestBegins(i) \/ RequestSettles(i)
  PROVE  SocketsInv' /\ unheard' = unheard
<1>0. /\ IsDial(dials[i]) /\ DialKept(i) /\ unheard' = unheard
      /\ sockets' = sockets /\ nextConnectionId' = nextConnectionId
  BY DEF SocketsInv, RequestBegins, RequestSettles
<1>1. PICK d : d = dials[i] /\ IsDial(d)
  BY <1>0
<1>2. ASSUME NEW cause, Fails(i, cause)
      PROVE  SocketsInv'
  <2>1. PICK y : /\ y = [d EXCEPT !.http = "failed", !.httpCause = cause]
                 /\ dials' = [dials EXCEPT ![i] = y]
    BY <1>1, <1>2 DEF Fails
  <2>2. y = [call |-> d.call, protocol |-> d.protocol, cause |-> d.cause,
             socket |-> d.socket, listeners |-> d.listeners, id |-> d.id,
             aborted |-> d.aborted, http |-> "failed", httpCause |-> cause]
    BY <1>1, <2>1 DEF IsDial
  <2>3. /\ IsDial(y) /\ y.call = dials[i].call /\ y.socket = dials[i].socket
        /\ y.listeners = dials[i].listeners /\ y.id = dials[i].id
    BY <1>1, <2>2 DEF IsDial
  <2> QED
    BY <1>0, <2>1, <2>3, DialMoves DEF DialKept
<1>3. ASSUME dials' = [dials EXCEPT ![i] =
               [d EXCEPT !.http = "sent", !.listeners = d.listeners \cup {"ClientRequest"}]],
             dials[i].call = "resolved"
      PROVE  SocketsInv'
  <2>1. PICK y : /\ y = [d EXCEPT !.http = "sent",
                                  !.listeners = d.listeners \cup {"ClientRequest"}]
                 /\ dials' = [dials EXCEPT ![i] = y]
    BY <1>3
  <2>2. y = [call |-> d.call, protocol |-> d.protocol, cause |-> d.cause,
             socket |-> d.socket, listeners |-> d.listeners \cup {"ClientRequest"},
             id |-> d.id, aborted |-> d.aborted, http |-> "sent",
             httpCause |-> d.httpCause]
    BY <1>1, <2>1 DEF IsDial
  <2>3. /\ IsDial(y) /\ y.call = dials[i].call /\ y.socket = dials[i].socket
        /\ y.listeners = dials[i].listeners \cup {"ClientRequest"} /\ y.id = dials[i].id
    BY <1>1, <2>2 DEF IsDial
  <2> QED
    BY <1>0, <1>3, <2>1, <2>3, DialMoves DEF DialKept
<1>4. ASSUME dials' = [dials EXCEPT ![i] = [d EXCEPT !.http = "answered"]]
      PROVE  SocketsInv'
  <2>1. PICK y : /\ y = [d EXCEPT !.http = "answered"]
                 /\ dials' = [dials EXCEPT ![i] = y]
    BY <1>4
  <2>2. y = [call |-> d.call, protocol |-> d.protocol, cause |-> d.cause,
             socket |-> d.socket, listeners |-> d.listeners, id |-> d.id,
             aborted |-> d.aborted, http |-> "answered", httpCause |-> d.httpCause]
    BY <1>1, <2>1 DEF IsDial
  <2>3. /\ IsDial(y) /\ y.call = dials[i].call /\ y.socket = dials[i].socket
        /\ y.listeners = dials[i].listeners /\ y.id = dials[i].id
    BY <1>1, <2>2 DEF IsDial
  <2> QED
    BY <1>0, <2>1, <2>3, DialMoves DEF DialKept
<1>5. CASE RequestBegins(i)
  <2>1. Sends(i) => \/ Fails(i, "http-malformed")
                    \/ dials' = [dials EXCEPT ![i] =
                         [d EXCEPT !.http = "sent",
                                   !.listeners = d.listeners \cup {"ClientRequest"}]]
    <3>1. Sends(i) => \/ Fails(i, "http-malformed")
                      \/ dials' = [dials EXCEPT ![i] =
                           [dials[i] EXCEPT !.http = "sent",
                              !.listeners = dials[i].listeners \cup {"ClientRequest"}]]
      BY Zenon DEF Sends
    <3> QED
      BY <1>1, <3>1
  <2> QED
    BY <1>0, <1>2, <1>3, <1>5, <2>1 DEF RequestBegins
<1>6. CASE RequestSettles(i)
  <2>1. \/ dials' = [dials EXCEPT ![i] = [d EXCEPT !.http = "answered"]]
        \/ \E code \in HttpError : Fails(i, requestFailure(code))
    BY <1>1, <1>6 DEF RequestSettles
  <2> QED
    BY <1>0, <1>2, <1>4, <2>1
<1> QED
  BY <1>5, <1>6

(* A close forgets the id of its own socket and of no other. *)
LEMMA CloseKeeps ==
  ASSUME SocketsInv, NEW i \in Attempt, CloseConnection(i)
  PROVE  SocketsInv' /\ unheard' = unheard
<1>0. IsDial(dials[i]) /\ dials[i].call = "resolved" /\ dials[i].id \in DOMAIN sockets
  BY DEF SocketsInv, CloseConnection
<1>1. PICK d : d = dials[i] /\ IsDial(d)
  BY <1>0
<1> DEFINE http == IF d.http = "sent" THEN "failed" ELSE d.http
           httpCause == IF d.http = "sent" THEN "http-reset" ELSE d.httpCause
<1>2. PICK y : /\ y = [d EXCEPT !.socket = "destroyed", !.listeners = {}, !.http = http,
                                !.httpCause = httpCause]
               /\ dials' = [dials EXCEPT ![i] = y]
  <2>1. dials' = [dials EXCEPT ![i] =
          [dials[i] EXCEPT !.socket = "destroyed", !.listeners = {},
             !.http = IF dials[i].http = "sent" THEN "failed" ELSE dials[i].http,
             !.httpCause = IF dials[i].http = "sent" THEN "http-reset"
                           ELSE dials[i].httpCause]]
    BY Zenon DEF CloseConnection
  <2> QED
    BY <1>1, <2>1
<1> HIDE DEF http, httpCause
<1>3. y = [call |-> d.call, protocol |-> d.protocol, cause |-> d.cause,
           socket |-> "destroyed", listeners |-> {}, id |-> d.id,
           aborted |-> d.aborted, http |-> http, httpCause |-> httpCause]
  BY <1>1, <1>2 DEF IsDial
<1>4. IsDial(y) /\ y.call = "resolved" /\ y.socket = "destroyed" /\ y.id = dials[i].id
  BY <1>0, <1>1, <1>3 DEF IsDial
<1>5. PICK n : n = dials[i].id /\ sockets' = [m \in DOMAIN sockets \ {n} |-> sockets[m]]
  BY DEF CloseConnection
<1>6. nextConnectionId' = nextConnectionId /\ unheard' = unheard
  BY DEF CloseConnection
<1>7. dials = [j \in Attempt |-> dials[j]]
  BY DEF SocketsInv
<1>8. /\ dials' = [j \in Attempt |-> dials'[j]] /\ dials'[i] = y
      /\ \A j \in Attempt : j # i => dials'[j] = dials[j]
  BY <1>2, <1>7
<1>9. /\ \A m \in DOMAIN sockets : m # n => m \in DOMAIN sockets' /\ sockets'[m] = sockets[m]
      /\ DOMAIN sockets' \subseteq DOMAIN sockets
  BY <1>5
<1>10. \A j \in Attempt : IsDial(dials'[j])
  BY <1>4, <1>8 DEF SocketsInv
<1>11. DialKept(i)'
  <2>1. dials[i].id \in Nat /\ dials[i].id < nextConnectionId
    BY <1>0 DEF SocketsInv, DialKept
  <2> QED
    BY <1>4, <1>6, <1>8, <2>1 DEF DialKept
<1>12. ASSUME NEW j \in Attempt, j # i
       PROVE  DialKept(j)'
  <2>1. DialKept(j) /\ dials'[j] = dials[j]
    BY <1>8, <1>12 DEF SocketsInv
  <2>2. dials[j].call = "resolved" => dials[j].id # n
    BY <1>0, <1>5, <1>12 DEF SocketsInv, IdsDiffer
  <2> QED
    BY <1>6, <1>9, <2>1, <2>2 DEF DialKept
<1>13. IdsDiffer'
  BY <1>0, <1>4, <1>8 DEF SocketsInv, IdsDiffer
<1>14. \A m \in DOMAIN sockets' : m \in Nat /\ m < nextConnectionId'
  BY <1>6, <1>9 DEF SocketsInv
<1> QED
  BY <1>6, <1>8, <1>10, <1>11, <1>12, <1>13, <1>14 DEF SocketsInv

(* The lookup and the sleep. *)
LEMMA WaitsKeep ==
  ASSUME WaitsInv, WaitsNext, unheard = FALSE
  PROVE  WaitsInv' /\ unheard' = FALSE
<1>0. PICK l : /\ l = lookup
               /\ l = [call |-> l.call, running |-> l.running,
                       listening |-> l.listening, caught |-> l.caught]
               /\ l.running \in BOOLEAN /\ l.listening \in BOOLEAN /\ l.caught \in BOOLEAN
  BY DEF WaitsInv
<1>1. CASE LookupBegins
  BY <1>1 DEF LookupBegins, WaitsInv, LookupsOnly
<1>2. ASSUME NEW call, NEW m, call \notin {"idle", "waiting"}, m = abortable(l, call)
      PROVE  /\ m = [call |-> call, running |-> l.running, listening |-> FALSE, caught |-> TRUE]
  BY <1>0, <1>2 DEF abortable
<1>l. ASSUME NEW call, NEW running \in BOOLEAN, NEW listening \in BOOLEAN,
             NEW caught \in BOOLEAN, NEW m,
             m = [call |-> call, running |-> running, listening |-> listening,
                  caught |-> caught],
             lookup' = m, sleeper' = sleeper,
             call \notin {"idle", "waiting"} => caught = TRUE,
             call # "waiting" => listening = FALSE,
             call = "idle" => running = FALSE
      PROVE  WaitsInv'
  <2>1. /\ m.call = call /\ m.running = running /\ m.listening = listening
        /\ m.caught = caught
        /\ m = [call |-> m.call, running |-> m.running, listening |-> m.listening,
                caught |-> m.caught]
    BY <1>l
  <2> QED
    BY <1>l, <2>1 DEF WaitsInv
<1>3. CASE LookupAborts
  <2>1. lookup' = abortable(l, "abort") /\ unheard' = unheard /\ sleeper' = sleeper
    BY <1>0, <1>3 DEF LookupAborts, LookupsOnly
  <2>2. lookup' = [call |-> "abort", running |-> l.running, listening |-> FALSE, caught |-> TRUE]
    BY <1>2, <2>1
  <2> QED
    BY <1>0, <1>l, <2>1, <2>2
<1>4. CASE LookupSettles
  <2>1. l.running = TRUE /\ sleeper' = sleeper
    BY <1>0, <1>4 DEF LookupSettles, LookupsOnly
  <2>2. PICK call : /\ call \notin {"idle", "waiting"}
                    /\ lookup' = [IF l.call = "waiting" THEN abortable(l, call) ELSE l
                                  EXCEPT !.running = FALSE]
    <3>1. \A code : resolveCause(code) \notin {"idle", "waiting"}
      BY DEF resolveCause
    <3> QED
      BY <1>0, <1>4, <3>1 DEF LookupSettles
  <2>3. \/ unheard' = unheard
        \/ unheard' = (unheard \/ (l.call # "waiting" /\ ~ l.caught))
    BY <1>0, <1>4 DEF LookupSettles
  <2>4. l.call # "waiting" => l.caught = TRUE
    BY <1>0, <2>1 DEF WaitsInv
  <2>5. unheard' = FALSE
    BY <2>3, <2>4
  <2>6. CASE l.call = "waiting"
    <3>1. PICK m : m = abortable(l, call) /\ lookup' = [m EXCEPT !.running = FALSE]
      BY <2>2, <2>6
    <3>2. m = [call |-> call, running |-> l.running, listening |-> FALSE, caught |-> TRUE]
      BY <1>2, <2>2, <3>1
    <3>3. PICK y : y = [m EXCEPT !.running = FALSE] /\ lookup' = y
      BY <3>1
    <3>4. y = [call |-> call, running |-> FALSE, listening |-> FALSE, caught |-> TRUE]
      BY <3>2, <3>3
    <3> QED
      BY <1>l, <2>1, <2>2, <2>5, <3>3, <3>4
  <2>7. CASE l.call # "waiting"
    <3>1. lookup' = [l EXCEPT !.running = FALSE]
      BY <2>2, <2>7
    <3>2. lookup' = [call |-> l.call, running |-> FALSE, listening |-> l.listening,
                     caught |-> l.caught]
      BY <1>0, <3>1
    <3> QED
      BY <1>0, <2>1, <2>5, <2>7, <3>2 DEF WaitsInv
  <2> QED
    BY <2>6, <2>7
<1>5. CASE SleepBegins \/ TimerFires \/ SleepAborts
  <2>1. lookup' = lookup /\ unheard' = unheard
    BY <1>5 DEF SleepBegins, TimerFires, SleepAborts, ClockOnly
  <2>2. PICK s : /\ s = sleeper
                 /\ s = [call |-> s.call, timer |-> s.timer, listening |-> s.listening]
                 /\ s.call # "sleeping" => s.timer = FALSE /\ s.listening = FALSE
    BY DEF WaitsInv
  <2>3. \/ sleeper' = [s EXCEPT !.call = "range-error"] /\ s.call = "idle"
        \/ sleeper' = [s EXCEPT !.call = "abort"] /\ s.call = "idle"
        \/ sleeper' = [call |-> "sleeping", timer |-> TRUE, listening |-> TRUE]
        \/ sleeper' = [call |-> "slept", timer |-> FALSE, listening |-> FALSE]
        \/ sleeper' = [call |-> "abort", timer |-> FALSE, listening |-> FALSE]
    BY <1>5, <2>2 DEF SleepBegins, TimerFires, SleepAborts
  <2>4. /\ sleeper' = [call |-> sleeper'.call, timer |-> sleeper'.timer,
                       listening |-> sleeper'.listening]
        /\ sleeper'.call # "sleeping" => sleeper'.timer = FALSE /\ sleeper'.listening = FALSE
    BY <2>2, <2>3
  <2> QED
    BY <2>1, <2>4 DEF WaitsInv
<1> QED
  BY <1>1, <1>3, <1>4, <1>5 DEF WaitsNext

LEMMA PortsBegin == PortsInit => PortsInv
<1> SUFFICES ASSUME PortsInit PROVE PortsInv
  OBVIOUS
<1>1. DOMAIN sockets = {}
  BY DEF PortsInit
<1>2. /\ \A i \in Attempt : dials[i] = Untried
      /\ dials = [i \in Attempt |-> dials[i]] /\ nextConnectionId = 1 /\ unheard = FALSE
  BY DEF PortsInit
<1>3. IsDial(Untried) /\ Untried.call = "idle" /\ Untried.socket = "none"
  BY DEF IsDial, Untried
<1>4. SocketsInv
  BY <1>1, <1>2, <1>3 DEF SocketsInv, DialKept, IdsDiffer
<1>5. WaitsInv
  BY DEF PortsInit, WaitsInv
<1> QED
  BY <1>2, <1>4, <1>5 DEF PortsInv

LEMMA PortsUnchanged ==
  ASSUME PortsInv, UNCHANGED portVars
  PROVE  PortsInv'
<1>1. /\ dials' = dials /\ sockets' = sockets /\ nextConnectionId' = nextConnectionId
      /\ lookup' = lookup /\ sleeper' = sleeper /\ unheard' = unheard
  BY DEF portVars
<1> QED
  BY <1>1 DEF PortsInv, SocketsInv, WaitsInv, DialKept, IdsDiffer, IsDial

(***************************************************************************)
(* For any number of connection attempts and any error codes, whatever     *)
(* order errors, aborts, answers and closes come in: an open socket is one *)
(* that its connect still waits for or that close can end, an error event  *)
(* or a late rejection always finds its listener, and a sleep or a lookup  *)
(* that is over has left nothing on the signal (transport/node.ts,         *)
(* node-resolver.ts, system-clock.ts).                                     *)
(***************************************************************************)
THEOREM NothingIsLeaked == MCSpec => []NothingLeaks
<1>1. MCInit => PortsInv
  BY PortsBegin DEF MCInit
<1>2. PortsInv /\ [MCNext]_<<vars, wrap, probe, portVars, part>> => PortsInv'
  <2> SUFFICES ASSUME PortsInv, [MCNext]_<<vars, wrap, probe, portVars, part>>
               PROVE  PortsInv'
    OBVIOUS
  <2>1. ASSUME NEW i \in Attempt,
               \/ ConnectBegins(i) \/ SocketFails(i) \/ SignalAborts(i) \/ Connected(i)
               \/ ConnectResumes(i) \/ RequestBegins(i) \/ RequestSettles(i) \/ CloseConnection(i)
        PROVE  PortsInv'
    <3>1. lookup' = lookup /\ sleeper' = sleeper
      BY <2>1 DEF ConnectBegins, SocketFails, SignalAborts, Connected, ConnectResumes,
         RequestBegins, RequestSettles, CloseConnection, SocketsOnly
    <3>2. SocketsInv' /\ unheard' = FALSE
      BY <2>1, ConnectBeginsKeeps, FailsKeeps, AbortKeeps, ConnectedKeeps, ResumesKeeps,
         RequestKeeps, CloseKeeps DEF PortsInv
    <3> QED
      BY <3>1, <3>2 DEF PortsInv, WaitsInv
  <2>2. CASE WaitsNext
    <3>1. /\ dials' = dials /\ sockets' = sockets /\ nextConnectionId' = nextConnectionId
      BY <2>2 DEF WaitsNext, LookupBegins, LookupAborts, LookupSettles, SleepBegins,
         TimerFires, SleepAborts, LookupsOnly, ClockOnly
    <3>2. SocketsInv'
      BY <3>1 DEF PortsInv, SocketsInv, DialKept, IdsDiffer, IsDial
    <3> QED
      BY <2>2, <3>2, WaitsKeep DEF PortsInv
  <2> QED
    BY <2>1, <2>2, PortsUnchanged DEF MCNext, SocketsNext, PortsIdle, WaitsIdle
<1>3. PortsInv => NothingLeaks
  <2> SUFFICES ASSUME PortsInv PROVE NothingLeaks
    OBVIOUS
  <2>1. SocketsAccounted
    BY DEF PortsInv, SocketsInv, WaitsInv, DialKept, SocketsAccounted
  <2>2. ErrorsAreHeard
    BY DEF PortsInv, ErrorsAreHeard
  <2> QED
    BY <2>1, <2>2 DEF NothingLeaks
<1> QED
  BY <1>1, <1>2, <1>3, PTL DEF MCSpec

-----------------------------------------------------------------------------
(* One more response keeps the samples and their summaries in step. *)
LEMMA MatchedGrows ==
  ASSUME NEW f \in Seq(Response), NEW s \in Seq(Summaries), Matched(f, s),
         NEW r \in Response
  PROVE  /\ detectChallenge(r) => Matched(Append(f, r), s)
         /\ ~ detectChallenge(r) => Matched(Append(f, r), Append(s, summarize(r)))
<1> DEFINE g == Append(f, r)
           n == Len(f) + 1
           F == SampledOf(f)
           G == SampledOf(g)
<1>1. /\ DOMAIN f = 1..Len(f) /\ DOMAIN g = 1..n /\ Len(f) \in Nat /\ n \in Nat
      /\ g[n] = r /\ \A i \in 1..Len(f) : g[i] = f[i]
  OBVIOUS
<1>2. F \subseteq 1..Len(f) /\ \A i \in F : g[i] = f[i]
  BY <1>1 DEF SampledOf
<1>3. /\ IsFiniteSet(F) /\ Cardinality(F) = Len(s)
      /\ \A k \in 1..Len(s) : \E i \in F : s[k] = summarize(f[i])
      /\ \A i \in F : \E k \in 1..Len(s) : s[k] = summarize(f[i])
  BY DEF Matched
<1>4. CASE detectChallenge(r)
  <2>1. G = F
    BY <1>1, <1>4 DEF SampledOf
  <2> HIDE DEF F, G, g
  <2>2. \A k \in 1..Len(s) : \E i \in G : s[k] = summarize(g[i])
    BY <1>2, <1>3, <2>1
  <2>3. \A i \in G : \E k \in 1..Len(s) : s[k] = summarize(g[i])
    BY <1>2, <1>3, <2>1
  <2>4. Matched(g, s)
    BY <1>3, <2>1, <2>2, <2>3 DEF Matched, G
  <2> QED
    BY <1>4, <2>4 DEF g
<1>5. CASE ~ detectChallenge(r)
  <2> DEFINE u == summarize(r)
             t == Append(s, u)
  <2>1. G = F \cup {n} /\ n \notin F
    <3>1. \A i \in 1..n : i \in 1..Len(f) \/ i = n
      BY <1>1
    <3>2. \A i \in 1..Len(f) : i \in 1..n /\ i # n
      BY <1>1
    <3> QED
      BY <1>1, <1>5, <3>1, <3>2 DEF SampledOf
  <2>2. u \in Summaries
    BY DEF Summaries
  <2>3. /\ Len(t) = Len(s) + 1 /\ t[Len(s) + 1] = u /\ Len(s) \in Nat
        /\ \A k \in 1..Len(s) : t[k] = s[k]
    BY <2>2
  <2>4. IsFiniteSet(F \cup {n}) /\ Cardinality(F \cup {n}) = Cardinality(F) + 1
    BY <1>3, <2>1, FS_AddElement
  <2> HIDE DEF F, G, g, u, t, n
  <2>5. \A k \in 1..Len(t) : \E i \in G : t[k] = summarize(g[i])
    <3> SUFFICES ASSUME NEW k \in 1..Len(t) PROVE \E i \in G : t[k] = summarize(g[i])
      OBVIOUS
    <3>1. CASE k \in 1..Len(s)
      BY <1>2, <1>3, <2>1, <2>3, <3>1
    <3>2. CASE k = Len(s) + 1
      BY <1>1, <2>1, <2>3, <3>2 DEF u
    <3> QED
      BY <2>3, <3>1, <3>2
  <2>6. \A i \in G : \E k \in 1..Len(t) : t[k] = summarize(g[i])
    <3> SUFFICES ASSUME NEW i \in G PROVE \E k \in 1..Len(t) : t[k] = summarize(g[i])
      OBVIOUS
    <3>1. CASE i \in F
      <4>1. PICK k \in 1..Len(s) : s[k] = summarize(f[i])
        BY <1>3, <3>1
      <4>2. k \in 1..Len(t) /\ t[k] = s[k] /\ g[i] = f[i]
        BY <1>2, <2>3, <3>1
      <4> QED
        BY <4>1, <4>2
    <3>2. CASE i = n
      <4>1. Len(s) + 1 \in 1..Len(t)
        BY <2>3
      <4> QED
        BY <1>1, <2>3, <3>2, <4>1 DEF u
    <3> QED
      BY <2>1, <3>1, <3>2
  <2>7. Matched(g, t)
    BY <1>3, <2>1, <2>3, <2>4, <2>5, <2>6 DEF Matched, G
  <2> QED
    BY <1>5, <2>7 DEF g, t, u
<1> QED
  BY <1>4, <1>5

(* Two summaries that differ come from responses that differ. *)
LEMMA SummariesTell ==
  ASSUME NEW x \in Response, NEW y \in Response, NEW d \in DIVERGENCE_DIMENSIONS,
         summarize(x)[d] # summarize(y)[d]
  PROVE  \/ x.statusClass # y.statusClass
         \/ x.statusClass = 3 /\ y.statusClass = 3 /\ x.location # y.location
         \/ x.declared # y.declared
         \/ ProbeMethod # "HEAD" /\ x.body # y.body
<1>1. CASE d = "statusClass"
  BY <1>1 DEF summarize
<1>2. CASE d = "location"
  BY <1>2 DEF summarize
<1>3. CASE d = "declaredEssence"
  BY <1>3 DEF summarize
<1>4. CASE d = "computedEssence"
  BY <1>4 DEF summarize, bodyPresent
<1> QED
  BY <1>1, <1>2, <1>3, <1>4 DEF DIVERGENCE_DIMENSIONS

(* Responses with one summary are alike. *)
LEMMA SummariesHide ==
  ASSUME NEW x \in Response, NEW y \in Response,
         \A d \in DIVERGENCE_DIMENSIONS : summarize(x)[d] = summarize(y)[d]
  PROVE  /\ x.statusClass = y.statusClass
         /\ x.statusClass = 3 => x.location = y.location
         /\ x.declared = y.declared
         /\ ProbeMethod # "HEAD" =>
              /\ x.body = {} <=> y.body = {}
              /\ computeEssence(x.body) = computeEssence(y.body)
<1> DEFINE s == summarize(x)
           t == summarize(y)
<1>1. /\ s["statusClass"] = t["statusClass"] /\ s["location"] = t["location"]
      /\ s["declaredEssence"] = t["declaredEssence"]
      /\ s["computedEssence"] = t["computedEssence"]
  BY DEF DIVERGENCE_DIMENSIONS
<1>2. x.statusClass = y.statusClass
  BY <1>1 DEF summarize
<1>3. x.statusClass = 3 => x.location = y.location
  BY <1>1, <1>2 DEF summarize
<1>4. x.declared = y.declared
  <2>1. /\ s["declaredEssence"] = IF x.declared = "malformed" THEN "none" ELSE x.declared
        /\ t["declaredEssence"] = IF y.declared = "malformed" THEN "none" ELSE y.declared
    BY DEF summarize, parseDeclaredEssence
  <2>2. x.declared \in {"text/html", "malformed"} /\ y.declared \in {"text/html", "malformed"}
    BY DEF Response
  <2> QED
    BY <1>1, <2>1, <2>2
<1>5. ASSUME ProbeMethod # "HEAD"
      PROVE  /\ x.body = {} <=> y.body = {}
             /\ computeEssence(x.body) = computeEssence(y.body)
  <2>1. /\ s["computedEssence"] = IF x.body # {} THEN computeEssence(x.body) ELSE "none"
        /\ t["computedEssence"] = IF y.body # {} THEN computeEssence(y.body) ELSE "none"
    BY <1>5 DEF summarize, bodyPresent
  <2>2. \A v : computeEssence(v) # "none"
    BY DEF computeEssence
  <2> QED
    BY <1>1, <2>1, <2>2
<1> QED
  BY <1>2, <1>3, <1>4, <1>5

LEMMA SampledIs == Sampled = SampledOf(probe.fetched)
  BY DEF Sampled, SampledOf

(* The comparison is one of samples. *)
LEMMA ComparisonIsTrue ==
  ASSUME ProbeInv, divergenceOutcome
  PROVE  DivergenceIsObserved'
<1> DEFINE s == probe.summaries
           f == probe.fetched
           found == IF comparable(s) THEN divergentAmong(s) ELSE {}
           divergent == IF ~ comparable(s) THEN "null"
                        ELSE IF found # {} THEN "true" ELSE "false"
<1>0. /\ probe = [at |-> probe.at, index |-> probe.index, fetched |-> probe.fetched,
                  outcomes |-> probe.outcomes, summaries |-> probe.summaries,
                  divergent |-> probe.divergent, dimensions |-> probe.dimensions]
      /\ probe.index \in 1..(Len(Variants) + 1) /\ f \in Seq(Response)
      /\ probe.outcomes \in Seq(Outcomes) /\ s \in Seq(Summaries)
      /\ Len(probe.outcomes) = probe.index - 1 /\ Matched(f, s)
      /\ probe.index > Len(Variants) /\ Len(Variants) \in Nat
  BY ProbeAssumption DEF ProbeInv, divergenceOutcome
<1>1. PICK o : /\ o = Append(probe.outcomes, "divergence")
               /\ probe' = [probe EXCEPT !.at = "returned", !.outcomes = o,
                                         !.dimensions = found, !.divergent = divergent]
  BY DEF divergenceOutcome
<1>2. Len(o) = Len(Variants) + 1
  <2>1. "divergence" \in Outcomes
    BY DEF Outcomes
  <2> QED
    BY <1>0, <1>1, <2>1
<1>3. Len(s) \in Nat /\ DOMAIN s = 1..Len(s) /\ DOMAIN f = 1..Len(f)
  BY <1>0
<1>4. Len(s) >= 2 <=> comparable(s)
  BY DEF comparable
<1>5. divergent \in {"true", "false", "null"} /\ (divergent = "null" <=> Len(s) < 2)
  BY <1>3, <1>4
<1>6. /\ Cardinality(SampledOf(f)) = Len(s)
      /\ \A k \in 1..Len(s) : \E i \in SampledOf(f) : s[k] = summarize(f[i])
      /\ \A i \in SampledOf(f) : \E k \in 1..Len(s) : s[k] = summarize(f[i])
  BY <1>0 DEF Matched
<1>7. \A i \in SampledOf(f) : f[i] \in Response
  BY <1>0 DEF SampledOf
<1>8. ASSUME divergent = "true"
      PROVE  \E i, j \in SampledOf(f) : ServedDifferently(i, j)
  <2>1. divergentAmong(s) # {}
    BY <1>8
  <2>2. PICK d \in DIVERGENCE_DIMENSIONS : \E k, m \in DOMAIN s : s[k][d] # s[m][d]
    BY <2>1 DEF divergentAmong
  <2>3. PICK k, m \in 1..Len(s) : s[k][d] # s[m][d]
    BY <1>3, <2>2
  <2>4. PICK i, j \in SampledOf(f) : s[k] = summarize(f[i]) /\ s[m] = summarize(f[j])
    BY <1>6
  <2>5. summarize(f[i])[d] # summarize(f[j])[d]
    BY <2>3, <2>4
  <2> QED
    BY <1>7, <2>2, <2>5, SummariesTell DEF ServedDifferently
<1>9. ASSUME divergent = "false", NEW i \in SampledOf(f), NEW j \in SampledOf(f)
      PROVE  ServedAlike(i, j)
  <2>1. divergentAmong(s) = {}
    BY <1>9
  <2>3. \A d \in DIVERGENCE_DIMENSIONS : \A k, m \in 1..Len(s) : s[k][d] = s[m][d]
    BY <1>3, <2>1 DEF divergentAmong
  <2>4. PICK k, m \in 1..Len(s) : s[k] = summarize(f[i]) /\ s[m] = summarize(f[j])
    BY <1>6
  <2>5. \A d \in DIVERGENCE_DIMENSIONS : summarize(f[i])[d] = summarize(f[j])[d]
    BY <2>3, <2>4
  <2> QED
    BY <1>7, <2>5, SummariesHide DEF ServedAlike
<1>10. Len(s) < 2 => found = {}
  BY <1>3, <1>4
<1> HIDE DEF found, divergent
<1>11. PICK p : /\ p = [probe EXCEPT !.at = "returned", !.outcomes = o,
                                     !.dimensions = found, !.divergent = divergent]
                /\ probe' = p
  BY <1>1
<1>12. p = [at |-> "returned", index |-> probe.index, fetched |-> probe.fetched,
            outcomes |-> o, summaries |-> probe.summaries, divergent |-> divergent,
            dimensions |-> found]
  BY <1>0, <1>11
<1>13. /\ probe'.fetched = f /\ probe'.outcomes = o /\ probe'.divergent = divergent
       /\ probe'.dimensions = found
  BY <1>11, <1>12
<1>14. Sampled' = SampledOf(f) /\ Sampled = SampledOf(f)
  BY <1>13 DEF Sampled, SampledOf
<1>15. \A i, j : /\ ServedDifferently(i, j)' <=> ServedDifferently(i, j)
                 /\ ServedAlike(i, j)' <=> ServedAlike(i, j)
  BY <1>13 DEF ServedDifferently, ServedAlike
<1> HIDE DEF f, s
<1> QED
  BY <1>2, <1>3, <1>5, <1>6, <1>8, <1>9, <1>10, <1>13, <1>14, <1>15 DEF DivergenceIsObserved

(* Samples and summaries in step now are in step then. *)
LEMMA MatchedThen ==
  ASSUME NEW f, NEW s, probe'.fetched = f, probe'.summaries = s, Matched(f, s)
  PROVE  Matched(probe.fetched, probe.summaries)'
<1>1. SampledOf(probe.fetched)' = SampledOf(f)
  BY DEF SampledOf
<1> QED
  BY <1>1 DEF Matched

(* A variant that was not sampled has an outcome all the same. *)
LEMMA DegradesKeeps ==
  ASSUME ProbeInv, Probing, NEW o \in Outcomes, Degrades(o)
  PROVE  ProbeInv'
<1>1. /\ probe.at = "variant"
      /\ probe = [at |-> probe.at, index |-> probe.index, fetched |-> probe.fetched,
                  outcomes |-> probe.outcomes, summaries |-> probe.summaries,
                  divergent |-> probe.divergent, dimensions |-> probe.dimensions]
      /\ probe.index \in 1..Len(Variants) /\ Len(Variants) \in Nat
      /\ probe.outcomes \in Seq(Outcomes) /\ Len(probe.outcomes) = probe.index - 1
  BY ProbeAssumption DEF ProbeInv, Probing
<1>2. PICK n, q : n = probe.index + 1 /\ q = Append(probe.outcomes, o)
  OBVIOUS
<1>3. n \in 1..(Len(Variants) + 1) /\ q \in Seq(Outcomes) /\ Len(q) = n - 1
  BY <1>1, <1>2
<1>4. PICK p : p = [probe EXCEPT !.index = n, !.outcomes = q] /\ probe' = p
  BY <1>2 DEF Degrades
<1>5. p = [at |-> probe.at, index |-> n, fetched |-> probe.fetched,
           outcomes |-> q, summaries |-> probe.summaries,
           divergent |-> probe.divergent, dimensions |-> probe.dimensions]
  BY <1>1, <1>4
<1>6. /\ probe'.at = "variant" /\ probe'.index = n /\ probe'.fetched = probe.fetched
      /\ probe'.outcomes = q /\ probe'.summaries = probe.summaries
      /\ probe' = [at |-> probe'.at, index |-> probe'.index, fetched |-> probe'.fetched,
                   outcomes |-> probe'.outcomes, summaries |-> probe'.summaries,
                   divergent |-> probe'.divergent, dimensions |-> probe'.dimensions]
  BY <1>1, <1>4, <1>5
<1>7. Matched(probe.fetched, probe.summaries)'
  BY <1>6, MatchedThen DEF ProbeInv
<1> QED
  BY <1>3, <1>6, <1>7 DEF ProbeInv, DivergenceIsObserved

(* A response that was fetched. *)
LEMMA FetchedKeeps ==
  ASSUME ProbeInv, VariantFetched
  PROVE  ProbeInv'
<1>1. /\ probe.at = "variant"
      /\ probe = [at |-> probe.at, index |-> probe.index, fetched |-> probe.fetched,
                  outcomes |-> probe.outcomes, summaries |-> probe.summaries,
                  divergent |-> probe.divergent, dimensions |-> probe.dimensions]
      /\ probe.index \in 1..Len(Variants) /\ Len(Variants) \in Nat
      /\ probe.fetched \in Seq(Response) /\ probe.summaries \in Seq(Summaries)
      /\ probe.outcomes \in Seq(Outcomes) /\ Len(probe.outcomes) = probe.index - 1
      /\ Matched(probe.fetched, probe.summaries)
  BY ProbeAssumption DEF ProbeInv, VariantFetched, Probing
<1>2. PICK r \in Response :
        probe' = [probe EXCEPT !.index = probe.index + 1,
                    !.fetched = Append(probe.fetched, r),
                    !.outcomes = Append(probe.outcomes, outcomeOf(summarize(r))),
                    !.summaries = IF Unchallenged(summarize(r))
                                    THEN Append(probe.summaries, summarize(r))
                                    ELSE probe.summaries]
  BY DEF VariantFetched
<1>3. PICK n, f, q, s :
        /\ n = probe.index + 1 /\ f = Append(probe.fetched, r)
        /\ q = Append(probe.outcomes, outcomeOf(summarize(r)))
        /\ s = IF Unchallenged(summarize(r)) THEN Append(probe.summaries, summarize(r))
                                             ELSE probe.summaries
  OBVIOUS
<1>4. summarize(r) \in Summaries /\ outcomeOf(summarize(r)) \in Outcomes
  BY DEF Summaries, outcomeOf, Outcomes
<1>5. Unchallenged(summarize(r)) <=> ~ detectChallenge(r)
  BY DEF Unchallenged, summarize
<1>6. /\ n \in 1..(Len(Variants) + 1) /\ q \in Seq(Outcomes) /\ Len(q) = n - 1
      /\ f \in Seq(Response)
  BY <1>1, <1>3, <1>4
<1>7. s \in Seq(Summaries)
  BY <1>1, <1>3, <1>4
<1>8. Matched(f, s)
  BY <1>1, <1>3, <1>5, MatchedGrows
<1>9. PICK p : /\ p = [probe EXCEPT !.index = n, !.fetched = f, !.outcomes = q,
                                    !.summaries = s]
               /\ probe' = p
  BY <1>2, <1>3
<1>10. p = [at |-> probe.at, index |-> n, fetched |-> f, outcomes |-> q, summaries |-> s,
            divergent |-> probe.divergent, dimensions |-> probe.dimensions]
  BY <1>1, <1>9
<1>11. /\ probe'.at = "variant" /\ probe'.index = n /\ probe'.fetched = f
       /\ probe'.outcomes = q /\ probe'.summaries = s
       /\ probe' = [at |-> probe'.at, index |-> probe'.index, fetched |-> probe'.fetched,
                    outcomes |-> probe'.outcomes, summaries |-> probe'.summaries,
                    divergent |-> probe'.divergent, dimensions |-> probe'.dimensions]
  BY <1>1, <1>9, <1>10
<1>12. Matched(probe.fetched, probe.summaries)'
  BY <1>8, <1>11, MatchedThen
<1> QED
  BY <1>6, <1>7, <1>11, <1>12 DEF ProbeInv, DivergenceIsObserved

(* The end of the probe, compared or refused at the start. *)
LEMMA ProbeEnds ==
  ASSUME ProbeInv, InvalidTarget \/ divergenceOutcome
  PROVE  ProbeInv'
<1>1. /\ probe = [at |-> probe.at, index |-> probe.index, fetched |-> probe.fetched,
                  outcomes |-> probe.outcomes, summaries |-> probe.summaries,
                  divergent |-> probe.divergent, dimensions |-> probe.dimensions]
      /\ probe.outcomes \in Seq(Outcomes)
  BY DEF ProbeInv
<1>2. "invalid-target" \in Outcomes /\ "divergence" \in Outcomes
  BY DEF Outcomes
<1>3. PICK q, v, d :
        /\ q \in Seq(Outcomes)
        /\ divergenceOutcome \/ q = <<"invalid-target">>
        /\ probe' = [probe EXCEPT !.at = "returned", !.outcomes = q, !.dimensions = d,
                                  !.divergent = v]
  <2>1. CASE InvalidTarget
    <3>1. probe' = [probe EXCEPT !.at = "returned", !.outcomes = <<"invalid-target">>,
                                 !.divergent = "unreported"]
      BY <2>1 DEF InvalidTarget
    <3>2. PICK y : y = [probe EXCEPT !.at = "returned", !.outcomes = <<"invalid-target">>,
                                     !.divergent = "unreported"]
      OBVIOUS
    <3>3. PICK z : z = [probe EXCEPT !.at = "returned", !.outcomes = <<"invalid-target">>,
                                     !.dimensions = probe.dimensions,
                                     !.divergent = "unreported"]
      OBVIOUS
    <3>4. y = z
      BY <1>1, <3>2, <3>3
    <3>5. <<"invalid-target">> \in Seq(Outcomes)
      BY <1>2
    <3>6. probe' = z
      BY <3>1, <3>2, <3>4
    <3> QED
      BY <3>3, <3>5, <3>6
  <2>2. CASE divergenceOutcome
    <3>1. PICK v, d :
            probe' = [probe EXCEPT !.at = "returned",
                                   !.outcomes = Append(probe.outcomes, "divergence"),
                                   !.dimensions = d, !.divergent = v]
      BY <2>2 DEF divergenceOutcome
    <3>2. PICK q : q = Append(probe.outcomes, "divergence")
      OBVIOUS
    <3>3. q \in Seq(Outcomes)
      BY <1>1, <1>2, <3>2
    <3>4. \E qq, vv, dd :
            /\ qq \in Seq(Outcomes)
            /\ divergenceOutcome \/ qq = <<"invalid-target">>
            /\ probe' = [probe EXCEPT !.at = "returned", !.outcomes = qq,
                                      !.dimensions = dd, !.divergent = vv]
      BY <2>2, <3>1, <3>2, <3>3
    <3> QED
      BY <3>4
  <2> QED
    BY <2>1, <2>2
<1>4. PICK p : /\ p = [probe EXCEPT !.at = "returned", !.outcomes = q, !.dimensions = d,
                                    !.divergent = v]
               /\ probe' = p
  BY <1>3
<1>5. p = [at |-> "returned", index |-> probe.index, fetched |-> probe.fetched,
           outcomes |-> q, summaries |-> probe.summaries, divergent |-> v, dimensions |-> d]
  BY <1>1, <1>4
<1>6. /\ probe'.at = "returned" /\ probe'.index = probe.index
      /\ probe'.fetched = probe.fetched /\ probe'.outcomes = q
      /\ probe'.summaries = probe.summaries
      /\ probe' = [at |-> probe'.at, index |-> probe'.index, fetched |-> probe'.fetched,
                   outcomes |-> probe'.outcomes, summaries |-> probe'.summaries,
                   divergent |-> probe'.divergent, dimensions |-> probe'.dimensions]
  BY <1>4, <1>5
<1>7. Matched(probe.fetched, probe.summaries)'
  BY <1>6, MatchedThen DEF ProbeInv
<1>8. DivergenceIsObserved'
  <2>1. CASE q = <<"invalid-target">>
    BY <1>6, <2>1 DEF DivergenceIsObserved
  <2> QED
    BY <1>3, <2>1, ComparisonIsTrue
<1> QED
  BY <1>3, <1>6, <1>7, <1>8 DEF ProbeInv

(***************************************************************************)
(* For any list of variants, either method and any bodies, whatever the    *)
(* session answers, refuses or fails: divergence is claimed of two         *)
(* responses that were really sampled and differ, denied only of two or    *)
(* more that are alike in all four dimensions, and each variant has its    *)
(* outcome (divergence-probe.ts, divergenceOutcome).                       *)
(***************************************************************************)
THEOREM DivergenceObserved == MCSpec => []DivergenceIsObserved
<1>1. MCInit => ProbeInv
  <2> SUFFICES ASSUME ProbeInit PROVE ProbeInv
    BY DEF MCInit
  <2>1. /\ probe.at = "variant" /\ probe.index = 1 /\ probe.fetched = <<>>
        /\ probe.outcomes = <<>> /\ probe.summaries = <<>>
        /\ probe = [at |-> probe.at, index |-> probe.index, fetched |-> probe.fetched,
                    outcomes |-> probe.outcomes, summaries |-> probe.summaries,
                    divergent |-> probe.divergent, dimensions |-> probe.dimensions]
    BY DEF ProbeInit
  <2>2. SampledOf(<<>>) = {}
    BY DEF SampledOf
  <2>3. Matched(<<>>, <<>>)
    BY <2>2, FS_EmptySet DEF Matched
  <2>4. 1 \in 1..(Len(Variants) + 1)
    BY ProbeAssumption
  <2> QED
    BY <2>1, <2>3, <2>4 DEF ProbeInv, DivergenceIsObserved
<1>2. ProbeInv /\ [MCNext]_<<vars, wrap, probe, portVars, part>> => ProbeInv'
  <2> SUFFICES ASSUME ProbeInv, [MCNext]_<<vars, wrap, probe, portVars, part>>
               PROVE  ProbeInv'
    OBVIOUS
  <2>1. CASE NotAuthorized \/ transportDegradation
    <3>1. PICK o \in Outcomes : Degrades(o)
      BY <2>1 DEF NotAuthorized, transportDegradation, Outcomes
    <3>2. Probing
      BY <2>1 DEF NotAuthorized, transportDegradation
    <3> QED
      BY <3>1, <3>2, DegradesKeeps
  <2>2. CASE VariantFetched
    BY <2>2, FetchedKeeps
  <2>3. CASE InvalidTarget \/ divergenceOutcome
    BY <2>3, ProbeEnds
  <2>4. CASE UNCHANGED probe
    <3>1. Matched(probe.fetched, probe.summaries)'
      BY <2>4, MatchedThen DEF ProbeInv
    <3>2. Sampled' = Sampled
      BY <2>4 DEF Sampled
    <3>3. \A i, j : /\ ServedDifferently(i, j)' <=> ServedDifferently(i, j)
                    /\ ServedAlike(i, j)' <=> ServedAlike(i, j)
      BY <2>4 DEF ServedDifferently, ServedAlike
    <3>4. DivergenceIsObserved'
      BY <2>4, <3>2, <3>3 DEF ProbeInv, DivergenceIsObserved
    <3> QED
      BY <2>4, <3>1, <3>4 DEF ProbeInv
  <2> QED
    BY <2>1, <2>2, <2>3, <2>4 DEF MCNext, ProbeNext, ProbeReturned
<1>3. ProbeInv => DivergenceIsObserved
  BY DEF ProbeInv
<1> QED
  BY <1>1, <1>2, <1>3, PTL DEF MCSpec

(***************************************************************************)
(* Wrappers.  While the loop runs, the outcomes are one success for each   *)
(* layer opened, and nothing else; it ends by adding at most one outcome,  *)
(* which is no success.                                                    *)
(***************************************************************************)
Told ==
  [status : {"success", "no-hit", "skipped", "failure"},
   code : {"none", "caller-aborted", "wrapper-depth-exceeded", "unsupported-wrapper-format",
           "malformed-wrapper", "decoded-url-too-long", "invalid-decoded-url"}]

WrapInv ==
  /\ wrap = [at |-> wrap.at, url |-> wrap.url, depth |-> wrap.depth,
             aborted |-> wrap.aborted, outcomes |-> wrap.outcomes]
  /\ wrap.at \in {"loop", "returned"} /\ wrap.url \in {NotWrapped} \cup Wrapped
  /\ wrap.depth \in Nat /\ wrap.outcomes \in Seq(Told)
  /\ wrap.at = "loop" =>
       /\ Len(wrap.outcomes) = wrap.depth /\ wrap.depth <= MaxDepth
       /\ \A k \in 1..wrap.depth : wrap.outcomes[k].status = "success"
  /\ UnopenedIsReported

(* What the loop may end with. *)
LastWord(more) ==
  \/ /\ more = <<>> /\ wrap.depth > 0 /\ wrap.url = NotWrapped
  \/ \E o \in Told :
       /\ more = <<o>>
       /\ \/ o.status \in {"skipped", "failure"}
          \/ o.status = "no-hit" /\ wrap.depth = 0 /\ wrap.url = NotWrapped

LEMMA UnwrappedIs ==
  ASSUME NEW url \in {NotWrapped} \cup Wrapped, url.vendor = "none"
  PROVE  url = NotWrapped
BY DEF Wrapped, Vendor

LEMMA Appended ==
  ASSUME NEW S, NEW s \in Seq(S), NEW o \in S
  PROVE  /\ s \o <<o>> \in Seq(S) /\ Len(s \o <<o>>) = Len(s) + 1
         /\ \A k \in 1..Len(s) : (s \o <<o>>)[k] = s[k]
         /\ (s \o <<o>>)[Len(s) + 1] = o
OBVIOUS

LEMMA WrapEndsKeeps ==
  ASSUME WrapInv, wrap.at = "loop", NEW more, LastWord(more), WrapEnds(more)
  PROVE  WrapInv'
<1>1. /\ wrap'.at = "returned" /\ wrap'.url = wrap.url /\ wrap'.depth = wrap.depth
      /\ wrap'.outcomes = wrap.outcomes \o more
      /\ wrap' = [at |-> wrap'.at, url |-> wrap'.url, depth |-> wrap'.depth,
                  aborted |-> wrap'.aborted, outcomes |-> wrap'.outcomes]
  BY DEF WrapInv, WrapEnds
<1>2. PICK s \in Seq(Told), d \in Nat, url \in {NotWrapped} \cup Wrapped :
        /\ s = wrap.outcomes /\ d = wrap.depth /\ url = wrap.url /\ Len(s) = d /\ d <= MaxDepth
        /\ \A k \in 1..d : s[k].status = "success"
  BY DEF WrapInv
<1>3. PICK t : t = s \o more
  OBVIOUS
<1> DEFINE opened == {k \in DOMAIN t : t[k].status = "success"}
<1>4. IsFiniteSet(1..d) /\ Cardinality(1..d) = d
  <2>1. Cardinality(1..d) = IF 1 > d THEN 0 ELSE d - 1 + 1
    BY FS_Interval
  <2>2. IsFiniteSet(1..d)
    BY FS_Interval
  <2> QED
    BY <2>1, <2>2
<1>5. CASE more = <<>> /\ d > 0 /\ url = NotWrapped
  <2>1. t = s /\ DOMAIN t = 1..d
    BY <1>2, <1>3, <1>5
  <2>2. opened = 1..d /\ t # <<>> /\ t[1].status # "no-hit" /\ url.vendor = "none"
    BY <1>2, <1>5, <2>1 DEF NotWrapped
  <2> HIDE DEF opened
  <2>3. Cardinality(opened) = d
    BY <1>4, <2>2
  <2> QED
    BY <1>1, <1>2, <1>3, <2>1, <2>2, <2>3 DEF WrapInv, UnopenedIsReported, opened
<1>6. ASSUME NEW o \in Told, more = <<o>>,
             \/ o.status \in {"skipped", "failure"}
             \/ o.status = "no-hit" /\ d = 0 /\ url = NotWrapped
      PROVE  WrapInv'
  <2>1. /\ t \in Seq(Told) /\ Len(t) = d + 1 /\ DOMAIN t = 1..(d + 1)
        /\ \A k \in 1..d : t[k] = s[k]
        /\ t[d + 1] = o
    <3>1. t = s \o <<o>>
      BY <1>3, <1>6
    <3>2. /\ t \in Seq(Told) /\ Len(t) = Len(s) + 1
          /\ \A k \in 1..Len(s) : t[k] = s[k]
          /\ t[Len(s) + 1] = o
      <4> HIDE DEF opened
      <4>1. s \in Seq(Told) /\ o \in Told
        OBVIOUS
      <4> QED
        BY ONLY <3>1, <4>1, Appended
    <3> QED
      BY <1>2, <3>2
  <2>2. opened = 1..d
    BY <1>2, <1>6, <2>1
  <2>3. t # <<>> /\ Last(t) = o
    BY <2>1 DEF Last
  <2>4. url.vendor # "none" => Last(t).status \in {"skipped", "failure"}
    BY <1>6, <2>3 DEF NotWrapped
  <2>5. t[1].status = "no-hit" => d = 0 /\ url = NotWrapped
    <3>1. CASE d = 0
      BY <1>6, <2>1, <3>1
    <3>2. CASE d # 0
      BY <1>2, <2>1, <3>2
    <3> QED
      BY <3>1, <3>2
  <2> HIDE DEF opened
  <2>6. Cardinality(opened) = d
    BY <1>4, <2>2
  <2> QED
    BY <1>1, <1>2, <1>3, <2>1, <2>3, <2>4, <2>5, <2>6 DEF WrapInv, UnopenedIsReported, opened
<1> QED
  BY <1>2, <1>5, <1>6 DEF LastWord

LEMMA DecodedIs ==
  ASSUME NEW url \in {NotWrapped} \cup Wrapped
  PROVE  LET decoded == decodeEmbeddedWrapper(url)
         IN  /\ decoded.status = "not-wrapper" => url = NotWrapped
             /\ decoded.code \in {"none", "unsupported-wrapper-format", "malformed-wrapper",
                                  "decoded-url-too-long", "invalid-decoded-url"}
BY UnwrappedIs DEF decodeEmbeddedWrapper, wrapperVendor, unsupported, malformed, Status,
   decodeMicrosoftSafeLinks, decodeProofpoint, validateDecoded

LEMMA WrapNextKeeps ==
  ASSUME WrapInv, WrapNext
  PROVE  WrapInv'
<1>0. wrap.url \in {NotWrapped} \cup Wrapped /\ wrap.depth \in Nat /\ MaxDepth \in Nat \ {0}
  BY WrapAssumption DEF WrapInv
<1>1. CASE WrapAborted
  <2>1. Status("skipped", "caller-aborted") \in Told
    BY DEF Status, Told
  <2>2. LastWord(<<Status("skipped", "caller-aborted")>>)
    BY <2>1 DEF LastWord, Status
  <2> QED
    BY <1>1, <2>2, WrapEndsKeeps DEF WrapAborted
<1>2. CASE DepthExceeded
  <2>1. wrap.depth > 0
    BY <1>0, <1>2 DEF DepthExceeded
  <2>2. Status("failure", "wrapper-depth-exceeded") \in Told
    BY DEF Status, Told
  <2>3. LastWord(IF wrapperVendor(wrap.url) = "none" THEN <<>>
                 ELSE <<Status("failure", "wrapper-depth-exceeded")>>)
    BY <1>0, <2>1, <2>2, UnwrappedIs DEF LastWord, Status, wrapperVendor
  <2> QED
    BY <1>2, <2>3, WrapEndsKeeps DEF DepthExceeded
<1>3. CASE WrapStops
  <2> DEFINE decoded == decodeEmbeddedWrapper(wrap.url)
  <2>1. /\ decoded.status = "not-wrapper" => wrap.url = NotWrapped
        /\ decoded.code \in {"none", "unsupported-wrapper-format", "malformed-wrapper",
                             "decoded-url-too-long", "invalid-decoded-url"}
    BY <1>0, DecodedIs
  <2>2. wrap.at = "loop" /\ (wrap.outcomes = <<>> <=> wrap.depth = 0)
    BY <1>3 DEF WrapStops, Unwraps, WrapInv
  <2>3. PICK more : WrapEnds(more) /\
           \/ decoded.status = "not-wrapper" /\
                more = IF wrap.outcomes = <<>> THEN <<Status("no-hit", "none")>> ELSE <<>>
           \/ more = <<Status("skipped", decoded.code)>>
           \/ more = <<Status("failure", decoded.code)>>
    BY <1>3 DEF WrapStops
  <2> HIDE DEF decoded
  <2>4. /\ Status("no-hit", "none") \in Told
        /\ Status("skipped", decoded.code) \in Told
        /\ Status("failure", decoded.code) \in Told
    BY <2>1 DEF Status, Told
  <2>5. LastWord(more)
    BY <1>0, <2>1, <2>2, <2>3, <2>4 DEF LastWord, Status
  <2> QED
    BY <2>2, <2>3, <2>5, WrapEndsKeeps
<1>4. CASE WrapDecodes
  <2>1. PICK next \in {NotWrapped} \cup Wrapped :
          wrap' = [wrap EXCEPT !.depth = @ + 1, !.url = next,
                               !.outcomes = Append(@, Status("success", "none"))]
    BY <1>4 DEF WrapDecodes
  <2>2. /\ wrap'.at = "loop" /\ wrap'.url = next /\ wrap'.depth = wrap.depth + 1
        /\ wrap'.outcomes = Append(wrap.outcomes, Status("success", "none"))
        /\ wrap' = [at |-> wrap'.at, url |-> wrap'.url, depth |-> wrap'.depth,
                    aborted |-> wrap'.aborted, outcomes |-> wrap'.outcomes]
        /\ wrap.depth < MaxDepth /\ wrap.at = "loop"
    BY <1>4, <2>1 DEF WrapDecodes, Unwraps, WrapInv
  <2>3. PICK o \in Told : o = Status("success", "none") /\ o.status = "success"
    <3>1. Status("success", "none") \in Told /\ Status("success", "none").status = "success"
      BY DEF Status, Told
    <3> QED
      BY <3>1
  <2>4. PICK s \in Seq(Told), d \in Nat :
          /\ s = wrap.outcomes /\ d = wrap.depth /\ Len(s) = d
          /\ \A k \in 1..d : s[k].status = "success"
    BY <2>2 DEF WrapInv
  <2>5. /\ Append(s, o) \in Seq(Told) /\ Len(Append(s, o)) = d + 1
        /\ \A k \in 1..(d + 1) : Append(s, o)[k].status = "success"
    BY <2>3, <2>4
  <2>6. wrap'.outcomes = Append(s, o)
    BY <2>2, <2>3, <2>4
  <2> QED
    BY <1>0, <2>2, <2>4, <2>5, <2>6 DEF WrapInv, UnopenedIsReported
<1>5. CASE WrapAborts
  BY <1>5 DEF WrapAborts, WrapInv, UnopenedIsReported
<1> QED
  BY <1>1, <1>2, <1>3, <1>4, <1>5 DEF WrapNext

LEMMA LeastNumber ==
  ASSUME NEW T \in SUBSET Nat, T # {}
  PROVE  \E n \in T : \A m \in T : m >= n
<1>1. PICK n \in T : \A m \in T : ~ (<<m, n>> \in OpToRel(<, Nat))
  BY NatLessThanWellFounded, WFMin
<1>2. ASSUME NEW m \in T PROVE m >= n
  <2>1. m \in Nat /\ n \in Nat
    OBVIOUS
  <2>2. ~ (<<m, n>> \in OpToRel(<, Nat))
    BY <1>1
  <2>3. ~ (m < n)
    BY <2>1, <2>2 DEF OpToRel
  <2> QED
    BY <2>1, <2>3
<1> QED
  BY <1>2

LEMMA GreatestNumber ==
  ASSUME NEW n \in Nat, NEW T \in SUBSET (0..n), T # {}
  PROVE  \E i \in T : \A k \in T : k <= i
<1>1. PICK B : B = {n - k : k \in T}
  OBVIOUS
<1>2. B \in SUBSET Nat /\ B # {}
  <2>1. \A k \in T : n - k \in Nat
    OBVIOUS
  <2> QED
    BY <1>1, <2>1
<1>3. PICK b \in B : \A c \in B : c >= b
  BY <1>2, LeastNumber
<1>4. PICK i \in T : b = n - i
  BY <1>1
<1>5. ASSUME NEW k \in T PROVE k <= i
  <2>1. n - k \in B
    BY <1>1
  <2>2. n - k >= n - i
    BY <1>3, <1>4, <2>1
  <2> QED
    BY <2>2
<1> QED
  BY <1>5

(* Where the pieces of a flattened sequence lie. *)
Laid(s, ss, n, off) ==
  /\ off \in [0..n -> Nat] /\ off[0] = 0 /\ Len(s) = off[n]
  /\ \A i \in 1..n : off[i] = off[i - 1] + Len(ss[i])
  /\ \A i \in 1..n : \A k \in 1..Len(ss[i]) : s[off[i - 1] + k] = ss[i][k]
  /\ \A i \in 0..n : off[i] <= off[n]

LEMMA Joined ==
  ASSUME NEW S, NEW s \in Seq(S), NEW t \in Seq(S)
  PROVE  /\ s \o t \in Seq(S) /\ Len(s \o t) = Len(s) + Len(t)
         /\ \A k \in 1..Len(s) : (s \o t)[k] = s[k]
         /\ \A k \in 1..Len(t) : (s \o t)[Len(s) + k] = t[k]
OBVIOUS

LEMMA JoinLaid ==
  ASSUME NEW S, NEW m \in Nat \ {0}, NEW ss, NEW s \in Seq(S), NEW off,
         Laid(s, ss, m - 1, off), \A i \in 1..m : ss[i] \in Seq(S)
  PROVE  \E o : Laid(s \o ss[m], ss, m, o)
<1>1. PICK u : u = s \o ss[m]
  OBVIOUS
<1>2. PICK o : o = [i \in 0..m |-> IF i = m THEN Len(s) + Len(ss[m]) ELSE off[i]]
  OBVIOUS
<1>3. /\ u \in Seq(S) /\ Len(u) = Len(s) + Len(ss[m])
      /\ \A k \in 1..Len(s) : u[k] = s[k]
      /\ \A k \in 1..Len(ss[m]) : u[Len(s) + k] = ss[m][k]
  BY <1>1, Joined
<1>4. /\ off \in [0..(m - 1) -> Nat] /\ off[0] = 0 /\ Len(s) = off[m - 1]
      /\ \A i \in 1..(m - 1) : off[i] = off[i - 1] + Len(ss[i])
      /\ \A i \in 1..(m - 1) : \A k \in 1..Len(ss[i]) : s[off[i - 1] + k] = ss[i][k]
      /\ \A i \in 0..(m - 1) : off[i] <= off[m - 1]
  BY DEF Laid
<1>5. Len(s) \in Nat /\ \A i \in 1..m : Len(ss[i]) \in Nat
  OBVIOUS
<1>6. /\ o \in [0..m -> Nat] /\ o[0] = 0 /\ o[m] = Len(s) + Len(ss[m])
      /\ \A i \in 0..(m - 1) : o[i] = off[i]
  BY <1>2, <1>4, <1>5
<1>7. ASSUME NEW i \in 1..m PROVE o[i] = o[i - 1] + Len(ss[i])
  <2>1. i - 1 \in 0..(m - 1) /\ o[i - 1] = off[i - 1]
    BY <1>6
  <2>2. CASE i = m
    BY <1>4, <1>6, <2>1, <2>2
  <2>3. CASE i # m
    <3>1. i \in 1..(m - 1) /\ i \in 0..(m - 1)
      BY <2>3
    <3> QED
      BY <1>4, <1>6, <2>1, <3>1
  <2> QED
    BY <2>2, <2>3
<1>8. ASSUME NEW i \in 1..m, NEW k \in 1..Len(ss[i]) PROVE u[o[i - 1] + k] = ss[i][k]
  <2>1. CASE i = m
    BY <1>3, <1>4, <1>6, <1>8, <2>1
  <2>2. CASE i # m
    <3>1. /\ i \in 1..(m - 1) /\ i \in 0..(m - 1) /\ i - 1 \in 0..(m - 1)
          /\ s[off[i - 1] + k] = ss[i][k] /\ off[i] <= Len(s) /\ off[i] = off[i - 1] + Len(ss[i])
      BY <1>4, <1>8, <2>2
    <3>2. off[i - 1] \in Nat /\ off[i] \in Nat /\ k \in Nat /\ k >= 1
      BY <1>4, <3>1
    <3>3. Len(ss[i]) = off[i] - off[i - 1]
      BY <1>5, <3>1, <3>2
    <3>4. off[i - 1] + k \in 1..Len(s)
      BY <1>5, <1>8, <3>1, <3>2, <3>3
    <3> QED
      BY <1>3, <1>6, <3>1, <3>4
  <2> QED
    BY <2>1, <2>2
<1>9. ASSUME NEW i \in 0..m PROVE o[i] <= o[m]
  <2>1. CASE i = m
    BY <1>6, <2>1
  <2>2. CASE i # m
    <3>1. i \in 0..(m - 1) /\ m \in 1..m
      BY <2>2
    <3>2. off[i] <= Len(s) /\ off[i] \in Nat /\ o[i] = off[i]
      BY <1>4, <1>6, <3>1
    <3> QED
      BY <1>5, <1>6, <3>1, <3>2
  <2> QED
    BY <2>1, <2>2
<1>10. Laid(u, ss, m, o)
  BY <1>3, <1>6, <1>7, <1>8, <1>9 DEF Laid
<1> QED
  BY <1>1, <1>10

LEMMA FlattenLaid ==
  ASSUME NEW S, NEW n \in Nat, NEW ss \in [1..n -> Seq(S)]
  PROVE  FlattenSeq(ss) \in Seq(S) /\ \E off : Laid(FlattenSeq(ss), ss, n, off)
<1>1. Len(ss) = n /\ \A i \in 1..n : ss[i] \in Seq(S)
  OBVIOUS
<1>2. CASE n = 0
  <2>1. FlattenSeq(ss) = ss
    BY <1>1, <1>2 DEF FlattenSeq
  <2>2. ss = << >> /\ 1..n = {} /\ << >> \in Seq(S) /\ Len(<< >>) = 0
    BY <1>2
  <2>3. PICK off : off = [i \in 0..0 |-> 0]
    OBVIOUS
  <2>4. off \in [0..0 -> Nat] /\ off[0] = 0 /\ \A i \in 0..0 : off[i] = 0
    BY <2>3
  <2>5. Laid(<< >>, << >>, 0, off)
    BY <2>2, <2>4 DEF Laid
  <2> QED
    BY <1>2, <2>1, <2>2, <2>5
<1>3. CASE n # 0
  <2>0. n \in 1..n /\ 1..n \subseteq Nat
    BY <1>3
  <2> DEFINE Joins(f, m) ==
               f = [i \in 1..m |-> IF i = 1 THEN ss[i] ELSE f[i - 1] \o ss[i]]
             Wrong == {m \in 1..n : ~ \E f : Joins(f, m)}
  <2>1. \E f : Joins(f, n)
    <3> SUFFICES ASSUME Wrong # {} PROVE FALSE
      <4> HIDE DEF Joins
      <4> QED
        BY <2>0
    <3>1. PICK m \in Wrong : \A k \in Wrong : k >= m
      <4>1. Wrong \in SUBSET Nat
        BY <2>0
      <4> HIDE DEF Wrong
      <4> QED
        BY <4>1, LeastNumber
    <3>2. CASE m = 1
      <4>1. Joins([i \in 1..1 |-> ss[i]], 1)
        BY <1>3
      <4> QED
        BY <3>1, <3>2, <4>1
    <3>3. CASE m # 1
      <4>0. m \in 1..n /\ m - 1 \in 1..n /\ ~ (m - 1 >= m)
        BY <3>1, <3>3
      <4>1. m - 1 \in 1..n /\ m - 1 \notin Wrong /\ m \in 1..n
        BY <3>1, <4>0
      <4>2. PICK f : Joins(f, m - 1)
        BY <4>1
      <4>3. PICK h : h = [i \in 1..m |-> IF i = 1 THEN ss[i] ELSE f[i - 1] \o ss[i]]
        OBVIOUS
      <4>4. \A i \in 1..(m - 1) : f[i] = IF i = 1 THEN ss[i] ELSE f[i - 1] \o ss[i]
        BY <4>2
      <4>5. \A i \in 1..(m - 1) : h[i] = f[i]
        BY <4>1, <4>3, <4>4
      <4>6. \A i \in 1..m : i # 1 => h[i - 1] = f[i - 1]
        BY <4>1, <4>5
      <4>7. Joins(h, m)
        BY <4>3, <4>6
      <4> HIDE DEF Joins
      <4> QED
        BY <3>1, <4>7
    <3> QED
      BY <3>2, <3>3
  <2>2. PICK f : f = CHOOSE h : Joins(h, n)
    OBVIOUS
  <2>3. Joins(f, n)
    <3> HIDE DEF Joins
    <3> QED
      BY <2>1, <2>2
  <2>4. FlattenSeq(ss) = f[n]
    BY <1>1, <1>3, <2>2 DEF FlattenSeq
  <2>5. \A i \in 1..n : f[i] = IF i = 1 THEN ss[i] ELSE f[i - 1] \o ss[i]
    BY <2>3
  <2> HIDE DEF Joins, Wrong
  <2> DEFINE Off == {m \in 1..n : ~ (f[m] \in Seq(S) /\ \E off : Laid(f[m], ss, m, off))}
  <2>6. Off = {}
    <3> SUFFICES ASSUME Off # {} PROVE FALSE
      OBVIOUS
    <3>1. PICK m \in Off : \A k \in Off : k >= m
      <4>1. Off \in SUBSET Nat
        OBVIOUS
      <4> HIDE DEF Off
      <4> QED
        BY <4>1, LeastNumber
    <3>2. m \in Nat \ {0} /\ m \in 1..n /\ \A i \in 1..m : ss[i] \in Seq(S)
      BY <1>1, <3>1
    <3>3. PICK s, off : s \in Seq(S) /\ Laid(s, ss, m - 1, off) /\ f[m] = s \o ss[m]
      <4>1. CASE m = 1
        <5>1. PICK off : off = [i \in 0..0 |-> 0]
          OBVIOUS
        <5>2. off \in [0..0 -> Nat] /\ off[0] = 0 /\ \A i \in 0..0 : off[i] = 0
          BY <5>1
        <5>3. Laid(<< >>, ss, 0, off)
          BY <5>2 DEF Laid
        <5>4. f[m] = << >> \o ss[m] /\ << >> \in Seq(S)
          BY <2>5, <3>2, <4>1
        <5>5. m - 1 = 0
          BY <4>1
        <5>6. Laid(<< >>, ss, m - 1, off)
          BY <5>3, <5>5
        <5> QED
          BY <5>4, <5>6, Zenon
      <4>2. CASE m # 1
        <5>1. m - 1 \in 1..n /\ ~ (m - 1 >= m)
          BY <3>2, <4>2
        <5>2. m - 1 \notin Off
          BY <3>1, <5>1
        <5> QED
          BY <2>5, <3>2, <4>2, <5>1, <5>2
      <4> QED
        BY <4>1, <4>2
    <3>4. \E o : Laid(f[m], ss, m, o)
      <4>1. \E o : Laid(s \o ss[m], ss, m, o)
        <5>1. s \in Seq(S) /\ Laid(s, ss, m - 1, off)
          BY <3>3
        <5> QED
          BY ONLY <3>2, <5>1, JoinLaid
      <4> QED
        BY <3>3, <4>1, Zenon
    <3>5. f[m] \in Seq(S)
      BY <3>2, <3>3, Joined
    <3> QED
      BY <3>1, <3>4, <3>5
  <2> QED
    BY <2>0, <2>4, <2>6
<1> QED
  BY <1>2, <1>3

(***************************************************************************)
(* The v3 decoder.  What a turn of its loop gives depends only on the      *)
(* turns after it, so the recursion is defined at every position.          *)
(***************************************************************************)
DecodesFrom(D, T, R, j) ==
  D = [i \in j..(Len(T) + 1) |-> [r \in 1..(Len(R) + 1) |-> decodeToken(T, R, D, i, r)]]

LEMMA TokenLooksAhead ==
  ASSUME NEW A, NEW T \in Seq(A), NEW R, NEW D, NEW E, NEW r, NEW i \in 1..(Len(T) + 1),
         \A k \in (i + 1)..(Len(T) + 1) : D[k] = E[k]
  PROVE  decodeToken(T, R, D, i, r) = decodeToken(T, R, E, i, r)
<1>1. CASE i = Len(T) + 1
  BY <1>1 DEF decodeToken
<1>2. CASE i # Len(T) + 1
  <2>1. D[i + 1] = E[i + 1]
    <3>1. PICK n \in Nat : n = Len(T)
      OBVIOUS
    <3>2. i + 1 \in (i + 1)..(n + 1)
      BY <1>2, <3>1
    <3> QED
      BY <3>1, <3>2
  <2>2. i + 2 \in DOMAIN T => D[i + 3] = E[i + 3]
    OBVIOUS
  <2> QED
    BY <1>2, <2>1, <2>2 DEF decodeToken
<1> QED
  BY <1>1, <1>2

LEMMA DecodeIs ==
  ASSUME NEW A, NEW T \in Seq(A), NEW R \in Seq(A)
  PROVE  \E D : DecodesFrom(D, T, R, 1) /\ decodeProofpointV3Payload(T, R) = D[1][1]
<1>1. PICK n \in Nat : n = Len(T)
  OBVIOUS
<1> DEFINE Wrong == {j \in 1..(n + 1) : ~ \E D : DecodesFrom(D, T, R, j)}
<1>2. Wrong = {}
  <2> SUFFICES ASSUME Wrong # {} PROVE FALSE
    OBVIOUS
  <2>1. PICK j \in Wrong : \A k \in Wrong : k <= j
    <3>1. Wrong \in SUBSET (0..(n + 1)) /\ n + 1 \in Nat
      BY <1>1
    <3> HIDE DEF Wrong
    <3> QED
      BY <3>1, GreatestNumber
  <2>2. j \in 1..(n + 1) /\ ~ \E D : DecodesFrom(D, T, R, j)
    BY <2>1
  <2>3. PICK D : \A i \in (j + 1)..(n + 1) :
                   D[i] = [r \in 1..(Len(R) + 1) |-> decodeToken(T, R, D, i, r)]
    <3>1. CASE j = n + 1
      BY <1>1, <2>2, <3>1
    <3>2. CASE j # n + 1
      <4>1. j + 1 \in 1..(n + 1) /\ ~ (j + 1 <= j)
        BY <2>2, <3>2
      <4>2. j + 1 \notin Wrong
        BY <2>1, <4>1
      <4>3. PICK D : DecodesFrom(D, T, R, j + 1)
        BY <4>1, <4>2
      <4> QED
        BY <1>1, <4>3 DEF DecodesFrom
    <3> QED
      BY <3>1, <3>2
  <2>4. PICK E : E = [i \in j..(n + 1) |-> [r \in 1..(Len(R) + 1) |-> decodeToken(T, R, D, i, r)]]
    OBVIOUS
  <2>5. \A i \in (j + 1)..(n + 1) : E[i] = D[i]
    BY <2>2, <2>3, <2>4
  <2>6. ASSUME NEW i \in j..(n + 1), NEW r
        PROVE  decodeToken(T, R, D, i, r) = decodeToken(T, R, E, i, r)
    <3>1. i \in 1..(Len(T) + 1) /\ \A k \in (i + 1)..(Len(T) + 1) : D[k] = E[k]
      BY <1>1, <2>2, <2>5
    <3> QED
      BY <3>1, TokenLooksAhead
  <2>7. DecodesFrom(E, T, R, j)
    BY <1>1, <2>4, <2>6 DEF DecodesFrom
  <2> QED
    BY <2>2, <2>7
<1>3. \E D : DecodesFrom(D, T, R, 1)
  <2>1. 1 \in 1..(n + 1)
    OBVIOUS
  <2> QED
    BY <1>2, <2>1, Zenon
<1>4. PICK D : D = CHOOSE E : DecodesFrom(E, T, R, 1)
  OBVIOUS
<1>5. DecodesFrom(D, T, R, 1)
  BY <1>3, <1>4
<1>6. decodeProofpointV3Payload(T, R) = D[1][1]
  BY <1>4 DEF decodeProofpointV3Payload, DecodesFrom
<1> QED
  BY <1>5, <1>6

LEMMA RunIndexIs ==
  ASSUME NEW k \in 1..4
  PROVE  runIndex(RunCode[k]) = k - 1
<1>1. DOMAIN RunCode = 1..4 /\ Len(RunCode) = 4
  BY DEF RunCode
<1>2. {i \in 1..Len(RunCode) : RunCode[i] = RunCode[k]} = {k}
  BY <1>1 DEF RunCode
<1>3. Min({k}) = k
  BY DEF Min
<1>4. SelectInSeq(RunCode, LAMBDA x : x = RunCode[k]) = k
  BY <1>2, <1>3 DEF SelectInSeq
<1> QED
  BY <1>4 DEF runIndex

LEMMA RunCodeIsPlain == \A k \in 1..4 : RunCode[k] # "*"
BY DEF RunCode

LEMMA RunFromIs ==
  ASSUME NEW A, NEW text \in Seq(A), NEW i \in 1..Len(text), text[i] \in Special
  PROVE  LET m == RunFrom(text, i)
         IN  /\ m \in 1..Len(text) /\ i + m \in 1..(Len(text) + 1)
             /\ \A k \in 0..(m - 1) : text[i + k] \in Special
             /\ At(text, i + m) \notin Special
<1>1. PICK n \in Nat : n = Len(text) /\ DOMAIN text = 1..n
  OBVIOUS
<1> DEFINE RunEnds == {k \in 0..n : At(text, i + k) \notin Special}
           Runs(m) == /\ \A k \in 0..(m - 1) : At(text, i + k) \in Special
                      /\ At(text, i + m) \notin Special
<1>2. "end" \notin Special
  BY DEF Special
<1>3. n + 1 - i \in RunEnds
  BY <1>1, <1>2 DEF At
<1>4. PICK m \in RunEnds : \A k \in RunEnds : k >= m
  <2>1. RunEnds \in SUBSET Nat
    OBVIOUS
  <2>2. RunEnds # {}
    BY <1>3, Zenon
  <2> HIDE DEF RunEnds
  <2> QED
    BY <2>1, <2>2, LeastNumber
<1>5. m \in 0..n /\ Runs(m)
  <2>1. ASSUME NEW k \in 0..(m - 1) PROVE At(text, i + k) \in Special
    <3>1. k \in 0..n /\ ~ (k >= m)
      BY <1>4
    <3> QED
      BY <1>4, <3>1
  <2> QED
    BY <1>4, <2>1
<1>6. RunFrom(text, i) = CHOOSE l \in 0..n : Runs(l)
  BY <1>1 DEF RunFrom
<1>7. PICK l \in 0..n : l = RunFrom(text, i) /\ Runs(l)
  <2> HIDE DEF Runs
  <2> QED
    BY <1>5, <1>6
<1>8. At(text, i) = text[i]
  BY <1>1 DEF At
<1>9. l # 0
  BY <1>7, <1>8
<1>10. ASSUME NEW k \in 0..(l - 1) PROVE i + k \in 1..n /\ text[i + k] \in Special
  <2>1. At(text, i + k) \in Special
    BY <1>7
  <2> QED
    BY <1>1, <1>2, <2>1 DEF At
<1>11. i + (l - 1) \in 1..n
  BY <1>9, <1>10
<1>12. i + l \in 1..(n + 1)
  BY <1>1, <1>11
<1> QED
  BY <1>1, <1>7, <1>9, <1>10, <1>12

LEMMA Turn ==
  ASSUME NEW T, NEW R, NEW D, DecodesFrom(D, T, R, 1),
         NEW p \in 1..(Len(T) + 1), NEW c \in 1..(Len(R) + 1)
  PROVE  D[p][c] = decodeToken(T, R, D, p, c)
<1>1. D[p] = [r \in 1..(Len(R) + 1) |-> decodeToken(T, R, D, p, r)]
  BY DEF DecodesFrom
<1> QED
  BY <1>1

(* A turn puts its text before that of the turns after it. *)
Prefixed(d, y) == [d EXCEPT !.text = y \o @]

LEMMA TurnAtEnd ==
  ASSUME NEW A, NEW T \in Seq(A), NEW R \in Seq(A), NEW D, DecodesFrom(D, T, R, 1),
         NEW c \in 1..(Len(R) + 1)
  PROVE  /\ c = Len(R) + 1 => D[Len(T) + 1][c] = [ok |-> TRUE, text |-> <<>>]
         /\ c # Len(R) + 1 => D[Len(T) + 1][c] = [ok |-> FALSE, text |-> <<>>]
<1>1. Len(T) + 1 \in 1..(Len(T) + 1)
  OBVIOUS
<1>2. D[Len(T) + 1][c] = decodeToken(T, R, D, Len(T) + 1, c)
  BY <1>1, Turn
<1>3. D[Len(T) + 1][c] = [ok |-> c = Len(R) + 1, text |-> <<>>]
  BY <1>2 DEF decodeToken
<1>4. CASE c = Len(R) + 1
  <2>1. (c = Len(R) + 1) = TRUE
    BY <1>4
  <2> QED
    BY <1>3, <1>4, <2>1, Zenon
<1>5. CASE c # Len(R) + 1
  <2>1. (c = Len(R) + 1) = FALSE
    BY <1>5
  <2> QED
    BY <1>3, <1>5, <2>1, Zenon
<1> QED
  BY <1>4, <1>5

LEMMA TurnOnPlain ==
  ASSUME NEW A, NEW T \in Seq(A), NEW R \in Seq(A), NEW D, DecodesFrom(D, T, R, 1),
         NEW c \in 1..(Len(R) + 1), NEW p \in 1..Len(T), T[p] # "*"
  PROVE  D[p][c] = Prefixed(D[p + 1][c], <<T[p]>>)
<1>1. p \in 1..(Len(T) + 1) /\ p # Len(T) + 1
  OBVIOUS
<1>2. D[p][c] = decodeToken(T, R, D, p, c)
  BY <1>1, Turn
<1> QED
  BY <1>1, <1>2 DEF decodeToken, Prefixed

(* The code of a run of m at p, and where it ends. *)
RunAt(T, p, m, q) ==
  /\ T[p] = "*"
  /\ \/ m = 1 /\ At(T, p + 1) # "*" /\ q = p + 1
     \/ m > 1 /\ p + 2 \in 1..Len(T) /\ T[p + 1] = "*" /\ T[p + 2] = RunCode[m - 1] /\ q = p + 3

LEMMA TurnOnRun ==
  ASSUME NEW A, NEW T \in Seq(A), NEW R \in Seq(A), NEW D, DecodesFrom(D, T, R, 1),
         NEW c \in 1..(Len(R) + 1), NEW p \in 1..Len(T),
         NEW m \in 1..5, NEW q, RunAt(T, p, m, q)
  PROVE  D[p][c] = IF c + m > Len(R) + 1 THEN Failed
                   ELSE Prefixed(D[q][c + m], SubSeq(R, c, c + m - 1))
<1>1. p \in 1..(Len(T) + 1) /\ p # Len(T) + 1
  OBVIOUS
<1>2. D[p][c] = decodeToken(T, R, D, p, c)
  BY <1>1, Turn
<1>3. CASE m = 1 /\ At(T, p + 1) # "*" /\ q = p + 1
  BY <1>1, <1>2, <1>3 DEF decodeToken, Prefixed, RunAt
<1>4. CASE /\ m > 1 /\ p + 2 \in 1..Len(T)
           /\ T[p + 1] = "*" /\ T[p + 2] = RunCode[m - 1] /\ q = p + 3
  <2>1. p + 1 \in DOMAIN T /\ p + 2 \in DOMAIN T /\ At(T, p + 1) = "*"
    BY <1>4 DEF At
  <2>2. runIndex(T[p + 2]) = m - 2
    BY <1>4, RunIndexIs
  <2>3. runLength(T[p + 2]) = m /\ ~ (runIndex(T[p + 2]) < 0)
    BY <1>4, <2>2 DEF runLength
  <2> QED
    BY <1>1, <1>2, <1>4, <2>1, <2>3 DEF decodeToken, Prefixed, RunAt
<1> QED
  BY <1>3, <1>4 DEF RunAt

(***************************************************************************)
(* The encoded text and its specials, piece by piece.                      *)
(***************************************************************************)
Symbol == {"a", "*", "A", "B", "C", "D"} \cup Special

EncodedPiece(text, i) ==
  IF text[i] \notin Special THEN <<text[i]>>
  ELSE IF At(text, i - 1) \in Special THEN <<>>
  ELSE IF RunFrom(text, i) = 1 THEN <<"*">>
  ELSE <<"*", "*", RunCode[RunFrom(text, i) - 1]>>

SpecialPiece(text, i) == IF text[i] \in Special THEN <<text[i]>> ELSE <<>>

EncodedPieces(text) == [i \in DOMAIN text |-> EncodedPiece(text, i)]
SpecialPieces(text) == [i \in DOMAIN text |-> SpecialPiece(text, i)]

LEMMA RunIsCoded ==
  ASSUME NEW text \in V3Template, NEW i \in 1..Len(text), text[i] \in Special
  PROVE  LET m == RunFrom(text, i)
         IN  /\ m \in 1..5 /\ i + m \in 1..(Len(text) + 1)
             /\ \A k \in 0..(m - 1) : text[i + k] \in Special
             /\ At(text, i + m) \notin Special
<1>1. text \in Seq({"a"} \cup Special)
  BY WrapAssumption
<1>2. DOMAIN text = 1..Len(text) /\ Len(text) \in Nat
  BY <1>1
<1>3. RunFrom(text, i) <= 5
  BY <1>2, WrapAssumption
<1> QED
  BY <1>1, <1>2, <1>3, RunFromIs

LEMMA PiecesAre ==
  ASSUME NEW text \in V3Template
  PROVE  /\ EncodedPieces(text) \in [1..Len(text) -> Seq(Symbol)]
         /\ SpecialPieces(text) \in [1..Len(text) -> Seq(Symbol)]
<1>1. text \in Seq({"a"} \cup Special)
  BY WrapAssumption
<1>2. DOMAIN text = 1..Len(text) /\ \A i \in 1..Len(text) : text[i] \in {"a"} \cup Special
  BY <1>1
<1>3. ASSUME NEW i \in 1..Len(text) PROVE SpecialPiece(text, i) \in Seq(Symbol)
  <2>1. text[i] \in Symbol
    BY <1>2 DEF Symbol
  <2> QED
    BY <2>1 DEF SpecialPiece
<1>4. ASSUME NEW i \in 1..Len(text) PROVE EncodedPiece(text, i) \in Seq(Symbol)
  <2>1. text[i] \in Symbol /\ "*" \in Symbol
    BY <1>2 DEF Symbol
  <2>2. CASE text[i] \notin Special
    BY <2>1, <2>2 DEF EncodedPiece
  <2>3. CASE text[i] \in Special
    <3>1. PICK m \in 1..5 : m = RunFrom(text, i)
      BY <2>3, RunIsCoded
    <3>2. m # 1 => m - 1 \in 1..4 /\ RunCode[m - 1] \in Symbol
      BY DEF RunCode, Symbol
    <3>3. <<"*">> \in Seq(Symbol) /\ << >> \in Seq(Symbol)
      BY <2>1
    <3>4. m # 1 => <<"*", "*", RunCode[m - 1]>> \in Seq(Symbol)
      BY <2>1, <3>2
    <3> QED
      BY <2>3, <3>1, <3>3, <3>4 DEF EncodedPiece
  <2> QED
    BY <2>2, <2>3
<1> QED
  BY <1>2, <1>3, <1>4 DEF EncodedPieces, SpecialPieces

LEMMA TextIsLaid ==
  ASSUME NEW text \in V3Template
  PROVE  /\ encodeV3(text) \in Seq(Symbol) /\ specials(text) \in Seq(Symbol)
         /\ \E e : Laid(encodeV3(text), EncodedPieces(text), Len(text), e)
         /\ \E s : Laid(specials(text), SpecialPieces(text), Len(text), s)
<1>1. Len(text) \in Nat
  BY WrapAssumption
<1>2. encodeV3(text) = FlattenSeq(EncodedPieces(text))
  BY DEF encodeV3, EncodedPieces, EncodedPiece
<1>3. specials(text) = FlattenSeq(SpecialPieces(text))
  BY DEF specials, SpecialPieces, SpecialPiece
<1> QED
  BY <1>1, <1>2, <1>3, PiecesAre, FlattenLaid

LEMMA SingleLaid ==
  ASSUME NEW s, NEW ss, NEW n \in Nat, NEW off, Laid(s, ss, n, off), NEW i \in 1..n,
         NEW x, ss[i] = <<x>>
  PROVE  off[i] = off[i - 1] + 1 /\ s[off[i - 1] + 1] = x
<1>1. /\ off[i] = off[i - 1] + Len(ss[i])
      /\ \A k \in 1..Len(ss[i]) : s[off[i - 1] + k] = ss[i][k]
  BY DEF Laid
<1>2. Len(ss[i]) = 1 /\ ss[i][1] = x /\ 1 \in 1..1
  OBVIOUS
<1> QED
  BY <1>1, <1>2

LEMMA NothingLaid ==
  ASSUME NEW s, NEW ss, NEW n \in Nat, NEW off, Laid(s, ss, n, off), NEW i \in 1..n,
         ss[i] = <<>>
  PROVE  off[i] = off[i - 1]
<1>1. off[i] = off[i - 1] + Len(ss[i]) /\ off \in [0..n -> Nat]
  BY DEF Laid
<1>2. i - 1 \in 0..n /\ Len(ss[i]) = 0
  OBVIOUS
<1> QED
  BY <1>1, <1>2

(* A plain character stands for itself. *)
LEMMA PlainIsLaid ==
  ASSUME NEW text \in V3Template, NEW i \in 1..Len(text), text[i] \notin Special,
         NEW T, NEW P, NEW e, NEW s,
         Laid(T, EncodedPieces(text), Len(text), e), Laid(P, SpecialPieces(text), Len(text), s)
  PROVE  /\ text[i] = "a" /\ e[i] = e[i - 1] + 1 /\ T[e[i - 1] + 1] = "a"
         /\ s[i] = s[i - 1]
<1>1. text \in Seq({"a"} \cup Special)
  BY WrapAssumption
<1>2. text[i] = "a" /\ i \in DOMAIN text
  BY <1>1
<1>3. EncodedPieces(text)[i] = <<"a">> /\ SpecialPieces(text)[i] = <<>>
  BY <1>2 DEF EncodedPieces, SpecialPieces, EncodedPiece, SpecialPiece
<1>4. /\ e[i] = e[i - 1] + Len(<<"a">>) /\ s[i] = s[i - 1] + Len(<<>>)
      /\ \A k \in 1..Len(<<"a">>) : T[e[i - 1] + k] = <<"a">>[k]
  BY <1>3 DEF Laid
<1>5. i - 1 \in 0..Len(text) /\ s[i - 1] \in Nat
  <2>1. i - 1 \in 0..Len(text)
    BY <1>1
  <2> QED
    BY <2>1 DEF Laid
<1> QED
  BY <1>2, <1>4, <1>5

(* A special is kept, and nothing is written for it inside a run. *)
LEMMA SpecialIsLaid ==
  ASSUME NEW text \in V3Template, NEW j \in 1..Len(text), text[j] \in Special,
         NEW T, NEW P, NEW e, NEW s,
         Laid(T, EncodedPieces(text), Len(text), e), Laid(P, SpecialPieces(text), Len(text), s)
  PROVE  /\ s[j] = s[j - 1] + 1 /\ P[s[j - 1] + 1] = text[j]
         /\ At(text, j - 1) \in Special => e[j] = e[j - 1]
<1>1. Len(text) \in Nat /\ DOMAIN text = 1..Len(text)
  <2>1. text \in Seq({"a"} \cup Special)
    BY WrapAssumption
  <2> QED
    BY <2>1
<1>2. SpecialPieces(text)[j] = <<text[j]>>
  BY <1>1 DEF SpecialPieces, SpecialPiece
<1>3. s[j] = s[j - 1] + 1 /\ P[s[j - 1] + 1] = text[j]
  BY <1>1, <1>2, SingleLaid
<1>4. ASSUME At(text, j - 1) \in Special PROVE e[j] = e[j - 1]
  <2>1. EncodedPieces(text)[j] = <<>>
    BY <1>1, <1>4 DEF EncodedPieces, EncodedPiece
  <2> QED
    BY <1>1, <2>1, NothingLaid
<1> QED
  BY <1>3, <1>4

(* Inside a run nothing is written, and each special is kept. *)
RunKept(text, P, e, s, i, m) ==
  \A k \in 0..(m - 1) :
    /\ e[i + k] = e[i] /\ s[i + k] = s[i - 1] + k + 1
    /\ P[s[i - 1] + k + 1] = text[i + k]

LEMMA RunIsKept ==
  ASSUME NEW text \in V3Template, NEW i \in 1..Len(text), text[i] \in Special,
         NEW T, NEW P, NEW e, NEW s,
         Laid(T, EncodedPieces(text), Len(text), e), Laid(P, SpecialPieces(text), Len(text), s)
  PROVE  RunKept(text, P, e, s, i, RunFrom(text, i))
<1>0. PICK m : m = RunFrom(text, i)
  OBVIOUS
<1>1. PICK n \in Nat : n = Len(text) /\ DOMAIN text = 1..n
  <2>1. text \in Seq({"a"} \cup Special)
    BY WrapAssumption
  <2> QED
    BY <2>1
<1>2. /\ m \in 1..5 /\ i + m \in 1..(n + 1)
      /\ \A k \in 0..(m - 1) : text[i + k] \in Special
  BY <1>0, <1>1, RunIsCoded
<1>3. /\ e \in [0..n -> Nat] /\ s \in [0..n -> Nat]
      /\ \A j \in 1..n : e[j] = e[j - 1] + Len(EncodedPieces(text)[j])
      /\ \A j \in 1..n : s[j] = s[j - 1] + Len(SpecialPieces(text)[j])
      /\ \A j \in 1..n : \A l \in 1..Len(SpecialPieces(text)[j]) :
           P[s[j - 1] + l] = SpecialPieces(text)[j][l]
  BY <1>1 DEF Laid
<1>4. ASSUME NEW j \in 1..n, text[j] \in Special
      PROVE  /\ s[j] = s[j - 1] + 1 /\ P[s[j - 1] + 1] = text[j]
             /\ At(text, j - 1) \in Special => e[j] = e[j - 1]
  BY <1>1, <1>4, SpecialIsLaid
<1> DEFINE Kept(k) == /\ e[i + k] = e[i] /\ s[i + k] = s[i - 1] + k + 1
                      /\ P[s[i - 1] + k + 1] = text[i + k]
           Lost == {k \in 0..(m - 1) : ~ Kept(k)}
<1>5. Lost = {}
  <2> SUFFICES ASSUME Lost # {} PROVE FALSE
    OBVIOUS
  <2>1. PICK k \in Lost : \A l \in Lost : l >= k
    <3>1. Lost \in SUBSET Nat
      BY <1>2
    <3> HIDE DEF Lost
    <3> QED
      BY <3>1, LeastNumber
  <2>2. k \in 0..(m - 1) /\ ~ Kept(k) /\ i \in 1..n /\ i - 1 \in 0..n
    BY <1>1, <2>1
  <2>3. i + k \in 1..n /\ text[i + k] \in Special
    <3>1. /\ i \in Nat /\ k \in Nat /\ m \in Nat /\ i >= 1 /\ i + m <= n + 1
          /\ k <= m - 1
      BY ONLY <1>2, <2>2, n \in Nat
    <3> QED
      BY <1>2, <2>2, <3>1
  <2>4. CASE k = 0
    <3>1. i + k = i /\ s[i - 1] + k + 1 = s[i - 1] + 1
      BY <1>3, <2>2, <2>4
    <3>2. s[i] = s[i - 1] + 1 /\ P[s[i - 1] + 1] = text[i]
      BY <1>4, <2>2
    <3> QED
      BY <2>2, <3>1, <3>2
  <2>5. CASE k # 0
    <3>1. k - 1 \in 0..(m - 1) /\ ~ (k - 1 >= k)
      BY ONLY <1>2, <2>2, <2>5
    <3>2. Kept(k - 1)
      BY <2>1, <3>1
    <3>3. i + k - 1 = i + (k - 1) /\ i + (k - 1) \in 1..n /\ text[i + (k - 1)] \in Special
      BY <1>2, <2>2, <2>3, <3>1
    <3>4. At(text, i + k - 1) \in Special
      BY <1>1, <3>3 DEF At
    <3>5. /\ s[i + k] = s[i + (k - 1)] + 1 /\ P[s[i + (k - 1)] + 1] = text[i + k]
          /\ e[i + k] = e[i + (k - 1)]
      BY <1>4, <2>3, <3>3, <3>4
    <3>6. s[i - 1] \in Nat /\ s[i + (k - 1)] = s[i - 1] + k
      <4>1. PICK a \in Nat : a = s[i - 1]
        BY <1>3, <2>2
      <4>2. s[i + (k - 1)] = a + (k - 1) + 1
        BY <3>2, <4>1
      <4>3. k \in Nat
        BY <1>2, <2>2
      <4>4. a + (k - 1) + 1 = a + k
        BY <4>3
      <4> QED
        BY <4>1, <4>2, <4>4, Zenon
    <3> QED
      BY <2>2, <3>2, <3>5, <3>6
  <2> QED
    BY <2>4, <2>5
<1>6. RunKept(text, P, e, s, i, m)
  BY <1>5 DEF RunKept
<1> QED
  BY <1>0, <1>6

(* A run is written at its first special. *)
LEMMA RunIsLaid ==
  ASSUME NEW text \in V3Template, NEW i \in 1..Len(text), text[i] \in Special,
         At(text, i - 1) \notin Special, NEW T \in Seq(Symbol), NEW e,
         Laid(T, EncodedPieces(text), Len(text), e), NEW m, m = RunFrom(text, i)
  PROVE  /\ T[e[i - 1] + 1] = "*"
         /\ m = 1 => e[i] = e[i - 1] + 1 /\ At(T, e[i - 1] + 2) # "*"
         /\ m > 1 => /\ e[i] = e[i - 1] + 3 /\ T[e[i - 1] + 2] = "*"
                     /\ T[e[i - 1] + 3] = RunCode[m - 1]
<1>1. PICK n \in Nat : n = Len(text) /\ DOMAIN text = 1..n
  <2>1. text \in Seq({"a"} \cup Special)
    BY WrapAssumption
  <2> QED
    BY <2>1
<1>2. /\ m \in 1..5 /\ i + m \in 1..(n + 1) /\ At(text, i + m) \notin Special
  BY <1>1, RunIsCoded
<1>3. /\ e \in [0..n -> Nat] /\ Len(T) = e[n]
      /\ \A j \in 1..n : e[j] = e[j - 1] + Len(EncodedPieces(text)[j])
      /\ \A j \in 1..n : \A l \in 1..Len(EncodedPieces(text)[j]) :
           T[e[j - 1] + l] = EncodedPieces(text)[j][l]
  BY <1>1 DEF Laid
<1>4. e[i - 1] \in Nat
  BY <1>1, <1>3
<1>5. CASE m = 1
  <2>1. EncodedPieces(text)[i] = <<"*">> /\ Len(<<"*">>) = 1 /\ <<"*">>[1] = "*"
    BY <1>1, <1>5 DEF EncodedPieces, EncodedPiece
  <2>2. e[i] = e[i - 1] + 1 /\ T[e[i - 1] + 1] = "*"
    BY <1>1, <2>1, SingleLaid
  <2>3. At(T, e[i - 1] + 2) # "*"
    <3>1. CASE i = n
      <4>1. e[i - 1] + 2 > Len(T)
        BY <1>3, <1>4, <2>2, <3>1
      <4>2. e[i - 1] + 2 \notin DOMAIN T
        BY <1>4, <4>1
      <4> QED
        BY <4>2 DEF At
    <3>2. CASE i # n
      <4>1. i + 1 \in 1..n /\ i + 1 \in DOMAIN text /\ i + 1 \in 1..Len(text) /\ (i + 1) - 1 = i
        BY <1>1, <3>2
      <4>2. text[i + 1] \notin Special
        BY <1>2, <1>5, <4>1 DEF At
      <4>3. EncodedPieces(text)[i + 1] = <<text[i + 1]>> /\ text[i + 1] = "a"
        <5>1. text \in Seq({"a"} \cup Special)
          BY WrapAssumption
        <5>2. text[i + 1] \in {"a"} \cup Special
          BY <4>1, <5>1
        <5> QED
          BY <4>1, <4>2, <5>2 DEF EncodedPieces, EncodedPiece
      <4>4. T[e[i] + 1] = "a"
        <5>1. Laid(T, EncodedPieces(text), n, e) /\ n \in Nat
          BY <1>1
        <5>2. T[e[(i + 1) - 1] + 1] = text[i + 1]
          BY <4>1, <4>3, <5>1, SingleLaid
        <5> QED
          BY <4>1, <4>3, <5>2
      <4>5. e[i] + 1 = e[i - 1] + 2
        BY <1>4, <2>2
      <4> QED
        BY <4>4, <4>5 DEF At
    <3> QED
      BY <3>1, <3>2
  <2> QED
    BY <1>5, <2>2, <2>3
<1>6. CASE m > 1
  <2>1. PICK c : c = RunCode[m - 1]
    OBVIOUS
  <2>2. EncodedPieces(text)[i] = <<"*", "*", c>>
    BY <1>1, <1>6, <2>1 DEF EncodedPieces, EncodedPiece
  <2>3. /\ Len(<<"*", "*", c>>) = 3 /\ <<"*", "*", c>>[1] = "*"
        /\ <<"*", "*", c>>[2] = "*" /\ <<"*", "*", c>>[3] = c
    OBVIOUS
  <2>4. /\ e[i] = e[i - 1] + 3
        /\ \A l \in 1..3 : T[e[i - 1] + l] = <<"*", "*", c>>[l]
    BY <1>1, <1>3, <2>2, <2>3
  <2> QED
    BY <1>6, <2>1, <2>3, <2>4
<1> QED
  BY <1>2, <1>5, <1>6

LEMMA TailFrom ==
  ASSUME NEW S, NEW text \in Seq(S), NEW i \in 1..Len(text)
  PROVE  SubSeq(text, i, Len(text)) = <<text[i]>> \o SubSeq(text, i + 1, Len(text))
OBVIOUS

LEMMA SliceIs ==
  ASSUME NEW S, NEW s \in Seq(S), NEW a \in 1..(Len(s) + 1), NEW b \in 0..Len(s), a <= b + 1
  PROVE  /\ SubSeq(s, a, b) \in Seq(S) /\ Len(SubSeq(s, a, b)) = b + 1 - a
         /\ \A k \in 1..(b + 1 - a) : SubSeq(s, a, b)[k] = s[a + k - 1]
<1>1. \A k \in 1..Len(s) : s[k] \in S
  OBVIOUS
<1>2. \A k \in 1..(b + 1 - a) : a + k - 1 \in 1..Len(s)
  OBVIOUS
<1> QED
  BY <1>1, <1>2

LEMMA TailAfter ==
  ASSUME NEW S, NEW text \in Seq(S), NEW P \in Seq(S), NEW i \in 1..Len(text), NEW m \in Nat \ {0},
         i + m <= Len(text) + 1, NEW c \in Nat \ {0}, c + m <= Len(P) + 1,
         \A k \in 0..(m - 1) : P[c + k] = text[i + k]
  PROVE  SubSeq(text, i, Len(text)) = SubSeq(P, c, c + m - 1) \o SubSeq(text, i + m, Len(text))
<1>1. PICK n \in Nat : n = Len(text)
  OBVIOUS
<1>0. i \in Nat /\ i >= 1 /\ i <= n /\ i + m <= n + 1
  BY <1>1
<1>2. PICK u \in Seq(S) : /\ u = SubSeq(P, c, c + m - 1) /\ Len(u) = m
                          /\ \A k \in 1..m : u[k] = P[c + k - 1]
  <2>1. PICK j : j = c + m - 1
    OBVIOUS
  <2>2. c \in 1..(Len(P) + 1) /\ j \in 0..Len(P) /\ c <= j + 1 /\ j + 1 - c = m
    BY <2>1
  <2>3. /\ SubSeq(P, c, j) \in Seq(S) /\ Len(SubSeq(P, c, j)) = j + 1 - c
        /\ \A k \in 1..(j + 1 - c) : SubSeq(P, c, j)[k] = P[c + k - 1]
    BY <2>2, SliceIs, ZenonT(60)
  <2> QED
    BY <2>1, <2>2, <2>3
<1>3. PICK v \in Seq(S) : /\ v = SubSeq(text, i + m, n) /\ Len(v) = n + 1 - (i + m)
                          /\ \A k \in 1..(n + 1 - (i + m)) : v[k] = text[i + m + k - 1]
  <2>1. PICK j : j = i + m
    OBVIOUS
  <2>2. j \in 1..(Len(text) + 1) /\ n \in 0..Len(text) /\ j <= n + 1
    BY <1>0, <1>1, <2>1
  <2>3. /\ SubSeq(text, j, n) \in Seq(S) /\ Len(SubSeq(text, j, n)) = n + 1 - j
        /\ \A k \in 1..(n + 1 - j) : SubSeq(text, j, n)[k] = text[j + k - 1]
    BY <2>2, SliceIs, ZenonT(60)
  <2> QED
    BY <2>1, <2>3
<1>4. PICK w \in Seq(S) : /\ w = SubSeq(text, i, n) /\ Len(w) = n + 1 - i
                          /\ \A k \in 1..(n + 1 - i) : w[k] = text[i + k - 1]
  <2>1. i \in 1..(Len(text) + 1) /\ n \in 0..Len(text) /\ i <= n + 1
    BY <1>0, <1>1
  <2>2. /\ SubSeq(text, i, n) \in Seq(S) /\ Len(SubSeq(text, i, n)) = n + 1 - i
        /\ \A k \in 1..(n + 1 - i) : SubSeq(text, i, n)[k] = text[i + k - 1]
    BY <2>1, SliceIs, ZenonT(60)
  <2> QED
    BY <2>1, <2>2
<1>8. /\ u \o v \in Seq(S) /\ Len(u \o v) = Len(u) + Len(v)
      /\ \A k \in 1..Len(u) : (u \o v)[k] = u[k]
      /\ \A k \in 1..Len(v) : (u \o v)[Len(u) + k] = v[k]
  BY Joined
<1>9. Len(u \o v) = Len(w)
  BY <1>0, <1>2, <1>3, <1>4, <1>8
<1>10. ASSUME NEW k \in 1..(n + 1 - i) PROVE (u \o v)[k] = w[k]
  <2>0. k \in Nat /\ k >= 1 /\ k <= n + 1 - i
    BY <1>0
  <2>1. CASE k <= m
    <3>1. k - 1 \in 0..(m - 1) /\ c + k - 1 = c + (k - 1) /\ i + k - 1 = i + (k - 1) /\ k \in 1..m
      BY <1>0, <2>0, <2>1
    <3>2. P[c + (k - 1)] = text[i + (k - 1)]
      BY <3>1
    <3>3. (u \o v)[k] = u[k] /\ u[k] = P[c + k - 1]
      BY <1>2, <1>8, <3>1
    <3> QED
      BY <1>4, <3>1, <3>2, <3>3
  <2>2. CASE k > m
    <3>1. k - m \in 1..Len(v) /\ m + (k - m) = k /\ i + m + (k - m) - 1 = i + k - 1
      BY <1>0, <1>3, <2>0, <2>2
    <3>2. (u \o v)[m + (k - m)] = v[k - m] /\ v[k - m] = text[i + m + (k - m) - 1]
      BY <1>2, <1>3, <1>8, <3>1
    <3> QED
      BY <1>4, <3>1, <3>2
  <2>3. k <= m \/ k > m
    BY <2>0
  <2> QED
    BY <2>1, <2>2, <2>3
<1>11. u \o v = w
  BY <1>4, <1>8, <1>9, <1>10, SeqEqual
<1> QED
  BY <1>1, <1>2, <1>3, <1>4, <1>11

(***************************************************************************)
(* Where a token of text begins, at i, the decoder has read the encoding   *)
(* of what is before it, up to p, and q specials of t.  From there, with   *)
(* the replacements from c on, it ends well exactly when these are as many *)
(* as the specials that follow; and when they are those specials it gives  *)
(* the rest of the text.                                                   *)
(***************************************************************************)
Gives(d, x, have, need) ==
  d = IF have = need THEN [ok |-> TRUE, text |-> x] ELSE [ok |-> FALSE, text |-> x]

DecodedAt(text, R, D, p, q, t, i) ==
  \A c \in 1..(Len(R) + 1) :
    \E x \in Seq(Symbol) :
      /\ Gives(D[p][c], x, Len(R) + 1 - c, t - q)
      /\ R = specials(text) /\ c = q + 1 => x = SubSeq(text, i, Len(text))

LEMMA GivesMore ==
  ASSUME NEW d, NEW f, NEW x, NEW y, NEW have, NEW need, NEW have2, NEW need2,
         Gives(d, x, have, need), f = Prefixed(d, y),
         have = need <=> have2 = need2
  PROVE  Gives(f, y \o x, have2, need2)
<1>1. CASE have = need
  <2>1. d = [ok |-> TRUE, text |-> x]
    BY <1>1 DEF Gives
  <2>2. f = [ok |-> TRUE, text |-> y \o x]
    BY <2>1 DEF Prefixed
  <2> QED
    BY <1>1, <2>2 DEF Gives
<1>2. CASE have # need
  <2>1. d = [ok |-> FALSE, text |-> x]
    BY <1>2 DEF Gives
  <2>2. f = [ok |-> FALSE, text |-> y \o x]
    BY <2>1 DEF Prefixed
  <2> QED
    BY <1>2, <2>2 DEF Gives
<1> QED
  BY <1>1, <1>2

LEMMA EndIsDecoded ==
  ASSUME NEW text \in Seq(Symbol), NEW T \in Seq(Symbol), NEW R \in Seq(Symbol), NEW D,
         DecodesFrom(D, T, R, 1), NEW t \in Nat
  PROVE  DecodedAt(text, R, D, Len(T) + 1, t, t, Len(text) + 1)
<1>1. SubSeq(text, Len(text) + 1, Len(text)) = <<>> /\ <<>> \in Seq(Symbol)
  OBVIOUS
<1>2. ASSUME NEW c \in 1..(Len(R) + 1) PROVE Gives(D[Len(T) + 1][c], <<>>, Len(R) + 1 - c, t - t)
  <2>1. Len(R) + 1 - c = t - t <=> c = Len(R) + 1
    OBVIOUS
  <2>2. CASE c = Len(R) + 1
    <3>1. D[Len(T) + 1][c] = [ok |-> TRUE, text |-> <<>>]
      BY <2>2, TurnAtEnd
    <3> QED
      BY <2>1, <2>2, <3>1 DEF Gives
  <2>3. CASE c # Len(R) + 1
    <3>1. D[Len(T) + 1][c] = [ok |-> FALSE, text |-> <<>>]
      BY <2>3, TurnAtEnd
    <3> QED
      BY <2>1, <2>3, <3>1 DEF Gives
  <2> QED
    BY <2>2, <2>3
<1> QED
  BY <1>1, <1>2 DEF DecodedAt

LEMMA PlainIsDecoded ==
  ASSUME NEW text \in Seq(Symbol), NEW T \in Seq(Symbol), NEW R \in Seq(Symbol), NEW D,
         DecodesFrom(D, T, R, 1), NEW q \in Nat, NEW t \in Nat, NEW i \in 1..Len(text),
         NEW p \in 1..Len(T), T[p] = text[i], T[p] # "*",
         DecodedAt(text, R, D, p + 1, q, t, i + 1)
  PROVE  DecodedAt(text, R, D, p, q, t, i)
<1>1. ASSUME NEW c \in 1..(Len(R) + 1)
      PROVE  \E x \in Seq(Symbol) :
               /\ Gives(D[p][c], x, Len(R) + 1 - c, t - q)
               /\ R = specials(text) /\ c = q + 1 => x = SubSeq(text, i, Len(text))
  <2>1. PICK y \in Seq(Symbol) :
          /\ Gives(D[p + 1][c], y, Len(R) + 1 - c, t - q)
          /\ R = specials(text) /\ c = q + 1 => y = SubSeq(text, i + 1, Len(text))
    BY DEF DecodedAt
  <2>2. D[p][c] = Prefixed(D[p + 1][c], <<T[p]>>)
    BY TurnOnPlain
  <2>3. Gives(D[p][c], <<T[p]>> \o y, Len(R) + 1 - c, t - q)
    BY <2>1, <2>2, GivesMore
  <2>4. <<T[p]>> \o y \in Seq(Symbol)
    <3>1. T[p] \in Symbol
      OBVIOUS
    <3>2. <<T[p]>> \in Seq(Symbol)
      BY <3>1
    <3> QED
      BY <3>2, Joined
  <2>5. R = specials(text) /\ c = q + 1 => <<T[p]>> \o y = SubSeq(text, i, Len(text))
    BY <2>1, TailFrom
  <2> QED
    BY <2>3, <2>4, <2>5
<1> QED
  BY <1>1 DEF DecodedAt

LEMMA RunIsDecoded ==
  ASSUME NEW text \in Seq(Symbol), NEW T \in Seq(Symbol), NEW R \in Seq(Symbol), NEW D,
         DecodesFrom(D, T, R, 1), NEW q \in Nat, NEW i \in 1..Len(text),
         NEW P \in Seq(Symbol), P = specials(text),
         NEW m \in 1..5, i + m <= Len(text) + 1, q + m <= Len(P),
         \A k \in 0..(m - 1) : P[q + k + 1] = text[i + k],
         NEW p \in 1..Len(T), NEW next, RunAt(T, p, m, next),
         DecodedAt(text, R, D, next, q + m, Len(P), i + m)
  PROVE  DecodedAt(text, R, D, p, q, Len(P), i)
<1>1. ASSUME NEW c \in 1..(Len(R) + 1)
      PROVE  \E x \in Seq(Symbol) :
               /\ Gives(D[p][c], x, Len(R) + 1 - c, Len(P) - q)
               /\ R = specials(text) /\ c = q + 1 => x = SubSeq(text, i, Len(text))
  <2>1. D[p][c] = IF c + m > Len(R) + 1 THEN Failed
                  ELSE Prefixed(D[next][c + m], SubSeq(R, c, c + m - 1))
    BY TurnOnRun
  <2>0. Len(R) \in Nat /\ Len(P) \in Nat /\ m \in Nat /\ c \in Nat /\ q \in Nat
    OBVIOUS
  <2>2. CASE c + m > Len(R) + 1
    <3>1. Len(R) + 1 - c # Len(P) - q
      BY <2>0, <2>2
    <3>2. Gives(D[p][c], <<>>, Len(R) + 1 - c, Len(P) - q)
      BY <2>1, <2>2, <3>1 DEF Gives, Failed
    <3>3. ~ (R = specials(text) /\ c = q + 1)
      BY <2>2
    <3>4. <<>> \in Seq(Symbol)
      OBVIOUS
    <3> QED
      BY <3>2, <3>3, <3>4
  <2>3. CASE c + m <= Len(R) + 1
    <3>1. c + m \in 1..(Len(R) + 1) /\ ~ (c + m > Len(R) + 1)
      BY <2>3
    <3>2. PICK y \in Seq(Symbol) :
            /\ Gives(D[next][c + m], y, Len(R) + 1 - (c + m), Len(P) - (q + m))
            /\ R = specials(text) /\ c + m = q + m + 1 => y = SubSeq(text, i + m, Len(text))
      BY <3>1 DEF DecodedAt
    <3>3. PICK u \in Seq(Symbol) : u = SubSeq(R, c, c + m - 1)
      <4>1. c \in 1..(Len(R) + 1) /\ c + m - 1 \in 0..Len(R) /\ c <= c + m - 1 + 1
        BY <2>3
      <4> QED
        BY <4>1, SliceIs
    <3>4. D[p][c] = Prefixed(D[next][c + m], u)
      BY <2>1, <3>1, <3>3
    <3>5. Len(R) + 1 - (c + m) = Len(P) - (q + m) <=> Len(R) + 1 - c = Len(P) - q
      BY ONLY <2>0
    <3>6. Gives(D[p][c], u \o y, Len(R) + 1 - c, Len(P) - q)
      BY <3>2, <3>4, <3>5, GivesMore
    <3>7. u \o y \in Seq(Symbol)
      BY Joined
    <3>8. ASSUME R = specials(text), c = q + 1 PROVE u \o y = SubSeq(text, i, Len(text))
      <4>1. y = SubSeq(text, i + m, Len(text)) /\ u = SubSeq(P, c, c + m - 1)
        BY <3>2, <3>3, <3>8
      <4>2. m \in Nat \ {0} /\ c \in Nat \ {0} /\ c + m <= Len(P) + 1
        BY <2>3, <3>8
      <4>3. ASSUME NEW k \in 0..(m - 1) PROVE P[c + k] = text[i + k]
        <5>1. c + k = q + k + 1
          BY <3>8
        <5> QED
          BY <5>1
      <4>4. SubSeq(text, i, Len(text)) = SubSeq(P, c, c + m - 1) \o SubSeq(text, i + m, Len(text))
        BY <4>2, <4>3, TailAfter
      <4> QED
        BY <4>1, <4>4
    <3> QED
      BY <3>6, <3>7, <3>8
  <2> QED
    BY <2>2, <2>3
<1> QED
  BY <1>1 DEF DecodedAt

(* A token is a plain character, the first special of a run, or the end. *)
TokenAt(text, i) ==
  \/ i = Len(text) + 1
  \/ text[i] \notin Special
  \/ At(text, i - 1) \notin Special

LEMMA TextIsDecoded ==
  ASSUME NEW text \in V3Template, NEW R \in Seq(Symbol)
  PROVE  \E x \in Seq(Symbol) :
           /\ Gives(decodeProofpointV3Payload(encodeV3(text), R), x, Len(R), Len(specials(text)))
           /\ R = specials(text) => x = text
<1>1. PICK n \in Nat : n = Len(text) /\ DOMAIN text = 1..n /\ text \in Seq(Symbol)
  <2>1. text \in Seq({"a"} \cup Special)
    BY WrapAssumption
  <2>2. \A k \in 1..Len(text) : text[k] \in Symbol
    BY <2>1 DEF Symbol
  <2> QED
    BY <2>1, <2>2
<1>2. PICK T \in Seq(Symbol), P \in Seq(Symbol) : T = encodeV3(text) /\ P = specials(text)
  BY TextIsLaid
<1>3. PICK e : Laid(T, EncodedPieces(text), n, e)
  BY <1>1, <1>2, TextIsLaid
<1>4. PICK s : Laid(P, SpecialPieces(text), n, s)
  BY <1>1, <1>2, TextIsLaid
<1>5. PICK D : DecodesFrom(D, T, R, 1) /\ decodeProofpointV3Payload(T, R) = D[1][1]
  BY DecodeIs
<1>6. /\ e \in [0..n -> Nat] /\ s \in [0..n -> Nat] /\ e[0] = 0 /\ s[0] = 0
      /\ Len(T) = e[n] /\ Len(P) = s[n] /\ \A i \in 0..n : e[i] <= Len(T) /\ s[i] <= Len(P)
  BY <1>3, <1>4 DEF Laid
<1> DEFINE Here(i) == DecodedAt(text, R, D, e[i - 1] + 1, s[i - 1], Len(P), i)
           Wrong == {i \in 1..(n + 1) : TokenAt(text, i) /\ ~ Here(i)}
<1>7. Wrong = {}
  <2> SUFFICES ASSUME Wrong # {} PROVE FALSE
    OBVIOUS
  <2>1. PICK i \in Wrong : \A k \in Wrong : k <= i
    <3>1. Wrong \in SUBSET (0..(n + 1)) /\ n + 1 \in Nat
      BY <1>1
    <3> HIDE DEF Wrong
    <3> QED
      BY <3>1, GreatestNumber
  <2>2. i \in 1..(n + 1) /\ TokenAt(text, i) /\ ~ Here(i)
    BY <2>1
  <2>3. ASSUME NEW k \in 1..(n + 1), k > i, TokenAt(text, k) PROVE Here(k)
    <3>1. k \notin Wrong
      BY <2>1, <2>2, <2>3
    <3> QED
      BY <2>3, <3>1
  <2> HIDE DEF Wrong
  <2>4. CASE i = n + 1
    <3>1. i - 1 = n /\ Len(P) \in Nat
      BY <2>4
    <3>2. DecodedAt(text, R, D, Len(T) + 1, Len(P), Len(P), Len(text) + 1)
      BY <1>1, <1>5, <3>1, EndIsDecoded
    <3> QED
      BY <1>1, <1>6, <2>2, <2>4, <3>1, <3>2
  <2>5. CASE i # n + 1
    <3>1. /\ i \in 1..n /\ i \in 1..Len(text) /\ i - 1 \in 0..n /\ i \in 0..n
          /\ i + 1 \in 1..(n + 1) /\ i + 1 > i /\ i + 1 - 1 = i
      BY <1>1, <2>2, <2>5
    <3>2. e[i - 1] \in Nat /\ s[i - 1] \in Nat /\ e[i] \in Nat /\ e[i] <= Len(T)
      BY <1>6, <3>1
    <3>3. /\ Laid(T, EncodedPieces(text), Len(text), e)
          /\ Laid(P, SpecialPieces(text), Len(text), s)
      BY <1>1, <1>3, <1>4
    <3>4. CASE text[i] \notin Special
      <4>1. /\ text[i] = "a" /\ e[i] = e[i - 1] + 1 /\ T[e[i - 1] + 1] = "a"
            /\ s[i] = s[i - 1]
        BY <3>1, <3>3, <3>4, PlainIsLaid
      <4>2. At(text, i) = text[i]
        BY <1>1, <3>1 DEF At
      <4>3. TokenAt(text, i + 1)
        BY <3>1, <3>4, <4>2 DEF TokenAt
      <4>4. Here(i + 1)
        BY <2>3, <3>1, <4>3
      <4>5. PICK p \in 1..Len(T) : p = e[i - 1] + 1 /\ p = e[i]
        BY <3>2, <4>1
      <4>6. DecodedAt(text, R, D, p + 1, s[i - 1], Len(P), i + 1)
        BY <3>1, <4>1, <4>4, <4>5
      <4>7. T[p] = text[i] /\ T[p] # "*" /\ Len(P) \in Nat
        BY <4>1, <4>5
      <4>8. DecodedAt(text, R, D, p, s[i - 1], Len(P), i)
        BY <1>1, <1>5, <3>1, <3>2, <4>6, <4>7, PlainIsDecoded
      <4> QED
        BY <2>2, <4>5, <4>8
    <3>5. CASE text[i] \in Special
      <4>1. At(text, i - 1) \notin Special
        BY <1>1, <2>2, <2>5, <3>5 DEF TokenAt
      <4>2. PICK m \in 1..5 : /\ m = RunFrom(text, i) /\ i + m \in 1..(n + 1)
                              /\ At(text, i + m) \notin Special
        BY <1>1, <3>1, <3>5, RunIsCoded
      <4>3. /\ T[e[i - 1] + 1] = "*"
            /\ m = 1 => e[i] = e[i - 1] + 1 /\ At(T, e[i - 1] + 2) # "*"
            /\ m > 1 => /\ e[i] = e[i - 1] + 3 /\ T[e[i - 1] + 2] = "*"
                        /\ T[e[i - 1] + 3] = RunCode[m - 1]
        BY <3>1, <3>3, <3>5, <4>1, <4>2, RunIsLaid
      <4>4. \A k \in 0..(m - 1) : /\ e[i + k] = e[i] /\ s[i + k] = s[i - 1] + k + 1
                                  /\ P[s[i - 1] + k + 1] = text[i + k]
        <5>1. RunKept(text, P, e, s, i, RunFrom(text, i))
          BY <3>1, <3>3, <3>5, RunIsKept
        <5> QED
          BY <4>2, <5>1 DEF RunKept
      <4>5. PICK j \in 0..n : /\ j = i + (m - 1) /\ i + m - 1 = j /\ m - 1 \in 0..(m - 1)
                              /\ i + m > i /\ i + m <= Len(text) + 1
        <5>1. /\ i + (m - 1) \in 0..n /\ i + m - 1 = i + (m - 1) /\ m - 1 \in 0..(m - 1)
              /\ i + m > i /\ i + m <= Len(text) + 1
          BY <1>1, <3>1, <4>2
        <5> QED
          BY <5>1, Zenon
      <4>6. e[j] = e[i] /\ s[j] = s[i - 1] + m /\ s[j] <= Len(P)
        <5>1. e[j] = e[i] /\ s[j] = s[i - 1] + (m - 1) + 1
          BY <4>4, <4>5
        <5> QED
          BY <1>6, <3>2, <4>5, <5>1
      <4>7. TokenAt(text, i + m)
        <5>1. CASE i + m = n + 1
          BY <1>1, <5>1 DEF TokenAt
        <5>2. CASE i + m # n + 1
          <6>1. i + m \in DOMAIN text
            BY <1>1, <4>2, <5>2
          <6> QED
            BY <4>2, <6>1 DEF TokenAt, At
        <5> QED
          BY <5>1, <5>2
      <4>8. Here(i + m)
        BY <2>3, <4>2, <4>5, <4>7
      <4> HIDE DEF Here
      <4>9. DecodedAt(text, R, D, e[i] + 1, s[i - 1] + m, Len(P), i + m)
        <5>1. PICK u \in Nat : u = i + m
          BY <3>1, <4>2
        <5>2. e[u - 1] + 1 = e[i] + 1 /\ s[u - 1] = s[i - 1] + m
          <6>1. u - 1 = j
            BY <3>1, <4>2, <4>5, <5>1
          <6> QED
            BY <4>6, <6>1
        <5>3. Here(u)
          BY <4>8, <5>1
        <5>4. DecodedAt(text, R, D, e[u - 1] + 1, s[u - 1], Len(P), u)
          BY <5>3 DEF Here
        <5> QED
          BY <5>1, <5>2, <5>4, Zenon
      <4>10. PICK p \in 1..Len(T) : p = e[i - 1] + 1
        <5>1. CASE m = 1
          <6>1. e[i - 1] + 1 \in 1..Len(T)
            BY <3>2, <4>3, <5>1
          <6> QED
            BY <6>1
        <5>2. CASE m > 1
          <6>1. e[i] = e[i - 1] + 3
            BY <4>3, <5>2
          <6>2. e[i - 1] + 1 \in 1..Len(T)
            BY <3>2, <6>1
          <6> QED
            BY <6>2
        <5>3. m = 1 \/ m > 1
          BY <4>2
        <5> QED
          BY <5>1, <5>2, <5>3
      <4>11. RunAt(T, p, m, e[i] + 1)
        <5>1. CASE m = 1
          <6>0. e[i] = e[i - 1] + 1
            BY <4>3, <5>1
          <6>1. p + 1 = e[i - 1] + 2 /\ e[i] + 1 = p + 1
            BY <3>2, <4>10, <6>0
          <6> QED
            BY <4>3, <4>10, <5>1, <6>1 DEF RunAt
        <5>2. CASE m > 1
          <6>0. e[i] = e[i - 1] + 3
            BY <4>3, <5>2
          <6>1. p + 1 = e[i - 1] + 2 /\ p + 2 = e[i - 1] + 3 /\ e[i] + 1 = p + 3 /\ p + 2 \in 1..Len(T)
            BY <3>2, <4>10, <6>0
          <6> QED
            BY <4>3, <4>10, <5>2, <6>1 DEF RunAt
        <5> QED
          BY <5>1, <5>2
      <4>12. \A k \in 0..(m - 1) : P[s[i - 1] + k + 1] = text[i + k]
        BY <4>4
      <4>13. s[i - 1] + m <= Len(P)
        BY <4>6
      <4>14. DecodedAt(text, R, D, p, s[i - 1], Len(P), i)
        BY <1>1, <1>2, <1>5, <3>1, <3>2, <4>5, <4>9, <4>11, <4>12, <4>13, RunIsDecoded
      <4> QED
        BY <2>2, <4>10, <4>14 DEF Here
    <3> QED
      BY <3>4, <3>5
  <2> QED
    BY <2>4, <2>5
<1>8. 1 \in 1..(n + 1) /\ TokenAt(text, 1)
  <2>1. "end" \notin Special
    BY DEF Special
  <2>2. 1 - 1 \notin DOMAIN text
    BY <1>1
  <2> QED
    BY <2>1, <2>2 DEF TokenAt, At
<1>9. Here(1)
  BY <1>7, <1>8
<1>10. DecodedAt(text, R, D, 1, 0, Len(P), 1)
  <2>1. 1 - 1 = 0 /\ e[1 - 1] + 1 = 1 /\ s[1 - 1] = 0
    BY <1>6
  <2> QED
    BY <1>9, <2>1
<1>11. 1 \in 1..(Len(R) + 1) /\ Len(R) + 1 - 1 = Len(R) /\ Len(P) - 0 = Len(P) /\ 0 + 1 = 1
  OBVIOUS
<1>12. PICK x \in Seq(Symbol) :
         /\ Gives(D[1][1], x, Len(R), Len(P))
         /\ R = specials(text) => x = SubSeq(text, 1, Len(text))
  <2>1. PICK x \in Seq(Symbol) :
          /\ Gives(D[1][1], x, Len(R) + 1 - 1, Len(P) - 0)
          /\ R = specials(text) /\ 1 = 0 + 1 => x = SubSeq(text, 1, Len(text))
    BY <1>10, <1>11 DEF DecodedAt
  <2> QED
    BY <1>11, <2>1
<1>13. SubSeq(text, 1, Len(text)) = text
  BY <1>1, SubSeqFull
<1> QED
  BY <1>2, <1>5, <1>12, <1>13

LEMMA V3IsDecoded == V3RoundTrip
<1> SUFFICES ASSUME NEW text \in V3Template
             PROVE  LET template == encodeV3(text)
                        replacements == specials(text)
                    IN  /\ decodeProofpointV3Payload(template, replacements) =
                             [ok |-> TRUE, text |-> text]
                        /\ ~decodeProofpointV3Payload(template, Append(replacements, "!")).ok
                        /\ replacements # <<>> =>
                             ~decodeProofpointV3Payload(template, Tail(replacements)).ok
  BY DEF V3RoundTrip
<1>1. PICK P \in Seq(Symbol), T \in Seq(Symbol) : P = specials(text) /\ T = encodeV3(text)
  BY TextIsLaid
<1>2. decodeProofpointV3Payload(T, P) = [ok |-> TRUE, text |-> text]
  <2>1. PICK x \in Seq(Symbol) :
          Gives(decodeProofpointV3Payload(T, P), x, Len(P), Len(P)) /\ x = text
    BY <1>1, TextIsDecoded
  <2> QED
    BY <2>1 DEF Gives
<1>3. ASSUME NEW R \in Seq(Symbol), Len(R) # Len(P)
      PROVE  ~ decodeProofpointV3Payload(T, R).ok
  <2>1. PICK x \in Seq(Symbol) : Gives(decodeProofpointV3Payload(T, R), x, Len(R), Len(P))
    BY <1>1, TextIsDecoded
  <2>2. decodeProofpointV3Payload(T, R) = [ok |-> FALSE, text |-> x]
    BY <1>3, <2>1 DEF Gives
  <2> QED
    BY <2>2
<1>4. ~ decodeProofpointV3Payload(T, Append(P, "!")).ok
  <2>1. "!" \in Symbol
    BY DEF Symbol, Special
  <2>2. Append(P, "!") \in Seq(Symbol) /\ Len(Append(P, "!")) # Len(P)
    BY <2>1
  <2> QED
    BY <1>3, <2>2
<1>5. ASSUME P # <<>> PROVE ~ decodeProofpointV3Payload(T, Tail(P)).ok
  <2>1. Tail(P) \in Seq(Symbol) /\ Len(Tail(P)) # Len(P)
    BY <1>5
  <2> QED
    BY <1>3, <2>1
<1> QED
  BY <1>1, <1>2, <1>4, <1>5

(* Every wrapper is opened to the link it holds, or said to be unopened,   *)
(* for any depth bound; and the v3 decoder gives back any text whose runs  *)
(* its codes can say, and refuses missing or left-over replacements        *)
(* (createEmbeddedWrapperEnricher, decodeProofpointV3Payload).             *)
THEOREM WrappersOpened == MCSpec => []WrappersAreOpened
<1>1. MCInit => WrapInv
  <2> SUFFICES ASSUME MCInit PROVE WrapInv
    OBVIOUS
  <2>1. PICK url \in {NotWrapped} \cup Wrapped :
          wrap = [at |-> "loop", url |-> url, depth |-> 0, aborted |-> FALSE, outcomes |-> <<>>]
    BY DEF MCInit, WrapInit
  <2>2. /\ wrap.at = "loop" /\ wrap.url = url /\ wrap.depth = 0 /\ wrap.outcomes = <<>>
        /\ wrap = [at |-> wrap.at, url |-> wrap.url, depth |-> wrap.depth,
                   aborted |-> wrap.aborted, outcomes |-> wrap.outcomes]
    BY <2>1
  <2>3. <<>> \in Seq(Told) /\ Len(<<>>) = 0 /\ 0 <= MaxDepth
    BY WrapAssumption
  <2> QED
    BY <2>2, <2>3 DEF WrapInv, UnopenedIsReported
<1>2. WrapInv /\ [MCNext]_<<vars, wrap, probe, portVars, part>> => WrapInv'
  <2> SUFFICES ASSUME WrapInv, [MCNext]_<<vars, wrap, probe, portVars, part>>
               PROVE  WrapInv'
    OBVIOUS
  <2>1. CASE WrapNext
    BY <2>1, WrapNextKeeps
  <2>2. CASE UNCHANGED wrap
    BY <2>2 DEF WrapInv, UnopenedIsReported
  <2> QED
    BY <2>1, <2>2 DEF MCNext, WrapReturned
<1>3. WrapInv => WrappersAreOpened
  BY V3IsDecoded DEF WrapInv, WrappersAreOpened
<1> QED
  BY <1>1, <1>2, <1>3, PTL DEF MCSpec
=============================================================================
