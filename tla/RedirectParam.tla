---------------------------- MODULE RedirectParam ----------------------------
(***************************************************************************)
(* The open-redirect detector (detectors/open-redirect-param.ts): a        *)
(* redirect parameter of the query or of the fragment whose decoded value  *)
(* names another authority, or carries something to execute.  A piece of   *)
(* a query is a key and a value, [depth, form, scheme, host], that are     *)
(* percent-encoded so many times.  The input's host is compared as it was  *)
(* written, the host of a value as URL.hostname spells it.  The detail     *)
(* text is left out.                                                       *)
(***************************************************************************)
EXTENDS UrlParts

CONSTANTS
  Links,              \* [host, query, fragment]
  registrableDomain,  \* the registrable domain of a bare host that has one
  addressIn,          \* the canonical address of a bare host that is one
  toASCII,            \* another spelling of a name, as URL.hostname gives it
  MaxDecodeDepth      \* runtime.maxDecodeDepth

VARIABLE link

REDIRECT_PARAMS == {"next", "redirect_uri"}     \* two of thirteen
OAUTH_REDIRECT_PARAM == "redirect_uri"
OAUTH_CLIENT_ID_PARAM == "client_id"
INTENT_FALLBACK_PARAMS == {"browser_fallback_url"}
DANGEROUS_PAYLOAD_SCHEMES == {"javascript", "data", "blob", "file", "vbscript"}

hostname(host) ==
  IF host.name \in DOMAIN toASCII THEN [host EXCEPT !.name = toASCII[host.name]] ELSE host

(* Host text is a name, in brackets or not, with a root dot or not. *)
BareHost(host) == [host EXCEPT !.root = FALSE, !.brackets = FALSE]

Lookup(table, host) == IF host \in DOMAIN table THEN table[host] ELSE NoValue

authorityOf(host) ==
  LET h == BareHost(host)
      domain == Lookup(registrableDomain, h)
      address == Lookup(addressIn, h)
  IN  IF h.name = "" THEN NoValue
      ELSE [site |-> IF domain # NoValue THEN domain ELSE IF address # NoValue THEN address ELSE h.name,
            domain |-> domain]

HostTexts == [name : STRING, root : BOOLEAN, brackets : BOOLEAN]
Values ==
  {v \in [depth : Nat, form : {"empty", "opaque", "protocol-relative", "absolute"},
           scheme : STRING \cup {NoValue}, host : HostTexts \cup {NoValue}] :
     /\ v.form = "empty" => v.scheme = NoValue
     /\ v.form \in {"empty", "opaque"} => v.host = NoValue}
QueryPiece == [key : [name : STRING, depth : Nat], value : Values \cup {NoValue}]
Authority == [site : STRING, domain : STRING \cup {NoValue}]
RedirectPayload ==
  [param : STRING, targetSite : STRING, domain : STRING \cup {NoValue},
   dangerousScheme : STRING \cup {NoValue}]

(* The suffix list has a domain for a name only, never for an empty host.  *)
(* A name with another spelling has a site that has one too, or the site   *)
(* of that spelling; a name that has none has a site that has none.        *)
ASSUME LinkAssumption ==
  /\ MaxDecodeDepth \in Nat
  /\ Links \subseteq [host : HostTexts, query : Seq(QueryPiece),
                      fragment : [kind : {"plain", "routed", "intent"},
                                  before : Seq(QueryPiece), after : Seq(QueryPiece)]]
  /\ registrableDomain \in [DOMAIN registrableDomain -> STRING]
  /\ addressIn \in [DOMAIN addressIn -> STRING]
  /\ \A h \in DOMAIN registrableDomain : h.name # ""
  /\ toASCII \in [DOMAIN toASCII -> STRING \ (DOMAIN toASCII \cup {""})]
  /\ \A table \in {registrableDomain, addressIn} : \A h \in DOMAIN table :
       h.name \in DOMAIN toASCII \/ table[h] \notin DOMAIN toASCII
  /\ \A n \in DOMAIN toASCII :
       LET h == [name |-> n, root |-> FALSE, brackets |-> FALSE]
       IN  n # "" /\ authorityOf(h).site \in DOMAIN toASCII \cup {authorityOf(hostname(h)).site}
  /\ NoValue \notin STRING \cup DANGEROUS_PAYLOAD_SCHEMES \cup HostTexts \cup Values
                   \cup Authority \cup RedirectPayload

(* What bounded decoding leaves is no URL while a layer is left. *)
Readable(value) == boundedDecode(value.depth, MaxDecodeDepth).decoded = 0

dangerousPayloadScheme(value) ==
  IF Readable(value) /\ value.scheme \in DANGEROUS_PAYLOAD_SCHEMES THEN value.scheme ELSE NoValue

(* "//host" or "scheme://host"; a URL that does not parse has no host. *)
targetHost(value) ==
  IF Readable(value) /\ value.form \in {"protocol-relative", "absolute"} /\ value.host # NoValue
  THEN hostname(value.host) ELSE NoValue

(* A fragment is cut at its first "?", wherever that stands. *)
fragmentQueryLike(fragment) ==
  IF fragment.kind = "intent" THEN <<>>
  ELSE IF fragment.kind = "routed" THEN fragment.after ELSE fragment.before

(* An extra is a pair between semicolons. *)
intentExtras(fragment) == IF fragment.kind = "intent" THEN fragment.before ELSE <<>>

(* A piece without "=" (no value) is dropped; a key that is still encoded  *)
(* is no known one.                                                        *)
queryPairs(pieces) ==
  FlattenSeq([n \in DOMAIN pieces |->
    IF pieces[n].value = NoValue THEN <<>>
    ELSE <<[key |-> IF Readable(pieces[n].key) THEN pieces[n].key.name ELSE "encoded",
            value |-> pieces[n].value]>>])

Empty(value) == value.form = "empty"

Payload(key, site, domain, scheme) ==
  [param |-> key, targetSite |-> site, domain |-> domain, dangerousScheme |-> scheme]

IsAuthorizationRequest(pairs) ==
  \E n \in DOMAIN pairs : pairs[n].key = OAUTH_CLIENT_ID_PARAM /\ ~Empty(pairs[n].value)

(* Fault: the exemption covers every redirect parameter. *)
ExemptAny(pairs, key, authority) == IsAuthorizationRequest(pairs) /\ authority.domain # NoValue

Exempt(pairs, key, authority) ==
  /\ key = OAUTH_REDIRECT_PARAM
  /\ IsAuthorizationRequest(pairs)
  /\ authority.domain # NoValue

(* What one parameter contributes: nothing, or one payload. *)
payloadsOf(pairs, n, inputSite) ==
  LET key == pairs[n].key
      value == pairs[n].value
      host == targetHost(value)
      scheme == dangerousPayloadScheme(value)
      authority == authorityOf(host)
  IN  IF key \notin REDIRECT_PARAMS \/ Empty(value) THEN <<>>
      ELSE IF host = NoValue
           THEN IF scheme = NoValue THEN <<>> ELSE <<Payload(key, scheme, NoValue, scheme)>>
      ELSE IF authority = NoValue THEN <<>>
      ELSE IF authority.site = inputSite \/ Exempt(pairs, key, authority) THEN <<>>
      ELSE <<Payload(key, authority.site, authority.domain, NoValue)>>

openRedirectParamPayloads(pieces, inputSite) ==
  LET pairs == queryPairs(pieces)
  IN  FlattenSeq([n \in DOMAIN pairs |-> payloadsOf(pairs, n, inputSite)])

(* What the redirect-chain enricher may look for in an observed landing. *)
openRedirectParamTargets(pieces, inputDomain) ==
  LET payloads == openRedirectParamPayloads(pieces, inputDomain)
  IN  IF inputDomain = NoValue THEN <<>>
      ELSE FlattenSeq([n \in DOMAIN payloads |->
             IF payloads[n].domain = NoValue THEN <<>> ELSE <<payloads[n]>>])

intentFallbackPayload(fragment) ==
  LET extras == queryPairs(intentExtras(fragment))
      executable == {n \in DOMAIN extras : /\ extras[n].key \in INTENT_FALLBACK_PARAMS
                                           /\ ~Empty(extras[n].value)
                                           /\ dangerousPayloadScheme(extras[n].value) # NoValue}
      p == extras[Min(executable)]
      scheme == dangerousPayloadScheme(p.value)
  IN  IF executable = {} THEN NoValue ELSE Payload(p.key, scheme, NoValue, scheme)

(* The first payload of the query, or of the fragment, or of the intent. *)
openRedirectParam(url) ==
  LET input == authorityOf(url.host)
      found == openRedirectParamPayloads(url.query, input.site)
               \o openRedirectParamPayloads(fragmentQueryLike(url.fragment), input.site)
  IN  IF input = NoValue THEN NoValue
      ELSE IF found # <<>> THEN found[1] ELSE intentFallbackPayload(url.fragment)

-----------------------------------------------------------------------------
LinkInit == \E url \in Links : link = [url |-> url, asked |-> FALSE, finding |-> NoValue]

ScansLink ==
  /\ ~link.asked
  /\ link' = [link EXCEPT !.asked = TRUE, !.finding = openRedirectParam(link.url)]

-----------------------------------------------------------------------------
(* A parameter that leads away from the site of a host, or nowhere but     *)
(* into something to execute, and is not the answer address of an          *)
(* authorization request made on the same surface.                         *)
LeadsAway(pieces, n, host) ==
  LET value == pieces[n].value
      to == authorityOf(hostname(value.host))
      named == value.form \in {"protocol-relative", "absolute"} /\ value.host # NoValue
  IN  /\ value # NoValue
      /\ pieces[n].key.name \in REDIRECT_PARAMS
      /\ pieces[n].key.depth <= MaxDecodeDepth /\ value.depth <= MaxDecodeDepth
      /\ IF ~named THEN value.scheme \in DANGEROUS_PAYLOAD_SCHEMES
         ELSE to # NoValue /\ to.site # authorityOf(host).site

Handoff(pieces, n) ==
  /\ pieces[n].key.name = OAUTH_REDIRECT_PARAM
  /\ pieces[n].value.host # NoValue
  /\ BareHost(hostname(pieces[n].value.host)) \in DOMAIN registrableDomain
  /\ \E m \in DOMAIN pieces :
       /\ pieces[m].key.name = OAUTH_CLIENT_ID_PARAM /\ pieces[m].key.depth <= MaxDecodeDepth
       /\ pieces[m].value # NoValue /\ pieces[m].value.form # "empty"

Lures(url, host) ==
  UNION {{pieces[n].key.name : n \in {k \in DOMAIN pieces : /\ LeadsAway(pieces, k, host)
                                                         /\ ~Handoff(pieces, k)}} :
           pieces \in {url.query, fragmentQueryLike(url.fragment)}}

(* A link that lures away from its host is reported, whatever the spelling *)
(* of that host, and the hand-off of an authorization request excuses its  *)
(* own parameter on its own surface and nothing else.  What is reported is *)
(* such a lure; a host written otherwise than URL.hostname spells it is    *)
(* taken for another authority than itself, so such a link alone is also   *)
(* reported for a way back to its own host.  The enricher is never sent to *)
(* look for a landing the detector did not report (openRedirectParam,      *)
(* openRedirectParamPayloads, openRedirectParamTargets, deriveHostFacts).  *)
LuresAreReported ==
  link.asked =>
    LET url == link.url
        spelled == hostname(url.host)
        lured == IF url.host.name = "" THEN {} ELSE Lures(url, spelled)
        blamed == lured \cup IF spelled = url.host THEN {} ELSE Lures(url, url.host)
        targets == openRedirectParamTargets(url.query, Lookup(registrableDomain, BareHost(url.host)))
    IN  /\ link.finding = NoValue => lured = {}
        /\ link.finding # NoValue =>
             \/ link.finding.param \in blamed
             \/ /\ lured = {} /\ url.fragment.kind = "intent"
                /\ link.finding.dangerousScheme # NoValue
        /\ \A n \in DOMAIN targets :
             /\ link.finding # NoValue
             /\ targets[n].param \in blamed
             /\ targets[n].domain # Lookup(registrableDomain, BareHost(url.host))
=============================================================================
