------------------------------ MODULE DnsState ------------------------------
(***************************************************************************)
(* The DNS source: four queries and a DNSSEC question asked at once        *)
(* (dns-enricher.ts) of node:dns (dns-node.ts), their answers reduced to   *)
(* one state (dns-normalize.ts).  The addresses are asked of the host, the *)
(* name servers and the mail exchanges of its zone, which is the host      *)
(* itself (the apex) or a name above it with addresses of its own.         *)
(*                                                                         *)
(* What host and zone really hold is drawn at the start; an address record *)
(* is its TTL, a mail exchange a pair of exchange and preference, with ""  *)
(* for the root as node:dns writes it.                                     *)
(***************************************************************************)
EXTENDS Integers, Sequences, FiniteSets, FiniteSetsExt, SourceContract

CONSTANTS
  MxWorld,       \* what the MX record set of the zone may be
  Ttl,           \* TTLs of an address record
  DnsErrorCode   \* error codes of node:dns a query may end with, lies excluded

ASSUME DnsAssumption ==
  /\ Ttl \subseteq Nat
  /\ MxWorld \subseteq Seq(STRING \X Nat)
  /\ \A mx \in MxWorld : \A i \in DOMAIN mx : mx[i][1] # "."
  /\ DnsErrorCode \cap {"ENODATA", "ENOTFOUND", "ENONAME"} = {}

VARIABLE dns

Query == {"A", "AAAA", "NS", "MX"}
NoAnswer == [state |-> "pending", records |-> <<>>]
NoOutcome == [status |-> "pending", code |-> "none", mail |-> "unknown",
              resolvable |-> FALSE, minTtl |-> -1, freshness |-> "unknown", dnssec |-> "none"]

DnsInit ==
  \E host \in {"none", "ip", "name"}, mx \in MxWorld,
     a \in {<<>>} \cup {<<t>> : t \in Ttl}, aaaa \in {<<>>} \cup {<<t>> : t \in Ttl},
     apex \in BOOLEAN, zoneAddressed \in BOOLEAN :
    /\ apex => (zoneAddressed <=> a # <<>> \/ aaaa # <<>>)
    /\ dns = [at |-> "start", host |-> host, aborted |-> FALSE,
               apex |-> apex, zoneAddressed |-> zoneAddressed,
               truth |-> [q \in Query |-> CASE q = "A" -> a [] q = "AAAA" -> aaaa
                                            [] q = "NS" -> <<"ns">> [] q = "MX" -> mx],
               answers |-> [q \in Query |-> NoAnswer], dnssec |-> "none",
               outcome |-> NoOutcome]

(***************************************************************************)
(* The adapter over node:dns.                                              *)
(***************************************************************************)
negative(state) == [state |-> state, records |-> <<>>]

okOrNodata(records) ==
  IF records = <<>> THEN negative("nodata") ELSE [state |-> "ok", records |-> records]

(* Fault: the exchange is passed on as node:dns writes it. *)
RawExchange(exchange) == exchange

mxExchange(exchange) == IF exchange = "" THEN "." ELSE exchange

runQuery(q, rows) ==
  okOrNodata(IF q # "MX" THEN rows
             ELSE [i \in DOMAIN rows |-> <<mxExchange(rows[i][1]), rows[i][2]>>])

stateForError(code, aborted) ==
  CASE code = "ENODATA" -> "nodata"
    [] code \in {"ENOTFOUND", "ENONAME"} -> "nxdomain"
    [] code \in {"ESERVFAIL", "EBADRESP", "EFORMERR"} -> "servfail"
    [] code \in {"EREFUSED", "ECONNREFUSED"} -> "refused"
    [] code = "ETIMEOUT" -> "timeout"
    [] code \in {"EBADNAME", "EBADSTR"} -> "invalid-name"
    [] code = "ECANCELLED" -> IF aborted THEN "aborted" ELSE "timeout"
    [] OTHER -> "error"

(* A query's answer: what the zone holds, "no such record" when it holds   *)
(* none, or an error of the resolution itself.                             *)
AnswersTo(q) ==
  {runQuery(q, dns.truth[q])}
    \cup {negative(stateForError(code, dns.aborted)) :
            code \in DnsErrorCode \cup IF dns.truth[q] = <<>>
                                       THEN {"ENODATA", "ENOTFOUND"} ELSE {}}

(* validateDnssec: node:dns validates nothing and says so. *)
validateDnssec == IF dns.aborted THEN "indeterminate-aborted" ELSE "indeterminate"

(***************************************************************************)
(* Normalization.                                                          *)
(***************************************************************************)
AUTHORITATIVE == {"ok", "nodata", "nxdomain"}

(* -1 is null; node:dns gives no TTL for NS and MX. *)
minTtl(ttls) == IF ttls = {} THEN -1 ELSE Min(ttls)

normalizeAddress(answer) == Range(answer.records)

isNullMx(mx) ==
  /\ mx.state = "ok" /\ Len(mx.records) = 1
  /\ mx.records[1][1] = "." /\ mx.records[1][2] = 0

(* Fault: exchanges that could not be asked for are none. *)
UnansweredIsNone(mx, resolvable) ==
  CASE isNullMx(mx) -> "null-mx"
    [] mx.state = "ok" /\ ~isNullMx(mx) -> "explicit-mx"
    [] OTHER -> IF resolvable THEN "implicit-a-fallback" ELSE "no-mail-target"

(* Resolvable is the host, the exchanges are the zone's; and a host whose  *)
(* addresses could not be asked for counts as one that has none.           *)
deriveMailSemantic(mx, resolvable) ==
  CASE isNullMx(mx) -> "null-mx"
    [] mx.state = "ok" /\ ~isNullMx(mx) -> "explicit-mx"
    [] mx.state \in {"nodata", "nxdomain"} ->
         IF resolvable THEN "implicit-a-fallback" ELSE "no-mail-target"
    [] OTHER -> "unknown"

normalizeDnsState(answers) ==
  LET addresses == normalizeAddress(answers["A"]) \cup normalizeAddress(answers["AAAA"])
  IN  [resolvable |-> addresses # {},
       mail |-> deriveMailSemantic(answers["MX"], addresses # {}),
       authoritative |-> \E q \in Query : answers[q].state \in AUTHORITATIVE,
       minTtl |-> minTtl(addresses)]

(***************************************************************************)
(* The enricher.                                                           *)
(***************************************************************************)
(* Fault: a timeout is told before the abort that came with it. *)
TimeoutFirst == <<"timeout", "aborted", "invalid-name", "refused", "servfail", "error">>

UNRESOLVED_PRIORITY == <<"aborted", "timeout", "invalid-name", "refused", "servfail", "error">>

(* Fault: the reason is looked for from the other end. *)
LeastDominant(answers) ==
  LET seen == {i \in DOMAIN UNRESOLVED_PRIORITY :
                 \E q \in Query : answers[q].state = UNRESOLVED_PRIORITY[i]}
  IN  UNRESOLVED_PRIORITY[Max(seen)]

dominantFailure(answers) ==
  LET seen == {i \in DOMAIN UNRESOLVED_PRIORITY :
                 \E q \in Query : answers[q].state = UNRESOLVED_PRIORITY[i]}
  IN  UNRESOLVED_PRIORITY[Min(seen)]

degradedOutcome(code) ==
  [NoOutcome EXCEPT !.status = IF code \in {"no-host", "not-a-hostname", "aborted", "timeout"}
                               THEN "skipped" ELSE "failure",
                    !.code = code]

observedOutcome(state) ==
  [status |-> "success", code |-> "none", mail |-> state.mail,
   resolvable |-> state.resolvable, minTtl |-> state.minTtl,
   freshness |-> freshnessFor([declaresExpiry |-> FALSE, staleWhenExpired |-> FALSE], 0, -1).status,
   dnssec |-> dns.dnssec]

DnsSkips ==
  /\ dns.at = "start" /\ dns.host # "name"
  /\ dns' = [dns EXCEPT !.at = "done",
               !.outcome = degradedOutcome(IF dns.host = "none" THEN "no-host"
                                           ELSE "not-a-hostname")]

(* All queries leave at once; a fired signal answers each without asking. *)
DnsAsks ==
  /\ dns.at = "start" /\ dns.host = "name"
  /\ dns' = [dns EXCEPT !.at = "asking", !.dnssec = validateDnssec,
               !.answers = [q \in Query |-> IF dns.aborted THEN negative("aborted")
                                            ELSE NoAnswer]]

DnsAnswers(q) ==
  /\ dns.at = "asking" /\ dns.answers[q] = NoAnswer
  /\ \E answer \in AnswersTo(q) : dns' = [dns EXCEPT !.answers[q] = answer]

DnsAborts ==
  /\ dns.at # "done" /\ ~dns.aborted
  /\ dns' = [dns EXCEPT !.aborted = TRUE]

DnsReports ==
  /\ dns.at = "asking" /\ \A q \in Query : dns.answers[q] # NoAnswer
  /\ dns' = [dns EXCEPT !.at = "done",
               !.outcome = LET state == normalizeDnsState(dns.answers)
                           IN  IF state.authoritative THEN observedOutcome(state)
                               ELSE degradedOutcome(dominantFailure(dns.answers))]

DnsNext == DnsSkips \/ DnsAsks \/ DnsAborts \/ DnsReports \/ \E q \in Query : DnsAnswers(q)

-----------------------------------------------------------------------------
(* What a zone's mail records mean, by RFC 7505 and RFC 5321. *)
MeansNullMx ==
  Len(dns.truth["MX"]) = 1 /\ dns.truth["MX"][1][1] = "" /\ dns.truth["MX"][1][2] = 0
HoldsMx == dns.truth["MX"] # <<>>

(* What the host's address queries had to find, and whether both were      *)
(* answered.                                                               *)
HostAddressed == dns.truth["A"] # <<>> \/ dns.truth["AAAA"] # <<>>
AddressesAnswered == \A q \in {"A", "AAAA"} : dns.answers[q].state \in AUTHORITATIVE

(* In whatever order and mixture answers and failures arrive: a null MX is *)
(* told from an exchange, and both from none; of a host that is its own    *)
(* zone, a fallback is claimed only with an address to fall back to, and   *)
(* "no mail target", when the address queries were answered, only without  *)
(* one; the host is called resolvable only with an address, and not so     *)
(* only without one or without an answer; no address outlives its own TTL; *)
(* and nothing is reported as observed when nobody answered (mxExchange,   *)
(* deriveMailSemantic, minTtl).                                            *)
(* Of a host below its zone both words rest on the host's own addresses,   *)
(* not the zone's, and "no mail target" is also said when the address      *)
(* queries failed: no more than the want of exchanges is claimed there.    *)
DnsClaimsAreTrue ==
  LET o == dns.outcome
  IN  o.status = "success" =>
        /\ o.mail = "null-mx" => MeansNullMx
        /\ o.mail = "explicit-mx" => HoldsMx /\ ~MeansNullMx
        /\ o.mail \in {"implicit-a-fallback", "no-mail-target"} => ~HoldsMx
        /\ dns.apex /\ o.mail = "implicit-a-fallback" => dns.zoneAddressed
        /\ dns.apex /\ o.mail = "no-mail-target" /\ AddressesAnswered => ~dns.zoneAddressed
        /\ o.resolvable => HostAddressed
        /\ ~o.resolvable /\ AddressesAnswered => ~HostAddressed
        /\ \A q \in {"A", "AAAA"} : dns.answers[q].state = "ok" =>
             \A i \in DOMAIN dns.truth[q] : o.minTtl <= dns.truth[q][i]
        /\ \E q \in Query : dns.answers[q].state \in AUTHORITATIVE

Fell(state) == \E q \in Query : dns.answers[q].state = state

(* When no query was answered, the report says why, the more telling       *)
(* reason first, in whatever order the queries fell: the caller's own      *)
(* abort, and only to a caller who did abort, then a timeout, both as      *)
(* skips; then a name no query was sent for, which a retry would not mend, *)
(* ahead of whatever a server did to the other queries                     *)
(* (UNRESOLVED_PRIORITY, dominantFailure, stateForError).                  *)
DnsAbortIsOwned ==
  /\ dns.outcome.code = "aborted" => dns.aborted
  /\ dns.host = "name" /\ dns.outcome.status \in {"skipped", "failure"} =>
       /\ dns.outcome.code = "aborted" <=> Fell("aborted")
       /\ dns.outcome.code = "timeout" <=> Fell("timeout") /\ ~Fell("aborted")
       /\ dns.outcome.code = "invalid-name" <=>
            Fell("invalid-name") /\ ~Fell("timeout") /\ ~Fell("aborted")
       /\ dns.outcome.status = "skipped" <=> Fell("timeout") \/ Fell("aborted")
=============================================================================
