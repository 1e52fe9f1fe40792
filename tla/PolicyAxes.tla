----------------------------- MODULE PolicyAxes -----------------------------
(***************************************************************************)
(* The caller's policy: how its option values are normalized               *)
(* (parse/runtime.ts) and what the four axes report for one parsed URL     *)
(* (policy/tld.ts, host.ts, scheme.ts, port.ts).  A list value is a record *)
(* of the name it holds and what surrounds it: padding, a leading dot or   *)
(* colon, or a second name joined on by a separator.                       *)
(***************************************************************************)
EXTENDS FiniteSets

CONSTANTS Undefined, NotAnArray    \* option values that are no list

NotText == [name |-> "null", pad |-> FALSE, lead |-> FALSE, joined |-> FALSE]
NoFact == "none"              \* a fact the parser could not establish

(* The name that no parsed URL carries: what is left of padding in the     *)
(* middle of a value.                                                      *)
Mangled == "mangled"

(* Fault: the value is compared with its padding. *)
Untrimmed(value) == value

trimListValue(value) == [value EXCEPT !.pad = FALSE]

(* normalizeTld, normalizeHost, normalizeIdnDomain and normalizeScheme     *)
(* strip the leading dot or colon and fold case.                           *)
normalizeName(value) == IF value.pad \/ value.joined THEN Mangled ELSE value.name

Elements(values) == IF values \in {Undefined, NotAnArray} THEN {} ELSE values

(* Fault: a list that holds nothing is taken for no list. *)
ConfiguredByLength(values) ==
  LET kept == {normalizeName(trimListValue(v)) : v \in Elements(values) \ {NotText}} \ {""}
  IN  [configured |-> kept # {}, set |-> kept]

normalizedList(values) ==
  [configured |-> values # Undefined,
   set |-> {normalizeName(trimListValue(v)) : v \in Elements(values) \ {NotText}} \ {""}]

POLICY_OPTION_KEYS ==
  {"denyTlds", "allowTlds", "denyHosts", "allowHosts", "denySchemes", "allowSchemes",
   "denyPorts"}

normalizePolicyOptions(options) ==
  [key \in POLICY_OPTION_KEYS |-> normalizedList(options[key])]

(***************************************************************************)
(* The axes.                                                               *)
(***************************************************************************)
Listed(fact, deny, allow, denied, notAllowed) ==
  IF fact = NoFact THEN {}
  ELSE {c \in {denied, notAllowed} :
          \/ c = denied /\ fact \in deny.set
          \/ c = notAllowed /\ allow.configured /\ fact \notin allow.set}

runTldAxis(facts, policy) ==
  Listed(facts.tld, policy.denyTlds, policy.allowTlds, "tld_denied", "tld_not_allowlisted")

runHostAxis(facts, policy) ==
  Listed(facts.domain, policy.denyHosts, policy.allowHosts, "host_denied", "host_not_allowlisted")

runSchemeAxis(facts, policy) ==
  Listed(facts.scheme, policy.denySchemes, policy.allowSchemes, "scheme_denied", "scheme_denied")

STANDARD_PORTS == [http |-> "80", https |-> "443", ftp |-> "21", ws |-> "80", wss |-> "443"]

nonStandard(facts) ==
  facts.scheme \notin DOMAIN STANDARD_PORTS \/ facts.port # STANDARD_PORTS[facts.scheme]

runPortAxis(facts, policy, denyNonStandardPorts) ==
  IF /\ facts.port # NoFact
     /\ facts.port \in policy.denyPorts.set \/ (denyNonStandardPorts /\ nonStandard(facts))
  THEN {"port_denied"} ELSE {}

(* Absent options are undefined, and an unconfigured policy does not run. *)
policyConfigured(options) ==
  options.denyNonStandardPorts \/ \E key \in POLICY_OPTION_KEYS : options[key] # Undefined

policyFindings(facts, options) ==
  LET policy == normalizePolicyOptions(options)
  IN  IF ~policyConfigured(options) THEN {}
      ELSE runTldAxis(facts, policy) \cup runHostAxis(facts, policy)
           \cup runSchemeAxis(facts, policy)
           \cup runPortAxis(facts, policy, options.denyNonStandardPorts)

(* Fault: an allow-list that is not empty allows every such name. *)
AnyAllowedIdn(facts, options) ==
  IF facts.idn /\ ~options.allowIdn /\ Elements(options.idnAllow) = {} THEN {"idn_host"} ELSE {}

(***************************************************************************)
(* An international registrable domain is blocked unless idnPolicy allows  *)
(* them all or the allow-list names it (detectors/idn-host.ts).            *)
(***************************************************************************)
idnHost(facts, options) ==
  IF facts.idn /\ ~options.allowIdn /\ facts.domain \notin normalizedList(options.idnAllow).set
  THEN {"idn_host"} ELSE {}

(***************************************************************************)
(* Suppression rules: a blank or missing host is every host (null), a host *)
(* that normalizes to nothing is a scope that matches none.                *)
(***************************************************************************)
AllHosts == "all-hosts"

(* Fault: a scope that comes to nothing is taken for no scope. *)
BlankIsEverywhere(host) ==
  IF host = NotText THEN AllHosts
  ELSE IF trimListValue(host).name = "" THEN AllHosts ELSE normalizeName(trimListValue(host))

normalizedHost(host) ==
  IF host = NotText THEN AllHosts
  ELSE LET trimmed == trimListValue(host)
       IN  IF trimmed.name = "" /\ ~trimmed.lead THEN AllHosts ELSE normalizeName(trimmed)

normalizeSuppressReasons(rules) ==
  {[code |-> normalizeName(trimListValue(r.code)), host |-> normalizedHost(r.host)] :
     r \in {s \in Elements(rules) : s.code # NotText /\ s.code.name # ""}}

suppresses(rules, code, facts) ==
  \E r \in normalizeSuppressReasons(rules) :
    r.code = code /\ r.host \in {AllHosts, facts.domain}
=============================================================================
