----------------------------- MODULE UrlRelation -----------------------------
(***************************************************************************)
(* compareUrls (compare/compare-urls.ts): same origin and same site, on    *)
(* the private and the ICANN part of the public suffix list, with an       *)
(* answer of its own where a side does not say.  A side is what parse and  *)
(* the normalizers make of one input.                                      *)
(***************************************************************************)
EXTENDS Integers, FiniteSets

CONSTANTS
  Sides,                     \* inputs to compare
  canonicalOf,               \* host text -> canonical ASCII host or address, or Nil
  privateRegistrableDomain,  \* canonical host -> eTLD+1, or Nil
  icannRegistrableDomain,    \* the same without the private section
  Nil

VARIABLE pair

TUPLE_ORIGIN_SCHEMES == {"http", "https", "ws", "wss", "ftp"}
DEFAULT_PORTS == [http |-> 80, https |-> 443, ws |-> 80, wss |-> 443, ftp |-> 21]

Compared(scheme, originKind, host, port, site, siteIcann) ==
  [scheme |-> scheme, originKind |-> originKind, host |-> host, port |-> port,
   site |-> site, siteIcann |-> siteIcann]

undeterminedSide == Compared(Nil, "undetermined", Nil, Nil, Nil, Nil)

(* A trailing root dot is no part of the host. *)
canonicalHost(side) == IF side.host = "" THEN Nil ELSE canonicalOf[side.host]

defaultPort(side) == side.scheme \in DOMAIN DEFAULT_PORTS /\ side.port = DEFAULT_PORTS[side.scheme]

orElse(domain, host) == IF domain = Nil THEN host ELSE domain

(* The suffix list knows no domain of an address, and its private part     *)
(* only lengthens a suffix: the ICANN domain of a host is that of its site *)
(* (parse/psl.ts).                                                         *)
ASSUME SideAssumption ==
  /\ Nil \notin TUPLE_ORIGIN_SCHEMES
  /\ \A s \in Sides :
       /\ s = [parses |-> s.parses, scheme |-> s.scheme, host |-> s.host, port |-> s.port,
               isIp |-> s.isIp]
       /\ LET host == canonicalHost(s)
              site == orElse(privateRegistrableDomain[host], host)
              siteIcann == orElse(icannRegistrableDomain[host], host)
          IN  host # Nil => /\ orElse(icannRegistrableDomain[site], site) = siteIcann
                            /\ s.isIp => site = host /\ siteIcann = host

(* Fault: an explicit default port is a port of its own. *)
PortAsWritten(side) == side.port

effectivePort(side) == IF defaultPort(side) THEN Nil ELSE side.port

describe(side) ==
  LET host == canonicalHost(side)
      kind == IF side.scheme = Nil THEN "undetermined"
              ELSE IF side.scheme \in TUPLE_ORIGIN_SCHEMES THEN "tuple" ELSE "opaque"
  IN  CASE ~side.parses -> undeterminedSide
        [] side.parses /\ host = Nil ->
             Compared(side.scheme, IF side.host = "" THEN "opaque" ELSE "undetermined",
                      Nil, Nil, Nil, Nil)
        [] OTHER ->
             Compared(side.scheme, kind, host, effectivePort(side),
                      IF side.isIp THEN host ELSE orElse(privateRegistrableDomain[host], host),
                      IF side.isIp THEN host ELSE orElse(icannRegistrableDomain[host], host))

relateOrigin(left, right) ==
  IF "undetermined" \in {left.originKind, right.originKind} THEN "undetermined"
  ELSE IF "opaque" \in {left.originKind, right.originKind} THEN "different"
  ELSE IF <<left.scheme, left.host, left.port>> = <<right.scheme, right.host, right.port>>
       THEN "same" ELSE "different"

(* Fault: two sides without a site have the same one. *)
NoSiteAgrees(l, r) == l = r

sitesAgree(l, r) == l # Nil /\ r # Nil /\ l = r

siteUndetermined(side) == side.originKind = "undetermined" /\ side.host = Nil

relateSite(left, right, l, r) ==
  IF siteUndetermined(left) \/ siteUndetermined(right) THEN "undetermined"
  ELSE IF sitesAgree(l, r) THEN "same" ELSE "different"

compareUrls(x, y) ==
  LET a == describe(x)
      b == describe(y)
  IN  [sameOrigin |-> relateOrigin(a, b),
       sameSite |-> relateSite(a, b, a.site, b.site),
       sameSiteIcann |-> relateSite(a, b, a.siteIcann, b.siteIcann)]

PairInit == \E x, y \in Sides : pair = [left |-> x, right |-> y, answer |-> Nil]

Compares ==
  /\ pair.answer = Nil
  /\ pair' = [pair EXCEPT !.answer = compareUrls(pair.left, pair.right)]

-----------------------------------------------------------------------------
(* The answers are relations: the order of the arguments does not matter,  *)
(* "same" passes on through a third URL, an origin lies within a site and  *)
(* a site within its ICANN site, and an origin that is opaque or           *)
(* undetermined, or a site without a host, is the same as nothing, itself  *)
(* included (relateOrigin, relateSite).                                    *)
RelationsAreSound ==
  pair.answer # Nil =>
    LET x == pair.left
        y == pair.right
        a == pair.answer
        whole == {s \in Sides : s.parses /\ s.scheme \in TUPLE_ORIGIN_SCHEMES
                                         /\ canonicalHost(s) # Nil}
    IN  /\ compareUrls(y, x) = a
        /\ a.sameOrigin = "same" => a.sameSite = "same"
        /\ a.sameSite = "same" => a.sameSiteIcann = "same"
        /\ a.sameOrigin = "same" => x \in whole /\ y \in whole
        /\ a.sameSiteIcann = "same" => \A s \in {x, y} : s.parses /\ canonicalHost(s) # Nil
        /\ x = y /\ x \in whole => a.sameOrigin = "same"
        /\ a.sameOrigin # "undetermined" => a.sameSite # "undetermined"
        /\ \A z \in Sides :
             LET b == compareUrls(y, z)
                 c == compareUrls(x, z)
             IN  \A k \in DOMAIN a : a[k] = "same" /\ b[k] = "same" => c[k] = "same"
        /\ \A s \in whole : [s EXCEPT !.port = Nil] = [x EXCEPT !.port = Nil]
                            /\ defaultPort(s) /\ x.port = Nil =>
                              compareUrls(x, s).sameOrigin = "same"
=============================================================================
