---------------------------- MODULE AddressRanges ----------------------------
(***************************************************************************)
(* What an address literal is classified as: the special-purpose ranges of *)
(* data/ip-ranges.ts, the cloud metadata endpoints and the wrapped IPv4    *)
(* address of detectors/ip-classification.ts, and the decision             *)
(* online/transport/address.ts takes at the connection boundary.  A row's  *)
(* base is a number (IPv4) or its groups (IPv6), with the bits past the    *)
(* prefix clear.  Provider, range name and RFC are left out.               *)
(***************************************************************************)
EXTENDS IpLiteral

CONSTANTS
  IPV4_SPECIAL_RANGES, IPV6_SPECIAL_RANGES,  \* [base, prefix, bucket] in registry order
  MULTICAST_IPV4, MULTICAST_IPV6,            \* the rows the registries leave out
  CLOUD_METADATA_ENDPOINTS,                  \* [family, text]
  SUPPLEMENTAL_RANGES                        \* [family, base, prefix, category] in order

VARIABLE decision

HextetBits == CHOOSE n \in 1..20 : Power(2, n) = Hextet
Ipv4Bits == 2 * HextetBits

(* The rows, the longest prefix first; Array.prototype.sort is stable. *)
Before(rows, j, k) ==
  rows[j].prefix > rows[k].prefix \/ (rows[j].prefix = rows[k].prefix /\ j < k)

ByPrefix(rows) ==
  [n \in DOMAIN rows |->
     rows[CHOOSE k \in DOMAIN rows : Cardinality({j \in DOMAIN rows : Before(rows, j, k)}) = n - 1]]

IPV4_RANGES == ByPrefix(Append(IPV4_SPECIAL_RANGES, MULTICAST_IPV4))
IPV6_RANGES == ByPrefix(Append(IPV6_SPECIAL_RANGES, MULTICAST_IPV6))

InIpv4Row(addr, row) ==
  LET host == Power(2, Ipv4Bits - row.prefix) IN addr \div host = row.base \div host

InIpv6Row(hextets, row) ==
  LET whole == row.prefix \div HextetBits
      rest == row.prefix % HextetBits
      host == Power(2, HextetBits - rest)
  IN  /\ \A n \in 1..whole : hextets[n] = row.base[n]
      /\ rest # 0 => host * (hextets[whole + 1] \div host) = row.base[whole + 1]

(* The first row that holds the address answers, a carve-out (bucket Null) *)
(* too.                                                                    *)
FirstBucket(rows, hits) == IF hits = {} THEN Null ELSE rows[Min(hits)].bucket

(* Fault: a carve-out is passed over. *)
NamedIpv4Range(addr) ==
  FirstBucket(IPV4_RANGES, {n \in DOMAIN IPV4_RANGES : /\ InIpv4Row(addr, IPV4_RANGES[n])
                                                      /\ IPV4_RANGES[n].bucket # Null})

matchIpv4Range(addr) ==
  FirstBucket(IPV4_RANGES, {n \in DOMAIN IPV4_RANGES : InIpv4Row(addr, IPV4_RANGES[n])})

matchIpv6Range(hextets) ==
  FirstBucket(IPV6_RANGES, {n \in DOMAIN IPV6_RANGES : InIpv6Row(hextets, IPV6_RANGES[n])})

(* Ranges as the registries have them: none is listed in two buckets.      *)
Ipv4Row == [base : 0..(Power(Byte, 4) - 1), prefix : 0..Ipv4Bits, bucket : STRING \cup {Null}]
Ipv6Row == [base : [1..Groups -> 0..(Hextet - 1)], prefix : 0..(Groups * HextetBits),
            bucket : STRING \cup {Null}]

BitsPastPrefixClear(row) ==
  LET whole == row.prefix \div HextetBits
      rest == row.prefix % HextetBits
  IN  rest # 0 => row.base[whole + 1] % Power(2, HextetBits - rest) = 0

ASSUME RegistryAssumption ==
  /\ IPV4_SPECIAL_RANGES \in Seq(Ipv4Row) /\ MULTICAST_IPV4 \in Ipv4Row
  /\ IPV6_SPECIAL_RANGES \in Seq(Ipv6Row) /\ MULTICAST_IPV6 \in Ipv6Row
  /\ \A row \in Range(IPV6_SPECIAL_RANGES) \cup {MULTICAST_IPV6} : BitsPastPrefixClear(row)
  /\ \A r, s \in Range(IPV4_SPECIAL_RANGES) \cup {MULTICAST_IPV4} :
       r.prefix = s.prefix /\ InIpv4Row(r.base, s) => r.bucket = s.bucket
  /\ \A r, s \in Range(IPV6_SPECIAL_RANGES) \cup {MULTICAST_IPV6} :
       r.prefix = s.prefix /\ InIpv6Row(r.base, s) => r.bucket = s.bucket

(* The endpoints are addresses, and every wrapper is within a supplemental *)
(* range.                                                                  *)
ASSUME TransportAssumption ==
  /\ \A e \in CLOUD_METADATA_ENDPOINTS :
       e.family = 6 => e.text \in Ipv6Text /\ groupsOf(e.text) # Null
  /\ \A w \in Range(LOW32_WRAPPERS) :
       \E n \in DOMAIN SUPPLEMENTAL_RANGES :
         LET rule == SUPPLEMENTAL_RANGES[n]
         IN  /\ rule.family = 6 /\ rule.prefix \in 0..((Groups - 2) * HextetBits)
             /\ InIpv6Row(w.hextets \o <<0, 0>>, rule)

-----------------------------------------------------------------------------
dottedToInt(bytes) == Denotes(bytes, Byte)

METADATA_IPV4 == {dottedToInt(analyzeIpv4(e.text).canonical) :
                    e \in {m \in CLOUD_METADATA_ENDPOINTS : m.family = 4}}
METADATA_IPV6 == {analyzeIpv6(e.text).canonical :
                    e \in {m \in CLOUD_METADATA_ENDPOINTS : m.family = 6}}

(* The groups of a canonical text. *)
hextetsOf(canonical) ==
  LET values(pieces) == [n \in DOMAIN pieces |-> pieces[n].value]
      fill == Groups - Len(canonical.left) - Len(canonical.right)
  IN  IF (IF canonical.double THEN fill < 0 ELSE fill # 0) THEN Null
      ELSE values(canonical.left) \o [n \in 1..fill |-> 0] \o values(canonical.right)

classifyIpv4(addr) ==
  IF addr \in METADATA_IPV4 THEN "ip_cloud_metadata" ELSE matchIpv4Range(addr)

classifyIpv6(canonical) ==
  IF canonical \in METADATA_IPV6 THEN "ip_cloud_metadata"
  ELSE IF hextetsOf(canonical) = Null THEN Null ELSE matchIpv6Range(hextetsOf(canonical))

(* Fault: a wrapped IPv4 address answers for the literal that wraps it. *)
WrappedAnswers(family, ip) ==
  IF ip = Null THEN Null
  ELSE IF family = 4 THEN classifyIpv4(dottedToInt(ip.canonical))
  ELSE IF ip.embedded # -1 THEN classifyIpv4(ip.embedded) ELSE classifyIpv6(ip.canonical)

(* By the analysis of the host: the wrapped IPv4 address first; without a  *)
(* bucket the literal itself.                                              *)
classifyHost(family, ip) ==
  LET wrapped == IF ip.embedded = -1 THEN Null ELSE classifyIpv4(ip.embedded)
  IN  IF ip = Null THEN Null
      ELSE IF family = 4 THEN classifyIpv4(dottedToInt(ip.canonical))
      ELSE IF wrapped # Null THEN wrapped ELSE classifyIpv6(ip.canonical)

-----------------------------------------------------------------------------
(* isIP of node:net: only plain dotted text, without a root dot, is an     *)
(* IPv4 address to it.                                                     *)
isIP(family, text, ip) ==
  ip # Null /\ (family = 4 => ~ip.obfuscated /\ stripTrailingRootDot(text) = text)

(* BlockList.check of a supplemental range. *)
Blocks(rule, family, text, ip) ==
  /\ rule.family = family
  /\ IF family = 4 THEN InIpv4Row(dottedToInt(ip.canonical), rule)
     ELSE InIpv6Row(groupsOf(text), rule)

classifyTransportAddress(family, text, ip, bucket) ==
  LET blocking == {n \in DOMAIN SUPPLEMENTAL_RANGES :
                     Blocks(SUPPLEMENTAL_RANGES[n], family, text, ip)}
  IN  IF ~isIP(family, text, ip) THEN [allowed |-> FALSE, category |-> "invalid"]
      ELSE IF bucket # Null THEN [allowed |-> FALSE, category |-> bucket]
      ELSE IF blocking # {}
           THEN [allowed |-> FALSE, category |-> SUPPLEMENTAL_RANGES[Min(blocking)].category]
      ELSE [allowed |-> TRUE, category |-> Null]

addressesEqual(family, left, right) ==
  /\ \A text \in {left, right} :
       isIP(family, text, IF family = 4 THEN analyzeIpv4(text) ELSE analyzeIpv6(text))
  /\ IF family = 4 THEN left = right ELSE groupsOf(left) = groupsOf(right)

(***************************************************************************)
(* The detector classifies the literal that was read; the connection asks  *)
(* for the same classification before it decides.                          *)
(***************************************************************************)
Undecided == [at |-> "read", bucket |-> Null, transport |-> Null]

RangesInit == decision = Undecided

ClassifiesHost ==
  /\ literal.asked /\ decision.at = "read"
  /\ decision' = [decision EXCEPT !.at = "classified",
                    !.bucket = classifyHost(literal.family, literal.answer)]
  /\ UNCHANGED literal

DecidesAddress ==
  /\ decision.at = "classified"
  /\ decision' = [decision EXCEPT !.at = "decided",
                    !.transport = classifyTransportAddress(literal.family, literal.text,
                                                           literal.answer, decision.bucket)]
  /\ UNCHANGED literal

-----------------------------------------------------------------------------
(* The bits of an address, and the bucket of the narrowest range that      *)
(* holds it, by definition.                                                *)
BitsOf(n, width) == [k \in 1..width |-> (n \div Power(2, width - k)) % 2]
GroupBits(groups) == FlattenSeq([n \in DOMAIN groups |-> BitsOf(groups[n], HextetBits)])

Narrowest(bits, rows) ==
  LET holding == {row \in rows : SubSeq(bits, 1, row.prefix) = SubSeq(row.bits, 1, row.prefix)}
  IN  IF holding = {} THEN Null
      ELSE (CHOOSE row \in holding : \A r \in holding : r.prefix <= row.prefix).bucket

Special4 ==
  {[prefix |-> r.prefix, bucket |-> r.bucket, bits |-> BitsOf(r.base, Ipv4Bits)] :
     r \in Range(IPV4_SPECIAL_RANGES) \cup {MULTICAST_IPV4}}
Special6 ==
  {[prefix |-> r.prefix, bucket |-> r.bucket, bits |-> GroupBits(r.base)] :
     r \in Range(IPV6_SPECIAL_RANGES) \cup {MULTICAST_IPV6}}

Class4(n) == IF n \in METADATA_IPV4 THEN "ip_cloud_metadata"
             ELSE Narrowest(BitsOf(n, Ipv4Bits), Special4)

Class6(groups) ==
  IF \E e \in CLOUD_METADATA_ENDPOINTS : e.family = 6 /\ groupsOf(e.text) = groups
  THEN "ip_cloud_metadata" ELSE Narrowest(GroupBits(groups), Special6)

(* However an address is spelled, and whatever wraps it, it is the same    *)
(* address to the classifier: its class is that of the narrowest range     *)
(* that holds it or of the metadata endpoint it is, a wrapper neither      *)
(* hides the class of the IPv4 address it carries nor the one of its own   *)
(* bits, and a connection is only allowed to the plain text of an          *)
(* unclassified address that wraps nothing (matchIpv4Range,                *)
(* matchIpv6Range, classifyHost, classifyTransportAddress).                *)
NoDisguise ==
  decision.at = "decided" /\ literal.answer # Null =>
    LET a == literal.answer
        class == decision.bucket
        allowed == decision.transport.allowed
        groups == groupsOf(literal.text)
        hidden == IF a.embedded # -1 THEN Class4(a.embedded) ELSE Null
    IN  IF literal.family = 4
        THEN /\ class = Class4(Worth(stripTrailingRootDot(literal.text)))
             /\ allowed => class = Null /\ literal.text = Dotted(a.canonical)
        ELSE /\ class = IF hidden # Null THEN hidden ELSE Class6(groups)
             /\ addressesEqual(6, literal.text, a.canonical)
             /\ allowed => class = Null /\ a.embedded = -1
=============================================================================
