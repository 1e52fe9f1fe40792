------------------------------ MODULE MCInspect -----------------------------
(***************************************************************************)
(* The check: the synchronous pipeline and the ways into it, the parsers   *)
(* and two detectors below it, the comparison beside it, and the           *)
(* asynchronous verdict above it with the search that names a dependency   *)
(* cycle.  A behaviour works in one of them, named by part, while the      *)
(* others rest.                                                            *)
(*                                                                         *)
(* Two scans, two detectors of which one is agent-gated, two axes; weights *)
(* in fifths (TLC keeps integers to 32 bits) whose combinations reach      *)
(* every severity band; no rule, a global one, one for the input's host    *)
(* and one for another host.                                               *)
(***************************************************************************)
EXTENDS Inspect, InspectAsync, CommandLine, AddressRanges, RedirectParam, UrlRelation

CONSTANTS
  Parts,                        \* the parts a run looks at
  SearchIndex, SearchGraphs     \* plan steps, and dependency lists to search

ASSUME SearchAssumption == SearchGraphs \subseteq [SearchIndex -> Seq(SearchIndex)]

VARIABLE part

MCCode == 0..5
MCWeightFor == [c \in MCCode |-> CASE c = 1 -> 1 [] c = 2 -> 4 [] c = 3 -> 1
                                   [] c = 4 -> 2 [] OTHER -> 0]
MCHost == {"input", "other"}
MCScans == <<"s1", "s2">>
MCDetectors == <<"d1", "d2">>
MCAxes == <<"a1", "a2">>
MCEmits == [x \in {"s1", "s2", "d1", "d2", "a1", "a2"} |->
              CASE x = "s1" -> {1} [] x = "s2" -> {2} [] x = "d1" -> {3, 1}
                [] x = "d2" -> {4} [] x = "a1" -> {5} [] x = "a2" -> {5}]
MCRuleSets == {{[code |-> 2, host |-> "any"]}, {[code |-> 2, host |-> "other"]},
               {[code |-> 1, host |-> "input"]}}

-----------------------------------------------------------------------------
(* A domain, an international one, an address, a hostless URL, a URL with  *)
(* an agent-only finding, and texts that do not parse.                     *)
Facts(tld, domain, scheme, port) ==
  [tld |-> tld, domain |-> domain, scheme |-> scheme, port |-> port, idn |-> FALSE]
Found(status, severity, facts) ==
  [status |-> status, severity |-> severity, blocked |-> severity, facts |-> facts,
   agentOnly |-> FALSE]
NoFacts == Facts(NoFact, NoFact, NoFact, NoFact)

MCVerdictOf ==
  [u \in {"a.com", "idn", "10.0.0.1", "data:", "agent", "bad", "#", ""} |->
     CASE u = "a.com" -> Found("ok", "info", Facts("com", "a.com", "https", "8080"))
       [] u = "idn" -> [Found("ok", "low", [Facts("com", "i.com", "https", NoFact)
                                             EXCEPT !.idn = TRUE]) EXCEPT !.blocked = "high"]
       [] u = "10.0.0.1" -> Found("ok", "medium", Facts(NoFact, NoFact, "http", "80"))
       [] u = "data:" -> Found("ok", "high", Facts(NoFact, NoFact, "data", NoFact))
       [] u = "agent" -> [Found("ok", "high", Facts("com", "b.com", "https", NoFact))
                          EXCEPT !.agentOnly = TRUE]
       [] OTHER -> Found("invalid", "info", NoFacts)]

Word(name, pad, lead, joined) == [name |-> name, pad |-> pad, lead |-> lead, joined |-> joined]
Blank == Word("", TRUE, FALSE, FALSE)
Dot == Word("", FALSE, TRUE, FALSE)
Variants(name) == {Word(name, p, l, j) : p, l, j \in BOOLEAN}

NoFlags == [k \in ListFlags \cup Switches |-> IF k \in Switches THEN FALSE ELSE {}]
UnsetFlags == [k \in DOMAIN NoFlags |-> IF k \in Switches THEN FALSE ELSE Undefined]

FlagChoices ==
  {NoFlags} \cup {[NoFlags EXCEPT ![k] = TRUE] : k \in Switches}
  \cup {[NoFlags EXCEPT ![k] = {v}] :
          k \in ListFlags \ {"denyPorts", "idnAllow"},
          v \in Variants("com") \cup Variants("a.com") \cup Variants("https") \cup {Blank}}
  \cup {[NoFlags EXCEPT !["idnAllow"] = {v}] :
          v \in Variants("i.com") \cup Variants("a.com") \cup {Blank}}
  \cup {[NoFlags EXCEPT !["denyPorts"] = {v}] : v \in Variants("8080") \cup {Word("70000", FALSE, FALSE, FALSE)}}

Cli(command, failOn, flags, rest) ==
  [entry |-> "cli", command |-> command, unknownFlag |-> FALSE, help |-> FALSE, json |-> FALSE,
   failOn |-> failOn, allowInvalid |-> FALSE, flags |-> flags, rules |-> Undefined,
   agent |-> FALSE, env |-> "unset", rest |-> rest]

CliCalls ==
  {Cli("check", "high", f, <<u>>) : f \in FlagChoices, u \in {"a.com", "idn", "10.0.0.1", "data:"}}
  \cup {[Cli(c, s, NoFlags, r) EXCEPT !.allowInvalid = i, !.json = j, !.agent = a] :
          c \in {"check", "batch", "other"}, s \in {"info", "medium", "high", "none"},
          r \in {<<>>, <<"-">>, <<"">>, <<"bad", "a.com">>, <<"a.com", "agent">>, <<"data:">>},
          i, j, a \in BOOLEAN}
  \cup {[Cli("check", "high", NoFlags, <<>>) EXCEPT !.unknownFlag = u, !.help = TRUE] :
          u \in BOOLEAN}

(* A library caller may leave a list undefined, or give it another type. *)
LibraryFlags ==
  {[UnsetFlags EXCEPT ![key] = values] :
     key \in ListFlags \ {"denyPorts"},
     values \in {{}, {NotText}, {Blank}, {Dot}, {Word("com", TRUE, TRUE, FALSE), NotText},
                 {Word("a.com", TRUE, FALSE, FALSE)}, {Word("i.com", TRUE, TRUE, FALSE)}, NotAnArray}}

RuleChoices ==
  {Undefined, NotAnArray}
  \cup {{[code |-> c, host |-> h]} :
          c \in {NotText, Blank, Word("idn_host", TRUE, FALSE, FALSE)},
          h \in {NotText, Blank, Dot, Word("i.com", TRUE, TRUE, FALSE),
                 Word("b.com", FALSE, FALSE, FALSE)}}

LibraryCalls ==
  {[Cli("check", "high", f, <<u>>) EXCEPT !.entry = "library"] :
     f \in LibraryFlags, u \in {"a.com", "idn", "10.0.0.1"}}
  \cup {[Cli("check", "high", UnsetFlags, <<u>>) EXCEPT !.entry = "library", !.rules = r] :
          r \in RuleChoices, u \in {"idn", "10.0.0.1"}}

ToolCalls ==
  {[Cli("check", "high", UnsetFlags, <<u>>) EXCEPT !.entry = "mcp", !.agent = a, !.env = e] :
     a \in {Undefined, TRUE, FALSE}, e \in {"unset", "1", "0"}, u \in {"agent", "idn"}}

MCCalls == CliCalls \cup LibraryCalls \cup ToolCalls

Lines ==
  [url : {"a.com", "#", ""}, pad : {"none", "space", "leading", "trailing"}]
  \cup {[url |-> "data:", pad |-> "space"], [url |-> "idn", pad |-> "none"]}

MCTexts == {<<>>} \cup {<<l>> : l \in Lines} \cup {<<l, m>> : l, m \in Lines}

-----------------------------------------------------------------------------
(* A byte has four values and an IPv6 address five groups, so that every   *)
(* place of a run of zeros is tried, two runs of the same length among     *)
(* them, and every place of a dotted tail.                                 *)
MCWrappers == <<[hextets |-> <<0, 15, 0>>, excludeLow |-> {}],
                [hextets |-> <<1, 0, 0>>, excludeLow |-> {}],
                [hextets |-> <<0, 0, 0>>, excludeLow |-> {0, 1}]>>

Digit(h, d) == [hex |-> h, digits |-> d]
PartForms ==
  {Digit(FALSE, d) : d \in {<<>>, <<0>>, <<1>>, <<3>>, <<4>>, <<6, 3>>, <<6, 4>>,
                            <<0, 3>>, <<0, 8>>, <<1, 0, 0>>}}
  \cup {Digit(TRUE, d) : d \in {<<2>>, <<15, 15>>}}

RootDots == {Append(p, NoText) : p \in [1..4 -> {Digit(FALSE, <<1>>), Digit(FALSE, <<0, 1>>), NoText}]}
MCIpv4Texts == UNION {[1..n -> PartForms] : n \in 1..4} \cup RootDots
               \cup {[n \in 1..5 |-> Digit(FALSE, <<1>>)], Append(<<Digit(TRUE, <<1>>)>>, NoText)}

HexForms == {Hex(v) : v \in {0, 1, 15, 16}} \cup {[Hex(0) EXCEPT !.zeros = TRUE]}
QuadForms == {Quad(v) : v \in {0, 1, 16, 255, 256}} \cup {[Quad(1) EXCEPT !.zeros = TRUE]}
Pieces == UNION {[1..n -> HexForms] : n \in 0..4}
          \cup [1..5 -> {Hex(0), Hex(1), Hex(15)}]
          \cup {p \o <<q>> : p \in UNION {[1..n -> HexForms] : n \in 0..3}, q \in QuadForms}

MCIpv6Texts ==
  {[left |-> p, double |-> FALSE, right |-> <<>>] : p \in Pieces \ {<<>>}}
  \cup UNION {{[left |-> SubSeq(p, 1, k), double |-> TRUE, right |-> SubSeq(p, k + 1, Len(p))] :
                 k \in 0..Len(p)} : p \in Pieces}

(* A private block with a public address and a metadata endpoint in it, a  *)
(* reserved block around it, and every wrapper among the supplemental      *)
(* ranges, as in the tables.                                               *)
Row(start, prefix, bucket) == [base |-> start, prefix |-> prefix, bucket |-> bucket]
BlockRule(family, start, prefix) ==
  [family |-> family, base |-> start, prefix |-> prefix, category |-> "transition"]

MCSpecial4 == <<Row(0, 3, "ip_reserved"), Row(16, 4, "ip_private"), Row(17, 8, Null),
                Row(128, 7, Null), Row(64, 2, "ip_reserved")>>
MCMulticast4 == Row(224, 3, "ip_reserved")
MCSpecial6 == <<Row(<<1, 0, 0, 0, 0>>, 4, "ip_reserved"), Row(<<0, 0, 0, 0, 1>>, 20, "ip_loopback"),
                Row(<<1, 0, 0, 0, 0>>, 7, Null), Row(<<0, 15, 0, 0, 0>>, 12, Null),
                Row(<<1, 0, 0, 1, 0>>, 16, "ip_private")>>
MCMulticast6 == Row(<<14, 0, 0, 0, 0>>, 3, "ip_reserved")
MCMetadata ==
  {[family |-> 4, text |-> <<Digit(FALSE, <<0>>), Digit(FALSE, <<3, 1>>)>>],
   [family |-> 6, text |-> [left |-> <<Hex(15)>>, double |-> TRUE, right |-> <<Hex(1)>>]]}
MCSupplemental == <<BlockRule(4, 128, 4), BlockRule(6, <<0, 15, 0, 0, 0>>, 12), BlockRule(6, <<1, 0, 0, 0, 0>>, 12),
                    BlockRule(6, <<0, 0, 0, 0, 0>>, 12), BlockRule(6, <<0, 1, 0, 0, 0>>, 6)>>

(* Every short run of tokens, and every userinfo, host and port together. *)
MCAuthorities ==
  {s \in BoundedSeq({"@", ":", "[", "]", "name", ".", "0", "80", "99999", "v6", "bad", "zwsp"}, 3)
        \cup BoundedSeq({"@", ":", "[", "]", "name", ".", "80"}, 4) :
     DigitRuns(s) /\ DigitRuns(stripInvisible(s))}
  \cup {u \o h \o p :
          u \in {<<>>, <<"@">>, <<"name", "@">>, <<"name", ":", "80", "@">>, <<"v6", "@", "@">>},
          h \in {<<"[", "v6", "]">>, <<"[", "name", "]">>, <<"name", ".", "name">>,
                 <<"0", "80", ".", "80", ".">>, <<"name", "zwsp">>, <<"[", "v6">>},
          p \in {<<>>, <<":">>, <<":", "80">>, <<":", "0", "0", "80">>, <<":", "0", "99999">>,
                 <<":", "name">>}}

(* Two sites, one of them an international name in both spellings, a name  *)
(* and an address without a domain in the spellings of an input and of     *)
(* URL.hostname; payloads plain, encoded, and encoded too deep, on either  *)
(* surface.                                                                *)
HostText(name, root, brackets) == [name |-> name, root |-> root, brackets |-> brackets]
Plain(name) == HostText(name, FALSE, FALSE)
MCDomains == [h \in {Plain(n) : n \in {"a.com", "www.a.com", "b.com", "IDN.com", "xn--idn.com"}} |->
                IF h.name = "www.a.com" THEN "a.com" ELSE h.name]
MCToASCII == [n \in {"IDN.com"} |-> "xn--idn.com"]
MCAddressIn == [h \in {Plain("::1"), Plain("0::1")} |-> "::1"]

Text(form, scheme, host) == [depth |-> 0, form |-> form, scheme |-> scheme, host |-> host]
Url(host) == Text("absolute", "https", host)
PayloadTexts ==
  {Url(h) : h \in {Plain("www.a.com"), HostText("b.com", TRUE, FALSE), NoValue,
                   HostText("::1", FALSE, TRUE), Plain("localhost"), Plain("IDN.com")}}
  \cup {Text("protocol-relative", NoValue, Plain("b.com")), Text("empty", NoValue, NoValue),
        Text("absolute", "javascript", Plain("a.com")), Text("absolute", "file", NoValue),
        Text("opaque", "javascript", NoValue), Text("opaque", "mailto", NoValue),
        [Url(Plain("b.com")) EXCEPT !.depth = 1], [Url(Plain("b.com")) EXCEPT !.depth = 2]}

Piece(name, depth, value) == [key |-> [name |-> name, depth |-> depth], value |-> value]
LinkPieces ==
  {Piece(k, 0, v) : k \in {"next", "redirect_uri"}, v \in PayloadTexts}
  \cup {Piece("next", d, Url(Plain("b.com"))) : d \in 1..2}
  \cup {Piece("client_id", 0, v) : v \in {NoValue, Text("empty", NoValue, NoValue),
                                         Text("opaque", NoValue, NoValue)}}
  \cup {Piece("ref", 0, Url(Plain("b.com")))}
Surface == {<<>>} \cup {<<x>> : x \in LinkPieces}
Fragment(kind, before, after) == [kind |-> kind, before |-> before, after |-> after]

MCLinks ==
  {[host |-> h, query |-> q, fragment |-> Fragment("plain", f, <<>>)] :
     h \in {Plain("a.com"), HostText("a.com", TRUE, FALSE), Plain("0::1"), Plain("localhost"), Plain(""),
            Plain("IDN.com"), Plain("xn--idn.com")},
     q \in Surface, f \in Surface}
  \cup {[host |-> Plain("a.com"), query |-> <<x, y>>, fragment |-> Fragment("routed", <<x>>, <<z>>)] :
          x, y, z \in {p \in LinkPieces : \/ p.key.name \in {"client_id", "ref"}
                                        \/ p.value \in {Url(HostText("b.com", TRUE, FALSE)),
                                                      Url(HostText("::1", FALSE, TRUE))}}}
  \cup {[host |-> h, query |-> q,
         fragment |-> Fragment("intent", <<Piece("browser_fallback_url", 0, v), Piece("next", 0, w)>>, <<>>)] :
          h \in {Plain("a.com"), Plain("")}, q \in {<<>>, <<Piece("next", 0, Url(Plain("b.com")))>>},
          v, w \in PayloadTexts}

(* An international name in two spellings, a private suffix and a host     *)
(* below it, addresses, an inadmissible name, and no host.                 *)
Side(scheme, host, port) ==
  [parses |-> TRUE, scheme |-> scheme, host |-> host, port |-> port,
   isIp |-> host \in {"127.1", "127.0.0.1"}]

MCCanonicalOf ==
  [h \in {"IDN.com", "xn--idn.com", "a.io", "x.a.io", "y.a.io", "www.a.com", "a.com",
          "127.1", "127.0.0.1", "?"} |->
     CASE h = "IDN.com" -> "xn--idn.com" [] h = "127.1" -> "127.0.0.1" [] h = "?" -> Nil
       [] OTHER -> h]
MCPrivate ==
  [h \in {MCCanonicalOf[g] : g \in DOMAIN MCCanonicalOf} |->
     CASE h = "a.io" -> Nil [] h = "www.a.com" -> "a.com" [] OTHER -> h]
MCIcann ==
  [h \in DOMAIN MCPrivate |-> IF h \in {"x.a.io", "y.a.io"} THEN "a.io"
                              ELSE IF h = "a.io" THEN h ELSE MCPrivate[h]]

MCSides ==
  {Side(s, h, p) : s \in {Nil, "http", "https", "ssh"}, h \in DOMAIN MCCanonicalOf,
                   p \in {Nil, 80, 443, 0}}
  \cup {Side("data", "", Nil), [Side(Nil, "", Nil) EXCEPT !.parses = FALSE]}

-----------------------------------------------------------------------------
(* Two enrichers of one or of two layers, independent, dependent, cyclic   *)
(* or sharing a token; findings about the input's host and about another   *)
(* one; lexical results that are empty or heavy, ok or invalid.            *)
MCPair == 1..2
MCToken == {"a", "b", "c"}
MCLayer == {"resolution", "reputation"}
MCLayerOf == [t \in MCToken |-> IF t = "c" THEN "reputation" ELSE "resolution"]

Entry(t, needs) == [token |-> t, dependsOn |-> needs, shapeValid |-> TRUE]
MCPlans ==
  {<<Entry("a", d1), Entry(t, d2)>> : t \in MCToken, d1 \in {{}, {"c"}}, d2 \in {{}, {"a"}}}

Report(statuses, cause) == [statuses |-> statuses, cause |-> cause]
MCReports ==
  {Report({"success"}, "source"), Report({"no-hit"}, "source"), Report({"failure"}, "source"),
   Report({"success", "failure"}, "source"), Report({"skipped"}, "caller-aborted")}

Shown(code, host, confidence) == [code |-> code, host |-> host, confidence |-> confidence]
MCEvidence == <<<<Shown(2, "other", 2)>>, <<Shown(1, "input", 1), Shown(2, "input", 2)>>>>
MCBaseCodes == {<<>>, <<2, 1>>}

(* All graphs of three steps with every order of their dependencies, for   *)
(* every set of pending steps.                                             *)
VARIABLES deps, unsearched, color, stack, pos, cycle, done

searchVars == <<deps, unsearched, color, stack, pos, cycle, done>>

MCIndex == 1..3
Orders == UNION {{s \in [1..n -> MCIndex] : IsInjective(s)} : n \in 0..3}
MCGraphs == [MCIndex -> Orders]

Cycle == INSTANCE DependencyCycle WITH
  Index <- SearchIndex, Graphs <- SearchGraphs, pending <- unsearched, answer <- cycle

-----------------------------------------------------------------------------
CommandRests ==
  cmd = [call |-> Cli("check", "high", NoFlags, <<>>), at |-> "done", lines |-> <<>>,
         urls |-> <<>>, results |-> <<>>, out |-> <<>>, exit |-> 2]

LiteralRests == literal = [family |-> 4, text |-> <<>>, answer |-> Null, asked |-> FALSE]
UrlRests == rawUrl = [url |-> [scheme |-> "data"], asked |-> FALSE, context |-> NoValue,
                      failure |-> "none"]
LinkRests == link = [url |-> {}, asked |-> FALSE, finding |-> NoValue]
PairRests == pair = [left |-> 0, right |-> 0, answer |-> Nil]

AsyncRests ==
  /\ plan = <<>> /\ phase = "none" /\ runs = <<>> /\ pending = {} /\ stage = {}
  /\ stageRuns = <<>> /\ seen = <<>> /\ started = {} /\ aborted = FALSE
  /\ configured = FALSE /\ rules = {} /\ base = [status |-> "none"]
  /\ verdict = NoVerdict
SearchRests ==
  /\ deps = <<>> /\ unsearched = {} /\ color = <<>> /\ stack = <<>> /\ pos = <<>>
  /\ cycle = <<>> /\ done = FALSE

inputVars == <<cmd, literal, decision, rawUrl, link, pair>>
MCvars == <<inspectVars, inputVars, allVars, searchVars, part>>

MCInit ==
  /\ part \in Parts
  /\ InspectInit
  /\ part # "pipeline" => raw = CHOOSE o \in Options : TRUE
  /\ IF part = "command" THEN CommandInit ELSE CommandRests
  /\ IF part = "literal" THEN LiteralInit ELSE LiteralRests
  /\ RangesInit
  /\ IF part = "raw" THEN UrlInit ELSE UrlRests
  /\ IF part = "link" THEN LinkInit ELSE LinkRests
  /\ IF part = "pair" THEN PairInit ELSE PairRests
  /\ IF part = "async" THEN AsyncInit ELSE AsyncRests
  /\ IF part = "search" THEN Cycle!Init ELSE SearchRests

(* An answer that has been given stays. *)
Answered ==
  /\ \/ part = "command" /\ cmd.at = "done"
     \/ part = "literal" /\ decision.at = "decided"
     \/ part = "raw" /\ rawUrl.asked
     \/ part = "link" /\ link.asked
     \/ part = "pair" /\ pair.answer # Nil
  /\ UNCHANGED MCvars

MCNext ==
  \/ /\ \/ part = "pipeline" /\ InspectNext /\ UNCHANGED inputVars
        \/ part = "command" /\ CommandNext /\ UNCHANGED <<inspectVars, literal, decision, rawUrl, link, pair>>
        \/ /\ part = "literal"
           /\ (AnalyzeLiteral /\ UNCHANGED decision) \/ ClassifiesHost \/ DecidesAddress
           /\ UNCHANGED <<inspectVars, cmd, rawUrl, link, pair>>
        \/ part = "raw" /\ ParsesUrl /\ UNCHANGED <<inspectVars, cmd, literal, decision, link, pair>>
        \/ part = "link" /\ ScansLink /\ UNCHANGED <<inspectVars, cmd, literal, decision, rawUrl, pair>>
        \/ part = "pair" /\ Compares /\ UNCHANGED <<inspectVars, cmd, literal, decision, rawUrl, link>>
     /\ UNCHANGED <<allVars, searchVars, part>>
  \/ part = "async" /\ AsyncNext /\ UNCHANGED <<inspectVars, inputVars, searchVars, part>>
  \/ part = "search" /\ Cycle!Next /\ UNCHANGED <<inspectVars, inputVars, allVars, part>>
  \/ Answered

MCSpec == MCInit /\ [][MCNext]_MCvars

-----------------------------------------------------------------------------
(* The pipeline loses neither a finding nor a failure on its way: see      *)
(* LossIsReported and FindingsStayVisible of Inspect.                      *)
NothingIsDropped == LossIsReported /\ FindingsStayVisible

(* Every spelling of an address is read as that address, and classified as *)
(* what it is: see CanonicalRoundTrips of IpLiteral and NoDisguise of      *)
(* AddressRanges.                                                          *)
AddressesAreKnown == CanonicalRoundTrips /\ NoDisguise

(* An authority is the same one, or another, to every part that compares   *)
(* two: see RelationsAreSound of UrlRelation and LuresAreReported of       *)
(* RedirectParam.                                                          *)
AuthoritiesAreCompared == RelationsAreSound /\ LuresAreReported

(* Enrichment adds suspicion and takes none away, and an allowance for one *)
(* host never quiets a finding about another: see EvidenceOnlyAdds and     *)
(* SuppressionStaysWithItsHost of InspectAsync.                            *)
EvidenceIsWeighed == EvidenceOnlyAdds /\ SuppressionStaysWithItsHost

(* What a search names is one simple cycle of pending steps, and it names  *)
(* nothing only when there is none: see DependencyCycle.                   *)
CycleIsFound == part = "search" => Cycle!AnswerIsCycle /\ Cycle!EmptyMeansAcyclic
=============================================================================
