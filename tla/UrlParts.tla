------------------------------ MODULE UrlParts ------------------------------
(***************************************************************************)
(* From the tokens of a raw URL to its parts (parse/raw-parts.ts,          *)
(* parse.ts, host-facts.ts, context.ts), what is said of an input that has *)
(* none (failure.ts), and bounded decoding (decode.ts).  An authority is a *)
(* sequence of tokens: names, digit runs and delimiters.                   *)
(***************************************************************************)
EXTENDS Integers, Sequences, FiniteSets, SequencesExt

CONSTANTS
  Authorities,    \* sequences of tokens
  DecodeDepth,    \* how deep an input may be percent-encoded
  NoValue

VARIABLE rawUrl

Digits == {"0", "80", "99999"}     \* zeros, a number, and one beyond a port number
Lexemes == {"@", ":", "[", "]", "name", ".", "v6", "bad", "zwsp"} \cup Digits

PartsRecord ==
  [userinfo : Seq(Lexemes) \cup {NoValue}, rawHost : Seq(Lexemes),
   port : {"0", "80", NoValue}, bracketed : BOOLEAN]
ContextRecord ==
  [parts : PartsRecord, facts : [host : Seq(Lexemes), isIp : BOOLEAN, registrable : BOOLEAN]]

stripInvisible(s) ==
  FlattenSeq([n \in DOMAIN s |-> IF s[n] = "zwsp" THEN <<>> ELSE <<s[n]>>])

(* A run of digits is zeros with at most one number at their end. *)
DigitRuns(s) ==
  \A n \in 1..(Len(s) - 1) : {s[n], s[n + 1]} \subseteq Digits => s[n] = "0"

ASSUME AuthorityAssumption ==
  /\ Authorities \subseteq Seq(Lexemes)
  /\ \A s \in Authorities : DigitRuns(s) /\ DigitRuns(stripInvisible(s))
  /\ NoValue \notin Seq(Lexemes) \cup Lexemes \cup PartsRecord \cup ContextRecord
                    \cup {"http", "file", "data"}

allDigits(s) == s # <<>> /\ \A n \in DOMAIN s : s[n] \in Digits

(* Fault: a port number has no more than one digit run. *)
UnpaddedPort(s) == IF Len(s) = 1 /\ s[1] # "99999" THEN s[1] ELSE NoValue

(* Leading zeros say nothing: the number is the last of the run. *)
toPort(s) == IF Last(s) = "99999" THEN NoValue ELSE Last(s)

Positions(s, tok) == {n \in DOMAIN s : s[n] = tok}
lastIndexOf(s, tok) == IF Positions(s, tok) = {} THEN 0 ELSE Max(Positions(s, tok))
firstIndexOf(s, tok) == IF Positions(s, tok) = {} THEN 0 ELSE Min(Positions(s, tok))
From(s, n) == SubSeq(s, n, Len(s))

(* Label text, without an empty label; one root dot may end it. *)
hostIsValid(rawHost) ==
  LET clean == stripInvisible(rawHost)
      labels == IF clean # <<>> /\ Last(clean) = "." THEN Front(clean) ELSE clean
  IN  /\ labels # <<>>
      /\ \A n \in DOMAIN clean : clean[n] \in {"name", "."} \cup Digits
      /\ labels[1] # "." /\ Last(labels) # "."
      /\ \A n \in 1..(Len(labels) - 1) : ~(labels[n] = "." /\ labels[n + 1] = ".")

(* analyzeIpv4 and analyzeIpv6 of IpLiteral, as far as tokens show it:     *)
(* 99999 takes more than two bytes, so at most one part stands before it.  *)
isIpv4(host) ==
  LET bare == IF Len(host) > 1 /\ Last(host) = "." THEN Front(host) ELSE host
      dots == Positions(bare, ".")
  IN  /\ bare # <<>> /\ Range(bare) \subseteq Digits \cup {"."}
      /\ Cardinality(dots) <= 3
      /\ \A n \in dots : n \in 2..(Len(bare) - 1) /\ bare[n + 1] # "."
      /\ \A n \in Positions(bare, "99999") : n = Len(bare) /\ Cardinality(dots) <= 1
isIpv6(host) == host = <<"v6">>

RawParts(userinfo, rawHost, port, bracketed) ==
  [userinfo |-> userinfo, rawHost |-> rawHost, port |-> port, bracketed |-> bracketed]

hasParseableAuthorityIntroducer(url) ==
  IF url.scheme = NoValue THEN ~url.protocolRelative ELSE url.introducer \in {"", "//"}

bracketedParts(userinfo, hostport) ==
  LET close == firstIndexOf(hostport, "]")
      rawHost == SubSeq(hostport, 2, close - 1)
      rest == From(hostport, close + 1)
      port == toPort(From(rest, 2))
  IN  IF close = 0 \/ ~isIpv6(rawHost) THEN NoValue
      ELSE IF rest = <<>> THEN RawParts(userinfo, rawHost, NoValue, TRUE)
      ELSE IF rest[1] # ":" \/ ~allDigits(From(rest, 2)) \/ port = NoValue THEN NoValue
      ELSE RawParts(userinfo, rawHost, port, TRUE)

(* Fault: a port beyond the limit is read as part of the host. *)
PortOrHost(userinfo, hostport) ==
  LET colon == lastIndexOf(hostport, ":")
      digits == From(hostport, colon + 1)
  IN  IF colon # 0 /\ allDigits(digits)
      THEN RawParts(userinfo, SubSeq(hostport, 1, colon - 1), NoValue, FALSE)
      ELSE IF hostIsValid(hostport) THEN RawParts(userinfo, hostport, NoValue, FALSE) ELSE NoValue

unbracketedParts(userinfo, hostport) ==
  LET colon == lastIndexOf(hostport, ":")
      digits == From(hostport, colon + 1)
      named == colon # 0 /\ allDigits(digits)
      rawHost == IF named THEN SubSeq(hostport, 1, colon - 1) ELSE hostport
  IN  IF (named /\ toPort(digits) = NoValue) \/ ~hostIsValid(rawHost) THEN NoValue
      ELSE RawParts(userinfo, rawHost, IF named THEN toPort(digits) ELSE NoValue, FALSE)

(* Fault: the first "@" ends the userinfo. *)
SplitAtFirst(url) ==
  LET at == firstIndexOf(url.authority, "@")
      userinfo == IF at = 0 THEN NoValue ELSE SubSeq(url.authority, 1, at - 1)
      hostport == From(url.authority, at + 1)
  IN  IF url.opaque \/ (url.scheme = "file" /\ url.authority = <<>>)
      THEN RawParts(NoValue, <<>>, NoValue, FALSE)
      ELSE IF ~hasParseableAuthorityIntroducer(url) THEN NoValue
      ELSE IF hostport # <<>> /\ hostport[1] = "[" THEN bracketedParts(userinfo, hostport)
      ELSE unbracketedParts(userinfo, hostport)

(* The last "@" ends the userinfo. *)
splitRawParts(url) ==
  LET at == lastIndexOf(url.authority, "@")
      userinfo == IF at = 0 THEN NoValue ELSE SubSeq(url.authority, 1, at - 1)
      hostport == From(url.authority, at + 1)
  IN  IF url.opaque \/ (url.scheme = "file" /\ url.authority = <<>>)
      THEN RawParts(NoValue, <<>>, NoValue, FALSE)
      ELSE IF ~hasParseableAuthorityIntroducer(url) THEN NoValue
      ELSE IF hostport # <<>> /\ hostport[1] = "[" THEN bracketedParts(userinfo, hostport)
      ELSE unbracketedParts(userinfo, hostport)

(* Without a scheme one undotted label is a word, not a host. *)
isBareSingleLabel(url, parts) ==
  LET host == stripInvisible(parts.rawHost)
  IN  /\ url.scheme = NoValue /\ ~parts.bracketed
      /\ host # <<>> /\ "." \notin Range(host) /\ ~isIpv4(host)

parseRawParts(url) ==
  LET split == splitRawParts(url)
  IN  IF split = NoValue THEN NoValue
      ELSE IF isBareSingleLabel(url, split) THEN NoValue ELSE split

(* bareSingleLabelHost and describeParseFailure: a word is called one, an  *)
(* input with a scheme is described by it, anything else is not.           *)
describeParseFailure(url) ==
  LET split == splitRawParts(url)
  IN  IF url.scheme # NoValue THEN "scheme"
      ELSE IF split # NoValue /\ isBareSingleLabel(url, split) THEN "single label" ELSE "none"

(* deriveHostFacts: the host without invisible characters, and its kind. *)
deriveHostFacts(rawHost) ==
  LET host == stripInvisible(rawHost)
      isIp == host # <<>> /\ (isIpv4(host) \/ isIpv6(host))
  IN  [host |-> host, isIp |-> isIp,
       registrable |-> host # <<>> /\ ~isIp]       \* PSL is asked

(* parse and parsePrepared with buildInspectionContext. *)
parsedContext(url) ==
  LET parts == parseRawParts(url)
  IN  IF parts = NoValue THEN NoValue
      ELSE [parts |-> parts, facts |-> deriveHostFacts(parts.rawHost)]

(* boundedDecode of an input encoded depth times: decodeOnce takes one     *)
(* level off, and leaves plain text alone.                                 *)
decodeOnce(depth) == IF depth = 0 THEN 0 ELSE depth - 1

(* Fault: the last pass is not looked behind. *)
NeverTruncated(depth, maxDepth) ==
  LET pass[n \in 0..maxDepth] == IF n = 0 THEN depth ELSE decodeOnce(pass[n - 1])
      passes == CHOOSE n \in 0..maxDepth :
                  /\ n = maxDepth \/ decodeOnce(pass[n]) = pass[n]
                  /\ \A m \in 0..(n - 1) : decodeOnce(pass[m]) # pass[m]
  IN  [decoded |-> pass[passes], passes |-> passes, truncated |-> FALSE]

boundedDecode(depth, maxDepth) ==
  LET pass[n \in 0..maxDepth] == IF n = 0 THEN depth ELSE decodeOnce(pass[n - 1])
      passes == CHOOSE n \in 0..maxDepth :
                  /\ n = maxDepth \/ decodeOnce(pass[n]) = pass[n]
                  /\ \A m \in 0..(n - 1) : decodeOnce(pass[m]) # pass[m]
  IN  [decoded |-> pass[passes], passes |-> passes,
       truncated |-> decodeOnce(pass[passes]) # pass[passes]]

-----------------------------------------------------------------------------
RawUrls ==
  [scheme : {NoValue, "http", "file", "data"}, opaque : BOOLEAN, protocolRelative : BOOLEAN,
   introducer : {"", "//", "///"}, authority : Authorities]

(* SCHEME_RE and looksLikeHostPort: a name before the first colon is a     *)
(* scheme, unless it has a dot or a port follows.                          *)
readAsScheme(s) ==
  LET colon == firstIndexOf(s, ":")
      name == SubSeq(s, 1, colon - 1)
  IN  /\ colon > 1 /\ name[1] = "name" /\ Range(name) \subseteq {"name"} \cup Digits
      /\ ~allDigits(From(s, colon + 1))

(* What tokenizeRawUrl can make of an input. *)
Tokenized(url) ==
  /\ url.protocolRelative <=> url.scheme = NoValue /\ url.introducer # ""
  /\ url.opaque <=> url.scheme = "data" /\ url.introducer = ""
  /\ url.opaque => url.authority = <<>>
  /\ url.scheme = NoValue /\ url.introducer = "" => ~readAsScheme(url.authority)

UrlInit ==
  \E url \in {u \in RawUrls : Tokenized(u)} :
    rawUrl = [url |-> url, asked |-> FALSE, context |-> NoValue, failure |-> "none"]

ParsesUrl ==
  /\ ~rawUrl.asked
  /\ LET context == parsedContext(rawUrl.url)
     IN  rawUrl' = [rawUrl EXCEPT !.asked = TRUE, !.context = context,
                      !.failure = IF context = NoValue THEN describeParseFailure(rawUrl.url)
                                  ELSE "none"]

-----------------------------------------------------------------------------
(* The authority put together again, with so many zeros before the port. *)
Rejoined(parts, zeros) ==
  (IF parts.userinfo = NoValue THEN <<>> ELSE parts.userinfo \o <<"@">>)
  \o (IF parts.bracketed THEN <<"[">> \o parts.rawHost \o <<"]">> ELSE parts.rawHost)
  \o (IF parts.port = NoValue THEN <<>>
      ELSE <<":">> \o [n \in 1..zeros |-> "0"] \o <<parts.port>>)

(* What an authority says when it is cut at an "@" and a ":" behind it (0: *)
(* at none): nothing unless a host and a port number are left.             *)
CutAs(authority, at, colon) ==
  LET hostport == From(authority, at + 1)
      host == IF colon = 0 THEN hostport ELSE SubSeq(hostport, 1, colon - 1)
      digits == From(hostport, colon + 1)
      literal == host = <<"[", "v6", "]">>
  IN  IF /\ literal \/ hostIsValid(host)
         /\ colon = 0 \/ (allDigits(digits) /\ Last(digits) # "99999")
      THEN RawParts(IF at = 0 THEN NoValue ELSE SubSeq(authority, 1, at - 1),
                    IF literal THEN <<"v6">> ELSE host,
                    IF colon = 0 THEN NoValue ELSE Last(digits), literal)
      ELSE NoValue

(* A parse loses nothing of the authority and moves nothing between its    *)
(* parts: userinfo, host and port put together again are the authority, up *)
(* to leading zeros of the port, and the host holds no delimiter; whatever *)
(* cut of the authority leaves a host and a port number is the one that is *)
(* parsed, and nothing that has such a cut is refused but a bare word,     *)
(* which would have been a URL of that host with a scheme before it, as    *)
(* its description says (splitRawParts, toPort, describeSchemelessFailure);*)
(* decoding says it was cut short exactly when another pass would change   *)
(* the text (boundedDecode).                                               *)
PartsAreLossless ==
  LET url == rawUrl.url
      parts == rawUrl.context.parts
      Same(p) == \E zeros \in 0..Len(url.authority) : Rejoined(p, zeros) = url.authority
  IN  rawUrl.asked =>
        /\ rawUrl.context # NoValue /\ ~url.opaque =>
             /\ Same(parts)
             /\ Range(parts.rawHost) \cap {"@", ":", "[", "]", "bad"} = {}
             /\ parts.rawHost # <<>> \/ url.scheme = "file"
        /\ ~url.opaque /\ hasParseableAuthorityIntroducer(url) =>
             \A at \in {0} \cup Positions(url.authority, "@") :
               \A colon \in {0} \cup Positions(From(url.authority, at + 1), ":") :
                 LET cut == CutAs(url.authority, at, colon)
                 IN  cut # NoValue => \/ rawUrl.context # NoValue /\ parts = cut
                                      \/ rawUrl.failure = "single label"
        /\ rawUrl.failure = "single label" =>
             LET named == parsedContext([url EXCEPT !.scheme = "http", !.introducer = "//"])
             IN  named # NoValue /\ Same(named.parts)
        /\ \A depth \in 0..DecodeDepth, limit \in 0..2 :
             LET d == boundedDecode(depth, limit)
             IN  (d.truncated <=> depth > limit) /\ d.passes <= limit
=============================================================================
