--------------------------- MODULE EmbeddedWrapper ---------------------------
(***************************************************************************)
(* Local decoding of security-vendor wrapper URLs                          *)
(* (resolution/embedded-wrapper.ts): one wrapper may hold another, and the *)
(* enricher unwraps them one by one to a bounded depth.                    *)
(*                                                                         *)
(* What the current URL is, as far as the decoder looks, is drawn when it  *)
(* is revealed: a URL that is no wrapper, or one of a vendor's forms, each *)
(* with the parts the decoder checks.                                      *)
(***************************************************************************)
EXTENDS Integers, Sequences, FiniteSets, SequencesExt

CONSTANTS
  MaxDepth,      \* boundedDepth(options.maxDepth)
  V3Template     \* texts the v3 payload decoder is checked on: sequences of "a", "!" and "?"

VARIABLE wrap

(***************************************************************************)
(* A URL.  size says whether it is within maxUrlLength; exact that it is   *)
(* plain https without port and credentials; u and aux count the query     *)
(* parameters of those names; destination is what the payload decodes to.  *)
(***************************************************************************)
Vendor == {"microsoft-safe-links", "proofpoint-url-defense"}
Destination == {"undecodable", "too-long", "not-a-url", "url"}
NotWrapped == [vendor |-> "none", size |-> "fits", exact |-> TRUE, path |-> "/", hash |-> FALSE,
               u |-> 0, aux |-> 0, destination |-> "undecodable"]
Wrapped == [vendor : Vendor, size : {"fits", "too-long"}, exact : BOOLEAN,
            path : {"/", "/v1/url", "/v2/url", "/v3/", "other"}, hash : BOOLEAN,
            u : 0..2, aux : 0..2, destination : Destination]

Status(status, code) == [status |-> status, code |-> code]
unsupported == Status("unsupported", "unsupported-wrapper-format")
malformed(code) == Status("malformed", code)

validateDecoded(url) ==
  CASE url.destination = "too-long" -> malformed("decoded-url-too-long")
    [] url.destination = "not-a-url" -> malformed("invalid-decoded-url")
    [] OTHER -> Status("decoded", "none")

(* Each named parameter must be there exactly once. *)
exactQueryParameter(url) == url.u = 1 /\ url.destination # "undecodable"
exactRawQueryParameter(url) == url.u = 1
hasExactQueryParameter(url) == url.aux = 1

decodeMicrosoftSafeLinks(url) ==
  IF url.path # "/" \/ url.hash THEN unsupported
  ELSE IF ~exactQueryParameter(url) THEN malformed("malformed-wrapper")
  ELSE validateDecoded(url)

(* v1 wants its key, v2 its d or c, v3 keeps its payload in the path. *)
decodeProofpoint(url) ==
  IF url.hash \/ url.path \in {"/", "other"} THEN unsupported
  ELSE IF \/ url.destination = "undecodable"
          \/ url.path # "/v3/" /\ ~(exactRawQueryParameter(url) /\ hasExactQueryParameter(url))
       THEN malformed("malformed-wrapper")
  ELSE validateDecoded(url)

wrapperVendor(url) == url.vendor
isExactHttpsWrapper(url) == url.exact

decodeEmbeddedWrapper(url) ==
  IF wrapperVendor(url) = "none" THEN Status("not-wrapper", "none")
  ELSE IF url.size = "too-long" THEN malformed("decoded-url-too-long")
  ELSE IF ~isExactHttpsWrapper(url) THEN unsupported
  ELSE IF url.vendor = "microsoft-safe-links" THEN decodeMicrosoftSafeLinks(url)
  ELSE decodeProofpoint(url)

(***************************************************************************)
(* The v3 payload: "*" stands for one replaced character, "**" and a run   *)
(* code for two or more.  Nothing may be left over, or missing.            *)
(***************************************************************************)
RunCode == <<"A", "B", "C", "D">>
runIndex(c) == SelectInSeq(RunCode, LAMBDA x : x = c) - 1

(* Fault: the code counts the characters after the first. *)
RunOffByOne(c) == runIndex(c) + 1

runLength(c) == runIndex(c) + 2

At(template, i) == IF i \in DOMAIN template THEN template[i] ELSE "end"
Failed == [ok |-> FALSE, text |-> <<>>]

(* One turn of the loop, at position i with the replacements from r on;    *)
(* what follows is rest.                                                   *)
decodeToken(template, replacements, rest, i, r) ==
  LET isRun == At(template, i + 1) = "*" /\ i + 2 \in DOMAIN template
      length == IF isRun THEN runLength(template[i + 2]) ELSE 1
      next == i + IF isRun THEN 3 ELSE 1
  IN  IF i = Len(template) + 1 THEN [ok |-> r = Len(replacements) + 1, text |-> <<>>]
      ELSE IF template[i] # "*" THEN [rest[i + 1][r] EXCEPT !.text = <<template[i]>> \o @]
      ELSE IF \/ isRun /\ runIndex(template[i + 2]) < 0
              \/ r + length > Len(replacements) + 1
           THEN Failed
      ELSE [rest[next][r + length] EXCEPT !.text = SubSeq(replacements, r, r + length - 1) \o @]

decodeProofpointV3Payload(template, replacements) ==
  LET decode[i \in 1..Len(template) + 1] ==
        [r \in 1..Len(replacements) + 1 |-> decodeToken(template, replacements, decode, i, r)]
  IN  decode[1][1]

(* How Proofpoint writes a text: a run of replaced characters at its first *)
(* one.                                                                    *)
Special == {"!", "?"}
specials(text) ==
  FlattenSeq([i \in DOMAIN text |-> IF text[i] \in Special THEN <<text[i]>> ELSE <<>>])
RunFrom(text, i) ==
  CHOOSE n \in 0..Len(text) : /\ \A k \in 0..(n - 1) : At(text, i + k) \in Special
                             /\ At(text, i + n) \notin Special
encodeV3(text) ==
  FlattenSeq([i \in DOMAIN text |->
    IF text[i] \notin Special THEN <<text[i]>>
    ELSE IF At(text, i - 1) \in Special THEN <<>>
    ELSE IF RunFrom(text, i) = 1 THEN <<"*">>
    ELSE <<"*", "*", RunCode[RunFrom(text, i) - 1]>>])

(* The codes are enough for the runs. *)
ASSUME WrapAssumption ==
  /\ MaxDepth \in Nat \ {0}
  /\ V3Template \subseteq Seq({"a"} \cup Special)
  /\ \A text \in V3Template : \A i \in DOMAIN text : RunFrom(text, i) <= 5

-----------------------------------------------------------------------------
(* The enricher's loop. *)
WrapInit ==
  \E url \in {NotWrapped} \cup Wrapped :
    wrap = [at |-> "loop", url |-> url, depth |-> 0, aborted |-> FALSE, outcomes |-> <<>>]

WrapEnds(outcomes) ==
  wrap' = [wrap EXCEPT !.at = "returned", !.outcomes = @ \o outcomes]

WrapAborted ==
  /\ wrap.at = "loop" /\ wrap.aborted
  /\ WrapEnds(<<Status("skipped", "caller-aborted")>>)

(* Fault: at the bound the loop just stops. *)
DepthUnsaid ==
  /\ wrap.at = "loop" /\ ~wrap.aborted /\ wrap.depth >= MaxDepth
  /\ WrapEnds(<<>>)

DepthExceeded ==
  /\ wrap.at = "loop" /\ ~wrap.aborted /\ wrap.depth >= MaxDepth
  /\ WrapEnds(IF wrapperVendor(wrap.url) = "none" THEN <<>>
              ELSE <<Status("failure", "wrapper-depth-exceeded")>>)

Unwraps == wrap.at = "loop" /\ ~wrap.aborted /\ wrap.depth < MaxDepth

WrapStops ==
  /\ Unwraps
  /\ LET decoded == decodeEmbeddedWrapper(wrap.url)
     IN  \/ /\ decoded.status = "not-wrapper"
            /\ WrapEnds(IF wrap.outcomes = <<>> THEN <<Status("no-hit", "none")>> ELSE <<>>)
         \/ decoded.status = "unsupported" /\ WrapEnds(<<Status("skipped", decoded.code)>>)
         \/ decoded.status = "malformed" /\ WrapEnds(<<Status("failure", decoded.code)>>)

(* A destination is inspected offline and may be a wrapper itself. *)
WrapDecodes ==
  /\ Unwraps /\ decodeEmbeddedWrapper(wrap.url).status = "decoded"
  /\ \E next \in {NotWrapped} \cup Wrapped :
       wrap' = [wrap EXCEPT !.depth = @ + 1, !.url = next,
                            !.outcomes = Append(@, Status("success", "none"))]

WrapAborts ==
  /\ wrap.at = "loop" /\ ~wrap.aborted
  /\ wrap' = [wrap EXCEPT !.aborted = TRUE]

WrapNext == WrapAborted \/ DepthExceeded \/ WrapStops \/ WrapDecodes \/ WrapAborts

-----------------------------------------------------------------------------
(* Unwrapping tells all it did: every layer that was decoded stays on      *)
(* record whatever follows, at most MaxDepth of them; "no hit" is said     *)
(* only of an input that is no wrapper; and a wrapper that is left         *)
(* unopened, by the depth bound, by an abort or by its form, is reported   *)
(* (enrich of createEmbeddedWrapperEnricher).                              *)
UnopenedIsReported ==
  wrap.at = "returned" =>
    LET decoded == {n \in DOMAIN wrap.outcomes : wrap.outcomes[n].status = "success"}
    IN  /\ Cardinality(decoded) = wrap.depth /\ wrap.depth <= MaxDepth
        /\ wrap.url.vendor # "none" => Last(wrap.outcomes).status \in {"skipped", "failure"}
        /\ wrap.outcomes # <<>> /\ wrap.outcomes[1].status = "no-hit" =>
             wrap.depth = 0 /\ wrap.url = NotWrapped
        /\ wrap.outcomes # <<>>

(* Decoding a v3 payload gives back the text it was made of, for every     *)
(* arrangement and order of single and repeated specials, and refuses it   *)
(* when a replacement is missing or left over (decodeProofpointV3Payload). *)
V3RoundTrip ==
  \A text \in V3Template :
    LET template == encodeV3(text)
        replacements == specials(text)
    IN  /\ decodeProofpointV3Payload(template, replacements) = [ok |-> TRUE, text |-> text]
        /\ ~decodeProofpointV3Payload(template, Append(replacements, "!")).ok
        /\ replacements # <<>> => ~decodeProofpointV3Payload(template, Tail(replacements)).ok
=============================================================================
