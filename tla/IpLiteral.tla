------------------------------ MODULE IpLiteral ------------------------------
(***************************************************************************)
(* Address literals (parse/ip.ts): the forms a browser reads as an IPv4    *)
(* address, IPv6 text with "::" and dotted tails, their canonical text and *)
(* the IPv4 address an IPv6 one carries.  The widths are parameters: 256   *)
(* values per byte and eight groups in the code.  A literal is the         *)
(* sequence of its parts; case is folded.                                  *)
(***************************************************************************)
EXTENDS Integers, Sequences, FiniteSets, SequencesExt

CONSTANTS
  Byte,             \* values of a byte
  Groups,           \* groups of an IPv6 address, the last two hold an IPv4 one
  LOW32_WRAPPERS,   \* [hextets, excludeLow], in order
  Ipv4Texts, Ipv6Texts,
  Null              \* no address

VARIABLE literal

Hextet == Byte * Byte

Power(b, n) == LET p[k \in 0..n] == IF k = 0 THEN 1 ELSE p[k - 1] * b IN p[n]

(* A part of a dotted text; a piece of IPv6 text: a hextet (with or        *)
(* without leading zeros) or a dotted quad.                                *)
Ipv4Part == [hex : {TRUE}, digits : Seq(0..15)] \cup [hex : {FALSE}, digits : Seq(0..9)]
Ipv6Piece == [kind : {"hex", "quad"}, value : Nat, zeros : BOOLEAN]
Ipv6Text == [left : Seq(Ipv6Piece), double : BOOLEAN, right : Seq(Ipv6Piece)]

(* A group is a number of bits; a byte has up to three decimal digits.     *)
ASSUME LiteralAssumption ==
  /\ Byte \in 2..1000 /\ \E n \in 1..20 : Power(2, n) = Hextet
  /\ Groups \in Nat /\ Groups >= 2
  /\ LOW32_WRAPPERS \in Seq([hextets : Seq(Nat), excludeLow : SUBSET Nat])
  /\ Ipv4Texts \subseteq Seq(Ipv4Part)
  /\ Ipv6Texts \subseteq {t \in Ipv6Text : ~t.double => t.right = <<>>}
  /\ Null \notin Seq(Nat) \cup [value : Nat, nonDecimal : BOOLEAN]
  /\ Null \notin [canonical : Ipv6Text, embedded : Int, obfuscated : BOOLEAN]

(* The number that digits, parts or bytes stand for. *)
Denotes(digits, radix) ==
  LET value[n \in 0..Len(digits)] ==
        IF n = 0 THEN 0 ELSE value[n - 1] * radix + digits[n]
  IN  value[Len(digits)]

(* A part is a run of digits, after "0x" when hex. *)
parsePart(part) ==
  LET d == part.digits
      octal == Len(d) > 1 /\ d[1] = 0 /\ \A n \in DOMAIN d : d[n] < 8
  IN  IF d = <<>> THEN Null
      ELSE [value |-> Denotes(d, IF part.hex THEN 16 ELSE IF octal THEN 8 ELSE 10),
            nonDecimal |-> part.hex \/ (Len(d) > 1 /\ d[1] = 0)]

toDotted(n) ==
  [i \in 1..4 |-> (n \div Power(Byte, 4 - i)) % Byte]

(* Fault: only a last part that cannot fit any address is refused. *)
LastUnchecked(last, remaining) == last >= Power(Byte, 4)

lastTooLarge(last, remaining) == last >= Power(Byte, remaining)

(* A text that ends in a dot ends in an empty part; "." alone is left.      *)
NoText == [hex |-> FALSE, digits |-> <<>>]

stripTrailingRootDot(parts) ==
  IF Len(parts) > 1 /\ Last(parts) = NoText /\ parts # <<NoText, NoText>>
  THEN Front(parts) ELSE parts

analyzeParts(parts) ==
  LET parsed == [n \in DOMAIN parts |-> parsePart(parts[n])]
      last == parsed[Len(parts)].value
      remaining == 4 - (Len(parts) - 1)
      leading == Denotes([n \in 1..(Len(parts) - 1) |-> parsed[n].value], Byte)
      full == leading * Power(Byte, remaining) + last
  IN  IF \/ Len(parts) \notin 1..4
         \/ \E n \in DOMAIN parsed : parsed[n] = Null
         \/ lastTooLarge(last, remaining)
         \/ \E n \in 1..(Len(parts) - 1) : parsed[n].value > Byte - 1
      THEN Null
      ELSE [canonical |-> toDotted(full),
            obfuscated |-> Len(parts) # 4 \/ \E n \in DOMAIN parsed : parsed[n].nonDecimal]

analyzeIpv4(text) == analyzeParts(stripTrailingRootDot(text))

-----------------------------------------------------------------------------
(* IPv6 text: pieces before and after "::".                                *)
Hex(value) == [kind |-> "hex", value |-> value, zeros |-> FALSE]
Quad(value) == [kind |-> "quad", value |-> value, zeros |-> FALSE]

(* A quad with leading zeros, or a byte that is none, is refused. *)
parseStrictDottedQuad(piece) == ~piece.zeros /\ piece.value < Power(Byte, 4)

parseHextets(pieces) ==
  IF \E n \in DOMAIN pieces :
       \/ pieces[n].kind = "quad" /\ (n # Len(pieces) \/ ~parseStrictDottedQuad(pieces[n]))
       \/ pieces[n].kind = "hex" /\ pieces[n].value >= Hextet     \* five digits
  THEN Null
  ELSE FlattenSeq([n \in DOMAIN pieces |->
         IF pieces[n].kind = "hex" THEN <<pieces[n].value>>
         ELSE <<pieces[n].value \div Hextet, pieces[n].value % Hextet>>])

(* The eight groups that a text names, or Null. *)
groupsOf(text) ==
  LET left == parseHextets(text.left)
      right == parseHextets(text.right)
      missing == Groups - (Len(left) + Len(right))
  IN  IF \/ left = Null \/ right = Null
         \/ text.double /\ \E n \in DOMAIN text.left : text.left[n].kind = "quad"
      THEN Null
      ELSE IF text.double
           THEN IF missing < 1 THEN Null ELSE left \o [n \in 1..missing |-> 0] \o right
           ELSE IF Len(left) # Groups THEN Null ELSE left

(* The run of zeros that ends at a group, and the best one so far.         *)
NoZeros == [start |-> 0, len |-> 0, bestStart |-> 0, bestLen |-> 0]

(* Fault: a later run of the same length wins. *)
AsLong(len, bestLen) == len >= bestLen

Longer(len, bestLen) == len > bestLen

Extend(run, n) ==
  LET start == IF run.start = 0 THEN n ELSE run.start
      len == run.len + 1
  IN  [start |-> start, len |-> len,
       bestStart |-> IF Longer(len, run.bestLen) THEN start ELSE run.bestStart,
       bestLen |-> IF Longer(len, run.bestLen) THEN len ELSE run.bestLen]

(* The loop over the groups. *)
longestRun(groups) ==
  LET run[n \in 0..Len(groups)] ==
        IF n = 0 THEN NoZeros
        ELSE IF groups[n] = 0 THEN Extend(run[n - 1], n)
        ELSE [run[n - 1] EXCEPT !.start = 0, !.len = 0]
  IN  run[Len(groups)]

(* The groups around the run as text, with a dotted tail if there is one. *)
Elided(groups, tail) ==
  LET run == longestRun(groups)
      hex == [n \in DOMAIN groups |-> Hex(groups[n])]
  IN  IF run.bestLen < 2 THEN [left |-> hex \o tail, double |-> FALSE, right |-> <<>>]
      ELSE [left |-> SubSeq(hex, 1, run.bestStart - 1), double |-> TRUE,
            right |-> SubSeq(hex, run.bestStart + run.bestLen, Len(hex)) \o tail]

canonicalizeIpv6(groups) == Elided(groups, <<>>)

mixedCanonicalIpv6(groups, low) == Elided(SubSeq(groups, 1, Groups - 2), <<Quad(low)>>)

low32(groups) == groups[Groups - 1] * Hextet + groups[Groups]

(* The first wrapper whose prefix matches decides. *)
unwrapLow32Ipv4(groups) ==
  LET matching == {n \in DOMAIN LOW32_WRAPPERS :
                     LOW32_WRAPPERS[n].hextets = SubSeq(groups, 1, Groups - 2)}
  IN  IF matching = {} THEN -1
      ELSE IF low32(groups) \in LOW32_WRAPPERS[Min(matching)].excludeLow THEN -1
           ELSE low32(groups)

analyzeIpv6(text) ==
  LET groups == groupsOf(text)
  IN  IF groups = Null THEN Null
      ELSE LET canonical == canonicalizeIpv6(groups)
               embedded == unwrapLow32Ipv4(groups)
           IN  [canonical |-> canonical, embedded |-> embedded,
                obfuscated |-> /\ text # canonical
                               /\ \/ embedded = -1
                                  \/ text # mixedCanonicalIpv6(groups, embedded)]

-----------------------------------------------------------------------------
LiteralInit ==
  \/ \E text \in Ipv4Texts : literal = [family |-> 4, text |-> text, answer |-> Null, asked |-> FALSE]
  \/ \E text \in Ipv6Texts : literal = [family |-> 6, text |-> text, answer |-> Null, asked |-> FALSE]

AnalyzeLiteral ==
  /\ ~literal.asked
  /\ literal' = [literal EXCEPT !.asked = TRUE,
                   !.answer = IF literal.family = 4 THEN analyzeIpv4(literal.text)
                              ELSE analyzeIpv6(literal.text)]

-----------------------------------------------------------------------------
(* A byte in decimal, without leading zeros. *)
Decimal(n) ==
  [hex |-> FALSE,
   digits |-> IF n < 10 THEN <<n>>
              ELSE IF n < 100 THEN <<n \div 10, n % 10>>
              ELSE <<n \div 100, (n \div 10) % 10, n % 10>>]
Dotted(bytes) == [n \in DOMAIN bytes |-> Decimal(bytes[n])]

(* The number that the parts of a literal stand for. *)
Worth(parts) ==
  LET value(n) == parsePart(parts[n]).value
  IN  Denotes([n \in 1..(Len(parts) - 1) |-> value(n)], Byte) * Power(Byte, 5 - Len(parts))
        + value(Len(parts))

(* RFC 5952: the longest run of zero groups, of at least two, the first of *)
(* equals.                                                                 *)
Zeros(groups, start, len) ==
  /\ start >= 1 /\ start + len - 1 <= Len(groups)
  /\ \A n \in start..(start + len - 1) : groups[n] = 0

Rfc5952(groups, text) ==
  LET len == Groups - Len(text.left) - Len(text.right)
      start == Len(text.left) + 1
  IN  IF text.double
      THEN /\ len >= 2 /\ Zeros(groups, start, len)
           /\ \A s \in 1..Groups, l \in len..Groups :
                Zeros(groups, s, l) => l = len /\ s >= start
      ELSE ~\E s \in 1..Groups : Zeros(groups, s, 2)

(* Every literal that is read stands for the address its canonical text    *)
(* stands for, that text reads back to itself and counts as plain, and a   *)
(* literal counts as plain only when it is the one plain text of its       *)
(* address (or the dotted one of an embedded IPv4 address): two spellings  *)
(* of one address are never two addresses to a comparison or a range check *)
(* (analyzeIpv4, canonicalizeIpv6, mixedCanonicalIpv6).  A root dot is no  *)
(* part of an IPv4 text.                                                   *)
CanonicalRoundTrips ==
  literal.asked /\ literal.answer # Null =>
    LET a == literal.answer
        parts == stripTrailingRootDot(literal.text)
    IN  IF literal.family = 4
        THEN /\ Denotes(a.canonical, Byte) = Worth(parts)
             /\ analyzeIpv4(Dotted(a.canonical)) = [canonical |-> a.canonical, obfuscated |-> FALSE]
             /\ ~a.obfuscated => parts = Dotted(a.canonical)
        ELSE LET groups == groupsOf(literal.text)
             IN  /\ groupsOf(a.canonical) = groups
                 /\ Rfc5952(groups, a.canonical)
                 /\ ~analyzeIpv6(a.canonical).obfuscated
                 /\ a.embedded # -1 =>
                      LET mixed == mixedCanonicalIpv6(groups, a.embedded)
                      IN  groupsOf(mixed) = groups /\ ~analyzeIpv6(mixed).obfuscated
                 /\ ~a.obfuscated =>
                      \/ literal.text = a.canonical
                      \/ a.embedded # -1 /\ Last(literal.text.left \o literal.text.right).kind = "quad"
=============================================================================
