----------------------------- MODULE CommandLine -----------------------------
(***************************************************************************)
(* The ways into the offline check: the command line (cli/src: args.ts,    *)
(* cli.ts, lines.ts, policy.ts), the library call with a policy, and the   *)
(* MCP tools (mcp/src).  inspect itself is reduced to what a verdict says  *)
(* of the URL and what the policy axes add to it.                          *)
(***************************************************************************)
EXTENDS Integers, Sequences, FiniteSets, SequencesExt, PolicyAxes

CONSTANTS
  Port,       \* the texts of one to five digits that say 0 to 65535
  Calls,      \* argument vectors, library calls and tool calls of the run
  Texts,      \* contents of a file or of standard input: sequences of lines
  verdictOf,  \* what inspect finds out about each URL
  Comments    \* the texts that begin with "#"

VARIABLE cmd

(* A line is its text and what stands around it: nothing, padding, or a    *)
(* line separator (U+2028, U+2029) before or behind it.                    *)
GivenLine == [url : DOMAIN verdictOf, pad : {"none", "space", "leading", "trailing"}]

SEVERITY_ORDER == <<"info", "low", "medium", "high", "critical">>
severityRank(s) == CHOOSE n \in DOMAIN SEVERITY_ORDER : SEVERITY_ORDER[n] = s
isSeverity(s) == s \in Range(SEVERITY_ORDER)

CommandInit ==
  \E call \in Calls :
    cmd = [call |-> call, at |-> "parse", lines |-> <<>>, urls |-> <<>>, results |-> <<>>,
           out |-> <<>>, exit |-> -1]

-----------------------------------------------------------------------------
(* args.ts *)
ListFlags == {"denyTlds", "allowTlds", "denyHosts", "allowHosts", "denySchemes",
              "allowSchemes", "denyPorts", "idnAllow"}
Switches == {"denyNonStandardPorts", "allowIdn"}

(* Fault: a joined value is let through as one name. *)
JoinedIsAName(value) == TRUE

assertNotJoined(value) == ~trimListValue(value).joined

parsePort(value) == value.name \in Port

(* parseArgs' own errors come first, then help and version, then the rest. *)
parseCli(call) ==
  IF call.unknownFlag THEN "usage"
  ELSE IF call.help THEN "help"
  ELSE IF /\ call.command \in {"check", "batch"}
          /\ isSeverity(call.failOn)
          /\ \A flag \in ListFlags : \A v \in call.flags[flag] : assertNotJoined(v)
          /\ \A v \in call.flags["denyPorts"] : parsePort(v)
          /\ call.command = "batch" => Len(call.rest) = 1 /\ call.rest[1] # ""
       THEN call.command ELSE "usage"

readsStdin(call) ==
  parseCli(call) = "check" /\ (call.rest = <<>> \/ call.rest = <<"-">>)

readsText(call) == call.entry = "cli" /\ (parseCli(call) = "batch" \/ readsStdin(call))
takesArguments(call) ==
  IF call.entry = "cli" THEN parseCli(call) = "check" /\ ~readsStdin(call) ELSE TRUE

Exits(code) == cmd' = [cmd EXCEPT !.at = "done", !.exit = code]

UsageFailure ==
  cmd.at = "parse" /\ cmd.call.entry = "cli" /\ parseCli(cmd.call) = "usage" /\ Exits(2)

HelpOrVersion ==
  cmd.at = "parse" /\ cmd.call.entry = "cli" /\ parseCli(cmd.call) = "help" /\ Exits(0)

-----------------------------------------------------------------------------
(* lines.ts: the separators, which inspect reports, are not trimmed away.  *)

(* Fault: String.prototype.trim. *)
TrimEverything(line) == [line EXCEPT !.pad = "none"]

trimPreservingSignal(line) == IF line.pad = "space" THEN [line EXCEPT !.pad = "none"] ELSE line

(* Fault: a line that keeps a separator is inspected whatever it says. *)
SkippedWhole(line) == line.pad = "none" /\ (line.url = "" \/ line.url \in Comments)

skippedLine(line) ==
  (line.url = "" /\ line.pad = "none") \/ (line.url \in Comments /\ line.pad # "leading")

(* The elements of s at the positions S, in order. *)
Nth(S, n) == CHOOSE k \in S : Cardinality({j \in S : j <= k}) = n
Keep(s, S) == [n \in 1..Cardinality(S) |-> s[Nth(S, n)]]

parseUrlLines(lines) ==
  LET trimmed == [n \in DOMAIN lines |-> trimPreservingSignal(lines[n])]
  IN  Keep(trimmed, {n \in DOMAIN lines : ~skippedLine(trimmed[n])})

Argument(url) == [url |-> url, pad |-> "none"]

(* run: the URLs of the arguments, of a file or of standard input. *)
CannotRead ==
  /\ cmd.at = "parse" /\ readsText(cmd.call)     \* or stdin is a terminal
  /\ Exits(2)

ReadsText ==
  /\ cmd.at = "parse" /\ readsText(cmd.call)
  /\ \E text \in Texts :
       cmd' = [cmd EXCEPT !.at = "inspect", !.lines = text, !.urls = parseUrlLines(text)]

TakesArguments ==
  /\ cmd.at = "parse" /\ takesArguments(cmd.call)
  /\ LET given == [n \in DOMAIN cmd.call.rest |-> Argument(cmd.call.rest[n])]
     IN  cmd' = [cmd EXCEPT !.at = "inspect", !.lines = given, !.urls = given]

-----------------------------------------------------------------------------
(* runInspections hands on the keys that have a value; a library caller    *)
(* hands on what it likes; a tool hands on nothing but the agent mode.     *)
inspectOptions(call) ==
  IF call.entry = "cli"
  THEN [key \in DOMAIN call.flags |->
          IF key \in Switches THEN call.flags[key]
          ELSE IF call.flags[key] = {} THEN Undefined ELSE call.flags[key]]
  ELSE call.flags

(* A tool call's own agentMode, else the server's LINKLINT_AGENT_MODE. *)
resolveAgentMode(perCall, serverDefault) ==
  IF perCall = Undefined THEN serverDefault ELSE perCall

parseAgentModeEnv(value) == value \in {"1", "true", "yes", "on"}

agentMode(call) ==
  IF call.entry = "mcp" THEN resolveAgentMode(call.agent, parseAgentModeEnv(call.env))
  ELSE call.agent = TRUE

(* inspect trims its input and reports the separators it trims: an         *)
(* invisible_char, of weight 1.                                            *)
keepsSeparator(line) == line.pad \in {"leading", "trailing"}

inspected(line, call) ==
  LET found == verdictOf[line.url]
      idn == idnHost(found.facts, inspectOptions(call))
      quieted == {c \in idn : suppresses(call.rules, c, found.facts)}
  IN  [line |-> line,
       status |-> found.status,
       severity |-> IF keepsSeparator(line) THEN "critical"
                    ELSE IF idn # quieted THEN found.blocked
                    ELSE IF found.agentOnly /\ ~agentMode(call) THEN "info" ELSE found.severity,
       facts |-> found.facts,
       codes |-> IF found.status = "invalid" THEN {}
                 ELSE idn \cup policyFindings(found.facts, inspectOptions(call)),
       suppressed |-> IF found.status = "invalid" THEN {} ELSE quieted]

(* Without --json every result is printed as it comes. *)
InspectsNext ==
  /\ cmd.at = "inspect" /\ Len(cmd.results) < Len(cmd.urls)
  /\ LET result == inspected(cmd.urls[Len(cmd.results) + 1], cmd.call)
     IN  cmd' = [cmd EXCEPT !.results = Append(@, result),
                            !.out = IF cmd.call.json THEN @ ELSE Append(@, result)]

(* Fault: only what is above the threshold fails. *)
AboveThreshold(results, failOn, allowInvalid) ==
  IF \E r \in Range(results) :
       IF r.status = "invalid" THEN ~allowInvalid ELSE severityRank(r.severity) > severityRank(failOn)
  THEN 1 ELSE 0

resolveExitCode(results, failOn, allowInvalid) ==
  IF \E r \in Range(results) :
       IF r.status = "invalid" THEN ~allowInvalid
       ELSE severityRank(r.severity) >= severityRank(failOn)
  THEN 1 ELSE 0

AllInspected ==
  /\ cmd.at = "inspect" /\ Len(cmd.results) = Len(cmd.urls)
  /\ cmd' = [cmd EXCEPT !.at = "done",
                        !.out = IF cmd.call.json THEN cmd.results ELSE @,
                        !.exit = resolveExitCode(cmd.results, cmd.call.failOn,
                                                 cmd.call.allowInvalid)]

CommandNext ==
  \/ UsageFailure \/ HelpOrVersion \/ CannotRead \/ ReadsText \/ TakesArguments
  \/ InspectsNext \/ AllInspected

CommandSpec == CommandInit /\ [][CommandNext]_cmd

(* inspect answers for every URL that can be given, and no milder once     *)
(* idn_host counts; an option value has the fields of a word; the command  *)
(* line's lists are lists, and a library caller's hold one name per        *)
(* element; the command line has no suppression rules.                     *)
IsWord(v) == DOMAIN v = {"name", "pad", "lead", "joined"}

ASSUME CommandAssumption ==
  /\ \A u \in DOMAIN verdictOf :
       /\ isSeverity(verdictOf[u].severity) /\ isSeverity(verdictOf[u].blocked)
       /\ severityRank(verdictOf[u].blocked) >= severityRank(verdictOf[u].severity)
       /\ verdictOf[u].facts.domain # Mangled
  /\ Texts \subseteq Seq(GivenLine)
  /\ \A call \in Calls :
       /\ takesArguments(call) => call.rest \in Seq(DOMAIN verdictOf)
       /\ DOMAIN call.flags = ListFlags \cup Switches
       /\ \A key \in Switches : call.flags[key] \in BOOLEAN
       /\ call.entry = "cli" => call.rules = Undefined
       /\ \A key \in ListFlags :
            /\ call.entry = "cli" => call.flags[key] \notin {Undefined, NotAnArray}
            /\ \A v \in Elements(call.flags[key]) :
                 IsWord(v) /\ (call.entry # "cli" => ~v.joined)
       /\ \A rule \in Elements(call.rules) :
            IsWord(rule.code) /\ IsWord(rule.host) /\ rule.host.name # AllHosts

-----------------------------------------------------------------------------
(* Lines of a text that ask for nothing: blank ones, and comments, before  *)
(* which nothing stands but padding.                                       *)
Idle(line) ==
  \/ line.url = "" /\ line.pad \in {"none", "space"}
  \/ line.url \in Comments /\ line.pad \in {"none", "space", "trailing"}

Asked ==
  IF readsText(cmd.call)
  THEN Keep(cmd.lines, {n \in DOMAIN cmd.lines : ~Idle(cmd.lines[n])}) ELSE cmd.lines

(* The names a list was meant to hold: "a,b" was meant to hold two. *)
Meant(values) == {v.name : v \in Elements(values) \ {NotText}} \ {""}

(* An international host the caller has not exempted. *)
UnwantedIdn(facts, flags) ==
  facts.idn /\ ~flags.allowIdn /\ facts.domain \notin Meant(flags.idnAllow)

Reaches(severity) == severityRank(severity) >= severityRank(cmd.call.failOn)

Bad(line) ==
  LET found == verdictOf[line.url]
  IN  IF found.status = "invalid" THEN ~cmd.call.allowInvalid
      ELSE \/ Reaches(found.severity)
           \/ UnwantedIdn(found.facts, cmd.call.flags) /\ Reaches(found.blocked)
           \/ line.pad \in {"leading", "trailing"}

(* Exit code 0 of a check means that every line that was given was         *)
(* inspected and passes, 1 that one of them does not, 2 that none was      *)
(* inspected; and what was printed is what was found, in order.  A line    *)
(* beside a separator never passes (the exit codes of USAGE;               *)
(* parseUrlLines, trimPreservingSignal, resolveExitCode).                  *)
ExitIsEarned ==
  cmd.at = "done" /\ cmd.call.entry = "cli" =>
    LET agent == {n \in DOMAIN Asked : verdictOf[Asked[n].url].agentOnly}
    IN  /\ cmd.exit = 2 => cmd.results = <<>>
        /\ cmd.out = cmd.results
        /\ cmd.exit # 2 => Len(Asked) = Len(cmd.results)
        /\ cmd.exit = 0 => \A n \in DOMAIN Asked \ agent : ~Bad(Asked[n])
        /\ cmd.exit = 1 => \E n \in DOMAIN Asked : Bad(Asked[n])

Restricts(fact, deny, allow) ==
  /\ fact # NoFact
  /\ fact \in Meant(deny) \/ (allow \notin {Undefined, {}} /\ fact \notin Meant(allow))

(* A restriction that was typed and accepted is in force: padding, dots,   *)
(* joined values or a list emptied by its blanks never turn a deny-list    *)
(* off or an allow-list open; an international host is reported exactly    *)
(* unless it was exempted; and a suppression meant for one host, or for    *)
(* none, never applies to another (normalizedList, assertNotJoined,        *)
(* parsePort, idn-host.ts, normalizeSuppressReasons).                      *)
PolicyInForce ==
  \A n \in DOMAIN cmd.results :
    LET r == cmd.results[n]
        f == cmd.call.flags
    IN  r.status = "ok" =>
          /\ Restricts(r.facts.tld, f.denyTlds, f.allowTlds) =>
               r.codes \cap {"tld_denied", "tld_not_allowlisted"} # {}
          /\ Restricts(r.facts.domain, f.denyHosts, f.allowHosts) =>
               r.codes \cap {"host_denied", "host_not_allowlisted"} # {}
          /\ Restricts(r.facts.scheme, f.denySchemes, f.allowSchemes) =>
               "scheme_denied" \in r.codes
          /\ r.facts.port # NoFact /\ r.facts.port \in Meant(f.denyPorts) =>
               "port_denied" \in r.codes
          /\ "idn_host" \in r.codes <=> UnwantedIdn(r.facts, f)
          /\ "idn_host" \in r.suppressed =>
               \E rule \in Elements(cmd.call.rules) :
                 /\ rule.code.name = "idn_host"
                 /\ \/ rule.host = NotText \/ (rule.host.name = "" /\ ~rule.host.lead)
                    \/ rule.host.name = r.facts.domain

(* What schema/options.ts says of allowHosts: inputs without a registrable *)
(* domain "never match (so they never pass an allow-list)".                *)
AllowListIsClosed ==
  \A n \in DOMAIN cmd.results :
    cmd.results[n].status = "ok" /\ cmd.call.flags.allowHosts \notin {Undefined, {}}
      /\ cmd.results[n].facts.domain \notin Meant(cmd.call.flags.allowHosts)
    => "host_not_allowlisted" \in cmd.results[n].codes
=============================================================================
