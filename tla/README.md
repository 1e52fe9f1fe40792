# A TLA+ model of linklint

linklint inspects URLs. `inspect()` gives a synchronous, network-free lexical
verdict; `inspectAsync()` takes that verdict and folds in what a plan of
configured *enrichers* (redirect resolution, DNS, RDAP, TLS, threat-feed
mirrors) reports, each run governed by a rate limiter, cached and bounded by a
deadline. This directory holds TLA+ modules translated from that code, the TLC
configurations that check them on small instances, and TLAPS proofs of the most
important properties for all instances.

Paths below are relative to the repository root; line numbers are of the commit
the modules were written from. `PROJECT.json` maps every definition to its lines.

## 1. Inventory

| Part | Where | State it keeps | What is hard | Modelled in |
|---|---|---|---|---|
| Lexical pipeline | `packages/core/src/inspect.ts`, `schema/serialize.ts`, `schema/options.ts`, `policy/policy.ts` | findings and skipped checks of one call | any check may throw and the call may not; losses must survive both result paths | `Inspect` |
| Scoring | `core/src/scoring/`, `schema/reason-codes.ts` | none | order independence, band edges, suppressed reasons | `Scoring` |
| Policy axes | `core/src/policy/`, `parse/runtime.ts` | none | lists that come to nothing, padded or joined names, scopes that widen | `PolicyAxes` |
| Command line, MCP tool | `packages/cli/src`, `packages/mcp/src` | the lines and results of one call | what is trimmed, which exit code is earned | `CommandLine` |
| Address literals and ranges | `core/src/parse/ip.ts`, `data/ip-ranges.ts`, `detectors/ip-classification.ts`, `online/src/transport/address.ts` | none | many spellings of one address, addresses inside addresses, blocks inside blocks | `IpLiteral`, `AddressRanges` |
| URL parts | `core/src/parse/` | none | delimiters in the wrong place, bounded decoding | `UrlParts` |
| Open-redirect detector | `detectors/open-redirect-param.ts` | none | encodings, two surfaces of one link, an exemption that must stay narrow | `RedirectParam` |
| URL comparison | `core/src/compare/compare-urls.ts` | none | answers that are neither yes nor no | `UrlRelation` |
| Async verdict | `inspect-async.ts` `inspectAsync` | local | evidence about other hosts, partial reports, invalid bases | `InspectAsync` |
| Scheduler | `inspect-async.ts` `executeEnrichmentPlan` | `runs`, `pending`, stage in flight | completion order, cycles, cancellation mid-stage | `EnrichmentPlan`, `PlanGraph`, abstractly `EnrichmentContract` |
| Cycle search | `inspect-async.ts` `findDependencyCycle` | colours, stack | names one real cycle | `DependencyCycle` |
| Enricher run | `inspect-async.ts` `runEnricher` and helpers | degradations, cache slot; shares cache and governor | three races against a deadline and a signal, abandoned operations | `EnricherRun` |
| Governor | `enrichment-governor.ts` | token bucket and backoff per source | concurrent runs, a clock that is not monotonic, fractions | `EnrichmentGovernor`, `GovernorUse` |
| Cache | `enrichment-cache.ts` | map with expiry | lazy eviction, shared by runs | `EnrichmentCache` |
| Safe transport | `packages/online/src/transport/safe-transport.ts`, `pin.ts`, `policy.ts`, `decompression.ts` | session: hops, bytes, deadline; per fetch: signal, pinned answer, connection, throughput window | one deadline over many awaits, work that is abandoned and goes on, budgets shared by fetches | `SafeTransport` |
| Transport adapters | `transport/node.ts`, `node-resolver.ts`, `system-clock.ts`, `headers.ts` | open sockets and who listens to them | events between two calls of the session | `NodePorts` |
| Redirect chain | `online/src/resolution/redirect-chain.ts` | visited set, hops, current URL | loops, limits, aborts while a host decides, chains cut short | `RedirectChain` |
| Wrappers, divergence | `resolution/embedded-wrapper.ts`, `divergence-probe.ts` | current URL and depth; samples | limits, partial comparisons | `EmbeddedWrapper`, `DivergenceProbe` |
| Provider downloads | `mirrors/mirror-http-node.ts`, `reputation/rdap-node.ts`, `rdap-client.ts` | hop, headers, deadline | credentials across origins, DNS that changes its mind, causes that coincide | `ProviderHttp` |
| Snapshots | `mirrors/*-updater.ts`, `*-parse.ts`, `*-index.ts`, `*-enricher.ts`, `reputation/rdap-bootstrap-updater.ts`, `rdap-enricher.ts` | stored snapshot, validators, loaded index | two updaters at once, stale 304s, cut downloads, ages | `SnapshotMirror` |
| DNS source | `reputation/dns-*.ts` | one state | queries of which some fail | `DnsState` |
| TLS source | `transport/tls-*.ts`, `reputation/tls-enricher.ts` | one observation | a deadline between two awaits; trust and defects | `TlsInspect` |
| Source contract | `online/src/sources/` | none | consent and terms before the first request | `SourceContract` |
| Other detectors, Unicode, data, test doubles | `core/src/detectors`, `unicode`, `data`, `online/src/testing` | none | character-level | not modelled (a check is the set of codes it may emit) |

How they interact: a command line or a tool call becomes `inspect` calls;
`inspectAsync` calls `inspect`, hands the enrichers to `executeEnrichmentPlan`,
which runs each ready step through `runEnricher`; `runEnricher` awaits the cache,
asks the governor, awaits the provider, records on the governor and awaits the
cache again. Cache and governor are objects the caller shares between calls, so
runs of different `inspectAsync` calls interact through them. The caller's
`AbortSignal` is the only other shared state. The resolving enrichers reach the
network through one `SafeSession` per enrichment, whose counters and deadline are
shared by every hop and whose ports are the Node adapters. The mirror, RDAP, DNS
and TLS sources have clients of their own; the mirror and bootstrap sources
answer from snapshots that updaters put into a store the host owns.

What makes each part correct: configured policy is in force and an exit code is
earned; one address, one authority and one lure are the same thing in every
spelling; the verdict never hides a finding or a loss, fails closed, and only ever
grows more suspicious by enrichment; the scheduler runs a check only on complete
prerequisites and always returns; a run is admitted once and recorded once, and
neither caches nor reports as clean what did not complete; the governor keeps its
rate and its windows; the transport talks only to peers it has vetted, within
budgets, leaves nothing open and always answers; a redirect chain asks before
every request, never turns in circles and says where it ended; a source sends
nothing it was not asked to send, names the true cause of a failure, and claims
what it has observed and not longer than it may.

## 2. Modules

* **`PlanGraph`** – the graph a plan denotes: deduplicated dependencies, unique
  and known tokens, the preflight reason, and what a cycle is. Tokens are opaque.
* **`EnrichmentPlan`** – `executeEnrichmentPlan`. `phase` is where the function
  stands; a pass of the `while` loop is one action (`PassAborted`, `StartStage`,
  `PassBlocked`, `PassCycle`) because it is synchronous; the `Promise.all` is
  `StepSettles` per promise and `StageDone`. `Abort` is possible exactly where
  the function is suspended. A report is the set of statuses of its outcomes and
  the framework cause, if the scheduler wrote it. `Reports` is what a run may
  settle with.
* **`EnrichmentContract`** – what the caller may rely on, without stages: every
  check waits, runs, and is complete or incomplete; `EnrichmentPlan` implements
  it (`ImplementsContract`) with `status` mapped from `runs` and `stageRuns`.
  `Safety` is the contract without its fairness, the part that is proved.
* **`DependencyCycle`** – `findDependencyCycle` with its recursion written out.
  `EnrichmentPlan` uses its result: any simple cycle among the pending steps.
* **`EnrichmentGovernor`** – the governor's calls as operators on `now` and
  `states`. Levels are in units of 1/`Interval` token, so a run costs `Interval`
  and every time unit adds one: the fractional arithmetic of the code is exact.
* **`GovernorUse`** – the governor under concurrent runs, with a ledger of what
  was spent, when, and how many failures in a row were recorded.
* **`EnrichmentCache`**, **`EnricherRun`** – `runEnricher`, many at once. Each
  await is two steps, the race being decided and the continuation, so that the
  signal can fire and other runs can move in between. A cache write that lost
  its race stays in `lateWrites` and may still land. Custom governors may throw
  (`FaultyGovernor`), external stores may throw or return rubbish
  (`FaultyStore`). The governor beside the runs is an instance with a clock and
  source states of its own, configured by `governor`. An explicit `null` timeout is the only way to have no
  deadline.
* **`Scoring`** – weights as fractions of `Unit`; `score` is the exact
  `1 - prod(1 - w)`. The code's rounding to ten decimals leaves products of
  two-decimal weights of the lengths that occur untouched and is left out.
* **`Inspect`** – `inspect`, one action per check and per branch. A check is the
  set of codes it may emit; it reports any subset, or throws.
* **`InspectAsync`** – extends `EnrichmentPlan` with the base verdict and the
  fold. The fold is one action: nothing can interleave with it. The channel
  markers of the base verdict (`policy`, `agent`, `suppression`) are carried
  through unchanged by the code and are left out.
* **`SafeTransport`** – one `SafeSession` and any number of `fetch` calls on it.
  `pc` is where `execute` is suspended, `outcome` what `fetch` has resolved with:
  the two come apart when the deadline wins the race, and `signal` tells the work
  that goes on. Every await of a port ends in any way its type allows, or never.
  The synchronous stretch after an await is one action, with all its checks in
  the order of the code. The encoded body is its length, and so is the decoded
  one; an endpoint is the protocol, address and port that `execute` compares.
  Timers fire when due or any time later; the clock does not go back here.
  The evidence and the wording of outcomes are left out.
* **`RedirectChain`** – one `enrich` call of the redirect chain. `pc` is the await
  it is suspended at; the head of the loop is a step of its own, since the signal
  may fire between a promise settling and its continuation. The session is taken
  at what `SafeTransport` shows of it: it answers, and refuses a call whose signal
  is aborted. URL parsing, offline inspection and MIME sniffing are constants, a
  response is the headers and body traits that `transitionFor` and
  `mimeEvidenceFor` tell apart, and the report is built in the step that breaks
  the loop. Evidence payloads (Alt-Svc among them) decide nothing and are left out.
* **`NodePorts`** – the adapters behind the session's ports: a dial per socket,
  with the listeners the code has on it at each moment, the request over it, the
  lookup that loses its race and the sleeping clock. Node decides the order of
  events; an error nobody listens to is a state of its own. `Connected` is the
  event that hands the socket over (node.ts:254-285) and `ConnectResumes` the
  continuation of `connect` behind its await (102-135): between the two an abort,
  an error or a close may arrive.
* **`PolicyAxes`**, **`CommandLine`** – a list value is a name and what surrounds
  it (padding, a dot, a second name joined on); the axes report on one parsed URL.
  A command is an argument vector, the text it reads and what it prints; `inspect`
  is reduced there to what a verdict says of a URL, what the policy axes and
  `idn_host` add to it, and the line separators that reading a text keeps
  (`trimPreservingSignal`): a URL beside one is critical, and a comment is passed
  over unless a separator stands before its "#". Library and tool calls enter at
  the same place.
* **`IpLiteral`**, **`AddressRanges`** – the readers of address text over parts
  and groups, with the widths as parameters; the canonical text; the rows of the
  range tables; the classifier and the decision at the connection. A text that
  ends in a root dot is a list of parts that ends in an empty one.
* **`UrlParts`**, **`RedirectParam`**, **`UrlRelation`** – the authority as a
  sequence of tokens, a run of digits being zeros with a number at their end, so
  that `toPort` drops what `Number` drops; parameters as keys and values encoded
  so many times; sides of a comparison as scheme, host and port. The public suffix
  list is a function, and so is the spelling `URL.hostname` gives an international
  name (`toASCII`): the detector compares it with the input's host as written, so
  a link on such a host is also reported for a way back to it.
* **`EmbeddedWrapper`**, **`DivergenceProbe`** – the decode loop, one action per
  layer, and the probe's fetches, one per variant, over a session that may refuse.
* **`ProviderHttp`** – one provider call in its two shapes. `wire` is the history
  of what was put on a socket, with its headers and the address it went to. An IP
  literal is policed where the request is sent, a name by its lookup: the model
  has no other gate, as the code has none.
* **`SnapshotMirror`** – publisher, updaters, store, index and enrichers of the
  three snapshot sources, whose course is the same; `replacedAt` is the history of
  when the provider replaced a version. The host may hand the RDAP enricher a
  snapshot or the bare registry in it (`registryOf`), which is never stale.
* **`DnsState`**, **`TlsInspect`**, **`SourceContract`** – the five answers of a
  DNS state with what host and zone really hold beside them: addresses are asked
  of the host, name servers and exchanges of its zone, which is the host itself
  (`apex`) or has addresses of its own; one TLS observation whose work may outlive
  its answer, over chains of any depth, with leaves that the policy refuses as too
  large, malformed or too deep (`CertificateRefused`) and what `dispositionFor`
  makes of each; the gates before a source is built.
* **`MC*`** – finite instances. `MCEnrichment`, `MCInspect`, `MCResolution` and
  `MCSources` hold several components that share no variable: `part` says which of
  them a behaviour works in while the others rest, so one run asks one group of
  questions. **`*_proofs`** – theorems.

Definitions whose comment begins with "Fault" are deliberate corruptions of the
definition that follows them. They are used nowhere; each documents a mistake
that one of the properties notices.

## 3. Runs

| Run | Instance | What it shows |
|---|---|---|
| `plan` | 3 enrichers; all 512 dependency graphs over their tokens, 256 odd plans; reports that are clean, partial or cancelled | prerequisites complete before a step runs, steps of one stage see the same and nothing of each other, no slot left open, every verdict true, a stuck pass always has a cycle and the plan returns, implements the contract |
| `enricher_run` | the governor: capacity 2.5 tokens, cap reached at the third failure in a row, clock moves freely in 0..4. The run: two runs of one source under one key, two callers, one with the default deadline and one without any | no token is minted by setting the clock back, windows are honoured, recovery within one window and one refill; one record per admission, only completed reports cached, clean is earned, every bounded or aborted run returns, and with the evidence it took up, whether it then writes to the cache or not |
| `inspect` | 2 scans, 2 detectors (one agent-gated), 2 axes, 4 rule sets; calls of the command line, the library and the tool over texts of up to two lines; address texts with a byte of 4 values and 5 groups; authorities of up to 4 tokens; links with two parameters; all pairs of 162 URLs; 2 enrichers of one or two layers; all graphs of 3 steps | no finding or loss dropped, score a lower bound, exit code earned, policy in force, addresses read and classified as what they are, an authority put back together from its parts up to leading zeros of the port, relations that are relations and lures reported, every configured check accounted for, evidence weighed, a cycle found when there is one |
| `transport` | two concurrent fetches, one over https; budgets of 2 bytes and 2 hops; resolver answers of up to two endpoints, allowed, prohibited or malformed; nothing assumed of the ports | only vetted peers, shared budgets held with abandoned reads, nothing started after an abort, causes true, every fetch settles |
| `transport_ports` | one fetch at work and one turned away by the hop limit; windows of 2 time units with a floor of 2 bytes, deadline at 5; every await of a port settles | the throughput floor; late work is never a success and every connection is released |
| `resolution` | three URLs on two domains, one plain http, two hops, 70 kinds of response; wrappers to depth 2 and texts of up to 5 characters, plain or of two specials; three probe variants; two sockets, one lookup, one timer | one authorized chain, told truly; wrappers opened or said to be unopened; divergence claimed of samples that differ, and denied of samples alike in all four dimensions; no socket, timer or error left behind |
| `sources` | four hosts of which two are literals and one prohibited, redirects up to 2, bodies of 2 bytes; two updaters with two updates, three published bodies and two time units; every descriptor and configuration of three channels; five DNS queries of a host at or below its zone; certificates of every validity, and chains up to two beyond the depth allowed | credentials stay home and nothing is disclosed without consent, every hop policed, causes owned, a 304 about the snapshot that was compared, findings of feeds that are fresh, claims observed, calls settle |
| `async_lists` (violation) | the async part of `inspect` | D7 of `docs/guarantees.md` does not hold of partial reports |
| `invalid_scans` (violation) | the pipeline of `inspect` | a failed structural scan is named nowhere when parsing fails and another scan reported |
| `allowlist_ip` (violation) | the commands of `inspect` | an input without a registrable domain passes a configured `allowHosts`, where `schema/options.ts:188` says it never does |
| `transport_abandoned_read` (violation) | as `transport_ports` | the abort that a comment in `readEncodedBody` relies on does not follow a read given up for being too slow |
| `truncated_dump` (violation) | the snapshots of `sources`; a feed that grows from one row to two, its first version stored whole | the second URLhaus dump, cut short after its first row, replaces the whole snapshot of the first, where `urlhaus-parse.ts:11` says it is malformed |

**Bounds.** Three steps are enough for a cycle with a tail, a diamond's two
arms, a self-loop and a two-cycle beside a root; what more steps add is more of
the same, and the safety part is proved for any number. Two runs are enough for
every pairwise interaction through the cache and the governor; the governor by
itself is checked with any number of admitted runs and proved. `MaxTime`,
`MaxFailures`, `MaxNow` and the lifetimes in `Ttls` are the only cut counters; the
governor's clock and failure bounds exceed the point where the backoff cap and
the bucket capacity are reached. In the pipeline two checks of each kind give
every order of a failure before and after a report.

Five groups hold two runs of zeros of the same length, a run of one and a run at
each end, and a dotted tail behind any of them; four values per byte meet a last
part that fits exactly and one that is too large by one. The range rows nest three
deep, with a public address inside a private block.

Two fetches are enough for every interaction through the session's counters; the
deadline comes while the first window and while a later one is open, and the
byte limits can be met exactly, from below by two fetches together, and passed.
In the redirect chain two hops and three URLs reach a loop of one and of two hops,
the limit with a URL left, and the two together; the responses take each branch
of `transitionFor` in both positions of the chain. In `sources` two redirects lead
away and back, and one URL more than the limit allows is at hand; two updaters put
one between the other's read of the store and its answer.

**What the properties leave to the code's own choice.** Three statements of the
documentation are weaker in the code than in words, and the properties say what
the code does:

* `dns-types.ts:67-71` says that an answer that did not come is never "no records
  exist"; `normalizeDnsState` counts a failed A or AAAA query as no address
  (dns-normalize.ts:99, 164-165), so `no-mail-target` may be said of a zone that
  has addresses. It also rests on the addresses of the host where the exchanges
  are those of the zone (dns-enricher.ts:121-124). `DnsClaimsAreTrue` asks for the
  truth of the word at the apex, with both address queries answered.
* `sources/types.ts:114-117` asks "within-freshness evidence" of a finding. A
  finding of a feed is fresh; one of RDAP is never stale, but of unknown freshness
  when the record has no cache lifetime (`foundOutcome`). `UseIsRecent` says so.
* An update that is answered 304 late returns the snapshot it compared, also when
  another update has replaced the store since; `ResultIsTrue` is about the
  snapshot that was compared, not about the store.

**Deadlock** is checked in `plan`, `inspect` and `resolution`, where what has
returned takes an explicit step; in the other runs calls end and clocks are bounded.

**Fairness.** The event loop runs every continuation and fires every timer and
abort listener: weak fairness on continuations and on the deadline. Providers,
stores, servers and callers owe nothing: an answer, a late write and an abort are
never assumed to happen. In `EnrichmentPlan` each step of a stage settles fairly;
that is what `EveryRunReturns` establishes of `runEnricher` for a run that has
a deadline (a run whose timeout is explicitly `null` has none, and a provider
that never answers then holds the plan until the caller aborts). In
`SafeTransport` `Spec` assumes that time passes and the deadline's timer fires,
and nothing of the ports: that is enough for `EveryFetchSettles`. `PortSpec` adds
that every await of a port settles, which `CallsEndCleanly` needs: a connection
can only be closed once `close` and what precedes it have answered. `SourcesSettle`
assumes the client's own code, its deadline and the destruction of an aborted
request (`ProviderHttp`), and the start and the deadline of an inspection
(`TlsInspect`).

## 4. Proofs

Each theorem holds for every value of the constants its module's assumptions
allow. None of the properties is inductive as the runs state it; the
strengthening is named with each.

`EnrichmentPlan_proofs` (any finite set of plan positions, any plan, any
reports that satisfy `ReportsAssumption`):

* `TypeCorrect`, then `BookkeepingHolds`: after preflight `pending` is exactly
  the set of holes in `runs`, a stage consists of pending steps, a started step
  is recorded or in the stage, a snapshot holds recorded runs only. That a ready
  step has no run yet, and that a stage's results go to holes, both come from
  this invariant.
* `RunsNeverReplaced` follows per action; with it a prerequisite found complete
  stays so (`PrerequisitesAlwaysComplete`), a snapshot stays valid, the steps of
  a stage are shown the same runs and none of their own stage
  (`SnapshotsIsolated`), and a blamed prerequisite stays unavailable.
* `EverySlotIsSettled`: the loop ends with no hole, so the fallback at
  inspect-async.ts:464-476 is dead code.
* `VerdictsAlwaysTrue`: the cycle case rests on the lemma that a pass with
  nothing ready and nothing blocked leaves every pending step with a pending
  prerequisite (`StuckMeansNeedy`).
* `StuckHasCycle`: such a pass has a simple cycle to name, so the
  `[first pending]` fallback beside `findDependencyCycle` is dead code too. Walk
  from each pending step to one it needs; a smallest non-empty set closed under
  that walk is one round. That a smallest one exists is the well-foundedness of
  the natural numbers, taken from the library as a statement about sets.
* `SchedulerRefinesContract`: `Spec => Contract!Safety`, the refinement of
  `EnrichmentContract` without its fairness. It needs `Kept`: the bookkeeping,
  that only schedulable steps are pending, that a promise that has resolved
  belongs to the stage in flight or to a recorded run (`Launched`), and that a
  recorded run has an outcome (`Recorded`). `StatusShown` says what `StatusOf`
  is in each situation; then there is one lemma per kind of step: a settling
  pass is `Refuse`, a stage is `Start`, a promise is `Finish`, an abort is
  `Cancel`, storing a stage and returning are stuttering steps.
* `NoCheckIsForgotten` of `AsyncSpec`: the fold leaves no check out because the
  scheduler leaves no step without a run, and no run is without an outcome.
  `AsyncAssumption` says that a token, `<layer>:<id>`, is never a bare layer.

`GovernorUse_proofs` (any sources, capacity, interval, backoff settings, with or
without refill, any clock): `AccountsHold` ties each source state to the ledger
(spent plus left is at most received; an open window is the one the last failure
opened); `BucketsBounded`, `RateLimitHolds`, `BackoffIsHonoured` and
`RecoveryIsBounded` follow. `GovernorConfig` states what `positiveOr` leaves;
`DoublingAssumption` only says that the powers of two are natural numbers, which
the prover has no theory of.

`EnricherRun_proofs` (any runs, callers, keys, timeouts, lifetimes and faults;
the governor decides as it likes): `RunInv` says, of each run, what the place it
is suspended at implies for its lookup, its admission, its record, its answer
and its write; and, of the store and of the writes still under way, that they
hold clean answers of runs with that key. A step moves one run (`Alone`) and
changes the store by at most that run's completed report (`StoreMoves`), so each
action is looked at for the run it moves only. `RecordedOnce` and
`CleanlinessEarned` follow, and `EvidenceIsRetained`, an action property of both
ways to the end: from the answer, and through the cache write, whose result must
hold the success it was given and none of the names of an unfinished run.
`RunAssumption`: every run has a key, and a report is not `undefined`.

`SafeTransport_proofs` (any fetches, endpoints and policy): `Inv` is proved
inductive in four lemmas, one case per action. `OnlyVettedPeers` needs
`PinsKept`, that the pinned answer stays vetted while the connection is awaited;
`CausesAreTrue` needs `AbortsExplained` (a raised signal is the caller's, or has
been answered as the timeout it was), `IdleUnaborted`, and `ResultsAreTrue` for
the code that is held while the connection closes. `NoWorkAfterAbort` follows
from how one step may move the work of a fetch (`MovesStep`). `BudgetsKept`: the
bytes of all fetches are counted as a set of numbered bytes, so its cardinality
takes the place of a sum and every charge adds at least what arrives
(`ReceivedCharged`, `DecodedCharged`, `WorkCharged`); an abandoned body goes on
costing. `FloorKept` needs `FloorInv`, what each closed window has delivered;
`LateIsNoSuccess` needs that an outcome once given stays (`TooLate`). The
assumptions are that limits are positive, as `resolveTransportPolicy` enforces,
and that the sets of endpoints are what their names say.

`Resolution_proofs`, the redirect chain (any URLs, parser, responses and limit):
`Inv` joins the types, `LoopInv` and the chain property. `OneAuthorizedChain`
alone is not inductive: that the next request continues the chain, and that
`seen` is exactly what was attempted, come from `LoopInv`. `ChainEndNamed`
follows with `ReportEnd` (the stops are the tail of the report) and the two
lemmas on what `transitionFor` can answer. `ChainToldTruly` needs `TruthInv`:
each hop carries a transition its own response shows, and the report is that of
the hops. `ResponsesAssumption` says how headers are classified, `UrlAssumption`
what the parser may return, `OfflineAssumption` what offline inspection may
find.

The rest of `Resolution_proofs`: `NothingIsLeaked` by `PortsInv`, for any number
of dials: which listeners a socket has at each moment of its dial, the one
between the event and `connect`'s continuation included, and which timer and
listener a sleep or a lookup holds. `DivergenceObserved` by `ProbeInv`: the
samples are the answers of the variants fetched so far, challenges left out; two
that `divergentAmong` finds alike agree in each of the four dimensions. `WrappersOpened` has two halves. `WrapInv`: while the loop
runs its outcomes are one success per layer, and it ends with at most one more
that is no success. The round trip of the v3 payload, for texts of any length,
is about a recursion over positions. Its definedness is shown backwards from the
end, since a turn of the loop looks only ahead (`DecodeIs`); `FlattenLaid` says
where in the encoded text and in the list of specials each character's piece
lies; and `TextIsDecoded` shows, again from the end, what the decoder gives from
the beginning of each token on: success exactly when the replacements left are
as many as the specials left (`DecodedAt`). `WrapAssumption`: the depth bound is
positive, as `boundedDepth` makes it, and the run codes are enough for the runs
of the texts.

`Sources_proofs`: `SourcesInvariance` is the conjunction of one invariant per
part, which share no variable. Provider calls (`HttpInv`): the ledger of origins
leads what is on the wire, the URL of a hop was vetted before its socket, and
private headers are there only while every origin is the first. Gates
(`GateInv`): decided is decided by the preflight. TLS (`TlsInv`): where an
answer may be while the signal, the deadline and the socket race, and what of
the certificate each cause rests on. DNS (`DnsInv`): each answer that is in is
one the host, the zone or its failure can give. Snapshots (`MirrorInv`): what the
store holds was published, when, and what an update still carries was compared
with; a snapshot with a date expires a cadence after it. `HopsPoliced`, `NothingLeaves`,
`CausesOwned`, `SnapshotsTrue` and `ClaimsObserved` follow.

`Inspect_proofs`, by part:

* `CycleFound`, for any graph and any set of pending steps: `SearchInv` says
  that the stack is a path of the graph, that what is before a step's position
  was examined, and that no set of visited steps sustains itself
  (`LeftIsAcyclic`). The last takes the place of induction over paths.
* `NothingDropped` of the pipeline, for any checks, codes, weights and rules:
  `PipelineInv` keeps the tokens of what threw and the result that was built.
  `sorted` puts each reason at its rank, as the stable sort of the code does; the
  lemmas on `Precedes` and `Place` show it to be a rearrangement in order of
  weight.
* `ExitEarned` and `PolicyEnforced` of the command: `CommandInv` says that the
  verdicts so far are those of the lines so far, in order, under the options that
  were read; a line was asked exactly when `parseUrlLines` keeps it. `CommandAssumption` says what an argument vector and a text can be;
  that no list value of a library or tool call holds two names is an assumption,
  since only the command line tests for it (`assertNotJoined`).
* `ScoreIsFloor` of the pipeline and `EvidenceWeighed` of the asynchronous
  verdict rest on the score being a product folded over the positions of a list.
  A fold over a set takes its members in an order nobody knows; that the steps
  commute, and that therefore the fold does not depend on it, is shown by taking a
  smallest set on which it fails (`SmallestSet`), the prover's substitute for
  induction. A longer list then has a smaller product, so a higher score. Beside
  it `ThrewChecks` (what threw was a check) and `BaseBuilt` (the verdict that is
  folded is one `inspect` can return) are kept as invariants. `AsyncAssumption`
  says of the constants that evidence is a list of findings and codes are codes.
* `AuthoritiesCompared`: a case analysis over two and three sides, with the site
  of a side shown to be a function of its host; and, for the links, the
  correspondence between the pieces of a query and the pairs, payloads and targets
  made of them, the input's host as written against a value's as `URL.hostname`
  spells it. `SideAssumption` states what the code has from the suffix list: an
  address has no domain, and the ICANN domain of a host is that of its private
  one (both come from one lookup, `parse/psl.ts`). `LinkAssumption`: an empty host
  has no registrable domain; `toASCII` leaves alone what it has spelled, and the
  domain of a name that it spells otherwise is itself such a name or the domain of
  the other spelling; a missing value is none of the values.
* `PartsKept`, for authorities of any length: cutting a sequence at its last "@",
  at its first "]" and at its last ":", and putting it together again, with the
  zeros before its port number; and that any other cut leaves no host, or no
  number, so that a refused authority was not one cut at the wrong place.
  `AuthorityAssumption` says that authorities are sequences of tokens whose runs
  of digits are zeros with at most one number at their end.

`Address_proofs`: `AddressesKnown`, for any number of values of a byte up to
1000, any number of groups, wrappers and tables. `LiteralInv` and `DecisionInv`
say that a literal is analysed once and what is said of it rests on that
analysis; all else is about the operators. IPv4: a number below the fourth power
of a byte is its four digits and back (`BytesOf`), and a plain part is the one
decimal text of its value (`DecimalUnique`), so an answer reads back to itself
(`Ipv4Answers`, `Ipv4ReadsBack`). IPv6: at each turn of the loop over the groups
the best run so far is the longest, and the first of equals (`LongestRunIs`);
what is cut out of a text around it is put back by the reader (`ElidedIs`,
`ElidedReads`, `Ipv6Answers`). Ranges: two numbers have the same first bits
exactly when their quotients are the same (`PrefixBits`), so a row holds an
address by arithmetic when it does by bits, over whole groups and the rest of
one (`HeldByBits4`, `HeldByBits6`), and the first row in the sorted table that
holds it is the narrowest (`TableIsNarrowest`). `LiteralAssumption` states the
widths and that texts are lists of parts; `RegistryAssumption` that the rows of
the registries are addresses with a prefix, that no IPv6 base has a bit past its
prefix and that no range is listed in two buckets; `TransportAssumption` that
the metadata endpoints are addresses and that every prefix of `LOW32_WRAPPERS`
lies in one of `SUPPLEMENTAL_RANGES`, without which a connection to a wrapped
public address would be allowed. `address-table-consistency.test.ts` pins the
tables.

Only model-checked, and why: liveness (`EveryRunReturns`, the fairness of
`ImplementsContract`, `NeverStuck`'s `AlwaysReturns`, the other `~>` properties)
is beyond the prover. Every safety invariant and every action property that a run
checks is proved; what the small instances add is that the cases do occur.

## 5. Plan

The modules were written from the centre outwards: the scheduler with its
contract, the run with its governor and cache, the pipeline with the ways into it,
the transport and what it stands on, the redirect chain, then the sources; each
was checked before it was proved. Nothing of that plan is left. What a change of
the code should be followed by here:

* a row added to `LOW32_WRAPPERS`, `SUPPLEMENTAL_RANGES` or a registry table:
  check it against `RegistryAssumption` and `TransportAssumption`;
* a new await in `runEnricher` or in the transport: a place of its own where a
  call is suspended, and what `RunInv` or `Inv` says of a call that is there;
* a new kind of stop, skip or failure: its cause in the model, and in the property
  that says causes are true (`VerdictsAreTrue`, `CausesAreTrue`, `CausesAreOwned`).

## 6. Not modelled, and why

The detectors other than the open-redirect and address ones, the Unicode code and
the generated tables are pure functions of one string; a TLA+ copy would be a
transliteration and TLC's bounded inputs would say less than the repository's
corpora. Punycode, IDNA, the public suffix list, MIME sniffing, the DER reader and
the readers of JSON registration data are left out for the same reason: where they
decide something they are functions or nondeterministic answers. Rendering, the
MCP protocol, and the wording and evidence payloads of findings decide nothing.
The test doubles in `online/src/testing` hold no state of their own, and the tools
under `tools/` belong to the build.
`inspectAsync` without a governor skips admission and recording; its behaviours
are those of a governor that always admits. A custom governor that denies
without a cause (`governor-denied`) behaves as one that denies with a cause.
