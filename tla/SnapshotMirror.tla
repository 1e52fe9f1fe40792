--------------------------- MODULE SnapshotMirror ---------------------------
(***************************************************************************)
(* The caller-owned snapshots of three providers: the URLhaus and          *)
(* PhishTank feeds and the IANA bootstrap registry for RDAP.  Updaters     *)
(* download into a store, the host loads an index from it, and enrichers   *)
(* answer from the index.  The three updaters share one course; `feed`     *)
(* says which of them is at work.                                          *)
(*                                                                         *)
(* A published version of the data is a sequence of lines; a record is     *)
(* what the verdict needs of one line.  A download may be cut short.       *)
(***************************************************************************)
EXTENDS Integers, Sequences, FiniteSets, SequencesExt, SourceContract

CONSTANTS
  Updater,       \* concurrent calls of the update function
  Published,     \* the versions the provider publishes, in order: sequences of lines
  Cadence,       \* options.cadenceMs, when it is given and positive
  DefaultCadence,\* PHISHTANK_DEFAULT_CADENCE_MS, DEFAULT_RDAP_BOOTSTRAP_CADENCE_MS
  MaxNow,        \* bound on the clock
  MaxUpdates     \* bound on the number of updates begun

ASSUME MirrorAssumption ==
  /\ Published # <<>>
  /\ Published \in Seq(Seq({"banner", "noise", "listed", "unconfirmed"}))
  /\ Cadence \in Nat \ {0} /\ DefaultCadence \in Nat \ {0}
  /\ MaxNow \in Nat /\ MaxUpdates \in Nat

VARIABLES
  feed,        \* the provider
  cadence,     \* the effective cadence; Off when there is none
  now,         \* the clock all parts read
  current,     \* index in Published of what the provider serves
  replacedAt,  \* history: when each version stopped being current
  store,       \* the snapshot store
  index,       \* the snapshot the enricher answers from
  updates,     \* state of each update
  begun,       \* updates begun so far
  verdict      \* the last report of the enricher

mirrorVars == <<feed, cadence, now, current, replacedAt, store, index, updates, begun, verdict>>

Feeds == {"urlhaus", "phishtank", "rdap-bootstrap"}
Off == -1
Nothing == [version |-> 0, etag |-> 0, observedAt |-> Off, expiresAt |-> Off, records |-> <<>>]

(***************************************************************************)
(* Parsing.  Lines are "banner" (the abuse.ch comment or the column        *)
(* header), "noise" (any other comment, an unterminated quote, too few     *)
(* columns, no id or no URL) or a record, by what its status fields say.   *)
(***************************************************************************)
Records == {"listed", "unconfirmed"}

(* Fault: an unrecognized body is an empty dump. *)
ParseAnything(lines) == <<SelectSeq(lines, LAMBDA l : l \in Records)>>

(* parseUrlhausCsv, parsePhishTankCsv: <<records>>, or <<>> for null.      *)
parseCsv(lines) ==
  IF \E i \in DOMAIN lines : lines[i] = "banner" \/ lines[i] \in Records
  THEN <<SelectSeq(lines, LAMBDA l : l \in Records)>> ELSE <<>>

(* parseRdapBootstrap refuses a document with one malformed service;       *)
(* applyBaseUrlSchemePolicy then drops the services without an https base, *)
(* the unconfirmed ones here.                                              *)
parseRdapBootstrap(lines) ==
  IF (\E i \in DOMAIN lines : lines[i] = "noise") \/ lines = <<>> THEN <<>> ELSE <<lines>>

applyBaseUrlSchemePolicy(services) == SelectSeq(services, LAMBDA l : l = "listed")

(* parseBootstrapDocument: JSON that is cut short is no JSON at all. *)
parseBootstrapDocument(lines, whole) ==
  IF whole # lines \/ parseRdapBootstrap(lines) = <<>> THEN <<>>
  ELSE <<applyBaseUrlSchemePolicy(parseRdapBootstrap(lines)[1])>>

parsed(lines, whole) ==
  IF feed = "rdap-bootstrap" THEN parseBootstrapDocument(lines, whole) ELSE parseCsv(lines)

(***************************************************************************)
(* The cadence.                                                            *)
(***************************************************************************)
positiveMs(option) == IF option = "set" THEN Cadence ELSE Off

resolveCadence(option) ==
  CASE option = "absent" -> DefaultCadence
    [] option = "set" -> Cadence
    [] OTHER -> Off

withinCadence(previous, at) ==
  previous # Nothing /\ cadence # Off /\ at < previous.observedAt + cadence

(***************************************************************************)
(* An update: where it is, what it read, and how it ended.                 *)
(***************************************************************************)
Result(status, code) == [status |-> status, code |-> code]
NoResult == Result("none", "none")

(* What an enricher reported, when, and from which version of the data. *)
Verdict(code, finding, freshness) ==
  [code |-> code, finding |-> finding, freshness |-> freshness, at |-> now,
   version |-> index.version]
NoVerdict == [code |-> "none", finding |-> FALSE, freshness |-> "unknown", at |-> 0,
              version |-> 0]

Idle == [at |-> "idle", previous |-> Nothing, started |-> Off, snapshot |-> Nothing,
         served |-> 0, result |-> NoResult]

MirrorInit ==
  /\ feed \in Feeds
  /\ \E option \in {"absent", "set", "not-positive"} :
       cadence = IF feed = "urlhaus" THEN positiveMs(option) ELSE resolveCadence(option)
  /\ now = 0 /\ current = 1
  /\ replacedAt = [v \in DOMAIN Published |-> MaxNow]
  /\ \/ store = Nothing                 \* or an earlier run left version 1 there
     \/ /\ parsed(Published[1], Published[1]) # <<>>
        /\ store = [version |-> 1, etag |-> 1, observedAt |-> 0,
                    expiresAt |-> cadence, \* counted from 0; Off stays Off
                    records |-> parsed(Published[1], Published[1])[1]]
  /\ index = Nothing
  /\ updates = [p \in Updater |-> Idle] /\ begun = 0
  /\ verdict = NoVerdict

Others == <<feed, cadence, now, current, replacedAt, index, begun, verdict>>

(* What the call held is let go; a "not modified" keeps what it spoke of. *)
Ends(p, result) ==
  updates' = [updates EXCEPT ![p] =
    [Idle EXCEPT !.at = "done", !.result = result,
       !.previous = IF result.code = "not-modified" THEN updates[p].previous ELSE Nothing,
       !.served = IF result.code = "not-modified" THEN updates[p].served ELSE 0]]

(* The call, up to its first await. *)
UpdateBegins(p) ==
  /\ updates[p].at \in {"idle", "done"} /\ begun < MaxUpdates
  /\ begun' = begun + 1
  /\ \/ updates' = [updates EXCEPT ![p] = [Idle EXCEPT !.at = "read"]]
     \/ updates' = [updates EXCEPT ![p] =      \* the signal had fired before
          [Idle EXCEPT !.at = "done", !.result = Result("skipped", "caller-aborted")]]
  /\ UNCHANGED <<feed, cadence, now, current, replacedAt, store, index, verdict>>

(* store.readMetadata answers: the cadence guard, then the URL of the      *)
(* bootstrap registry, then the conditional request.                       *)
MetadataRead(p) ==
  /\ updates[p].at = "read"
  /\ \/ withinCadence(store, now) /\ Ends(p, Result("unchanged", "within-cadence"))
     \/ /\ ~withinCadence(store, now) /\ feed = "rdap-bootstrap"
        /\ Ends(p, Result("failure", "insecure-url"))      \* refuseInsecureUrl
     \/ /\ ~withinCadence(store, now)
        /\ updates' = [updates EXCEPT ![p] = [@ EXCEPT !.at = "request", !.previous = store,
                                                      !.started = now]]
  /\ UNCHANGED <<Others, store>>

(* The client throws: on the caller's abort, which goes unnoticed before   *)
(* the request and after it, or for a reason of its own.                   *)
RequestThrows(p) ==
  /\ updates[p].at \in {"request", "response"}
  /\ \/ Ends(p, Result("skipped", "caller-aborted"))
     \/ Ends(p, Result("failure", "network-error"))
  /\ UNCHANGED <<Others, store>>

(* The server answers with what is current then; the answer takes its time. *)
ServerAnswers(p) ==
  /\ updates[p].at = "request"
  /\ updates' = [updates EXCEPT ![p] = [@ EXCEPT !.at = "response", !.served = current]]
  /\ UNCHANGED <<Others, store>>

(* What the request carried as its validator. *)
(* Fault: the validator is read when the request is sent. *)
ValidatorOfStore(p) == store.etag

conditionalHeaders(p) == updates[p].previous.etag

(* An honest server says 304 only to a validator of what it serves. *)
NotModified(p) ==
  /\ updates[p].at = "response"
  /\ \/ /\ updates[p].previous # Nothing /\ conditionalHeaders(p) = updates[p].served
        /\ Ends(p, Result("unchanged", "not-modified"))
     \/ /\ updates[p].previous = Nothing
        /\ Ends(p, Result("failure", "http-error"))
  /\ UNCHANGED <<Others, store>>

(* 429, and 509 for PhishTank alone. *)
Throttled(p) ==
  /\ updates[p].at = "response"
  /\ \/ Ends(p, Result("skipped", "throttled"))
     \/ Ends(p, IF feed = "phishtank" THEN Result("skipped", "throttled")
                ELSE Result("failure", "http-error"))
  /\ UNCHANGED <<Others, store>>

HttpError(p) ==
  /\ updates[p].at = "response"
  /\ Ends(p, Result("failure", "http-error"))
  /\ UNCHANGED <<Others, store>>

(* The snapshot of a 2xx body.  observedAt is the time read before the     *)
(* request.                                                                *)
(* Fault: the lifetime is counted from the arrival of the body. *)
ExpiresFromArrival(p) == IF cadence = Off THEN Off ELSE now + cadence

expiresAt(p) == IF cadence = Off THEN Off ELSE updates[p].started + cadence

Snapshot(p, records, etag) ==
  [version |-> updates[p].served, etag |-> etag, observedAt |-> updates[p].started,
   expiresAt |-> expiresAt(p), records |-> records]

Downloaded(p) ==
  /\ updates[p].at = "response"
  /\ \E n \in 0..Len(Published[updates[p].served]) :     \* what arrived of the body
       LET whole == Published[updates[p].served]
           body == parsed(SubSeq(whole, 1, n), whole)
       IN  \/ body = <<>> /\ Ends(p, Result("failure", "malformed"))
           \/ /\ body # <<>>
              /\ \E etag \in {0, updates[p].served} :
                   updates' = [updates EXCEPT ![p] =
                     [@ EXCEPT !.at = "replace", !.snapshot = Snapshot(p, body[1], etag)]]
  /\ UNCHANGED <<Others, store>>

(* store.replace, atomic by contract; it may also reject. *)
Replaced(p) ==
  /\ updates[p].at = "replace"
  /\ \/ /\ store' = updates[p].snapshot
        /\ Ends(p, Result("updated", "none"))
     \/ store' = store /\ Ends(p, Result("rejected", "none"))
  /\ UNCHANGED Others

(***************************************************************************)
(* The provider, the clock and the host.                                   *)
(***************************************************************************)
Publishes ==
  /\ current < Len(Published)
  /\ current' = current + 1
  /\ replacedAt' = [replacedAt EXCEPT ![current] = now]
  /\ UNCHANGED <<feed, cadence, now, store, index, updates, begun, verdict>>

MirrorTick ==
  /\ now < MaxNow
  /\ now' = now + 1
  /\ UNCHANGED <<feed, cadence, current, replacedAt, store, index, updates, begun, verdict>>

(* What the host hands to the enricher: the snapshot, or, for RDAP, the    *)
(* bare registry in it, which is a snapshot without its metadata.          *)
registryOf(snapshot) == [snapshot EXCEPT !.etag = 0, !.observedAt = Off, !.expiresAt = Off]

bareRegistry(bootstrap) == bootstrap # Nothing /\ bootstrap.observedAt = Off

IndexLoaded ==
  /\ \/ index' = store
     \/ feed = "rdap-bootstrap" /\ store # Nothing /\ index' = registryOf(store)
  /\ index' # index
  /\ UNCHANGED <<feed, cadence, now, current, replacedAt, store, updates, begun, verdict>>

(***************************************************************************)
(* The mirror enrichers.  lookup finds the first record of the inspected   *)
(* URL; in the model every record is about that URL or, past the first,    *)
(* shadowed by it.                                                         *)
(***************************************************************************)
lookup(snapshot) == IF snapshot.records = <<>> THEN "none" ELSE snapshot.records[1]

(* Fault: what the snapshot lists is reported whatever its age. *)
AnyFreshness(snapshot) == [status |-> "fresh", expiresAt |-> snapshot.expiresAt]

snapshotFreshness(snapshot) ==
  freshnessFor([declaresExpiry |-> TRUE, staleWhenExpired |-> TRUE], now, snapshot.expiresAt)

(* A record of URLhaus is listed while it is online; one of PhishTank when *)
(* it is verified too.                                                     *)
matchOutcome(snapshot) ==
  Verdict("match", lookup(snapshot) = "listed"
                              /\ snapshotFreshness(snapshot).status = "fresh",
          snapshotFreshness(snapshot).status)

phishTankMatchOutcome(snapshot) ==
  LET verified == lookup(snapshot) = "listed"
      freshness == snapshotFreshness(snapshot).status
  IN  Verdict("match", verified /\ freshness = "fresh", freshness)

noHitOutcome(snapshot) == Verdict("no-hit", FALSE, snapshotFreshness(snapshot).status)

UrlhausEnriches ==
  /\ feed = "urlhaus"
  /\ verdict' = IF index = Nothing THEN Verdict("no-snapshot", FALSE, "unknown")
                ELSE IF lookup(index) = "none" THEN noHitOutcome(index) ELSE matchOutcome(index)
  /\ UNCHANGED <<feed, cadence, now, current, replacedAt, store, index, updates, begun>>

PhishTankEnriches ==
  /\ feed = "phishtank"
  /\ verdict' = IF index = Nothing THEN Verdict("no-snapshot", FALSE, "unknown")
                ELSE IF lookup(index) = "none" THEN noHitOutcome(index)
                ELSE phishTankMatchOutcome(index)
  /\ UNCHANGED <<feed, cadence, now, current, replacedAt, store, index, updates, begun>>

Uncanonicalizable ==
  /\ feed # "rdap-bootstrap"
  /\ verdict' = Verdict(IF index = Nothing THEN "no-snapshot"
                                   ELSE "uncanonicalizable-input", FALSE, "unknown")
  /\ UNCHANGED <<feed, cadence, now, current, replacedAt, store, index, updates, begun>>

(***************************************************************************)
(* The RDAP enricher: which bootstrap data may route a lookup, what the    *)
(* lookup answers (fetchRdapDomain, in ProviderHttp), and the one finding. *)
(***************************************************************************)
(* Fault: an expired table routes as well as any. *)
RoutesByAny(bootstrap) == IF bootstrap = Nothing THEN "bootstrap-unavailable" ELSE "usable"

(* A bare registry has no freshness to check and is used as it is given.   *)
resolveBootstrap(bootstrap) ==
  CASE bootstrap = Nothing -> "bootstrap-unavailable"
    [] bareRegistry(bootstrap) -> "usable"
    [] bootstrap # Nothing /\ bootstrap.expiresAt # Off /\ now >= bootstrap.expiresAt
         -> "bootstrap-stale"
    [] OTHER -> "usable"

(* resolveRdapBase: a service of the TLD with an https base. *)
resolveRdapBase(snapshot) == \E i \in DOMAIN snapshot.records : snapshot.records[i] = "listed"

(* ageInDays against boundedThreshold: a date in the future counts as age  *)
(* zero, and no date is no age.                                            *)
young(age, thresholdDays) == age # Off /\ age < thresholdDays

(* hasCorroboratingBrandSignal is an input here: a brand reason of the     *)
(* lexical verdict that is not suppressed.  ttl is what cacheTtlMs gives.  *)
foundOutcome(age, thresholdDays, corroborated, ttl) ==
  Verdict("found", young(age, thresholdDays) /\ corroborated,
          freshnessFor([declaresExpiry |-> TRUE, staleWhenExpired |-> TRUE], now,
                       IF ttl > 0 THEN now + ttl ELSE Off).status)

RdapEnriches ==
  /\ feed = "rdap-bootstrap"
  /\ \/ verdict' = Verdict("no-registrable-domain", FALSE, "unknown")
     \/ /\ resolveBootstrap(index) # "usable"
        /\ verdict' = Verdict(resolveBootstrap(index), FALSE, "unknown")
     \/ /\ resolveBootstrap(index) = "usable" /\ ~resolveRdapBase(index)
        /\ verdict' = Verdict("unsupported-tld", FALSE, "unknown")
     \/ /\ resolveBootstrap(index) = "usable" /\ resolveRdapBase(index)
        /\ \/ verdict' \in {Verdict("no-hit", FALSE, "unknown"),
                            Verdict("throttled", FALSE, "unknown"),
                            Verdict("network-error", FALSE, "unknown")}
           \/ \E age \in {Off, 0, 2}, corroborated \in BOOLEAN, ttl \in 0..1 :
                verdict' = foundOutcome(age, 1, corroborated, ttl)
  /\ UNCHANGED <<feed, cadence, now, current, replacedAt, store, index, updates, begun>>

UpdateStep(p) ==
  \/ UpdateBegins(p) \/ MetadataRead(p) \/ RequestThrows(p)
  \/ ServerAnswers(p)
  \/ NotModified(p) \/ Throttled(p) \/ HttpError(p) \/ Downloaded(p) \/ Replaced(p)

(* A report changes nothing that comes after it: a behaviour is followed   *)
(* up to its first one.                                                    *)
MirrorNext ==
  /\ verdict = NoVerdict
  /\ \/ \E p \in Updater : UpdateStep(p)
     \/ Publishes \/ MirrorTick \/ IndexLoaded
     \/ UrlhausEnriches \/ PhishTankEnriches \/ Uncanonicalizable \/ RdapEnriches

MirrorSpec == MirrorInit /\ [][MirrorNext]_mirrorVars

-----------------------------------------------------------------------------
(* The server that was asked was named by a snapshot of the bootstrap      *)
(* registry, and not by a bare registry, of which nobody knows the age.    *)
RoutedBySnapshot ==
  /\ feed = "rdap-bootstrap" /\ ~bareRegistry(index)
  /\ verdict.code \in {"no-hit", "throttled", "network-error", "found"}

FoundInFeed == feed # "rdap-bootstrap" /\ verdict.finding

(* What is reported from a snapshot was true not longer than one cadence   *)
(* ago: a finding of a feed, or a lookup routed by a snapshot of the       *)
(* bootstrap registry, never rests on a version that the provider had      *)
(* replaced more than a cadence before (expiresAt counted from the start   *)
(* of the download, snapshotFreshness, resolveBootstrap).  A feed without  *)
(* a cadence is of unknown freshness and finds nothing; an RDAP finding is *)
(* never of a stale record, but without a cache lifetime its freshness is  *)
(* unknown (foundOutcome).                                                 *)
UseIsRecent ==
  /\ FoundInFeed => cadence # Off /\ verdict.freshness = "fresh"
  /\ verdict.finding => verdict.freshness # "stale"
  /\ cadence # Off /\ (FoundInFeed \/ RoutedBySnapshot) =>
       replacedAt[verdict.version] >= verdict.at - cadence

(* "not modified" is said of the snapshot this update compared with, and   *)
(* returns: another update may have replaced the store meanwhile.  A page  *)
(* that is not the feed at all never replaces a snapshot                   *)
(* (conditionalHeaders, parseUrlhausCsv, parsePhishTankCsv).               *)
ResultIsTrue ==
  /\ \A p \in Updater : updates[p].result.code = "not-modified" =>
       updates[p].previous.version = updates[p].served
  /\ store # Nothing =>
       \E i \in DOMAIN Published[store.version] : Published[store.version][i] # "noise"

Whole(snapshot) ==
  <<snapshot.records>> = parsed(Published[snapshot.version], Published[snapshot.version])

(* "a truncated response - is `malformed` and returns `null`, so the       *)
(* updater reports a failure and never overwrites a good snapshot with     *)
(* garbage" (urlhaus-parse.ts:11-14): a snapshot that is the whole of a    *)
(* published version is only replaced by another that is.                  *)
WholeStored == [][store # Nothing /\ Whole(store) => Whole(store')]_store
=============================================================================
