----------------------------- MODULE MCSources -----------------------------
(***************************************************************************)
(* The parts of the online sources, which share no state: a behaviour      *)
(* works in one of them, named by part, while the others rest.             *)
(***************************************************************************)
EXTENDS ProviderHttp, SnapshotMirror, DnsState, TlsInspect

CONSTANT Parts     \* the parts a run looks at
VARIABLE part

U(scheme, host, userinfo) == [scheme |-> scheme, host |-> host, userinfo |-> userinfo]

(* Two origins and a cleartext one, one host that is a prohibited literal, *)
(* and names that DNS may rebind between hops.                             *)
MCUrl == {U("https", "feed", FALSE), U("https", "cdn", FALSE), U("http", "feed", FALSE),
          U("https", "loopback", FALSE), U("https", "feed", TRUE), U("other", "feed", FALSE),
          U("https", "public", FALSE)}
MCAddress == {"public", "loopback"}
MCLiteral == {"public", "loopback"}
MCAllowed == {"public"}

(* Two versions of a feed, and a page that is none. *)
MCPublished == <<<<"banner", "listed">>, <<"listed">>, <<"noise">>>>

(* A feed that grows by one row, with no comment lines: its first version  *)
(* cannot be cut short and still parse.                                    *)
MCGrowing == <<<<"listed">>, <<"listed", "listed">>>>

MCMxWorld == {<<>>, <<<<"", 0>>>>, <<<<"mail", 10>>>>, <<<<"", 0>>, <<"mail", 10>>>>}

-----------------------------------------------------------------------------
HttpRests ==
  /\ client = "mirror" /\ stage = "done" /\ url = NotAUrl /\ headers = {}
  /\ hopOrigins = <<>> /\ seen = {} /\ received = 0 /\ status = "none"
  /\ aborted = FALSE /\ timedOut = FALSE /\ cached = "none" /\ wire = <<>>
  /\ result = Pending

MirrorRests ==
  /\ feed = "urlhaus" /\ cadence = Off /\ now = 0 /\ current = 1
  /\ replacedAt = [v \in DOMAIN Published |-> MaxNow]
  /\ store = Nothing /\ index = Nothing
  /\ updates = [p \in Updater |-> Idle] /\ begun = 0 /\ verdict = NoVerdict

GateRests ==
  gate = [descriptor |-> URLHAUS_SOURCE_DESCRIPTOR, outcome |-> "pending",
          config |-> [mode |-> "fair-use", acceptAttribution |-> TRUE, credential |-> TRUE,
                      consent |-> {}]]

DnsRests ==
  dns = [at |-> "done", host |-> "none", aborted |-> FALSE, apex |-> FALSE,
         zoneAddressed |-> FALSE, truth |-> [q \in Query |-> <<>>],
         answers |-> [q \in Query |-> NoAnswer], dnssec |-> "none", outcome |-> NoOutcome]

TlsRests ==
  tls = [url |-> "ok", validPolicy |-> TRUE, work |-> "ended", answer |-> TlsPending,
         aborted |-> FALSE, timedOut |-> FALSE, dialledLate |-> FALSE,
         peer |-> "none", leaf |-> "none", depth |-> -1, trusted |-> FALSE,
         report |-> NoReport]

MCInit ==
  /\ part \in Parts
  /\ IF part = "http" THEN Init ELSE HttpRests
  /\ IF part = "mirror" THEN MirrorInit ELSE MirrorRests
  /\ IF part = "gate" THEN GateInit ELSE GateRests
  /\ IF part = "dns" THEN DnsInit ELSE DnsRests
  /\ IF part = "tls" THEN TlsInit ELSE TlsRests

MCNext ==
  \/ part = "http" /\ Next /\ UNCHANGED <<mirrorVars, gate, dns, tls, part>>
  \/ part = "mirror" /\ MirrorNext /\ UNCHANGED <<vars, gate, dns, tls, part>>
  \/ part = "gate" /\ Preflight /\ UNCHANGED <<vars, mirrorVars, dns, tls, part>>
  \/ part = "dns" /\ DnsNext /\ UNCHANGED <<vars, mirrorVars, gate, tls, part>>
  \/ part = "tls" /\ TlsNext /\ UNCHANGED <<vars, mirrorVars, gate, dns, part>>

(* The fairness of the parts, each stated over its own variables. *)
MCSpec ==
  /\ MCInit /\ [][MCNext]_<<vars, mirrorVars, gate, dns, tls, part>>
  /\ Fairness
  /\ WF_tls(TlsBegins) /\ WF_tls(TlsDeadline)

-----------------------------------------------------------------------------
(* Nothing leaves that was not agreed to: a credential stays at the origin *)
(* it was given for, a lookup is disclosed only with consent: see          *)
(* CredentialStaysHome of ProviderHttp, DisclosureConsented of             *)
(* SourceContract.                                                         *)
NothingLeavesUnasked == CredentialStaysHome /\ DisclosureConsented

(* What is said of a snapshot is so: "not modified" of the one that was    *)
(* compared, freshness of the one that is reported from: see ResultIsTrue  *)
(* and UseIsRecent of SnapshotMirror.                                      *)
SnapshotsAreTrue == ResultIsTrue /\ UseIsRecent

(* What a source claims of DNS and of a certificate, it has seen: see      *)
(* DnsClaimsAreTrue of DnsState, ObservationEarned of TlsInspect.          *)
ClaimsAreObserved == DnsClaimsAreTrue /\ ObservationEarned

(* What ended a call is called what it was, when the caller's signal, a    *)
(* deadline and the network end it together: see CauseIsOwned of           *)
(* ProviderHttp, TlsCausesAreTrue of TlsInspect, DnsAbortIsOwned of        *)
(* DnsState.                                                               *)
CausesAreOwned == CauseIsOwned /\ TlsCausesAreTrue /\ DnsAbortIsOwned

(* A bounded call to a source ends, whatever the peer does: see            *)
(* CallSettles of ProviderHttp, InspectionSettles of TlsInspect.           *)
SourcesSettle == CallSettles /\ InspectionSettles
=============================================================================
