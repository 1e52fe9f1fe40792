----------------------------- MODULE TlsInspect -----------------------------
(***************************************************************************)
(* The TLS source: one certificate observation under one deadline          *)
(* (transport/tls-inspect.ts), over a socket port (tls-node.ts), reduced   *)
(* to facts (tls-certificate.ts, tls-der.ts) and reported by an enricher   *)
(* (reputation/tls-enricher.ts).  inspect races its work against the       *)
(* deadline; work that lost goes on.                                       *)
(***************************************************************************)
EXTENDS Integers, Sequences, FiniteSets, SequencesExt

CONSTANTS
  Certificate,         \* certificates a server may send
  MAX_OBSERVED_CHAIN,  \* how far the issuer links are followed
  MaxChainDepth,       \* policy.maxChainDepth
  ObservedAt           \* the time of the observation, against validity bounds 0..2

ASSUME TlsAssumption == ObservedAt \in Nat /\ MAX_OBSERVED_CHAIN \in Nat \ {0}

VARIABLE tls

(* A certificate as the code reads it: x509 says that node:crypto parses   *)
(* it, der that the policy extension does.                                 *)
Leaf == [x509 : BOOLEAN, der : BOOLEAN, small : BOOLEAN, notBefore : 0..2, notAfter : 0..2,
         hostnameMatch : BOOLEAN, selfIssued : BOOLEAN]

NoCause == "none"
NoReport == <<"pending", FALSE>>      \* status and whether to retry
TlsPending == [status |-> "pending", code |-> NoCause, defects |-> {}]
Incomplete(code) == [status |-> "incomplete", code |-> code, defects |-> {}]
Blocked(code) == [status |-> "blocked", code |-> code, defects |-> {}]
Observed(defects) == [status |-> "observed", code |-> NoCause, defects |-> defects]

TlsInit ==
  \E url \in {"invalid-url", "unsupported-scheme", "url-credentials", "ok"},
     validPolicy \in BOOLEAN :
    tls = [url |-> url, validPolicy |-> validPolicy, work |-> "start", answer |-> TlsPending,
           aborted |-> FALSE, timedOut |-> FALSE, dialledLate |-> FALSE,
           peer |-> "none", leaf |-> "none", depth |-> -1, trusted |-> FALSE,
           report |-> NoReport]

(***************************************************************************)
(* How inspect answers: what its work returned, or what it threw, the      *)
(* deadline first, then the caller, then the error's own code.             *)
(***************************************************************************)
signalAborted == tls.aborted \/ tls.timedOut

(* Fault: the caller's abort is called what it broke. *)
ErrorItself(code) == Incomplete(IF tls.timedOut THEN "timeout" ELSE code)

Caught(code) ==
  IF tls.timedOut THEN Incomplete("timeout")
  ELSE IF tls.aborted THEN Incomplete("caller-aborted") ELSE Incomplete(code)

(* Work that ends: its answer counts only while inspect still waits. *)
WorkEnds(t, answer) ==
  tls' = [t EXCEPT !.work = "ended",
                   !.answer = IF t.answer = TlsPending THEN answer ELSE t.answer]

TlsBegins ==
  /\ tls.work = "start"
  /\ \/ tls.aborted /\ WorkEnds(tls, Incomplete("caller-aborted"))
     \/ ~tls.aborted /\ tls.url # "ok" /\ WorkEnds(tls, Incomplete(tls.url))
     \/ ~tls.aborted /\ tls.url = "ok" /\ tls' = [tls EXCEPT !.work = "pin"]

(* STABLE_OBSERVE_CODES pass, any other error is named by its phase. *)
observeCause(phase, code) ==
  IF code \in {"dns-not-found", "dns-timeout", "dns-malformed", "connect-refused",
               "connect-timeout", "connection-address-mismatch", "tls-handshake"}
  THEN code ELSE IF phase = "dns" THEN "dns-error" ELSE "connect-error"

(* The resolver rejects, or the answer pins nothing. *)
TlsPinFails ==
  /\ tls.work = "pin"
  /\ \/ \E code \in {"dns-not-found", "dns-malformed", "dns-timeout", "other"} :
          WorkEnds(tls, Caught(observeCause("dns", code)))
     \/ ~signalAborted /\ WorkEnds(tls, Blocked("prohibited-address"))
     \/ signalAborted /\ WorkEnds(tls, Caught("dns-timeout"))

(* Fault: the signal is not looked at again after the resolver answered. *)
PinnedWhenever ==
  /\ tls.work = "pin"
  /\ tls' = [tls EXCEPT !.work = "observe", !.dialledLate = signalAborted]

TlsPinned ==
  /\ tls.work = "pin" /\ ~signalAborted
  /\ tls' = [tls EXCEPT !.work = "observe", !.dialledLate = signalAborted]

(***************************************************************************)
(* The port over tls.connect: it verifies nothing itself and reports what  *)
(* it saw.                                                                 *)
(***************************************************************************)
NodeTlsObserveFailure == {"connect-refused", "connect-timeout", "connect-error", "tls-handshake"}

TlsObserveFails ==
  /\ tls.work = "observe"
  /\ \E code \in NodeTlsObserveFailure : WorkEnds(tls, Caught(observeCause("connect", code)))

(* The chain by its issuer links, without repetition, to a limit. *)
collectChain(issuer, leaf) ==
  LET walk[n \in 0..MAX_OBSERVED_CHAIN] ==
        IF n = 0 THEN <<>>
        ELSE IF n = 1 THEN <<leaf>>
        ELSE LET chain == walk[n - 1]
                 next == issuer[Last(chain)]
             IN  IF next = "none" \/ Contains(chain, next) THEN chain ELSE Append(chain, next)
  IN  walk[MAX_OBSERVED_CHAIN]

PeerChains ==
  {chain \in BoundedSeq(Certificate, MAX_OBSERVED_CHAIN) :
     \/ chain = <<>>
     \/ \E issuer \in [Certificate -> Certificate \cup {"none"}], leaf \in Certificate :
          chain = collectChain(issuer, leaf)}

(***************************************************************************)
(* normalizeTlsCertificate: why it throws, or "ok"; and the defects.       *)
(***************************************************************************)
parseLeaf(leaf) == leaf.x509
readCertificatePolicyOids(leaf) == leaf.der      \* FALSE: a DerParseError

analysis(chain, leaf) ==
  CASE ~tls.validPolicy -> "tls-handshake"        \* a RangeError, met only here
    [] tls.validPolicy /\ chain = <<>> -> "certificate-malformed"
    [] tls.validPolicy /\ Len(chain) > MaxChainDepth -> "chain-too-deep"
    [] OTHER -> IF ~leaf.small THEN "certificate-too-large"
                ELSE IF ~parseLeaf(leaf) \/ ~readCertificatePolicyOids(leaf)
                     THEN "certificate-malformed" ELSE "ok"

(* Fault: trust is inferred from a clean validity window and name. *)
DefectsWithoutTrust(leaf, trusted) ==
  {d \in {"expired", "not-yet-valid", "hostname-mismatch"} :
     \/ d = "expired" /\ ObservedAt > leaf.notAfter
     \/ d = "not-yet-valid" /\ ObservedAt < leaf.notBefore
     \/ d = "hostname-mismatch" /\ ~leaf.hostnameMatch}

defects(leaf, trusted) ==
  {d \in {"expired", "not-yet-valid", "hostname-mismatch", "untrusted", "self-signed"} :
     \/ d = "expired" /\ ObservedAt > leaf.notAfter
     \/ d = "not-yet-valid" /\ ObservedAt < leaf.notBefore
     \/ d = "hostname-mismatch" /\ ~leaf.hostnameMatch
     \/ d = "untrusted" /\ ~trusted
     \/ d = "self-signed" /\ leaf.selfIssued /\ ~trusted}

(* The handshake completes with some peer, chain and verdict of the trust  *)
(* store.                                                                  *)
TlsHandshake ==
  /\ tls.work = "observe"
  /\ \E peer \in {"pinned", "other"}, trusted \in BOOLEAN, leaf \in Leaf,
        links \in PeerChains :
       LET seen == [tls EXCEPT !.peer = peer, !.leaf = leaf, !.depth = Len(links),
                               !.trusted = trusted]
       IN  \/ signalAborted /\ WorkEnds(seen, Caught("connect-timeout"))
           \/ /\ ~signalAborted /\ peer # "pinned"
              /\ WorkEnds(seen, Caught("connection-address-mismatch"))
           \/ /\ ~signalAborted /\ peer = "pinned" /\ analysis(links, leaf) # "ok"
              /\ WorkEnds(seen, Caught(analysis(links, leaf)))
           \/ /\ ~signalAborted /\ peer = "pinned" /\ analysis(links, leaf) = "ok"
              /\ WorkEnds(seen, Observed(defects(leaf, trusted)))

TlsAborts ==
  /\ tls.answer = TlsPending /\ ~tls.aborted
  /\ tls' = [tls EXCEPT !.aborted = TRUE]

(* The deadline: it aborts the operation and answers for it. *)
TlsDeadline ==
  /\ tls.work \notin {"start", "ended"} /\ tls.answer = TlsPending
  /\ tls' = [tls EXCEPT !.timedOut = TRUE, !.answer = Incomplete("timeout")]

(***************************************************************************)
(* The enricher's report.                                                  *)
(***************************************************************************)
(* Fault: a chain that is too deep is taken for a network failure. *)
DeepChainRetried(code) ==
  CASE code \in {"prohibited-address", "invalid-url", "unsupported-scheme", "url-credentials"}
         -> <<"skipped", FALSE>>
    [] code \in {"caller-aborted", "timeout"} -> <<"skipped", TRUE>>
    [] code \in {"certificate-malformed", "certificate-too-large"} -> <<"failure", FALSE>>
    [] OTHER -> <<"failure", TRUE>>

(* Fault: a timeout is as final as a refusal. *)
TimeoutFinal(code) ==
  CASE code \in {"prohibited-address", "invalid-url", "unsupported-scheme", "url-credentials",
                 "timeout"} -> <<"skipped", FALSE>>
    [] code = "caller-aborted" -> <<"skipped", TRUE>>
    [] code \in {"certificate-malformed", "certificate-too-large", "chain-too-deep"}
         -> <<"failure", FALSE>>
    [] OTHER -> <<"failure", TRUE>>

dispositionFor(code) ==
  CASE code \in {"prohibited-address", "invalid-url", "unsupported-scheme", "url-credentials"}
         -> <<"skipped", FALSE>>
    [] code \in {"caller-aborted", "timeout"} -> <<"skipped", TRUE>>
    [] code \in {"certificate-malformed", "certificate-too-large", "chain-too-deep"}
         -> <<"failure", FALSE>>
    [] OTHER -> <<"failure", TRUE>>

TlsReports ==
  /\ tls.report = NoReport /\ tls.answer # TlsPending
  /\ tls' = [tls EXCEPT !.report = IF tls.answer.status = "observed" THEN <<"success", FALSE>>
                                   ELSE dispositionFor(tls.answer.code)]

(* enrich never asks about an input that is no https URL with a host. *)
TlsNotAnEndpoint ==
  /\ tls.work = "start" /\ tls.url # "ok" /\ tls.answer = TlsPending /\ tls.report = NoReport
  /\ tls' = [tls EXCEPT !.work = "ended", !.report = <<"skipped", FALSE>>]

TlsWork == TlsBegins \/ TlsPinFails \/ TlsPinned \/ TlsObserveFails \/ TlsHandshake

TlsNext == TlsWork \/ TlsAborts \/ TlsDeadline \/ TlsReports \/ TlsNotAnEndpoint

-----------------------------------------------------------------------------
(* The server of the pinned address sent something that this policy will   *)
(* refuse as often as it is sent: no certificate, a chain beyond the       *)
(* limit, or a leaf too large or past reading.                             *)
CertificateRefused ==
  /\ tls.validPolicy /\ tls.peer = "pinned" /\ tls.depth # -1
  /\ \/ tls.depth = 0 \/ tls.depth > MaxChainDepth
     \/ ~tls.leaf.small \/ ~tls.leaf.x509 \/ ~tls.leaf.der

(* An observation is only made of the peer that was pinned and of what the *)
(* policy does not refuse, and is never one that was started or accepted   *)
(* after the operation was over; and it names each defect that the leaf    *)
(* has, and no other: a validity that is over or has not begun, another    *)
(* host's name, a chain the store does not trust, and its own signature    *)
(* where nothing else vouches for it (execute, normalizeTlsCertificate).   *)
ObservationEarned ==
  /\ ~tls.dialledLate
  /\ tls.answer.status = "observed" =>
       /\ tls.peer = "pinned" /\ ~signalAborted /\ ~CertificateRefused
       /\ "expired" \in tls.answer.defects <=> ObservedAt > tls.leaf.notAfter
       /\ "not-yet-valid" \in tls.answer.defects <=> ObservedAt < tls.leaf.notBefore
       /\ "hostname-mismatch" \in tls.answer.defects <=> ~tls.leaf.hostnameMatch
       /\ "untrusted" \in tls.answer.defects <=> ~tls.trusted
       /\ "self-signed" \in tls.answer.defects <=> tls.leaf.selfIssued /\ ~tls.trusted

(* The cause that inspect reports is the one that happened: a timeout is   *)
(* never blamed on the caller nor the caller's abort on the network.  And  *)
(* an inspection that observed nothing is offered again exactly when it    *)
(* was cut short by the caller or the deadline, or failed at something     *)
(* other than the URL, the address policy or the certificate the server    *)
(* sent; it counts as a failure exactly when neither the caller, the       *)
(* deadline, the URL nor the address policy ended it (inspect's catch,     *)
(* dispositionFor).  An invalid policy, met only after the handshake, is   *)
(* told and offered again as a failed handshake.                           *)
TlsCausesAreTrue ==
  /\ tls.answer.code = "timeout" => tls.timedOut
  /\ tls.answer.code = "caller-aborted" => tls.aborted /\ ~tls.timedOut
  /\ tls.answer.status = "incomplete" /\ tls.aborted =>
       tls.answer.code \in {"caller-aborted", "timeout"}
  /\ tls.report # NoReport /\ tls.answer.status \in {"incomplete", "blocked"} =>
       /\ tls.report[2] <=>
            \/ signalAborted
            \/ tls.url = "ok" /\ tls.answer.status # "blocked" /\ ~CertificateRefused
       /\ tls.report[1] = "failure" <=>
            ~signalAborted /\ tls.url = "ok" /\ tls.answer.status # "blocked"

(* An inspection always answers, whatever resolver and server withhold:    *)
(* the clock port fires its deadline.                                      *)
InspectionSettles == <>(tls.answer # TlsPending \/ tls.work = "ended")
=============================================================================
