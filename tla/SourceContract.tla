--------------------------- MODULE SourceContract ---------------------------
(***************************************************************************)
(* The contract every online source is built under (sources/contract.ts):  *)
(* a declarative descriptor, the gates a caller's configuration passes     *)
(* before the source may run, and the freshness it may claim.              *)
(*                                                                         *)
(* The fields the gates only test for being non-empty strings are one      *)
(* field here, wellFormed.                                                 *)
(***************************************************************************)
EXTENDS Integers, FiniteSets

CONSTANTS
  Channel,       \* disclosure channels a descriptor may name, known or not
  GatedChannel,  \* CONSENT_GATED_CHANNELS
  Mode           \* commercial modes a descriptor may name, known or not

DISCLOSURE_CHANNELS == {"none", "registrable-domain", "host", "url-prefix-hash", "full-url",
                        "client-ip", "watchlist"}
COMMERCIAL_MODES == {"non-commercial", "fair-use", "commercial"}

ASSUME ContractAssumption ==
  GatedChannel \subseteq Channel \cap {"full-url", "client-ip", "watchlist"}

Descriptor ==
  [wellFormed : BOOLEAN, sends : SUBSET Channel, consentRequired : SUBSET Channel,
   credentials : {"none", "required", "optional"}, supportedModes : SUBSET Mode,
   attributionRequired : BOOLEAN]

(* OnlineSourceConfig: the consent, the credential and the terms. *)
Config ==
  [mode : Mode \cap COMMERCIAL_MODES, acceptAttribution : BOOLEAN, credential : BOOLEAN,
   consent : SUBSET GatedChannel]

(* Fault: that gated channels ask for consent is left to the author. *)
ConsentAsDeclared(d) ==
  /\ d.wellFormed
  /\ d.sends # {} /\ d.sends \subseteq DISCLOSURE_CHANNELS
  /\ "none" \in d.sends => d.sends = {"none"}
  /\ d.consentRequired \subseteq GatedChannel \cap d.sends
  /\ d.supportedModes # {} /\ d.supportedModes \subseteq COMMERCIAL_MODES

assertValidSourceDescriptor(d) ==
  /\ d.wellFormed
  /\ d.sends # {} /\ d.sends \subseteq DISCLOSURE_CHANNELS
  /\ "none" \in d.sends => d.sends = {"none"}
  /\ d.consentRequired \subseteq GatedChannel \cap d.sends
  /\ d.sends \cap GatedChannel \subseteq d.consentRequired
  /\ d.supportedModes # {} /\ d.supportedModes \subseteq COMMERCIAL_MODES

(* What constructing a source throws, or "accepted". *)
assertSourceTermsAccepted(d, c) ==
  IF ~assertValidSourceDescriptor(d) THEN "invalid-descriptor"
  ELSE IF c.mode \notin d.supportedModes THEN "unsupported-commercial-mode"
  ELSE IF d.attributionRequired /\ ~c.acceptAttribution THEN "attribution-not-accepted"
  ELSE "accepted"

(* isOnlineSecret: only a branded secret fills the credential slot. *)
isOnlineSecret(c) == c.credential

preflightOnlineSource(d, c) ==
  IF assertSourceTermsAccepted(d, c) # "accepted" THEN assertSourceTermsAccepted(d, c)
  ELSE IF d.credentials = "required" /\ ~isOnlineSecret(c) THEN "credentials-missing"
  ELSE IF ~(d.consentRequired \subseteq c.consent) THEN "disclosure-consent-required"
  ELSE "ok"

(***************************************************************************)
(* The descriptors that ship.                                              *)
(***************************************************************************)
Shipped(sends, credentials, supportedModes, attributionRequired) ==
  [wellFormed |-> TRUE, sends |-> sends, consentRequired |-> {}, credentials |-> credentials,
   supportedModes |-> supportedModes, attributionRequired |-> attributionRequired]

URLHAUS_SOURCE_DESCRIPTOR ==
  Shipped({"none"}, "required", {"non-commercial", "fair-use"}, TRUE)
PHISHTANK_SOURCE_DESCRIPTOR ==
  Shipped({"none"}, "optional", {"non-commercial", "fair-use"}, TRUE)
RDAP_SOURCE_DESCRIPTOR == Shipped({"registrable-domain"}, "none", COMMERCIAL_MODES, FALSE)
DNS_SOURCE_DESCRIPTOR == Shipped({"registrable-domain", "host"}, "none", COMMERCIAL_MODES, FALSE)
TLS_SOURCE_DESCRIPTOR == Shipped({"host"}, "none", COMMERCIAL_MODES, FALSE)

ShippedDescriptors ==
  {URLHAUS_SOURCE_DESCRIPTOR, PHISHTANK_SOURCE_DESCRIPTOR, RDAP_SOURCE_DESCRIPTOR,
   DNS_SOURCE_DESCRIPTOR, TLS_SOURCE_DESCRIPTOR}

(***************************************************************************)
(* freshnessFor.  An instant is a number, -1 stands for null.              *)
(***************************************************************************)
freshnessFor(capability, observedAt, expiry) ==
  IF ~capability.declaresExpiry \/ expiry = -1 THEN [status |-> "unknown", expiresAt |-> -1]
  ELSE [status |-> IF observedAt >= expiry /\ capability.staleWhenExpired
                   THEN "stale" ELSE "fresh",
        expiresAt |-> expiry]

-----------------------------------------------------------------------------
(* The gates at work on any descriptor and configuration. *)
VARIABLE gate

GateInit ==
  \E d \in Descriptor \cup ShippedDescriptors, c \in Config :
    gate = [descriptor |-> d, config |-> c, outcome |-> "pending"]

Preflight ==
  /\ gate.outcome = "pending"
  /\ gate' = [gate EXCEPT !.outcome = preflightOnlineSource(gate.descriptor, gate.config)]

(* A source that passes its preflight discloses nothing that needs the     *)
(* caller's consent without having it, runs under terms the caller took,   *)
(* and has its credential; and every shipped descriptor is one the gates   *)
(* let through for a caller who grants what it asks.                       *)
DisclosureConsented ==
  /\ gate.outcome = "ok" =>
       /\ gate.descriptor.sends \cap GatedChannel \subseteq gate.config.consent
       /\ gate.config.mode \in gate.descriptor.supportedModes
       /\ gate.descriptor.attributionRequired => gate.config.acceptAttribution
       /\ gate.descriptor.credentials = "required" => gate.config.credential
  /\ gate.descriptor \in ShippedDescriptors => gate.outcome # "invalid-descriptor"
=============================================================================
