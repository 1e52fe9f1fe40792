--------------------------- MODULE Sources_proofs ---------------------------
(***************************************************************************)
(* Proofs about the online sources, each for every value of its constants: *)
(* provider calls, the consent gates, snapshots, DNS states and TLS        *)
(* observations.  The parts share no variable, so each has an inductive    *)
(* invariant of its own; the theorems at the end put them together for     *)
(* the specification MCSpec of MCSources.                                  *)
(***************************************************************************)
EXTENDS MCSources, TLAPS

-----------------------------------------------------------------------------
(***************************************************************************)
(* Provider calls (ProviderHttp).                                          *)
(***************************************************************************)
Underway == {"hop", "connect", "head", "body"}
HeaderNames == CallerHeaders \cup MIRROR_DEFAULTS

HttpTyped ==
  /\ client \in {"mirror", "rdap"}
  /\ stage \in {"start", "done"} \cup Underway
  /\ url \in Url \cup {NotAUrl}
  /\ headers \subseteq HeaderNames
  /\ wire \in Seq([origin : {Origin(u) : u \in Url}, peer : Address,
                   headers : SUBSET HeaderNames])
  /\ hopOrigins \in Seq({Origin(u) : u \in Url})
  /\ aborted \in BOOLEAN /\ timedOut \in BOOLEAN

(* A request is entered in the ledger before it is put on a socket, and a  *)
(* redirect is followed only while the ledger has room.                    *)
LedgerLeads ==
  /\ Len(hopOrigins) = IF stage = "connect" THEN Len(wire) + 1
                       ELSE IF stage = "done" THEN Len(hopOrigins) ELSE Len(wire)
  /\ Len(wire) <= Len(hopOrigins)
  /\ Len(hopOrigins) <= IF stage = "hop" THEN MaxRedirects ELSE MaxRedirects + 1
  /\ stage = "start" => hopOrigins = <<>>

(* What the URL of the current hop has passed before its request is made. *)
UrlVetted ==
  /\ stage \in {"connect", "head", "body"} =>
       url # NotAUrl /\ ~(url.host \in Literal /\ url.host \notin Allowed)
  /\ client = "mirror" /\ stage \in Underway => MirrorUrl(url) = "ok"

(* Headers of the caller alone are still there only while every request    *)
(* has gone to the origin of the current one.                              *)
AtHome ==
  /\ client = "rdap" => headers \cap Private = {}
  /\ stage \in Underway /\ headers \cap Private # {} =>
       \A j \in DOMAIN wire : wire[j].origin = Origin(url)

Unsettled == stage # "done" => result = Pending

HttpInv ==
  /\ HttpTyped /\ LedgerLeads /\ UrlVetted /\ AtHome /\ Unsettled
  /\ EveryHopPoliced /\ CredentialStaysHome /\ CauseIsOwned

(* CauseIsOwned of a result that is about to be given. *)
WellCaused(r) ==
  LET abort == r \in {Raised("abort"), Skipped("rdap-caller-aborted")}
  IN  /\ abort => aborted
      /\ aborted /\ r.kind = "failure" => abort
      /\ r = Raised("http-timeout") => timedOut

(* What providerUrl lets through is a URL, and not a cleartext one. *)
LEMMA MirrorUrlFacts ==
  ASSUME NEW u \in Url \cup {NotAUrl}
  PROVE  /\ MirrorUrl(u) = "ok" => /\ u \in Url /\ u # NotAUrl
                                   /\ u.scheme = "https" \/ AllowInsecureUrl
         /\ MirrorUrl(u) \notin {"abort", "http-timeout"}
         /\ RdapUrl(u) \notin {"abort", "http-timeout"}
         /\ RdapUrl(u) = "ok" => u \in Url /\ u # NotAUrl
<1>1. CASE u = NotAUrl
  BY <1>1 DEF MirrorUrl, RdapUrl
<1>2. CASE u # NotAUrl
  BY <1>2 DEF MirrorUrl, RdapUrl
<1> QED
  BY <1>1, <1>2

(* The error paths name the caller or the deadline only when they are it. *)
LEMMA ThrownFacts ==
  ASSUME HttpTyped, NEW code, code \in {"abort", "http-timeout"} => ~Silent
  PROVE  WellCaused(Thrown(code))
<1>1. CASE client = "mirror"
  BY <1>1 DEF Thrown, MirrorThrows, WellCaused, Raised, Skipped, HttpTyped, Silent
<1>2. CASE client # "mirror"
  BY <1>2 DEF Thrown, RdapThrows, WellCaused, Raised, Skipped, HttpTyped, Silent
<1> QED
  BY <1>1, <1>2

(* A call that settles leaves the rest of its state behind. *)
LEMMA SettleKeeps ==
  ASSUME HttpInv, NEW r, Settle(r), WellCaused(r), stage # "done"
  PROVE  HttpInv'
<1> USE DEF Settle
<1>1. HttpTyped'
  BY DEF HttpInv, HttpTyped
<1>2. LedgerLeads'
  <2>1. Len(hopOrigins) \in Nat /\ Len(wire) \in Nat
    BY DEF HttpInv, HttpTyped
  <2> QED
    BY <2>1, ProviderAssumption DEF HttpInv, LedgerLeads
<1>3. UrlVetted' /\ AtHome' /\ Unsettled'
  BY DEF HttpInv, UrlVetted, AtHome, Unsettled, Underway
<1>4. EveryHopPoliced' /\ CredentialStaysHome'
  BY DEF HttpInv, EveryHopPoliced, CredentialStaysHome
<1>5. CauseIsOwned'
  BY DEF CauseIsOwned, WellCaused
<1> QED
  BY <1>1, <1>2, <1>3, <1>4, <1>5 DEF HttpInv

LEMMA FailsKeeps ==
  ASSUME HttpInv, NEW code, Fails(code), stage # "done",
         code \in {"abort", "http-timeout"} => ~Silent
  PROVE  HttpInv'
<1>1. WellCaused(Thrown(code))
  BY ThrownFacts DEF HttpInv
<1> QED
  BY <1>1, SettleKeeps DEF Fails

(* The actions that neither settle nor touch the wire. *)
LEMMA QuietSteps ==
  ASSUME HttpInv, HeadArrives \/ Abort \/ Deadline
  PROVE  HttpInv'
<1> USE DEF HeadArrives, Abort, Deadline
<1>1. HttpTyped'
  BY DEF HttpInv, HttpTyped, Underway
<1>2. LedgerLeads'
  BY DEF HttpInv, LedgerLeads
<1>3. UrlVetted' /\ AtHome' /\ Unsettled'
  BY DEF HttpInv, UrlVetted, AtHome, Unsettled, Underway, MirrorUrl
<1>4. EveryHopPoliced' /\ CredentialStaysHome'
  BY DEF HttpInv, EveryHopPoliced, CredentialStaysHome
<1>5. CauseIsOwned'
  <2>1. stage # "done"
    OBVIOUS
  <2> QED
    BY <2>1 DEF HttpInv, Unsettled, CauseIsOwned, Pending, Raised, Skipped
<1> QED
  BY <1>1, <1>2, <1>3, <1>4, <1>5 DEF HttpInv

(* A call that has not settled blames nobody yet. *)
LEMMA PendingBlamesNobody ==
  ASSUME result = Pending PROVE CauseIsOwned
BY DEF CauseIsOwned, Pending, Raised, Skipped

LEMMA MirrorRequestKeeps == HttpInv /\ MirrorRequest => HttpInv'
<1> SUFFICES ASSUME HttpInv, MirrorRequest PROVE HttpInv'
  OBVIOUS
<1>0. stage # "done" /\ url \in Url \cup {NotAUrl} /\ client = "mirror" /\ stage = "start"
  BY DEF MirrorRequest, HttpInv, HttpTyped
<1>1. CASE aborted /\ Settle(Raised("abort"))
  BY <1>0, <1>1, SettleKeeps DEF WellCaused, Raised, Skipped
<1>2. CASE ~aborted /\ Settle(Raised(MirrorUrl(url)))
  BY <1>0, <1>2, SettleKeeps, MirrorUrlFacts DEF WellCaused, Raised, Skipped
<1>3. CASE ~aborted /\ Settle(Raised("http-malformed"))
  BY <1>0, <1>3, SettleKeeps DEF WellCaused, Raised, Skipped
<1>4. CASE /\ MirrorUrl(url) = "ok" /\ headers' = headers \cup MIRROR_DEFAULTS
           /\ stage' = "hop"
           /\ UNCHANGED <<client, url, hopOrigins, seen, received, status, aborted,
                          timedOut, cached, wire, result>>
  <2>1. HttpTyped'
    BY <1>4 DEF HttpInv, HttpTyped, Underway, HeaderNames
  <2>2. hopOrigins = <<>> /\ Len(wire) = 0 /\ wire = <<>>
    BY <1>0 DEF HttpInv, LedgerLeads, HttpTyped
  <2>3. LedgerLeads'
    BY <1>4, <2>2, ProviderAssumption DEF LedgerLeads
  <2>4. UrlVetted' /\ AtHome' /\ Unsettled'
    BY <1>0, <1>4, <2>2 DEF HttpInv, UrlVetted, AtHome, Unsettled, Underway, MirrorUrl
  <2>5. EveryHopPoliced' /\ CredentialStaysHome' /\ CauseIsOwned'
    BY <1>0, <1>4, <2>2 DEF HttpInv, EveryHopPoliced, CredentialStaysHome, CauseIsOwned
  <2> QED
    BY <2>1, <2>3, <2>4, <2>5 DEF HttpInv
<1> QED
  BY <1>1, <1>2, <1>3, <1>4 DEF MirrorRequest

LEMMA FetchRdapDomainKeeps == HttpInv /\ FetchRdapDomain => HttpInv'
<1> SUFFICES ASSUME HttpInv, FetchRdapDomain PROVE HttpInv'
  OBVIOUS
<1>0. stage # "done" /\ client = "rdap" /\ stage = "start"
  BY DEF FetchRdapDomain
<1>1. CASE aborted /\ Settle(Skipped("rdap-caller-aborted"))
  BY <1>0, <1>1, SettleKeeps DEF WellCaused, Raised, Skipped
<1>2. CASE ~aborted /\ Settle(Skipped("rdap-invalid-domain"))
  BY <1>0, <1>2, SettleKeeps DEF WellCaused, Raised, Skipped
<1>3. CASE ~aborted /\ Settle(Answered("from-cache"))
  BY <1>0, <1>3, SettleKeeps DEF WellCaused, Raised, Skipped, Answered
<1>4. CASE ~aborted /\ Settle(Skipped("rdap-unsupported-tld"))
  BY <1>0, <1>4, SettleKeeps DEF WellCaused, Raised, Skipped
<1>5. CASE /\ stage' = "hop"
           /\ UNCHANGED <<client, url, headers, hopOrigins, seen, received, status,
                          aborted, timedOut, cached, wire, result>>
  <2>1. HttpTyped'
    BY <1>5 DEF HttpInv, HttpTyped, Underway
  <2>2. hopOrigins = <<>> /\ wire = <<>> /\ Len(wire) = 0
    BY <1>0 DEF HttpInv, LedgerLeads, HttpTyped
  <2>3. LedgerLeads'
    BY <1>5, <2>2, ProviderAssumption DEF LedgerLeads
  <2>4. UrlVetted' /\ AtHome' /\ Unsettled'
    BY <1>0, <1>5, <2>2 DEF HttpInv, UrlVetted, AtHome, Unsettled, Underway
  <2>5. EveryHopPoliced' /\ CredentialStaysHome' /\ CauseIsOwned'
    BY <1>0, <1>5, <2>2 DEF HttpInv, EveryHopPoliced, CredentialStaysHome, CauseIsOwned
  <2> QED
    BY <2>1, <2>3, <2>4, <2>5 DEF HttpInv
<1> QED
  BY <1>1, <1>2, <1>3, <1>4, <1>5 DEF FetchRdapDomain

(* A request that is dispatched has its URL vetted and is entered in the   *)
(* ledger first, whichever client makes it.                                *)
LEMMA DispatchKeeps ==
  ASSUME HttpInv, stage = "hop", url # NotAUrl, Dispatch,
         hopOrigins' = Append(hopOrigins, Origin(url)),
         headers' = headers \/ headers' = MIRROR_DEFAULTS, timedOut' \in BOOLEAN
  PROVE  HttpInv'
<1> USE DEF Dispatch
<1>1. HttpTyped'
  BY DEF HttpInv, HttpTyped, Underway, HeaderNames
<1>2. LedgerLeads'
  <2>1. Len(hopOrigins') = Len(hopOrigins) + 1 /\ Len(hopOrigins) \in Nat /\ Len(wire) \in Nat
    BY DEF HttpInv, HttpTyped
  <2> QED
    BY <2>1, ProviderAssumption DEF HttpInv, LedgerLeads
<1>3. UrlVetted'
  BY DEF HttpInv, UrlVetted, Underway, MirrorUrl
<1>4. AtHome' /\ Unsettled'
  BY DEF HttpInv, AtHome, Unsettled, Underway, Private, MIRROR_DEFAULTS, Origin
<1>5. EveryHopPoliced' /\ CredentialStaysHome'
  BY DEF HttpInv, EveryHopPoliced, CredentialStaysHome
<1>6. CauseIsOwned'
  BY <1>4, PendingBlamesNobody DEF HttpInv, Unsettled, CauseIsOwned, Pending, Raised, Skipped
<1> QED
  BY <1>1, <1>2, <1>3, <1>4, <1>5, <1>6 DEF HttpInv

LEMMA HopsKeep == HttpInv /\ (MirrorHop \/ RdapHop) => HttpInv'
<1>1. ASSUME HttpInv, MirrorHop PROVE HttpInv'
  <2>0. stage = "hop" /\ stage # "done" /\ client = "mirror"
    BY <1>1 DEF MirrorHop
  <2>1. url # NotAUrl
    BY <1>1, <2>0, MirrorUrlFacts DEF HttpInv, HttpTyped, UrlVetted, Underway
  <2>2. CASE Refusal # "ok" /\ Fails(Refusal)
    <3>1. Refusal \notin {"abort", "http-timeout"}
      BY DEF Refusal
    <3> QED
      BY <1>1, <2>0, <2>2, <3>1, FailsKeeps
  <2>3. CASE /\ Dispatch
             /\ hopOrigins' = Append(hopOrigins, Origin(url))
             /\ UNCHANGED <<headers, seen, timedOut>>
    BY <1>1, <2>0, <2>1, <2>3, DispatchKeeps DEF HttpInv, HttpTyped
  <2> QED
    BY <1>1, <2>2, <2>3 DEF MirrorHop
<1>2. ASSUME HttpInv, RdapHop PROVE HttpInv'
  <2>0. /\ stage = "hop" /\ stage # "done" /\ client = "rdap"
        /\ url \in Url \cup {NotAUrl} /\ aborted \in BOOLEAN
    BY <1>2 DEF RdapHop, HttpInv, HttpTyped
  <2>1. CASE aborted /\ Settle(Skipped("rdap-caller-aborted"))
    BY <1>2, <2>0, <2>1, SettleKeeps DEF WellCaused, Raised, Skipped
  <2>2. CASE ~aborted /\ Settle(Raised("rdap-too-many-redirects"))
    BY <1>2, <2>0, <2>2, SettleKeeps DEF WellCaused, Raised, Skipped
  <2>3. CASE Fails(RdapUrl(url))
    BY <1>2, <2>0, <2>3, MirrorUrlFacts, FailsKeeps
  <2>4. CASE Refusal # "ok" /\ Fails(Refusal)
    <3>1. Refusal \notin {"abort", "http-timeout"}
      BY DEF Refusal
    <3> QED
      BY <1>2, <2>0, <2>4, <3>1, FailsKeeps
  <2>5. CASE /\ RdapUrl(url) = "ok" /\ Dispatch /\ headers' = MIRROR_DEFAULTS
             /\ hopOrigins' = Append(hopOrigins, Origin(url)) /\ timedOut' = FALSE
    BY <1>2, <2>0, <2>5, MirrorUrlFacts, DispatchKeeps
  <2> QED
    BY <1>2, <2>1, <2>2, <2>3, <2>4, <2>5 DEF RdapHop
<1> QED
  BY <1>1, <1>2

(* Whatever DNS answers, a peer is an address the policy allows. *)
LEMMA PeersAllowed ==
  ASSUME HttpInv, stage = "connect" PROVE Peers \subseteq Allowed
<1>1. CASE url.host \in Literal
  BY <1>1 DEF HttpInv, UrlVetted, Peers
<1>2. CASE url.host \notin Literal
  BY <1>2 DEF Peers, Policed
<1> QED
  BY <1>1, <1>2

LEMMA ConnectKeeps == HttpInv /\ Connect => HttpInv'
<1> SUFFICES ASSUME HttpInv, Connect PROVE HttpInv'
  OBVIOUS
<1>0. /\ stage = "connect" /\ stage' = "head"
      /\ UNCHANGED <<client, url, headers, hopOrigins, seen, received, status,
                     aborted, timedOut, cached, result>>
  BY DEF Connect
<1>1. PICK peer \in Peers :
        wire' = Append(wire, [origin |-> Origin(url), peer |-> peer, headers |-> headers])
  BY DEF Connect
<1> DEFINE entry == [origin |-> Origin(url), peer |-> peer, headers |-> headers]
<1>2. peer \in Allowed /\ peer \in Address
  BY <1>0, <1>1, PeersAllowed, ProviderAssumption
<1>3. url \in Url
  BY <1>0 DEF HttpInv, HttpTyped, UrlVetted
<1>4. /\ entry \in [origin : {Origin(u) : u \in Url}, peer : Address, headers : SUBSET HeaderNames]
      /\ entry.origin = Origin(url) /\ entry.peer = peer /\ entry.headers = headers
  BY <1>2, <1>3 DEF HttpInv, HttpTyped
<1> HIDE DEF entry
<1>5. /\ wire' = Append(wire, entry)
      /\ Len(wire') = Len(wire) + 1 /\ Len(wire) \in Nat
      /\ DOMAIN wire' = 1..(Len(wire) + 1) /\ DOMAIN wire = 1..Len(wire)
      /\ wire'[Len(wire) + 1] = entry
      /\ \A i \in DOMAIN wire : wire'[i] = wire[i]
  BY <1>1, <1>4 DEF HttpInv, HttpTyped, entry
<1>6. HttpTyped'
  BY <1>0, <1>4, <1>5 DEF HttpInv, HttpTyped, Underway
<1>7. LedgerLeads'
  BY <1>0, <1>5, ProviderAssumption DEF HttpInv, LedgerLeads
<1>8. UrlVetted' /\ Unsettled'
  BY <1>0 DEF HttpInv, UrlVetted, Unsettled, Underway, MirrorUrl
<1>9. AtHome'
  BY <1>0, <1>4, <1>5 DEF HttpInv, AtHome, Underway, Origin
<1>10. EveryHopPoliced'
  <2>1. client = "mirror" /\ ~AllowInsecureUrl => entry.origin[1] = "https"
    BY <1>0, <1>4, MirrorUrlFacts DEF HttpInv, HttpTyped, UrlVetted, Underway, Origin
  <2>2. Len(wire') <= MaxRedirects + 1
    BY <1>0, <1>5, ProviderAssumption DEF HttpInv, LedgerLeads
  <2>3. ASSUME NEW i \in DOMAIN wire'
        PROVE  /\ wire'[i].peer \in Allowed
               /\ client = "mirror" /\ ~AllowInsecureUrl => wire'[i].origin[1] = "https"
    <3>1. CASE i \in DOMAIN wire
      BY <1>5, <3>1 DEF HttpInv, EveryHopPoliced
    <3>2. CASE i = Len(wire) + 1
      BY <1>2, <1>4, <1>5, <2>1, <3>2
    <3> QED
      BY <1>5, <3>1, <3>2
  <2> QED
    BY <1>0, <2>2, <2>3 DEF EveryHopPoliced
<1>11. CredentialStaysHome'
  <2> SUFFICES ASSUME NEW i \in DOMAIN wire', wire'[i].headers \cap Private # {},
                      NEW j \in 1..i
               PROVE  wire'[j].origin = wire'[1].origin
    BY DEF CredentialStaysHome
  <2>1. CASE i \in DOMAIN wire
    <3>1. j \in DOMAIN wire /\ 1 \in DOMAIN wire
      BY <1>5, <2>1
    <3> QED
      BY <1>5, <2>1, <3>1 DEF HttpInv, CredentialStaysHome
  <2>2. CASE i = Len(wire) + 1
    <3>1. headers \cap Private # {}
      BY <1>4, <1>5, <2>2
    <3>2. \A k \in DOMAIN wire : wire[k].origin = Origin(url)
      BY <1>0, <3>1 DEF HttpInv, AtHome, Underway
    <3>3. \A k \in DOMAIN wire' : wire'[k].origin = Origin(url)
      BY <1>4, <1>5, <3>2
    <3>4. j \in DOMAIN wire' /\ 1 \in DOMAIN wire'
      BY <1>5, <2>2
    <3> QED
      BY <3>3, <3>4
  <2> QED
    BY <1>5, <2>1, <2>2
<1>12. CauseIsOwned'
  BY <1>0 DEF HttpInv, CauseIsOwned
<1> QED
  BY <1>6, <1>7, <1>8, <1>9, <1>10, <1>11, <1>12 DEF HttpInv

LEMMA MirrorRedirectKeeps == HttpInv /\ MirrorRedirect => HttpInv'
<1> SUFFICES ASSUME HttpInv, MirrorRedirect PROVE HttpInv'
  OBVIOUS
<1>0. client = "mirror" /\ stage = "head"
  BY DEF MirrorRedirect
<1>1. PICK u \in Url \cup {NotAUrl} :
       \/ Fails("hop-limit")
       \/ Fails(MirrorUrl(u))
       \/ /\ Len(hopOrigins) <= MaxRedirects /\ MirrorUrl(u) = "ok"
          /\ url' = u
          /\ headers' = IF Origin(u) # Origin(url) THEN crossOriginHeaders(headers)
                        ELSE headers
          /\ stage' = "hop"
          /\ UNCHANGED <<client, hopOrigins, seen, received, status, aborted,
                         timedOut, cached, wire, result>>
  BY DEF MirrorRedirect
<1>2. CASE Fails("hop-limit") \/ Fails(MirrorUrl(u))
  BY <1>0, <1>2, MirrorUrlFacts, FailsKeeps
<1>3. CASE /\ Len(hopOrigins) <= MaxRedirects /\ MirrorUrl(u) = "ok"
           /\ url' = u
           /\ headers' = IF Origin(u) # Origin(url) THEN crossOriginHeaders(headers)
                         ELSE headers
           /\ stage' = "hop"
           /\ UNCHANGED <<client, hopOrigins, seen, received, status, aborted,
                          timedOut, cached, wire, result>>
  <2>1. HttpTyped'
    BY <1>3 DEF HttpInv, HttpTyped, Underway, crossOriginHeaders
  <2>2. LedgerLeads'
    BY <1>0, <1>3 DEF HttpInv, LedgerLeads
  <2>3. UrlVetted' /\ Unsettled'
    BY <1>0, <1>3 DEF HttpInv, UrlVetted, Unsettled, MirrorUrl
  <2>4. AtHome'
    <3>1. CASE Origin(u) # Origin(url)
      <4>1. headers' \cap Private = {}
        BY <1>3, <3>1 DEF crossOriginHeaders, CROSS_ORIGIN_SAFE_HEADERS, Private
      <4> QED
        BY <4>1 DEF AtHome
    <3>2. CASE Origin(u) = Origin(url)
      <4>1. headers' = headers /\ Origin(url)' = Origin(url)
        BY <1>3, <3>2 DEF Origin
      <4> QED
        BY <1>0, <1>3, <4>1 DEF HttpInv, AtHome, Underway
    <3> QED
      BY <3>1, <3>2
  <2>5. EveryHopPoliced' /\ CredentialStaysHome'
    BY <1>3 DEF HttpInv, EveryHopPoliced, CredentialStaysHome
  <2>6. CauseIsOwned'
    BY <1>3 DEF HttpInv, CauseIsOwned
  <2> QED
    BY <2>1, <2>2, <2>3, <2>4, <2>5, <2>6 DEF HttpInv
<1> QED
  BY <1>1, <1>2, <1>3

LEMMA RdapRedirectKeeps == HttpInv /\ RdapRedirect => HttpInv'
<1> SUFFICES ASSUME HttpInv, RdapRedirect PROVE HttpInv'
  OBVIOUS
<1>0. client = "rdap" /\ stage = "body" /\ ~aborted
  BY DEF RdapRedirect, Silent
<1>1. CASE Settle(Raised("rdap-http-error")) \/ Settle(Raised("rdap-too-many-redirects"))
  BY <1>0, <1>1, SettleKeeps DEF WellCaused, Raised, Skipped
<1>2. ASSUME NEW u \in Url \cup {NotAUrl},
             MayFollow, url' = u, stage' = "hop",
             UNCHANGED <<client, headers, hopOrigins, seen, received, status,
                         aborted, timedOut, cached, wire, result>>
      PROVE  HttpInv'
  <2>1. HttpTyped'
    BY <1>2 DEF HttpInv, HttpTyped, Underway
  <2>2. LedgerLeads'
    BY <1>0, <1>2 DEF HttpInv, LedgerLeads, MayFollow
  <2>3. UrlVetted' /\ Unsettled' /\ AtHome'
    BY <1>0, <1>2 DEF HttpInv, UrlVetted, Unsettled, AtHome
  <2>4. EveryHopPoliced' /\ CredentialStaysHome' /\ CauseIsOwned'
    BY <1>2 DEF HttpInv, EveryHopPoliced, CredentialStaysHome, CauseIsOwned
  <2> QED
    BY <2>1, <2>2, <2>3, <2>4 DEF HttpInv
<1> QED
  BY <1>1, <1>2 DEF RdapRedirect

LEMMA TerminalKeeps == HttpInv /\ terminalResult => HttpInv'
<1> SUFFICES ASSUME HttpInv, terminalResult PROVE HttpInv'
  OBVIOUS
<1>0. client = "rdap" /\ stage = "body" /\ ~aborted
  BY DEF terminalResult, Silent
<1>1. CASE \/ Settle(Answered("no-hit")) \/ Settle(Skipped("rdap-throttled"))
           \/ Settle(Raised("rdap-http-error")) \/ Settle(Raised("rdap-malformed"))
  BY <1>0, <1>1, SettleKeeps DEF WellCaused, Raised, Skipped, Answered
<1>2. CASE /\ result' = Answered("found") /\ stage' = "done"
           /\ UNCHANGED <<client, url, headers, hopOrigins, seen, received, status,
                          aborted, timedOut, wire>>
  <2>1. HttpTyped'
    BY <1>2 DEF HttpInv, HttpTyped
  <2>2. LedgerLeads'
    <3>1. Len(hopOrigins) \in Nat /\ Len(wire) \in Nat
      BY DEF HttpInv, HttpTyped
    <3> QED
      BY <1>0, <1>2, <3>1 DEF HttpInv, LedgerLeads
  <2>3. UrlVetted' /\ Unsettled' /\ AtHome'
    BY <1>0, <1>2 DEF HttpInv, UrlVetted, Unsettled, AtHome, Underway
  <2>4. EveryHopPoliced' /\ CredentialStaysHome'
    BY <1>2 DEF HttpInv, EveryHopPoliced, CredentialStaysHome
  <2>5. CauseIsOwned'
    BY <1>2 DEF CauseIsOwned, Answered, Raised, Skipped
  <2> QED
    BY <2>1, <2>2, <2>3, <2>4, <2>5 DEF HttpInv
<1> QED
  BY <1>1, <1>2 DEF terminalResult

LEMMA BodyKeeps ==
  HttpInv /\ (Chunk \/ StreamBreaks \/ DecodeFails \/ MirrorAnswers) => HttpInv'
<1> SUFFICES ASSUME HttpInv, Chunk \/ StreamBreaks \/ DecodeFails \/ MirrorAnswers
             PROVE  HttpInv'
  OBVIOUS
<1>0. stage # "done" /\ ~aborted
  BY DEF Chunk, StreamBreaks, DecodeFails, MirrorAnswers, Silent
<1>1. CASE Fails("response-too-large") \/ Fails("raw-stream-error")
  BY <1>0, <1>1, FailsKeeps
<1>2. CASE DecodeFails
  BY <1>0, <1>2, FailsKeeps DEF DecodeFails, DecodeFailures
<1>3. CASE MirrorAnswers
  BY <1>0, <1>3, SettleKeeps DEF MirrorAnswers, WellCaused, Raised, Skipped, Answered
<1>4. CASE UNCHANGED <<client, stage, url, headers, hopOrigins, seen, status,
                       aborted, timedOut, cached, wire, result>>
  <2>1. HttpTyped' /\ LedgerLeads'
    BY <1>4 DEF HttpInv, HttpTyped, LedgerLeads
  <2>2. UrlVetted' /\ Unsettled' /\ AtHome'
    BY <1>4 DEF HttpInv, UrlVetted, Unsettled, AtHome, MirrorUrl, Origin
  <2>3. EveryHopPoliced' /\ CredentialStaysHome' /\ CauseIsOwned'
    BY <1>4 DEF HttpInv, EveryHopPoliced, CredentialStaysHome, CauseIsOwned
  <2> QED
    BY <2>1, <2>2, <2>3 DEF HttpInv
<1> QED
  BY <1>1, <1>2, <1>3, <1>4 DEF Chunk, StreamBreaks

LEMMA RefusalsKeep ==
  HttpInv /\ (LookupRefuses \/ SocketFails \/ Cancelled \/ TooManyFields) => HttpInv'
<1> SUFFICES ASSUME HttpInv, LookupRefuses \/ SocketFails \/ Cancelled \/ TooManyFields
             PROVE  HttpInv'
  OBVIOUS
<1>1. CASE LookupRefuses
  BY <1>1, FailsKeeps DEF LookupRefuses
<1>2. CASE SocketFails
  BY <1>2, FailsKeeps DEF SocketFails, RequestFailures
<1>3. CASE Cancelled
  BY <1>3, FailsKeeps DEF Cancelled
<1>4. CASE TooManyFields
  BY <1>4, FailsKeeps DEF TooManyFields
<1> QED
  BY <1>1, <1>2, <1>3, <1>4

LEMMA HttpStep == HttpInv /\ [Next]_vars => HttpInv'
<1> SUFFICES ASSUME HttpInv, [Next]_vars PROVE HttpInv'
  OBVIOUS
<1>1. CASE UNCHANGED vars
  <2>1. HttpTyped' /\ LedgerLeads' /\ Unsettled'
    BY <1>1 DEF HttpInv, HttpTyped, LedgerLeads, Unsettled, vars
  <2>2. UrlVetted' /\ AtHome'
    BY <1>1 DEF HttpInv, UrlVetted, AtHome, MirrorUrl, Origin, vars
  <2>3. EveryHopPoliced' /\ CredentialStaysHome' /\ CauseIsOwned'
    BY <1>1 DEF HttpInv, EveryHopPoliced, CredentialStaysHome, CauseIsOwned, vars
  <2> QED
    BY <2>1, <2>2, <2>3 DEF HttpInv
<1>2. CASE Next
  BY <1>2, QuietSteps, MirrorRequestKeeps, FetchRdapDomainKeeps, HopsKeep, ConnectKeeps,
     RefusalsKeep, MirrorRedirectKeeps, BodyKeeps, RdapRedirectKeeps, TerminalKeeps
     DEF Next, Step
<1> QED
  BY <1>1, <1>2

LEMMA HttpStarts == Init \/ HttpRests => HttpInv
<1> SUFFICES ASSUME Init \/ HttpRests PROVE HttpInv
  OBVIOUS
<1>0. wire = <<>> /\ hopOrigins = <<>> /\ stage \in {"start", "done"} /\ result = Pending
  BY DEF Init, HttpRests
<1>1. HttpTyped
  <2>1. headers \subseteq HeaderNames /\ aborted \in BOOLEAN /\ timedOut = FALSE
    BY DEF Init, HttpRests, HeaderNames
  <2>2. client \in {"mirror", "rdap"} /\ url \in Url \cup {NotAUrl}
    BY DEF Init, HttpRests
  <2>3. \A S : <<>> \in Seq(S)
    OBVIOUS
  <2>4. /\ wire \in Seq([origin : {Origin(u) : u \in Url}, peer : Address,
                         headers : SUBSET HeaderNames])
        /\ hopOrigins \in Seq({Origin(u) : u \in Url})
    BY <1>0, <2>3, Zenon
  <2> QED
    BY <1>0, <2>1, <2>2, <2>4 DEF HttpTyped
<1>2. LedgerLeads
  BY <1>0, ProviderAssumption DEF LedgerLeads
<1>3. AtHome
  BY <1>0 DEF Init, HttpRests, AtHome, Underway
<1>4. UrlVetted /\ Unsettled /\ EveryHopPoliced /\ CredentialStaysHome
  BY <1>0, ProviderAssumption
     DEF UrlVetted, Unsettled, Underway, EveryHopPoliced, CredentialStaysHome
<1> QED
  BY <1>0, <1>1, <1>2, <1>3, <1>4, PendingBlamesNobody DEF HttpInv

-----------------------------------------------------------------------------
(***************************************************************************)
(* The consent gates (SourceContract).  A gate that has decided decided by *)
(* preflightOnlineSource.                                                  *)
(***************************************************************************)
GateInv ==
  \E d, c, o : /\ gate = [descriptor |-> d, config |-> c, outcome |-> o]
               /\ o = "pending" \/ o = preflightOnlineSource(d, c)

LEMMA ShippedAreValid ==
  ASSUME NEW d \in ShippedDescriptors PROVE assertValidSourceDescriptor(d)
<1> USE DEF assertValidSourceDescriptor, Shipped, DISCLOSURE_CHANNELS, COMMERCIAL_MODES
<1>1. CASE d = URLHAUS_SOURCE_DESCRIPTOR
  BY <1>1, ContractAssumption DEF URLHAUS_SOURCE_DESCRIPTOR
<1>2. CASE d = PHISHTANK_SOURCE_DESCRIPTOR
  BY <1>2, ContractAssumption DEF PHISHTANK_SOURCE_DESCRIPTOR
<1>3. CASE d = RDAP_SOURCE_DESCRIPTOR
  BY <1>3, ContractAssumption DEF RDAP_SOURCE_DESCRIPTOR
<1>4. CASE d = DNS_SOURCE_DESCRIPTOR
  BY <1>4, ContractAssumption DEF DNS_SOURCE_DESCRIPTOR
<1>5. CASE d = TLS_SOURCE_DESCRIPTOR
  BY <1>5, ContractAssumption DEF TLS_SOURCE_DESCRIPTOR
<1> QED
  BY <1>1, <1>2, <1>3, <1>4, <1>5 DEF ShippedDescriptors

LEMMA PreflightFacts ==
  ASSUME NEW d, NEW c
  PROVE  /\ preflightOnlineSource(d, c) = "ok" =>
              /\ d.sends \cap GatedChannel \subseteq c.consent
              /\ c.mode \in d.supportedModes
              /\ d.attributionRequired => c.acceptAttribution
              /\ d.credentials = "required" => c.credential
         /\ d \in ShippedDescriptors => preflightOnlineSource(d, c) # "invalid-descriptor"
<1>1. /\ assertSourceTermsAccepted(d, c) = "accepted" =>
           /\ assertValidSourceDescriptor(d) /\ c.mode \in d.supportedModes
           /\ d.attributionRequired => c.acceptAttribution
      /\ assertSourceTermsAccepted(d, c) = "invalid-descriptor" => ~assertValidSourceDescriptor(d)
      /\ assertSourceTermsAccepted(d, c) # "ok"
  BY DEF assertSourceTermsAccepted
<1>2. preflightOnlineSource(d, c) = "ok" =>
        /\ assertSourceTermsAccepted(d, c) = "accepted"
        /\ d.consentRequired \subseteq c.consent
        /\ d.credentials = "required" => c.credential
  BY <1>1 DEF preflightOnlineSource, isOnlineSecret
<1>3. preflightOnlineSource(d, c) = "invalid-descriptor" =>
        assertSourceTermsAccepted(d, c) = "invalid-descriptor"
  BY DEF preflightOnlineSource
<1>4. assertValidSourceDescriptor(d) => d.sends \cap GatedChannel \subseteq d.consentRequired
  BY DEF assertValidSourceDescriptor
<1> QED
  BY <1>1, <1>2, <1>3, <1>4, ShippedAreValid

LEMMA GateStep == GateInv /\ [Preflight]_gate => GateInv'
<1> SUFFICES ASSUME GateInv, Preflight PROVE GateInv'
  BY DEF GateInv
<1>1. PICK d, c, o : gate = [descriptor |-> d, config |-> c, outcome |-> o]
  BY DEF GateInv
<1>2. gate' = [descriptor |-> d, config |-> c, outcome |-> preflightOnlineSource(d, c)]
  BY <1>1 DEF Preflight
<1> QED
  BY <1>2 DEF GateInv

LEMMA GateStarts == GateInit \/ GateRests => GateInv
BY DEF GateInit, GateRests, GateInv

LEMMA GateSafe == GateInv => DisclosureConsented
<1> SUFFICES ASSUME GateInv PROVE DisclosureConsented
  OBVIOUS
<1>1. PICK d, c, o : /\ gate = [descriptor |-> d, config |-> c, outcome |-> o]
                     /\ o = "pending" \/ o = preflightOnlineSource(d, c)
  BY DEF GateInv
<1>2. gate.descriptor = d /\ gate.config = c /\ gate.outcome = o
  BY <1>1
<1> QED
  BY <1>1, <1>2, PreflightFacts DEF DisclosureConsented

-----------------------------------------------------------------------------
(***************************************************************************)
(* TLS observations (TlsInspect).                                          *)
(***************************************************************************)
TlsDefect == {"expired", "not-yet-valid", "hostname-mismatch", "untrusted", "self-signed"}

(* Causes that the URL, the certificate and the network each give. *)
UrlCause == {"invalid-url", "unsupported-scheme", "url-credentials"}
CertificateCause == {"certificate-malformed", "certificate-too-large", "chain-too-deep"}
NetworkCause ==
  {"dns-not-found", "dns-timeout", "dns-malformed", "dns-error", "connect-refused",
   "connect-timeout", "connect-error", "connection-address-mismatch", "tls-handshake"}

TlsCause == UrlCause \cup CertificateCause \cup NetworkCause
              \cup {"none", "timeout", "caller-aborted", "prohibited-address"}

TlsReport == {NoReport, <<"success", FALSE>>, <<"skipped", FALSE>>, <<"skipped", TRUE>>,
              <<"failure", FALSE>>, <<"failure", TRUE>>}

TlsTyped ==
  tls \in [url : UrlCause \cup {"ok"},
           validPolicy : BOOLEAN, work : {"start", "pin", "observe", "ended"},
           answer : [status : {"pending", "incomplete", "blocked", "observed"}, code : TlsCause,
                     defects : SUBSET TlsDefect],
           aborted : BOOLEAN, timedOut : BOOLEAN, dialledLate : BOOLEAN,
           peer : {"none", "pinned", "other"}, leaf : Leaf \cup {"none"}, depth : Int,
           trusted : BOOLEAN, report : TlsReport]

(* What a peer, a leaf and a chain of some depth are refused for. *)
Refused(peer, leaf, depth) ==
  /\ tls.validPolicy /\ peer = "pinned" /\ depth # -1
  /\ depth = 0 \/ depth > MaxChainDepth \/ ~leaf.small \/ ~leaf.x509 \/ ~leaf.der

(* The cause of an answer belongs to what it is an answer about. *)
Apt(answer, refused) ==
  /\ answer.status = "blocked" => answer.code = "prohibited-address"
  /\ answer.status = "incomplete" =>
       answer.code \in IF tls.url # "ok" THEN {tls.url}
                       ELSE IF refused THEN CertificateCause ELSE NetworkCause

(* The deadline answers while work goes on; nothing else does.  An input   *)
(* that is no endpoint never gets past the start, and nothing is seen of   *)
(* a peer before the work has ended.                                       *)
AnswerPlaced ==
  /\ tls.work # "ended" => tls.answer \in {TlsPending, Incomplete("timeout")}
  /\ tls.work # "ended" /\ tls.answer # TlsPending => tls.timedOut
  /\ tls.work # "ended" => tls.depth = -1
  /\ tls.work # "ended" /\ tls.answer = TlsPending => tls.report = NoReport
  /\ tls.timedOut => tls.answer = Incomplete("timeout")
  /\ tls.url # "ok" => /\ tls.work \in {"start", "ended"}
                       /\ tls.answer.status # "blocked"
  /\ tls.answer.status = "blocked" => ~tls.aborted
  /\ tls.answer # TlsPending => tls.answer.status # "pending"
  /\ tls.answer # TlsPending /\ ~signalAborted =>
       Apt(tls.answer, Refused(tls.peer, tls.leaf, tls.depth))

TlsInv == TlsTyped /\ AnswerPlaced /\ ObservationEarned /\ TlsCausesAreTrue

(* The defects are those of the leaf. *)
DefectsOf(leaf, trusted, found) ==
  /\ "expired" \in found <=> ObservedAt > leaf.notAfter
  /\ "not-yet-valid" \in found <=> ObservedAt < leaf.notBefore
  /\ "hostname-mismatch" \in found <=> ~leaf.hostnameMatch
  /\ "untrusted" \in found <=> ~trusted
  /\ "self-signed" \in found <=> leaf.selfIssued /\ ~trusted

(* An answer that may be given while inspect still waits, with what was    *)
(* seen of the peer.                                                       *)
MayAnswer(answer, peer, leaf, depth, trusted) ==
  /\ answer \in [status : {"incomplete", "blocked", "observed"}, code : TlsCause,
                 defects : SUBSET TlsDefect]
  /\ answer.code # "timeout"
  /\ answer.code = "caller-aborted" => tls.aborted
  /\ answer.status = "incomplete" /\ tls.aborted => answer.code = "caller-aborted"
  /\ ~tls.aborted => Apt(answer, Refused(peer, leaf, depth))
  /\ answer.status = "blocked" => tls.url = "ok" /\ ~tls.aborted
  /\ answer.status = "observed" =>
       /\ peer = "pinned" /\ ~tls.aborted /\ ~Refused(peer, leaf, depth)
       /\ DefectsOf(leaf, trusted, answer.defects)

LEMMA WorkEndsKeeps ==
  ASSUME TlsInv, tls.work # "ended", NEW answer,
         NEW peer \in {"none", "pinned", "other"}, NEW leaf \in Leaf \cup {"none"},
         NEW depth \in Int, NEW trusted \in BOOLEAN,
         tls.answer = TlsPending => MayAnswer(answer, peer, leaf, depth, trusted),
         WorkEnds([tls EXCEPT !.peer = peer, !.leaf = leaf, !.depth = depth,
                              !.trusted = trusted], answer)
  PROVE  TlsInv'
<1>0. TlsTyped /\ AnswerPlaced /\ ObservationEarned /\ TlsCausesAreTrue
  BY DEF TlsInv
<1>a. tls' = [tls EXCEPT !.peer = peer, !.leaf = leaf, !.depth = depth, !.trusted = trusted,
                         !.work = "ended",
                         !.answer = IF tls.answer = TlsPending THEN answer ELSE tls.answer]
  BY <1>0 DEF WorkEnds, TlsTyped
<1>1. /\ tls'.url = tls.url /\ tls'.validPolicy = tls.validPolicy
      /\ tls'.work = "ended" /\ tls'.aborted = tls.aborted /\ tls'.timedOut = tls.timedOut
      /\ tls'.dialledLate = tls.dialledLate /\ tls'.peer = peer /\ tls'.leaf = leaf
      /\ tls'.depth = depth /\ tls'.trusted = trusted /\ tls'.report = tls.report
      /\ tls'.answer = IF tls.answer = TlsPending THEN answer ELSE tls.answer
  BY <1>0, <1>a DEF TlsTyped
<1>b. /\ Refused(tls.peer, tls.leaf, tls.depth)' <=> Refused(peer, leaf, depth)
      /\ CertificateRefused' <=> Refused(peer, leaf, depth)
      /\ signalAborted' <=> signalAborted
      /\ Apt(tls.answer, Refused(tls.peer, tls.leaf, tls.depth))' <=>
           Apt(tls'.answer, Refused(peer, leaf, depth))
  BY <1>1 DEF Refused, CertificateRefused, signalAborted, Apt
<1>2. CASE tls.answer = TlsPending
  <2>0. /\ tls'.answer = answer /\ MayAnswer(answer, peer, leaf, depth, trusted)
        /\ ~tls.timedOut
    BY <1>0, <1>1, <1>2 DEF AnswerPlaced, TlsPending, Incomplete
  <2>1. TlsTyped'
    <3>1. answer \in [status : {"pending", "incomplete", "blocked", "observed"},
                      code : TlsCause, defects : SUBSET TlsDefect]
      BY <2>0 DEF MayAnswer
    <3>2. tls' = [tls EXCEPT !.peer = peer, !.leaf = leaf, !.depth = depth,
                             !.trusted = trusted, !.work = "ended", !.answer = answer]
      BY <1>a, <1>2
    <3> QED
      BY <1>0, <3>1, <3>2 DEF TlsTyped
  <2>2. AnswerPlaced'
    <3>1. answer.status # "pending"
      BY <2>0 DEF MayAnswer
    <3>2. ~signalAborted => Apt(answer, Refused(peer, leaf, depth))
      BY <2>0 DEF MayAnswer, signalAborted
    <3>3. ~signalAborted' => Apt(tls.answer, Refused(tls.peer, tls.leaf, tls.depth))'
      BY <1>b, <2>0, <3>2
    <3> QED
      BY <1>0, <1>1, <2>0, <3>1, <3>3 DEF AnswerPlaced, MayAnswer
  <2>3. ObservationEarned'
    BY <1>0, <1>1, <1>b, <2>0 DEF ObservationEarned, MayAnswer, signalAborted, DefectsOf
  <2>4. TlsCausesAreTrue'
    <3>1. tls.report = NoReport \/ tls'.answer.status \notin {"incomplete", "blocked"}
      BY <1>0, <1>2 DEF AnswerPlaced
    <3> QED
      BY <1>0, <1>1, <2>0, <3>1 DEF TlsCausesAreTrue, MayAnswer
  <2> QED
    BY <2>1, <2>2, <2>3, <2>4 DEF TlsInv
<1>3. CASE tls.answer # TlsPending
  <2>0. /\ tls'.answer = tls.answer /\ tls.answer = Incomplete("timeout") /\ tls.timedOut
        /\ signalAborted /\ tls.answer.status = "incomplete" /\ tls.answer.code = "timeout"
    BY <1>0, <1>1, <1>3 DEF AnswerPlaced, signalAborted, Incomplete
  <2>1. TlsTyped'
    <3>1. tls' = [tls EXCEPT !.peer = peer, !.leaf = leaf, !.depth = depth,
                             !.trusted = trusted, !.work = "ended", !.answer = tls.answer]
      BY <1>a, <1>3
    <3> QED
      BY <1>0, <3>1 DEF TlsTyped
  <2>2. AnswerPlaced'
    BY <1>0, <1>1, <1>b, <2>0 DEF AnswerPlaced, TlsPending, Incomplete
  <2>3. ObservationEarned'
    BY <1>0, <1>1, <2>0 DEF ObservationEarned
  <2>4. TlsCausesAreTrue'
    BY <1>0, <1>1, <1>b, <2>0 DEF TlsCausesAreTrue
  <2> QED
    BY <2>1, <2>2, <2>3, <2>4 DEF TlsInv
<1> QED
  BY <1>2, <1>3

(* The same of work that has seen nothing new of the peer. *)
LEMMA WorkEndsBlind ==
  ASSUME TlsInv, tls.work # "ended", NEW answer, WorkEnds(tls, answer),
         tls.answer = TlsPending =>
           MayAnswer(answer, tls.peer, tls.leaf, tls.depth, tls.trusted)
  PROVE  TlsInv'
<1>0. TlsTyped
  BY DEF TlsInv
<1>1. /\ tls.peer \in {"none", "pinned", "other"} /\ tls.leaf \in Leaf \cup {"none"}
      /\ tls.depth \in Int /\ tls.trusted \in BOOLEAN
  BY <1>0 DEF TlsTyped
<1>2. [tls EXCEPT !.peer = tls.peer, !.leaf = tls.leaf, !.depth = tls.depth,
                  !.trusted = tls.trusted] = tls
  BY <1>0 DEF TlsTyped
<1>3. WorkEnds([tls EXCEPT !.peer = tls.peer, !.leaf = tls.leaf, !.depth = tls.depth,
                           !.trusted = tls.trusted], answer)
  BY <1>2, Zenon
<1> QED
  BY <1>1, <1>3, WorkEndsKeeps, Zenon

(* Work that has not ended has seen nothing that could be refused. *)
LEMMA BlindIsNotRefused ==
  ASSUME TlsInv, tls.work # "ended"
  PROVE  ~Refused(tls.peer, tls.leaf, tls.depth)
BY DEF TlsInv, AnswerPlaced, Refused

(* What inspect's catch makes of an error, while it still waits. *)
LEMMA CaughtMayAnswer ==
  ASSUME TlsInv, tls.answer = TlsPending, tls.url = "ok",
         NEW peer, NEW leaf, NEW depth, NEW trusted,
         NEW code \in IF Refused(peer, leaf, depth) THEN CertificateCause ELSE NetworkCause
  PROVE  MayAnswer(Caught(code), peer, leaf, depth, trusted)
<1>1. ~tls.timedOut
  BY DEF TlsInv, AnswerPlaced, TlsPending, Incomplete
<1>2. Caught(code) = Incomplete(IF tls.aborted THEN "caller-aborted" ELSE code)
  BY <1>1 DEF Caught
<1>3. tls.aborted \in BOOLEAN
  BY DEF TlsInv, TlsTyped
<1>4. code \in CertificateCause \cup NetworkCause
  OBVIOUS
<1>5. CASE tls.aborted
  BY <1>2, <1>5 DEF MayAnswer, Incomplete, TlsCause
<1>6. CASE ~tls.aborted
  <2>1. Caught(code) = [status |-> "incomplete", code |-> code, defects |-> {}]
    BY <1>2, <1>6 DEF Incomplete
  <2>2. code \in TlsCause /\ code \notin {"timeout", "caller-aborted"}
    BY <1>4 DEF TlsCause, CertificateCause, NetworkCause
  <2>3. Apt(Caught(code), Refused(peer, leaf, depth))
    BY <2>1 DEF Apt
  <2> QED
    BY <1>6, <2>1, <2>2, <2>3 DEF MayAnswer
<1> QED
  BY <1>3, <1>5, <1>6

LEMMA TlsBeginsKeeps == TlsInv /\ TlsBegins => TlsInv'
<1> SUFFICES ASSUME TlsInv, TlsBegins PROVE TlsInv'
  OBVIOUS
<1>0. tls.work = "start" /\ TlsTyped
  BY DEF TlsBegins, TlsInv
<1>1. CASE tls.aborted /\ WorkEnds(tls, Incomplete("caller-aborted"))
  <2>1. MayAnswer(Incomplete("caller-aborted"), tls.peer, tls.leaf, tls.depth, tls.trusted)
    BY <1>1 DEF MayAnswer, Incomplete, TlsCause
  <2> QED
    BY <1>0, <1>1, <2>1, WorkEndsBlind
<1>2. CASE ~tls.aborted /\ tls.url # "ok" /\ WorkEnds(tls, Incomplete(tls.url))
  <2>1. tls.url \in UrlCause
    BY <1>0, <1>2 DEF TlsTyped
  <2>2. MayAnswer(Incomplete(tls.url), tls.peer, tls.leaf, tls.depth, tls.trusted)
    BY <1>2, <2>1 DEF MayAnswer, Incomplete, TlsCause, UrlCause, Apt
  <2> QED
    BY <1>0, <1>2, <2>2, WorkEndsBlind
<1>3. CASE tls.url = "ok" /\ tls' = [tls EXCEPT !.work = "pin"]
  <2>1. TlsTyped'
    BY <1>0, <1>3 DEF TlsTyped
  <2>2. AnswerPlaced' /\ ObservationEarned' /\ TlsCausesAreTrue'
    BY <1>0, <1>3 DEF TlsInv, TlsTyped, AnswerPlaced, ObservationEarned, TlsCausesAreTrue,
                      signalAborted, CertificateRefused, Apt, Refused
  <2> QED
    BY <2>1, <2>2 DEF TlsInv
<1> QED
  BY <1>1, <1>2, <1>3 DEF TlsBegins

(* Past the start the input is an endpoint. *)
LEMMA Endpoint ==
  ASSUME TlsInv, tls.work \in {"pin", "observe"} PROVE tls.url = "ok"
BY DEF TlsInv, AnswerPlaced

LEMMA TlsPinFailsKeeps == TlsInv /\ TlsPinFails => TlsInv'
<1> SUFFICES ASSUME TlsInv, TlsPinFails PROVE TlsInv'
  OBVIOUS
<1>0. tls.work = "pin" /\ tls.url = "ok"
  BY Endpoint DEF TlsPinFails
<1>1. ASSUME NEW code \in {"dns-not-found", "dns-malformed", "dns-timeout", "other"},
             WorkEnds(tls, Caught(observeCause("dns", code)))
      PROVE  TlsInv'
  <2>1. observeCause("dns", code) \in NetworkCause
    BY DEF observeCause, NetworkCause
  <2> QED
    BY <1>0, <1>1, <2>1, BlindIsNotRefused, CaughtMayAnswer, WorkEndsBlind
<1>2. CASE ~signalAborted /\ WorkEnds(tls, Blocked("prohibited-address"))
  <2>1. MayAnswer(Blocked("prohibited-address"), tls.peer, tls.leaf, tls.depth, tls.trusted)
    BY <1>0, <1>2 DEF MayAnswer, Blocked, TlsCause, Apt, signalAborted
  <2> QED
    BY <1>0, <1>2, <2>1, WorkEndsBlind
<1>3. CASE WorkEnds(tls, Caught("dns-timeout"))
  <2>1. "dns-timeout" \in NetworkCause
    BY DEF NetworkCause
  <2> QED
    BY <1>0, <1>3, <2>1, BlindIsNotRefused, CaughtMayAnswer, WorkEndsBlind
<1> QED
  BY <1>1, <1>2, <1>3 DEF TlsPinFails

LEMMA TlsPinnedKeeps == TlsInv /\ TlsPinned => TlsInv'
<1> SUFFICES ASSUME TlsInv, TlsPinned PROVE TlsInv'
  OBVIOUS
<1>1. TlsTyped'
  BY DEF TlsInv, TlsTyped, TlsPinned, signalAborted
<1>2. AnswerPlaced' /\ ObservationEarned' /\ TlsCausesAreTrue'
  BY DEF TlsInv, TlsTyped, TlsPinned, AnswerPlaced, ObservationEarned, TlsCausesAreTrue,
         signalAborted, CertificateRefused, Apt, Refused
<1> QED
  BY <1>1, <1>2 DEF TlsInv

LEMMA TlsObserveFailsKeeps == TlsInv /\ TlsObserveFails => TlsInv'
<1> SUFFICES ASSUME TlsInv, TlsObserveFails PROVE TlsInv'
  OBVIOUS
<1>0. tls.work = "observe" /\ tls.url = "ok"
  BY Endpoint DEF TlsObserveFails
<1>1. PICK code \in NodeTlsObserveFailure : WorkEnds(tls, Caught(observeCause("connect", code)))
  BY DEF TlsObserveFails
<1>2. observeCause("connect", code) \in NetworkCause
  BY DEF observeCause, NodeTlsObserveFailure, NetworkCause
<1> QED
  BY <1>0, <1>1, <1>2, BlindIsNotRefused, CaughtMayAnswer, WorkEndsBlind

(* The analysis of a chain refuses what the policy refuses, by a cause of  *)
(* the certificate; an invalid policy alone is told as a failed handshake. *)
LEMMA AnalysisFacts ==
  ASSUME NEW chain, Len(chain) \in Nat, Len(chain) = 0 <=> chain = <<>>,
         NEW leaf \in Leaf, tls.validPolicy \in BOOLEAN
  PROVE  /\ Refused("pinned", leaf, Len(chain)) <=> analysis(chain, leaf) \in CertificateCause
         /\ analysis(chain, leaf) \in CertificateCause \cup {"ok", "tls-handshake"}
         /\ "tls-handshake" \notin CertificateCause /\ "ok" \notin CertificateCause
<1> USE DEF CertificateCause, Refused
<1>1. CASE ~tls.validPolicy
  BY <1>1 DEF analysis
<1>2. CASE tls.validPolicy /\ chain = <<>>
  BY <1>2 DEF analysis
<1>3. CASE tls.validPolicy /\ chain # <<>> /\ Len(chain) > MaxChainDepth
  <2>1. analysis(chain, leaf) = "chain-too-deep"
    BY <1>3 DEF analysis
  <2> QED
    BY <1>3, <2>1
<1>4. CASE tls.validPolicy /\ chain # <<>> /\ ~(Len(chain) > MaxChainDepth)
  BY <1>4 DEF analysis, parseLeaf, readCertificatePolicyOids, Leaf
<1> QED
  BY <1>1, <1>2, <1>3, <1>4

(* Each defect of a certificate is named, and no other. *)
LEMMA DefectsFacts ==
  ASSUME NEW leaf \in Leaf, NEW trusted \in BOOLEAN
  PROVE  /\ defects(leaf, trusted) \subseteq TlsDefect
         /\ DefectsOf(leaf, trusted, defects(leaf, trusted))
BY DEF defects, TlsDefect, DefectsOf

(* Every chain a handshake may show has a length. *)
LEMMA ChainFacts ==
  ASSUME NEW chain \in PeerChains
  PROVE  Len(chain) \in Nat /\ (Len(chain) = 0 <=> chain = <<>>)
<1>1. PICK n \in 0..MAX_OBSERVED_CHAIN : chain \in [1..n -> Certificate]
  BY DEF PeerChains, BoundedSeq, SeqOf
<1>2. n \in Nat /\ chain \in Seq(Certificate)
  BY <1>1, TlsAssumption
<1> QED
  BY <1>2

LEMMA TlsHandshakeKeeps == TlsInv /\ TlsHandshake => TlsInv'
<1> SUFFICES ASSUME TlsInv, TlsHandshake PROVE TlsInv'
  OBVIOUS
<1>0. tls.work = "observe" /\ tls.url = "ok" /\ TlsTyped /\ tls.validPolicy \in BOOLEAN
  BY Endpoint DEF TlsHandshake, TlsInv, TlsTyped
<1>1. PICK peer \in {"pinned", "other"}, trusted \in BOOLEAN, leaf \in Leaf,
           links \in PeerChains :
        LET sight == [tls EXCEPT !.peer = peer, !.leaf = leaf, !.depth = Len(links),
                                !.trusted = trusted]
        IN  \/ signalAborted /\ WorkEnds(sight, Caught("connect-timeout"))
            \/ /\ ~signalAborted /\ peer # "pinned"
               /\ WorkEnds(sight, Caught("connection-address-mismatch"))
            \/ /\ ~signalAborted /\ peer = "pinned" /\ analysis(links, leaf) # "ok"
               /\ WorkEnds(sight, Caught(analysis(links, leaf)))
            \/ /\ ~signalAborted /\ peer = "pinned" /\ analysis(links, leaf) = "ok"
               /\ WorkEnds(sight, Observed(defects(leaf, trusted)))
  BY DEF TlsHandshake
<1>a. PICK depth : depth = Len(links)
  OBVIOUS
<1> DEFINE sight == [tls EXCEPT !.peer = peer, !.leaf = leaf, !.depth = depth,
                               !.trusted = trusted]
<1>b. /\ depth \in Int /\ Len(links) \in Nat /\ (Len(links) = 0 <=> links = <<>>)
  BY <1>a, ChainFacts
<1>c. /\ Refused("pinned", leaf, depth) <=> analysis(links, leaf) \in CertificateCause
      /\ analysis(links, leaf) \in CertificateCause \cup {"ok", "tls-handshake"}
      /\ "tls-handshake" \notin CertificateCause /\ "ok" \notin CertificateCause
  BY <1>0, <1>a, <1>b, AnalysisFacts
<1>2. PICK answer :
        /\ WorkEnds(sight, answer)
        /\ tls.answer = TlsPending => MayAnswer(answer, peer, leaf, depth, trusted)
  <2>1. \/ signalAborted /\ WorkEnds(sight, Caught("connect-timeout"))
        \/ /\ ~signalAborted /\ peer # "pinned"
           /\ WorkEnds(sight, Caught("connection-address-mismatch"))
        \/ /\ ~signalAborted /\ peer = "pinned" /\ analysis(links, leaf) # "ok"
           /\ WorkEnds(sight, Caught(analysis(links, leaf)))
        \/ /\ ~signalAborted /\ peer = "pinned" /\ analysis(links, leaf) = "ok"
           /\ WorkEnds(sight, Observed(defects(leaf, trusted)))
    BY <1>1, <1>a
  <2> HIDE DEF sight
  <2>2. CASE /\ ~signalAborted /\ peer = "pinned" /\ analysis(links, leaf) = "ok"
             /\ WorkEnds(sight, Observed(defects(leaf, trusted)))
    <3>1. ~Refused(peer, leaf, depth) /\ ~tls.aborted
      BY <1>c, <2>2 DEF signalAborted
    <3>2. MayAnswer(Observed(defects(leaf, trusted)), peer, leaf, depth, trusted)
      BY <1>0, <2>2, <3>1, DefectsFacts DEF MayAnswer, Observed, NoCause, TlsCause, Apt
    <3> QED
      BY <2>2, <3>2
  <2>3. CASE signalAborted /\ WorkEnds(sight, Caught("connect-timeout"))
    <3>1. ASSUME tls.answer = TlsPending
          PROVE  MayAnswer(Caught("connect-timeout"), peer, leaf, depth, trusted)
      <4>1. tls.aborted /\ ~tls.timedOut
        BY <2>3, <3>1 DEF signalAborted, TlsInv, AnswerPlaced, TlsPending, Incomplete
      <4>2. Caught("connect-timeout") = Incomplete("caller-aborted")
        BY <4>1 DEF Caught
      <4> QED
        BY <4>1, <4>2 DEF MayAnswer, Incomplete, TlsCause
    <3> QED
      BY <2>3, <3>1
  <2>4. CASE /\ ~signalAborted /\ peer # "pinned"
             /\ WorkEnds(sight, Caught("connection-address-mismatch"))
    <3>1. ~Refused(peer, leaf, depth)
      BY <2>4 DEF Refused
    <3>2. tls.answer = TlsPending =>
            MayAnswer(Caught("connection-address-mismatch"), peer, leaf, depth, trusted)
      BY <1>0, <3>1, CaughtMayAnswer DEF NetworkCause
    <3> QED
      BY <2>4, <3>2
  <2>5. CASE /\ ~signalAborted /\ peer = "pinned" /\ analysis(links, leaf) # "ok"
             /\ WorkEnds(sight, Caught(analysis(links, leaf)))
    <3>1. analysis(links, leaf) \in
            IF Refused(peer, leaf, depth) THEN CertificateCause ELSE NetworkCause
      BY <1>c, <2>5 DEF NetworkCause
    <3>2. tls.answer = TlsPending =>
            MayAnswer(Caught(analysis(links, leaf)), peer, leaf, depth, trusted)
      BY <1>0, <3>1, CaughtMayAnswer
    <3> QED
      BY <2>5, <3>2
  <2> QED
    BY <2>1, <2>2, <2>3, <2>4, <2>5
<1>3. WorkEnds([tls EXCEPT !.peer = peer, !.leaf = leaf, !.depth = depth,
                           !.trusted = trusted], answer)
  BY <1>2
<1>4. /\ tls.work # "ended" /\ peer \in {"none", "pinned", "other"}
      /\ leaf \in Leaf \cup {"none"} /\ trusted \in BOOLEAN
  BY <1>0
<1>5. tls.answer = TlsPending => MayAnswer(answer, peer, leaf, depth, trusted)
  BY <1>2
<1> HIDE <1>1, <1>2
<1> QED
  BY <1>3, <1>4, <1>5, <1>b, WorkEndsKeeps

LEMMA TlsAroundKeeps ==
  TlsInv /\ (TlsAborts \/ TlsDeadline \/ TlsReports \/ TlsNotAnEndpoint) => TlsInv'
<1> SUFFICES ASSUME TlsInv, TlsAborts \/ TlsDeadline \/ TlsReports \/ TlsNotAnEndpoint
             PROVE  TlsInv'
  OBVIOUS
<1>0. TlsTyped /\ AnswerPlaced /\ ObservationEarned /\ TlsCausesAreTrue
  BY DEF TlsInv
<1>1. CASE TlsAborts
  <2>1. /\ tls.answer = TlsPending
        /\ tls' = [tls EXCEPT !.aborted = TRUE]
    BY <1>1 DEF TlsAborts
  <2>2. TlsTyped'
    BY <1>0, <2>1 DEF TlsTyped
  <2>3. AnswerPlaced'
    BY <1>0, <2>1 DEF TlsTyped, AnswerPlaced, TlsPending
  <2>4. ObservationEarned' /\ TlsCausesAreTrue'
    BY <1>0, <2>1 DEF TlsTyped, ObservationEarned, TlsCausesAreTrue, TlsPending, NoCause
  <2> QED
    BY <2>2, <2>3, <2>4 DEF TlsInv
<1>2. CASE TlsDeadline
  <2>1. /\ tls.answer = TlsPending /\ tls.work \notin {"start", "ended"}
        /\ tls' = [tls EXCEPT !.timedOut = TRUE, !.answer = Incomplete("timeout")]
    BY <1>2 DEF TlsDeadline
  <2>2. TlsTyped'
    BY <1>0, <2>1 DEF TlsTyped, Incomplete, TlsCause
  <2>3. AnswerPlaced'
    BY <1>0, <2>1 DEF TlsTyped, AnswerPlaced, TlsPending, Incomplete, signalAborted, UrlCause
  <2>4. ObservationEarned' /\ TlsCausesAreTrue'
    BY <1>0, <2>1 DEF TlsTyped, AnswerPlaced, ObservationEarned, TlsCausesAreTrue, Incomplete
  <2> QED
    BY <2>2, <2>3, <2>4 DEF TlsInv
<1>3. CASE TlsReports
  <2> DEFINE told == IF tls.answer.status = "observed" THEN <<"success", FALSE>>
                     ELSE dispositionFor(tls.answer.code)
  <2>1. tls.answer # TlsPending /\ tls' = [tls EXCEPT !.report = told]
    BY <1>3 DEF TlsReports
  <2>2. told \in TlsReport
    BY DEF TlsReport, dispositionFor
  <2>3. ASSUME tls.answer.status \in {"incomplete", "blocked"}
        PROVE  /\ told[2] <=>
                    \/ signalAborted
                    \/ tls.url = "ok" /\ tls.answer.status # "blocked" /\ ~CertificateRefused
               /\ told[1] = "failure" <=>
                    ~signalAborted /\ tls.url = "ok" /\ tls.answer.status # "blocked"
    <3>0. told = dispositionFor(tls.answer.code)
      BY <2>3
    <3> HIDE DEF told
    <3>1. CASE signalAborted
      <4>1. tls.answer.code \in {"caller-aborted", "timeout"}
        BY <1>0, <2>3, <3>1 DEF AnswerPlaced, TlsCausesAreTrue, signalAborted, Incomplete
      <4>2. told = <<"skipped", TRUE>>
        BY <3>0, <4>1 DEF dispositionFor
      <4> QED
        BY <3>1, <4>2
    <3>2. CASE ~signalAborted
      <4>1. /\ Apt(tls.answer, Refused(tls.peer, tls.leaf, tls.depth))
            /\ CertificateRefused <=> Refused(tls.peer, tls.leaf, tls.depth)
        BY <1>0, <2>1, <3>2 DEF AnswerPlaced, CertificateRefused, Refused
      <4>2. CASE tls.answer.status = "blocked"
        <5>1. told = <<"skipped", FALSE>>
          BY <3>0, <4>1, <4>2 DEF Apt, dispositionFor
        <5> QED
          BY <3>2, <4>2, <5>1
      <4>3. CASE tls.answer.status = "incomplete" /\ tls.url # "ok"
        <5>1. tls.answer.code \in UrlCause
          BY <1>0, <4>1, <4>3 DEF Apt, TlsTyped
        <5>2. told = <<"skipped", FALSE>>
          BY <3>0, <5>1 DEF dispositionFor, UrlCause
        <5> QED
          BY <3>2, <4>3, <5>2
      <4>4. CASE tls.answer.status = "incomplete" /\ tls.url = "ok" /\ CertificateRefused
        <5>1. tls.answer.code \in CertificateCause
          BY <4>1, <4>4 DEF Apt
        <5>2. told = <<"failure", FALSE>>
          BY <3>0, <5>1 DEF dispositionFor, CertificateCause
        <5> QED
          BY <3>2, <4>4, <5>2
      <4>5. CASE tls.answer.status = "incomplete" /\ tls.url = "ok" /\ ~CertificateRefused
        <5>1. tls.answer.code \in NetworkCause
          BY <4>1, <4>5 DEF Apt
        <5>2. told = <<"failure", TRUE>>
          BY <3>0, <5>1 DEF dispositionFor, NetworkCause
        <5> QED
          BY <3>2, <4>5, <5>2
      <4> QED
        BY <2>3, <4>2, <4>3, <4>4, <4>5
    <3> QED
      BY <3>1, <3>2
  <2> HIDE DEF told
  <2>4. TlsTyped'
    BY <1>0, <2>1, <2>2 DEF TlsTyped
  <2>a. /\ tls'.report = told /\ tls'.url = tls.url /\ tls'.validPolicy = tls.validPolicy
        /\ tls'.work = tls.work /\ tls'.answer = tls.answer /\ tls'.aborted = tls.aborted
        /\ tls'.timedOut = tls.timedOut /\ tls'.dialledLate = tls.dialledLate
        /\ tls'.peer = tls.peer /\ tls'.leaf = tls.leaf /\ tls'.depth = tls.depth
        /\ tls'.trusted = tls.trusted
    BY <1>0, <2>1 DEF TlsTyped
  <2>b. /\ signalAborted' <=> signalAborted
        /\ CertificateRefused' <=> CertificateRefused
        /\ Apt(tls.answer, Refused(tls.peer, tls.leaf, tls.depth))' <=>
             Apt(tls.answer, Refused(tls.peer, tls.leaf, tls.depth))
    BY <2>a DEF signalAborted, CertificateRefused, Apt, Refused
  <2>5. AnswerPlaced' /\ ObservationEarned'
    BY <1>0, <2>1, <2>a, <2>b DEF AnswerPlaced, ObservationEarned
  <2>6. TlsCausesAreTrue'
    BY <1>0, <2>3, <2>a, <2>b DEF TlsCausesAreTrue
  <2> QED
    BY <2>4, <2>5, <2>6 DEF TlsInv
<1>4. CASE TlsNotAnEndpoint
  <2>1. /\ tls.answer = TlsPending
        /\ tls' = [tls EXCEPT !.work = "ended", !.report = <<"skipped", FALSE>>]
    BY <1>4 DEF TlsNotAnEndpoint
  <2>2. TlsTyped'
    BY <1>0, <2>1 DEF TlsTyped, TlsReport
  <2>3. AnswerPlaced'
    BY <1>0, <2>1 DEF TlsTyped, AnswerPlaced, TlsPending
  <2>a. /\ tls'.answer = TlsPending /\ tls'.dialledLate = tls.dialledLate
        /\ tls'.answer.status = "pending" /\ tls'.answer.code = "none"
    BY <1>0, <2>1 DEF TlsTyped, TlsPending, NoCause
  <2>4. ObservationEarned' /\ TlsCausesAreTrue'
    BY <1>0, <2>a DEF ObservationEarned, TlsCausesAreTrue
  <2> QED
    BY <2>2, <2>3, <2>4 DEF TlsInv
<1> QED
  BY <1>1, <1>2, <1>3, <1>4

LEMMA TlsStep == TlsInv /\ [TlsNext]_tls => TlsInv'
<1>1. ASSUME TlsInv, UNCHANGED tls PROVE TlsInv'
  BY <1>1 DEF TlsInv, TlsTyped, AnswerPlaced, ObservationEarned, TlsCausesAreTrue, signalAborted,
              CertificateRefused, Apt, Refused
<1> QED
  BY <1>1, TlsBeginsKeeps, TlsPinFailsKeeps, TlsPinnedKeeps, TlsObserveFailsKeeps,
     TlsHandshakeKeeps, TlsAroundKeeps DEF TlsNext, TlsWork

LEMMA TlsStarts == TlsInit \/ TlsRests => TlsInv
<1>1. ASSUME NEW u \in UrlCause \cup {"ok"},
             NEW validPolicy \in BOOLEAN, NEW w \in {"start", "ended"}, w = "start" \/ u = "ok",
             tls = [url |-> u, validPolicy |-> validPolicy, work |-> w,
                    answer |-> TlsPending, aborted |-> FALSE, timedOut |-> FALSE,
                    dialledLate |-> FALSE, peer |-> "none", leaf |-> "none", depth |-> -1,
                    trusted |-> FALSE, report |-> NoReport]
      PROVE  TlsInv
  <2>1. TlsTyped
    <3>1. /\ TlsPending \in [status : {"pending", "incomplete", "blocked", "observed"},
                            code : TlsCause, defects : SUBSET TlsDefect]
          /\ NoReport \in TlsReport
      BY DEF TlsPending, NoCause, TlsCause, TlsReport
    <3> QED
      BY <1>1, <3>1 DEF TlsTyped
  <2>2. AnswerPlaced
    BY <1>1 DEF AnswerPlaced, TlsPending, Incomplete, NoReport
  <2>3. ObservationEarned /\ TlsCausesAreTrue
    BY <1>1 DEF ObservationEarned, TlsCausesAreTrue, TlsPending, NoCause
  <2> QED
    BY <2>1, <2>2, <2>3 DEF TlsInv
<1> QED
  BY <1>1 DEF TlsInit, TlsRests, UrlCause

-----------------------------------------------------------------------------
(***************************************************************************)
(* DNS states (DnsState).                                                  *)
(***************************************************************************)
DnsShape ==
  /\ dns = [at |-> dns.at, host |-> dns.host, aborted |-> dns.aborted, apex |-> dns.apex,
            zoneAddressed |-> dns.zoneAddressed, truth |-> dns.truth,
            answers |-> dns.answers, dnssec |-> dns.dnssec, outcome |-> dns.outcome]
  /\ dns.answers = [q \in Query |-> dns.answers[q]]
  /\ dns.at \in {"start", "asking", "done"} /\ dns.aborted \in BOOLEAN
  /\ \A q \in {"A", "AAAA"} : dns.truth[q] \in {<<>>} \cup {<<t>> : t \in Ttl}
  /\ dns.truth["MX"] \in MxWorld \cup {<<>>}

NegativeState ==
  {"nodata", "nxdomain", "servfail", "refused", "timeout", "invalid-name", "aborted", "error"}

(* An answer that denies records was given only where there are none, and  *)
(* one that fell to the abort only after it.                               *)
AnswerHonest(q, answer) ==
  \/ answer = NoAnswer
  \/ answer = runQuery(q, dns.truth[q])
  \/ \E s \in NegativeState :
       /\ answer = negative(s)
       /\ s \in {"nodata", "nxdomain"} => dns.truth[q] = <<>>
       /\ s = "aborted" => dns.aborted

AnswersHonest == \A q \in Query : AnswerHonest(q, dns.answers[q])

(* A host that is its own zone shares its addresses with it. *)
ZoneIsHost == dns.apex => (dns.zoneAddressed <=> HostAddressed)

DnsInv ==
  /\ DnsShape /\ AnswersHonest /\ ZoneIsHost
  /\ dns.at # "done" => dns.outcome = NoOutcome
  /\ DnsClaimsAreTrue /\ DnsAbortIsOwned

(* Every error code of node:dns becomes one of the negative states, and    *)
(* "aborted" only for the abort's own code.                                *)
LEMMA StateForErrorFacts ==
  ASSUME NEW code, NEW a \in BOOLEAN
  PROVE  /\ stateForError(code, a) \in NegativeState
         /\ stateForError(code, a) \in {"nodata", "nxdomain"} =>
              code \in {"ENODATA", "ENOTFOUND", "ENONAME"}
         /\ stateForError(code, a) = "aborted" => a
BY DEF stateForError, NegativeState

LEMMA AnswersToAreHonest ==
  ASSUME DnsShape, NEW q \in Query, NEW answer \in AnswersTo(q)
  PROVE  AnswerHonest(q, answer)
<1>1. CASE answer = runQuery(q, dns.truth[q])
  BY <1>1 DEF AnswerHonest
<1>2. ASSUME NEW code \in DnsErrorCode \cup IF dns.truth[q] = <<>>
                                            THEN {"ENODATA", "ENOTFOUND"} ELSE {},
             answer = negative(stateForError(code, dns.aborted))
      PROVE  AnswerHonest(q, answer)
  <2>1. dns.aborted \in BOOLEAN
    BY DEF DnsShape
  <2>2. code \in {"ENODATA", "ENOTFOUND", "ENONAME"} => dns.truth[q] = <<>>
    BY <1>2, DnsAssumption
  <2> QED
    BY <1>2, <2>1, <2>2, StateForErrorFacts DEF AnswerHonest
<1> QED
  BY <1>1, <1>2 DEF AnswersTo

LEMMA DnsSmallStepsKeep ==
  DnsInv /\ (DnsSkips \/ DnsAsks \/ DnsAborts) => DnsInv'
<1> SUFFICES ASSUME DnsInv, DnsSkips \/ DnsAsks \/ DnsAborts PROVE DnsInv'
  OBVIOUS
<1>0. /\ DnsShape /\ AnswersHonest /\ ZoneIsHost
      /\ dns.at # "done" /\ dns.outcome = NoOutcome
  BY DEF DnsInv, DnsSkips, DnsAsks, DnsAborts
<1>a. dns'.apex = dns.apex /\ dns'.zoneAddressed = dns.zoneAddressed /\ dns'.truth = dns.truth
      /\ dns'.host = dns.host
  BY <1>0 DEF DnsShape, DnsSkips, DnsAsks, DnsAborts
<1>b. ZoneIsHost'
  BY <1>0, <1>a DEF ZoneIsHost, HostAddressed
<1>1. CASE DnsSkips
  <2>1. PICK code \in {"no-host", "not-a-hostname"} :
          /\ dns' = [dns EXCEPT !.at = "done", !.outcome = degradedOutcome(code)]
          /\ dns.host # "name"
    BY <1>1 DEF DnsSkips
  <2>2. degradedOutcome(code).status = "skipped" /\ degradedOutcome(code).code = code
    BY DEF degradedOutcome, NoOutcome
  <2>3. DnsShape' /\ AnswersHonest'
    BY <1>0, <2>1 DEF DnsShape, AnswersHonest, AnswerHonest
  <2>4. dns'.outcome = degradedOutcome(code) /\ dns'.at = "done"
    BY <1>0, <2>1 DEF DnsShape
  <2> QED
    BY <1>a, <1>b, <2>1, <2>2, <2>3, <2>4 DEF DnsInv, DnsClaimsAreTrue, DnsAbortIsOwned
<1>2. CASE DnsAsks
  <2>1. dns' = [dns EXCEPT !.at = "asking", !.dnssec = validateDnssec,
                  !.answers = [q \in Query |-> IF dns.aborted THEN negative("aborted")
                                               ELSE NoAnswer]]
    BY <1>2 DEF DnsAsks
  <2>2. DnsShape'
    BY <1>0, <2>1 DEF DnsShape
  <2>3. AnswersHonest'
    BY <1>0, <2>1 DEF DnsShape, AnswersHonest, AnswerHonest, NegativeState
  <2>4. dns'.outcome = NoOutcome /\ dns'.at = "asking"
    BY <1>0, <2>1 DEF DnsShape
  <2> QED
    BY <1>b, <2>2, <2>3, <2>4 DEF DnsInv, DnsClaimsAreTrue, DnsAbortIsOwned, NoOutcome
<1>3. CASE DnsAborts
  <2>1. dns' = [dns EXCEPT !.aborted = TRUE]
    BY <1>3 DEF DnsAborts
  <2>2. DnsShape' /\ AnswersHonest'
    BY <1>0, <2>1 DEF DnsShape, AnswersHonest, AnswerHonest
  <2>3. dns'.outcome = NoOutcome /\ dns'.at # "done"
    BY <1>0, <2>1 DEF DnsShape
  <2> QED
    BY <1>b, <2>2, <2>3 DEF DnsInv, DnsClaimsAreTrue, DnsAbortIsOwned, NoOutcome
<1> QED
  BY <1>1, <1>2, <1>3

LEMMA DnsAnswersKeeps ==
  ASSUME DnsInv, NEW q \in Query, DnsAnswers(q)
  PROVE  DnsInv'
<1>0. DnsShape /\ AnswersHonest /\ ZoneIsHost /\ dns.at = "asking" /\ dns.outcome = NoOutcome
  BY DEF DnsInv, DnsAnswers
<1>1. PICK answer \in AnswersTo(q) : dns' = [dns EXCEPT !.answers[q] = answer]
  BY DEF DnsAnswers
<1>2. AnswerHonest(q, answer)
  BY <1>0, AnswersToAreHonest
<1>3. /\ dns'.truth = dns.truth /\ dns'.aborted = dns.aborted /\ dns'.at = dns.at
      /\ dns'.outcome = NoOutcome
      /\ dns'.apex = dns.apex /\ dns'.zoneAddressed = dns.zoneAddressed
      /\ dns'.answers = [dns.answers EXCEPT ![q] = answer]
  BY <1>0, <1>1 DEF DnsShape
<1>4. DnsShape'
  BY <1>0, <1>1 DEF DnsShape
<1>5. AnswersHonest'
  <2>1. \A r \in Query : dns'.answers[r] = IF r = q THEN answer ELSE dns.answers[r]
    BY <1>0, <1>3 DEF DnsShape
  <2> QED
    BY <1>0, <1>2, <1>3, <2>1 DEF AnswersHonest, AnswerHonest
<1>6. ZoneIsHost'
  BY <1>0, <1>3 DEF ZoneIsHost, HostAddressed
<1> QED
  BY <1>0, <1>3, <1>4, <1>5, <1>6 DEF DnsInv, DnsClaimsAreTrue, DnsAbortIsOwned, NoOutcome

(* The least of the one or two TTLs an answer can hold. *)
LEMMA MinOfTwo ==
  ASSUME NEW a \in Nat, NEW b \in Nat, NEW S \in SUBSET {a, b}, S # {}
  PROVE  Min(S) \in S /\ \A y \in S : Min(S) <= y
<1>1. \E x \in S : \A y \in S : x <= y
  <2>1. CASE a \in S /\ b \in S
    BY <2>1
  <2>2. CASE a \notin S
    <3>1. b \in S /\ \A y \in S : y = b
      BY <2>2
    <3> QED
      BY <3>1
  <2>3. CASE b \notin S
    <3>1. a \in S /\ \A y \in S : y = a
      BY <2>3
    <3> QED
      BY <3>1
  <2> QED
    BY <2>1, <2>2, <2>3
<1> QED
  BY <1>1 DEF Min

LEMMA MinOfSix ==
  ASSUME NEW S \in SUBSET (1..6), S # {}
  PROVE  Min(S) \in S /\ \A y \in S : Min(S) <= y
<1>1. \E x \in S : \A y \in S : x <= y
  <2>1. CASE 1 \in S
    BY <2>1
  <2>2. CASE 1 \notin S /\ 2 \in S
    BY <2>2
  <2>3. CASE 1 \notin S /\ 2 \notin S /\ 3 \in S
    BY <2>3
  <2>4. CASE 1 \notin S /\ 2 \notin S /\ 3 \notin S /\ 4 \in S
    BY <2>4
  <2>5. CASE 1 \notin S /\ 2 \notin S /\ 3 \notin S /\ 4 \notin S /\ 5 \in S
    BY <2>5
  <2>6. CASE 1 \notin S /\ 2 \notin S /\ 3 \notin S /\ 4 \notin S /\ 5 \notin S
    <3>1. \A y \in S : y = 6
      BY <2>6
    <3>2. 6 \in S
      BY <3>1
    <3> QED
      BY <3>1, <3>2
  <2> QED
    BY <2>1, <2>2, <2>3, <2>4, <2>5, <2>6
<1> QED
  BY <1>1 DEF Min

(* What an honest answer about addresses says: its records, if any, are    *)
(* the host's own, and an answered query finds what there is.              *)
LEMMA AddressAnswer ==
  ASSUME DnsShape, AnswersHonest, NEW q \in {"A", "AAAA"}
  PROVE  /\ normalizeAddress(dns.answers[q]) \subseteq {dns.truth[q][1]}
         /\ normalizeAddress(dns.answers[q]) # {} =>
              dns.truth[q] # <<>> /\ dns.truth[q][1] \in Nat
         /\ dns.answers[q].state = "ok" =>
              /\ normalizeAddress(dns.answers[q]) = {dns.truth[q][1]}
              /\ DOMAIN dns.truth[q] = {1}
         /\ dns.answers[q].state \in AUTHORITATIVE =>
              (normalizeAddress(dns.answers[q]) # {} <=> dns.truth[q] # <<>>)
<1>0. AnswerHonest(q, dns.answers[q])
  BY DEF AnswersHonest, Query
<1>1. /\ Range(<<>>) = {} /\ \A t : Range(<<t>>) = {t} /\ DOMAIN <<t>> = {1}
  BY DEF Range
<1>2. CASE dns.truth[q] = <<>>
  <2>1. runQuery(q, dns.truth[q]) = negative("nodata")
    BY <1>2 DEF runQuery, okOrNodata
  <2>2. dns.answers[q].records = <<>> /\ dns.answers[q].state # "ok"
    BY <1>0, <2>1 DEF AnswerHonest, negative, NoAnswer, NegativeState
  <2> QED
    BY <1>1, <1>2, <2>2 DEF normalizeAddress
<1>3. CASE dns.truth[q] # <<>>
  <2>1. PICK t \in Ttl : dns.truth[q] = <<t>>
    BY <1>3 DEF DnsShape
  <2>2. t \in Nat /\ dns.truth[q][1] = t
    BY <2>1, DnsAssumption
  <2>3. runQuery(q, dns.truth[q]) = [state |-> "ok", records |-> <<t>>]
    BY <2>1 DEF runQuery, okOrNodata
  <2>4. \/ dns.answers[q].records = <<>> /\ dns.answers[q].state \notin AUTHORITATIVE
        \/ dns.answers[q].records = <<t>>
    BY <1>0, <1>3, <2>3 DEF AnswerHonest, negative, NoAnswer, NegativeState, AUTHORITATIVE
  <2> QED
    BY <1>1, <1>3, <2>1, <2>2, <2>4 DEF normalizeAddress, AUTHORITATIVE
<1> QED
  BY <1>2, <1>3

(* What an honest answer about mail exchanges says: the null exchange is   *)
(* told from any other.                                                    *)
LEMMA MailAnswer ==
  ASSUME DnsShape, AnswersHonest
  PROVE  /\ isNullMx(dns.answers["MX"]) => MeansNullMx
         /\ dns.answers["MX"].state = "ok" /\ ~isNullMx(dns.answers["MX"]) =>
              HoldsMx /\ ~MeansNullMx
         /\ dns.answers["MX"].state \in {"nodata", "nxdomain"} => ~HoldsMx
<1> DEFINE rows == dns.truth["MX"]
           told == [i \in DOMAIN rows |-> <<mxExchange(rows[i][1]), rows[i][2]>>]
<1>0. AnswerHonest("MX", dns.answers["MX"])
  BY DEF AnswersHonest, Query
<1>1. CASE rows = <<>>
  <2>1. told = <<>>
    BY <1>1
  <2>2. runQuery("MX", rows) = negative("nodata")
    BY <2>1 DEF runQuery, okOrNodata
  <2>3. dns.answers["MX"].state # "ok"
    BY <1>0, <2>2 DEF AnswerHonest, negative, NoAnswer, NegativeState
  <2> QED
    BY <1>1, <2>3 DEF isNullMx, HoldsMx
<1>2. CASE rows # <<>>
  <2>1. rows \in Seq(STRING \X Nat) /\ \A i \in DOMAIN rows : rows[i][1] # "."
    BY <1>2, DnsAssumption DEF DnsShape
  <2>2. Len(rows) \in Nat /\ Len(rows) # 0 /\ DOMAIN rows = 1..Len(rows)
    BY <1>2, <2>1
  <2>3. Len(told) = Len(rows) /\ DOMAIN told = DOMAIN rows
    <3> DEFINE T == {told[i] : i \in DOMAIN rows}
    <3>1. told \in [1..Len(rows) -> T]
      BY <2>2
    <3> HIDE DEF T, told
    <3>2. told \in Seq(T)
      BY <2>2, <3>1
    <3> QED
      BY <2>2, <3>1, <3>2
  <2>4. told # <<>>
    BY <2>2, <2>3
  <2>5. runQuery("MX", rows) = [state |-> "ok", records |-> told]
    BY <2>4 DEF runQuery, okOrNodata
  <2>6. \/ dns.answers["MX"] = [state |-> "ok", records |-> told]
        \/ dns.answers["MX"].state \notin {"ok", "nodata", "nxdomain"}
    BY <1>0, <1>2, <2>5 DEF AnswerHonest, negative, NoAnswer, NegativeState
  <2>7. ASSUME Len(rows) = 1
        PROVE  /\ told[1][1] = "." <=> rows[1][1] = ""
               /\ told[1][2] = rows[1][2]
    <3>1. 1 \in DOMAIN rows /\ told[1] = <<mxExchange(rows[1][1]), rows[1][2]>>
      BY <2>2, <2>7
    <3> QED
      BY <2>1, <3>1 DEF mxExchange
  <2> HIDE DEF told
  <2>8. dns.answers["MX"].state = "ok" => (isNullMx(dns.answers["MX"]) <=> MeansNullMx)
    <3>1. CASE dns.answers["MX"] = [state |-> "ok", records |-> told]
      <4>1. dns.answers["MX"].records = told /\ dns.answers["MX"].state = "ok"
        BY <3>1
      <4>2. isNullMx(dns.answers["MX"]) <=>
              Len(told) = 1 /\ told[1][1] = "." /\ told[1][2] = 0
        BY <4>1 DEF isNullMx
      <4>3. MeansNullMx <=> Len(rows) = 1 /\ rows[1][1] = "" /\ rows[1][2] = 0
        BY DEF MeansNullMx
      <4> HIDE DEF rows
      <4> QED
        BY <2>3, <2>7, <4>2, <4>3
    <3>2. CASE dns.answers["MX"].state \notin {"ok", "nodata", "nxdomain"}
      BY <3>2
    <3> QED
      BY <2>6, <3>1, <3>2
  <2> QED
    BY <1>2, <2>6, <2>8 DEF isNullMx, HoldsMx
<1> QED
  BY <1>1, <1>2

LEMMA DnsReportsKeeps == DnsInv /\ DnsReports => DnsInv'
<1> SUFFICES ASSUME DnsInv, DnsReports PROVE DnsInv'
  OBVIOUS
<1> DEFINE state == normalizeDnsState(dns.answers)
           outcome == IF state.authoritative THEN observedOutcome(state)
                      ELSE degradedOutcome(dominantFailure(dns.answers))
           ttls == normalizeAddress(dns.answers["A"]) \cup normalizeAddress(dns.answers["AAAA"])
<1>0. DnsShape /\ AnswersHonest /\ ZoneIsHost /\ \A q \in Query : dns.answers[q] # NoAnswer
  BY DEF DnsInv, DnsReports
<1>1. dns' = [dns EXCEPT !.at = "done", !.outcome = outcome]
  BY DEF DnsReports
<1>2. /\ state.authoritative <=> \E q \in Query : dns.answers[q].state \in AUTHORITATIVE
      /\ state.resolvable <=> ttls # {}
      /\ state.mail = deriveMailSemantic(dns.answers["MX"], ttls # {})
      /\ state.minTtl = minTtl(ttls)
  BY DEF normalizeDnsState
<1> HIDE DEF state, outcome, ttls
<1>3. /\ dns'.outcome = outcome /\ dns'.at = "done" /\ dns'.truth = dns.truth
      /\ dns'.answers = dns.answers /\ dns'.aborted = dns.aborted
      /\ dns'.apex = dns.apex /\ dns'.zoneAddressed = dns.zoneAddressed
      /\ dns'.host = dns.host
  BY <1>0, <1>1 DEF DnsShape
<1>a. ZoneIsHost'
  BY <1>0, <1>3 DEF ZoneIsHost, HostAddressed
<1>4. DnsShape'
  BY <1>0, <1>1 DEF DnsShape
<1>5. AnswersHonest'
  BY <1>0, <1>3 DEF AnswersHonest, AnswerHonest
<1>6. CASE state.authoritative
  <2>1. /\ outcome.status = "success" /\ outcome.code = "none" /\ outcome.mail = state.mail
        /\ outcome.resolvable = state.resolvable /\ outcome.minTtl = state.minTtl
    BY <1>6 DEF outcome, observedOutcome
  <2>2. /\ state.mail = "null-mx" => MeansNullMx
        /\ state.mail = "explicit-mx" => HoldsMx /\ ~MeansNullMx
        /\ state.mail \in {"implicit-a-fallback", "no-mail-target"} => ~HoldsMx
        /\ state.mail = "implicit-a-fallback" => ttls # {}
        /\ state.mail = "no-mail-target" => ttls = {}
    BY <1>0, <1>2, MailAnswer DEF deriveMailSemantic
  <2>3. /\ ttls # {} => HostAddressed
        /\ AddressesAnswered /\ ttls = {} => ~HostAddressed
    BY <1>0, AddressAnswer DEF ttls, HostAddressed, AddressesAnswered
  <2>4. ASSUME NEW q \in {"A", "AAAA"}, dns.answers[q].state = "ok",
               NEW i \in DOMAIN dns.truth[q]
        PROVE  state.minTtl <= dns.truth[q][i]
    <3>1. i = 1 /\ dns.truth[q][1] \in ttls /\ ttls # {}
      BY <1>0, <2>4, AddressAnswer DEF ttls
    <3>2. PICK a \in Nat, b \in Nat : ttls \subseteq {a, b}
      <4>1. ASSUME NEW r \in {"A", "AAAA"}
            PROVE  \E a \in Nat : normalizeAddress(dns.answers[r]) \subseteq {a}
        BY <1>0, AddressAnswer
      <4>2. PICK a \in Nat : normalizeAddress(dns.answers["A"]) \subseteq {a}
        BY <4>1
      <4>3. PICK b \in Nat : normalizeAddress(dns.answers["AAAA"]) \subseteq {b}
        BY <4>1
      <4> QED
        BY <4>2, <4>3 DEF ttls
    <3>3. Min(ttls) <= dns.truth[q][1]
      BY <3>1, <3>2, MinOfTwo
    <3> QED
      BY <1>2, <3>1, <3>3 DEF minTtl
  <2>a. /\ MeansNullMx' <=> MeansNullMx
        /\ HoldsMx' <=> HoldsMx
        /\ HostAddressed' <=> HostAddressed
        /\ AddressesAnswered' <=> AddressesAnswered
    BY <1>3 DEF MeansNullMx, HoldsMx, HostAddressed, AddressesAnswered
  <2>b. /\ dns.apex /\ state.mail = "implicit-a-fallback" => dns.zoneAddressed
        /\ dns.apex /\ state.mail = "no-mail-target" /\ AddressesAnswered => ~dns.zoneAddressed
    BY <1>0, <2>2, <2>3 DEF ZoneIsHost
  <2>c. /\ state.resolvable => HostAddressed
        /\ ~state.resolvable /\ AddressesAnswered => ~HostAddressed
    BY <1>2, <2>3
  <2>5. DnsClaimsAreTrue'
    BY <1>2, <1>3, <1>6, <2>1, <2>2, <2>a, <2>b, <2>c, <2>4
       DEF DnsClaimsAreTrue
  <2>6. DnsAbortIsOwned'
    BY <1>3, <2>1 DEF DnsAbortIsOwned
  <2> QED
    BY <1>3, <1>4, <1>5, <1>a, <2>5, <2>6 DEF DnsInv
<1>7. CASE ~state.authoritative
  <2> DEFINE failed == {i \in DOMAIN UNRESOLVED_PRIORITY :
                          \E q \in Query : dns.answers[q].state = UNRESOLVED_PRIORITY[i]}
  <2>1. DOMAIN UNRESOLVED_PRIORITY = 1..6
    BY DEF UNRESOLVED_PRIORITY
  <2>2. \A q \in Query : \E i \in 1..6 : dns.answers[q].state = UNRESOLVED_PRIORITY[i]
    <3> SUFFICES ASSUME NEW q \in Query
                 PROVE  \E i \in 1..6 : dns.answers[q].state = UNRESOLVED_PRIORITY[i]
      OBVIOUS
    <3>1. dns.answers[q].state \notin AUTHORITATIVE
      BY <1>2, <1>7
    <3>2. runQuery(q, dns.truth[q]).state \in AUTHORITATIVE
      BY DEF runQuery, okOrNodata, negative, AUTHORITATIVE
    <3>3. dns.answers[q].state \in NegativeState \ AUTHORITATIVE
      <4>1. AnswerHonest(q, dns.answers[q]) /\ dns.answers[q] # NoAnswer
        BY <1>0 DEF AnswersHonest
      <4>2. PICK s \in NegativeState : dns.answers[q] = negative(s)
        BY <3>1, <3>2, <4>1 DEF AnswerHonest
      <4> QED
        BY <3>1, <4>2 DEF negative
    <3> QED
      BY <3>3 DEF NegativeState, AUTHORITATIVE, UNRESOLVED_PRIORITY
  <2>3. failed \in SUBSET (1..6) /\ failed # {}
    BY <2>1, <2>2 DEF Query
  <2>4. Min(failed) \in failed /\ \A i \in failed : Min(failed) <= i
    BY <2>3, MinOfSix
  <2>5. dominantFailure(dns.answers) = UNRESOLVED_PRIORITY[Min(failed)]
    BY DEF dominantFailure
  <2>6. PICK m \in 1..6 : m = Min(failed)
    BY <2>3, <2>4
  <2>7. /\ 1 \in failed <=> Fell("aborted")
        /\ 2 \in failed <=> Fell("timeout")
        /\ 3 \in failed <=> Fell("invalid-name")
    BY <2>1 DEF UNRESOLVED_PRIORITY, Fell
  <2> HIDE DEF failed
  <2>8. LET code == dominantFailure(dns.answers)
        IN  /\ code = "aborted" <=> Fell("aborted")
            /\ code = "timeout" <=> Fell("timeout") /\ ~Fell("aborted")
            /\ code = "invalid-name" <=>
                 Fell("invalid-name") /\ ~Fell("timeout") /\ ~Fell("aborted")
    <3>1. m \in failed /\ \A i \in failed : m <= i
      BY <2>4, <2>6
    <3>2. /\ m = 1 <=> 1 \in failed
          /\ m = 2 <=> 2 \in failed /\ 1 \notin failed
          /\ m = 3 <=> 3 \in failed /\ 2 \notin failed /\ 1 \notin failed
      <4>1. /\ 1 \in failed => m <= 1
            /\ 2 \in failed => m <= 2
            /\ 3 \in failed => m <= 3
        BY <3>1
      <4>2. m = 1 \/ m = 2 \/ m = 3 \/ m > 3
        BY <2>6
      <4>3. m >= 1
        BY <2>6
      <4> QED
        BY <2>6, <3>1, <4>1, <4>2, <4>3
    <3>3. dominantFailure(dns.answers) = UNRESOLVED_PRIORITY[m]
      BY <2>5, <2>6
    <3>4. /\ UNRESOLVED_PRIORITY[m] = "aborted" <=> m = 1
          /\ UNRESOLVED_PRIORITY[m] = "timeout" <=> m = 2
          /\ UNRESOLVED_PRIORITY[m] = "invalid-name" <=> m = 3
      BY <2>6 DEF UNRESOLVED_PRIORITY
    <3> QED
      BY <2>7, <3>2, <3>3, <3>4
  <2>9. /\ outcome.status \in {"skipped", "failure"}
        /\ outcome.code = dominantFailure(dns.answers)
        /\ outcome.code \notin {"no-host", "not-a-hostname"}
        /\ outcome.status = "skipped" <=> outcome.code \in {"aborted", "timeout"}
    <3>1. dominantFailure(dns.answers) \notin {"no-host", "not-a-hostname"}
      BY <2>5, <2>6 DEF UNRESOLVED_PRIORITY
    <3> QED
      BY <1>7, <3>1 DEF outcome, degradedOutcome, NoOutcome
  <2>10. \A q \in Query : dns.answers[q].state = "aborted" => dns.aborted
    <3> SUFFICES ASSUME NEW q \in Query, dns.answers[q].state = "aborted" PROVE dns.aborted
      OBVIOUS
    <3>1. runQuery(q, dns.truth[q]).state # "aborted" /\ NoAnswer.state # "aborted"
      BY DEF runQuery, okOrNodata, negative, NoAnswer
    <3>2. AnswerHonest(q, dns.answers[q])
      BY <1>0 DEF AnswersHonest
    <3>3. CASE dns.answers[q] = NoAnswer \/ dns.answers[q] = runQuery(q, dns.truth[q])
      BY <3>1, <3>3
    <3>4. ASSUME NEW s \in NegativeState, dns.answers[q] = negative(s), s = "aborted" => dns.aborted
          PROVE  dns.aborted
      BY <3>4 DEF negative
    <3> QED
      BY <3>2, <3>3, <3>4 DEF AnswerHonest
  <2>11. DnsClaimsAreTrue'
    BY <1>3, <2>9 DEF DnsClaimsAreTrue
  <2>12. DnsAbortIsOwned'
    <3>1. /\ Fell("aborted")' <=> Fell("aborted")
          /\ Fell("timeout")' <=> Fell("timeout")
          /\ Fell("invalid-name")' <=> Fell("invalid-name")
      BY <1>3 DEF Fell
    <3>2. Fell("aborted") => dns.aborted
      BY <2>10 DEF Fell
    <3> QED
      BY <1>3, <2>8, <2>9, <3>1, <3>2 DEF DnsAbortIsOwned
  <2> QED
    BY <1>3, <1>4, <1>5, <1>a, <2>11, <2>12 DEF DnsInv
<1> QED
  BY <1>6, <1>7

LEMMA DnsStep == DnsInv /\ [DnsNext]_dns => DnsInv'
<1>1. ASSUME DnsInv, UNCHANGED dns PROVE DnsInv'
  <2>1. DnsShape' /\ AnswersHonest' /\ ZoneIsHost' /\ (dns.at # "done" => dns.outcome = NoOutcome)'
    BY <1>1 DEF DnsInv, DnsShape, AnswersHonest, AnswerHonest, ZoneIsHost, HostAddressed
  <2>2. DnsClaimsAreTrue'
    BY <1>1 DEF DnsInv, DnsClaimsAreTrue, MeansNullMx, HoldsMx, HostAddressed, AddressesAnswered
  <2>3. DnsAbortIsOwned'
    BY <1>1 DEF DnsInv, DnsAbortIsOwned, Fell
  <2> QED
    BY <2>1, <2>2, <2>3 DEF DnsInv
<1> QED
  BY <1>1, DnsSmallStepsKeep, DnsAnswersKeeps, DnsReportsKeeps DEF DnsNext

LEMMA DnsStarts == DnsInit \/ DnsRests => DnsInv
<1> SUFFICES ASSUME DnsInit \/ DnsRests PROVE DnsInv
  OBVIOUS
<1>1. /\ DnsShape /\ ZoneIsHost /\ dns.outcome = NoOutcome
      /\ dns.answers = [q \in Query |-> NoAnswer]
  <2>1. CASE DnsInit
    <3>1. PICK host \in {"none", "ip", "name"}, mx \in MxWorld,
               a \in {<<>>} \cup {<<t>> : t \in Ttl}, aaaa \in {<<>>} \cup {<<t>> : t \in Ttl},
               apex \in BOOLEAN, zoneAddressed \in BOOLEAN :
            /\ apex => (zoneAddressed <=> a # <<>> \/ aaaa # <<>>)
            /\ dns = [at |-> "start", host |-> host, aborted |-> FALSE,
                       apex |-> apex, zoneAddressed |-> zoneAddressed,
                       truth |-> [q \in Query |-> CASE q = "A" -> a [] q = "AAAA" -> aaaa
                                                    [] q = "NS" -> <<"ns">> [] q = "MX" -> mx],
                       answers |-> [q \in Query |-> NoAnswer], dnssec |-> "none",
                       outcome |-> NoOutcome]
      BY <2>1 DEF DnsInit
    <3>2. dns.truth["A"] = a /\ dns.truth["AAAA"] = aaaa /\ dns.truth["MX"] = mx
      BY <3>1 DEF Query
    <3>3. /\ dns.at = "start" /\ dns.aborted = FALSE /\ dns.outcome = NoOutcome
          /\ dns.apex = apex /\ dns.zoneAddressed = zoneAddressed
          /\ dns.answers = [q \in Query |-> NoAnswer]
          /\ dns = [at |-> dns.at, host |-> dns.host, aborted |-> dns.aborted,
                    apex |-> dns.apex, zoneAddressed |-> dns.zoneAddressed,
                    truth |-> dns.truth, answers |-> dns.answers, dnssec |-> dns.dnssec,
                    outcome |-> dns.outcome]
      BY <3>1
    <3>4. ZoneIsHost
      BY <3>1, <3>2, <3>3 DEF ZoneIsHost, HostAddressed
    <3> QED
      BY <3>2, <3>3, <3>4 DEF DnsShape
  <2>2. CASE DnsRests
    BY <2>2 DEF DnsRests, DnsShape, Query, ZoneIsHost
  <2> QED
    BY <2>1, <2>2
<1>2. AnswersHonest
  BY <1>1 DEF AnswersHonest, AnswerHonest
<1> QED
  BY <1>1, <1>2 DEF DnsInv, DnsClaimsAreTrue, DnsAbortIsOwned, NoOutcome

-----------------------------------------------------------------------------
(***************************************************************************)
(* Snapshots (SnapshotMirror).                                             *)
(***************************************************************************)
IsTheFeed(v) == \E i \in DOMAIN Published[v] : Published[v][i] # "noise"

SnapshotShape(s) ==
  s = [version |-> s.version, etag |-> s.etag, observedAt |-> s.observedAt,
       expiresAt |-> s.expiresAt, records |-> s.records]

(* A snapshot was current when its download started, expires a cadence     *)
(* after that, and has the validator of its own version, if any.           *)
Sound(s) ==
  \/ s = Nothing
  \/ /\ s.version \in DOMAIN Published /\ IsTheFeed(s.version)
     /\ s.etag \in {0, s.version}
     /\ SnapshotShape(s)
     /\ s.observedAt \in 0..now /\ s.observedAt <= replacedAt[s.version]
     /\ s.expiresAt = IF cadence = Off THEN Off ELSE s.observedAt + cadence

MirrorTyped ==
  /\ feed \in Feeds /\ cadence \in Nat \cup {Off} /\ now \in 0..MaxNow
  /\ current \in DOMAIN Published /\ replacedAt \in [DOMAIN Published -> Nat]
  /\ \A v \in DOMAIN Published : v >= current => replacedAt[v] = MaxNow
  /\ updates = [p \in Updater |-> updates[p]]

(* What an update holds at each of its awaits. *)
UpdateSound(u) ==
  /\ u = [at |-> u.at, previous |-> u.previous, started |-> u.started,
          snapshot |-> u.snapshot, served |-> u.served, result |-> u.result]
  /\ u.at \in {"request", "response"} => u.started \in 0..now /\ Sound(u.previous)
  /\ u.at = "response" => u.served \in DOMAIN Published /\ u.started <= replacedAt[u.served]
  /\ u.at = "replace" => u.snapshot # Nothing /\ Sound(u.snapshot)
  /\ u.at # "done" => u.result = NoResult
  /\ u.result.code = "not-modified" => u.previous.version = u.served

(* What the enricher answers from: a sound snapshot, or, for RDAP, a bare  *)
(* registry.                                                               *)
IndexSound == Sound(index) \/ (feed = "rdap-bootstrap" /\ bareRegistry(index))

MirrorInv ==
  /\ MirrorTyped /\ Sound(store) /\ IndexSound
  /\ \A p \in Updater : UpdateSound(updates[p])
  /\ UseIsRecent

(* A body that parses is of the feed, however much of it arrived. *)
LEMMA ParsedIsTheFeed ==
  ASSUME NEW v \in DOMAIN Published, NEW n \in 0..Len(Published[v]),
         parsed(SubSeq(Published[v], 1, n), Published[v]) # <<>>
  PROVE  IsTheFeed(v)
<1> DEFINE whole == Published[v]
           lines == SubSeq(whole, 1, n)
<1>1. whole \in Seq({"banner", "noise", "listed", "unconfirmed"})
  BY MirrorAssumption
<1>2. DOMAIN lines = 1..n /\ DOMAIN whole = 1..Len(whole) /\ \A i \in 1..n : lines[i] = whole[i]
  BY <1>1
<1>3. CASE feed = "rdap-bootstrap"
  <2>1. lines = whole /\ lines # <<>> /\ ~\E i \in DOMAIN lines : lines[i] = "noise"
    BY <1>3 DEF parsed, parseBootstrapDocument, parseRdapBootstrap
  <2>2. 1 \in DOMAIN whole
    BY <1>1, <2>1
  <2> QED
    BY <2>1, <2>2 DEF IsTheFeed
<1>4. CASE feed # "rdap-bootstrap"
  <2>1. parseCsv(lines) # <<>>
    BY <1>4 DEF parsed
  <2>2. \E i \in DOMAIN lines : lines[i] = "banner" \/ lines[i] \in Records
    BY <2>1, Zenon DEF parseCsv
  <2> HIDE DEF lines
  <2> QED
    BY <1>2, <2>2 DEF IsTheFeed, Records
<1> QED
  BY <1>3, <1>4

(* The whole of a version is one of its prefixes. *)
LEMMA WholeIsTheFeed ==
  ASSUME NEW v \in DOMAIN Published, parsed(Published[v], Published[v]) # <<>>
  PROVE  IsTheFeed(v)
<1>1. Published[v] \in Seq({"banner", "noise", "listed", "unconfirmed"})
  BY MirrorAssumption
<1>2. SubSeq(Published[v], 1, Len(Published[v])) = Published[v]
  BY <1>1
<1>3. Len(Published[v]) \in 0..Len(Published[v])
  BY <1>1
<1> QED
  BY <1>2, <1>3, ParsedIsTheFeed

(* Time and the provider move on without unsettling what is held. *)
LEMMA SoundStays ==
  ASSUME MirrorTyped, NEW s, Sound(s), UNCHANGED cadence,
         \/ now' = now /\ replacedAt' = replacedAt
         \/ now' = now + 1 /\ replacedAt' = replacedAt
         \/ now' = now /\ replacedAt' = [replacedAt EXCEPT ![current] = now]
  PROVE  Sound(s)'
<1> USE DEF Sound, MirrorTyped
<1>1. CASE s = Nothing
  BY <1>1
<1>2. CASE s # Nothing
  <2>1. CASE replacedAt' = replacedAt /\ now' \in {now, now + 1}
    BY <1>2, <2>1
  <2>2. CASE now' = now /\ replacedAt' = [replacedAt EXCEPT ![current] = now]
    <3>1. s.observedAt <= replacedAt'[s.version]
      BY <1>2, <2>2
    <3> QED
      BY <1>2, <2>2, <3>1
  <2> QED
    BY <2>1, <2>2
<1> QED
  BY <1>1, <1>2

(* One update moves on, to a state that is sound; the clock, the provider  *)
(* and the index rest.                                                     *)
LEMMA UpdateMoves ==
  ASSUME MirrorInv, NEW p \in Updater, NEW u, UpdateSound(u),
         updates' = [updates EXCEPT ![p] = u],
         UNCHANGED <<feed, cadence, now, current, replacedAt, index, verdict>>,
         store' = store \/ (\E q \in Updater : updates[q].at = "replace" /\ store' = updates[q].snapshot)
  PROVE  MirrorInv'
<1> USE DEF MirrorInv
<1>1. MirrorTyped'
  BY DEF MirrorTyped
<1>2. \A s : Sound(s) => Sound(s)'
  BY DEF Sound
<1>3. Sound(store)' /\ IndexSound'
  <2>1. IndexSound'
    <3>1. CASE Sound(index)
      <4>1. Sound(index)'
        BY <3>1 DEF Sound
      <4> QED
        BY <4>1 DEF IndexSound
    <3>2. CASE feed = "rdap-bootstrap" /\ bareRegistry(index)
      BY <3>2 DEF IndexSound, bareRegistry
    <3> QED
      BY <3>1, <3>2 DEF IndexSound
  <2>2. CASE store' = store
    <3>1. Sound(store)
      OBVIOUS
    <3> HIDE DEF MirrorInv
    <3>2. Sound(store)'
      BY <2>2, <3>1 DEF Sound
    <3> QED
      BY <2>1, <3>2
  <2>3. ASSUME NEW q \in Updater, updates[q].at = "replace", store' = updates[q].snapshot
        PROVE  Sound(store)'
    <3>1. Sound(updates[q].snapshot)
      BY <2>3 DEF UpdateSound
    <3> QED
      BY <2>3, <3>1 DEF Sound
  <2> QED
    BY <2>1, <2>2, <2>3
<1>4. ASSUME NEW q \in Updater PROVE UpdateSound(updates[q])'
  <2>1. updates'[q] = IF q = p THEN u ELSE updates[q]
    BY DEF MirrorTyped
  <2>2. CASE q = p
    BY <2>1, <2>2 DEF UpdateSound, Sound
  <2>3. CASE q # p
    BY <2>1, <2>3 DEF UpdateSound, Sound
  <2> QED
    BY <2>2, <2>3
<1>5. UseIsRecent'
  BY DEF UseIsRecent, FoundInFeed, RoutedBySnapshot, bareRegistry
<1> QED
  BY <1>1, <1>3, <1>4, <1>5

(* An update that ends lets go of what it held. *)
LEMMA UpdateEnds ==
  ASSUME MirrorInv, NEW p \in Updater, NEW r, Ends(p, r),
         r.code = "not-modified" => updates[p].previous.version = updates[p].served,
         UNCHANGED <<feed, cadence, now, current, replacedAt, index, verdict>>,
         store' = store \/ (\E q \in Updater : updates[q].at = "replace" /\ store' = updates[q].snapshot)
  PROVE  MirrorInv'
<1> DEFINE u == [Idle EXCEPT !.at = "done", !.result = r,
                   !.previous = IF r.code = "not-modified" THEN updates[p].previous ELSE Nothing,
                   !.served = IF r.code = "not-modified" THEN updates[p].served ELSE 0]
<1>1. updates' = [updates EXCEPT ![p] = u]
  BY DEF Ends
<1>2. UpdateSound(u)
  <2>1. PICK i, prev, srv, y :
          /\ i = [at |-> "idle", previous |-> Nothing, started |-> Off, snapshot |-> Nothing,
                  served |-> 0, result |-> NoResult]
          /\ prev = IF r.code = "not-modified" THEN updates[p].previous ELSE Nothing
          /\ srv = IF r.code = "not-modified" THEN updates[p].served ELSE 0
          /\ y = [i EXCEPT !.at = "done", !.result = r, !.previous = prev, !.served = srv]
          /\ y = u
    BY Zenon DEF Idle
  <2> HIDE DEF u
  <2>a. u = [at |-> "done", previous |-> prev, started |-> Off, snapshot |-> Nothing,
             served |-> srv, result |-> r]
    BY <2>1
  <2>2. /\ u.at = "done" /\ u.result = r
        /\ u = [at |-> u.at, previous |-> u.previous, started |-> u.started,
                snapshot |-> u.snapshot, served |-> u.served, result |-> u.result]
        /\ u.previous = prev /\ u.served = srv
    BY <2>a
  <2>3. r.code = "not-modified" => u.previous.version = u.served
    BY <2>1, <2>2
  <2> QED
    BY <2>2, <2>3 DEF UpdateSound
<1> HIDE DEF u
<1> QED
  BY <1>1, <1>2, UpdateMoves

LEMMA UpdateStepKeeps ==
  ASSUME MirrorInv, NEW p \in Updater, UpdateStep(p)
  PROVE  MirrorInv'
<1> DEFINE old == updates[p]
           Rest == UNCHANGED <<feed, cadence, now, current, replacedAt, index, verdict>>
<1>0. /\ UpdateSound(old) /\ MirrorTyped /\ Sound(store)
      /\ \A u : updates' = [updates EXCEPT ![p] = u] /\ UpdateSound(u) /\ Rest /\ store' = store
                  => MirrorInv'
      /\ \A r : Ends(p, r) /\ r.code # "not-modified" /\ Rest /\ store' = store => MirrorInv'
  BY UpdateMoves, UpdateEnds DEF MirrorInv
<1>1. CASE UpdateBegins(p)
  <2>1. UpdateSound([Idle EXCEPT !.at = "read"])
    BY DEF UpdateSound, Idle, NoResult, Result
  <2>2. UpdateSound([Idle EXCEPT !.at = "done", !.result = Result("skipped", "caller-aborted")])
    <3> DEFINE u == [Idle EXCEPT !.at = "done", !.result = Result("skipped", "caller-aborted")]
    <3>1. PICK i, y :
            /\ i = [at |-> "idle", previous |-> Nothing, started |-> Off, snapshot |-> Nothing,
                    served |-> 0, result |-> NoResult]
            /\ y = [i EXCEPT !.at = "done", !.result = Result("skipped", "caller-aborted")]
            /\ y = u
      BY Zenon DEF Idle
    <3> HIDE DEF u
    <3>2. UpdateSound(u)
      <4>1. /\ u.at = "done" /\ u.result = Result("skipped", "caller-aborted")
            /\ u = [at |-> u.at, previous |-> u.previous, started |-> u.started,
                    snapshot |-> u.snapshot, served |-> u.served, result |-> u.result]
        BY <3>1
      <4>2. Result("skipped", "caller-aborted").code = "caller-aborted"
        BY DEF Result
      <4> QED
        BY <4>1, <4>2 DEF UpdateSound
    <3> QED
      BY <3>2 DEF u
  <2> QED
    BY <1>0, <1>1, <2>1, <2>2 DEF UpdateBegins
<1>2. CASE MetadataRead(p)
  <2>0. old.at = "read" /\ Rest /\ store' = store
    BY <1>2 DEF MetadataRead, Others
  <2>1. CASE \/ Ends(p, Result("unchanged", "within-cadence"))
             \/ Ends(p, Result("failure", "insecure-url"))
    BY <1>0, <2>0, <2>1 DEF Result
  <2>2. CASE updates' = [updates EXCEPT ![p] = [@ EXCEPT !.at = "request", !.previous = store,
                                                        !.started = now]]
    <3> DEFINE u == [at |-> "request", previous |-> store, started |-> now,
                     snapshot |-> old.snapshot, served |-> old.served, result |-> old.result]
    <3>1. updates' = [updates EXCEPT ![p] = u]
      <4>1. PICK y : /\ y = [old EXCEPT !.at = "request", !.previous = store, !.started = now]
                     /\ updates' = [updates EXCEPT ![p] = y]
        BY <2>2, Zenon
      <4>2. y = u
        BY <1>0, <4>1 DEF UpdateSound
      <4> QED
        BY <4>1, <4>2
    <3>2. UpdateSound(u)
      BY <1>0, <2>0 DEF UpdateSound, MirrorTyped, NoResult, Result
    <3> HIDE DEF u
    <3> QED
      BY <1>0, <2>0, <3>1, <3>2
  <2> QED
    BY <1>2, <2>1, <2>2 DEF MetadataRead
<1>3. CASE RequestThrows(p) \/ Throttled(p) \/ HttpError(p)
  BY <1>0, <1>3 DEF RequestThrows, Throttled, HttpError, Others, Result
<1>4. CASE ServerAnswers(p)
  <2>0. old.at = "request" /\ Rest /\ store' = store
    BY <1>4 DEF ServerAnswers, Others
  <2> DEFINE u == [at |-> "response", previous |-> old.previous, started |-> old.started,
                   snapshot |-> old.snapshot, served |-> current, result |-> old.result]
  <2>1. updates' = [updates EXCEPT ![p] = u]
    <3>1. PICK y : /\ y = [old EXCEPT !.at = "response", !.served = current]
                   /\ updates' = [updates EXCEPT ![p] = y]
      BY <1>4, Zenon DEF ServerAnswers
    <3>2. y = u
      BY <1>0, <3>1 DEF UpdateSound
    <3> QED
      BY <3>1, <3>2
  <2>2. UpdateSound(u)
    <3>1. old.started \in 0..now /\ Sound(old.previous) /\ old.result = NoResult
      BY <1>0, <2>0 DEF UpdateSound
    <3>2. old.started <= replacedAt[current]
      BY <1>0, <3>1, MirrorAssumption DEF MirrorTyped
    <3> QED
      BY <1>0, <3>1, <3>2 DEF UpdateSound, MirrorTyped, NoResult, Result
  <2> HIDE DEF u
  <2> QED
    BY <1>0, <2>0, <2>1, <2>2
<1>5. CASE NotModified(p)
  <2>0. old.at = "response" /\ Rest /\ store' = store
    BY <1>5 DEF NotModified, Others
  <2>1. CASE /\ old.previous # Nothing /\ conditionalHeaders(p) = old.served
             /\ Ends(p, Result("unchanged", "not-modified"))
    <3>1. old.previous.etag = old.served
      BY <2>1 DEF conditionalHeaders
    <3>2. old.served \in DOMAIN Published /\ old.served # 0
      BY <1>0, <2>0, MirrorAssumption DEF UpdateSound
    <3>3. old.previous.version = old.served
      BY <1>0, <2>0, <2>1, <3>1, <3>2 DEF UpdateSound, Sound
    <3> QED
      BY <2>0, <2>1, <3>3, UpdateEnds
  <2>2. CASE Ends(p, Result("failure", "http-error"))
    BY <1>0, <2>0, <2>2 DEF Result
  <2> QED
    BY <1>5, <2>1, <2>2 DEF NotModified
<1>6. CASE Downloaded(p)
  <2>0. old.at = "response" /\ Rest /\ store' = store
    BY <1>6 DEF Downloaded, Others
  <2>1. CASE Ends(p, Result("failure", "malformed"))
    BY <1>0, <2>0, <2>1 DEF Result
  <2>2. ASSUME NEW n \in 0..Len(Published[old.served]),
               parsed(SubSeq(Published[old.served], 1, n), Published[old.served]) # <<>>,
               NEW etag \in {0, old.served}, NEW records,
               updates' = [updates EXCEPT ![p] =
                 [@ EXCEPT !.at = "replace", !.snapshot = Snapshot(p, records, etag)]]
        PROVE  MirrorInv'
    <3>0. /\ old.served \in DOMAIN Published /\ old.started \in 0..now
          /\ old.started <= replacedAt[old.served] /\ old.result = NoResult
      BY <1>0, <2>0 DEF UpdateSound
    <3>1. IsTheFeed(old.served)
      BY <2>2, <3>0, ParsedIsTheFeed
    <3> DEFINE s == Snapshot(p, records, etag)
               u == [at |-> "replace", previous |-> old.previous, started |-> old.started,
                     snapshot |-> s, served |-> old.served, result |-> old.result]
    <3>2. s # Nothing
      BY <3>0, MirrorAssumption DEF Snapshot, Nothing
    <3>a. /\ s.version = old.served /\ s.etag = etag /\ s.observedAt = old.started
          /\ s.expiresAt = expiresAt(p) /\ SnapshotShape(s)
      BY DEF Snapshot, SnapshotShape
    <3>3. Sound(s)
      BY <2>2, <3>0, <3>1, <3>a DEF Sound, expiresAt
    <3> HIDE DEF s
    <3>4. updates' = [updates EXCEPT ![p] = u]
      <4>1. PICK y : /\ y = [old EXCEPT !.at = "replace", !.snapshot = s]
                     /\ updates' = [updates EXCEPT ![p] = y]
        BY <2>2, Zenon DEF s
      <4>2. y = u
        BY <1>0, <4>1 DEF UpdateSound
      <4> QED
        BY <4>1, <4>2
    <3>5. UpdateSound(u)
      BY <3>0, <3>2, <3>3 DEF UpdateSound, NoResult, Result
    <3> HIDE DEF u
    <3> QED
      BY <1>0, <2>0, <3>4, <3>5
  <2> QED
    BY <1>6, <2>1, <2>2 DEF Downloaded
<1>7. CASE Replaced(p)
  <2>0. old.at = "replace" /\ Rest
    BY <1>7 DEF Replaced, Others
  <2>1. CASE store' = old.snapshot /\ Ends(p, Result("updated", "none"))
    BY <2>0, <2>1, UpdateEnds DEF Result
  <2>2. CASE store' = store /\ Ends(p, Result("rejected", "none"))
    BY <1>0, <2>0, <2>2 DEF Result
  <2> QED
    BY <1>7, <2>1, <2>2 DEF Replaced
<1> QED
  BY <1>1, <1>2, <1>3, <1>4, <1>5, <1>6, <1>7 DEF UpdateStep

(* A registry without its metadata is a bare one. *)
LEMMA RegistryFacts ==
  ASSUME NEW s, Sound(s), s # Nothing PROVE bareRegistry(registryOf(s))
<1> DEFINE bare == [version |-> s.version, etag |-> 0, observedAt |-> Off, expiresAt |-> Off,
                    records |-> s.records]
<1>a. PICK v, e, o, x, rs :
        s = [version |-> v, etag |-> e, observedAt |-> o, expiresAt |-> x, records |-> rs]
  BY DEF Sound, SnapshotShape
<1>b. registryOf(s) = [version |-> v, etag |-> 0, observedAt |-> Off, expiresAt |-> Off,
                       records |-> rs]
  <2>1. PICK off, y : /\ y = [s EXCEPT !.etag = 0, !.observedAt = off, !.expiresAt = off]
                      /\ y = registryOf(s) /\ off = Off
    BY Zenon DEF registryOf
  <2>2. y = [version |-> v, etag |-> 0, observedAt |-> off, expiresAt |-> off, records |-> rs]
    BY <1>a, <2>1
  <2> QED
    BY <2>1, <2>2
<1>1. registryOf(s) = bare
  <2>1. s.version = v /\ s.records = rs
    BY <1>a
  <2> QED
    BY <1>b, <2>1
<1>2. s.version # 0
  BY MirrorAssumption DEF Sound
<1>3. bare # Nothing
  BY <1>2 DEF Nothing
<1> QED
  BY <1>1, <1>3 DEF bareRegistry

(* The provider, the clock and the host. *)
LEMMA WorldKeeps ==
  ASSUME MirrorInv, verdict = NoVerdict, Publishes \/ MirrorTick \/ IndexLoaded
  PROVE  MirrorInv'
<1>0. /\ MirrorTyped /\ Sound(store) /\ IndexSound /\ UseIsRecent
      /\ \A p \in Updater : UpdateSound(updates[p])
  BY DEF MirrorInv
<1>1. /\ UNCHANGED <<cadence, feed, store, updates>>
      /\ \/ now' = now /\ replacedAt' = replacedAt
         \/ now' = now + 1 /\ replacedAt' = replacedAt
         \/ now' = now /\ replacedAt' = [replacedAt EXCEPT ![current] = now]
      /\ \/ index' = index \/ index' = store
         \/ index' = registryOf(store) /\ feed = "rdap-bootstrap" /\ store # Nothing
  BY DEF Publishes, MirrorTick, IndexLoaded
<1>2. \A s : Sound(s) => Sound(s)'
  BY <1>0, <1>1, SoundStays
<1>3. MirrorTyped'
  <2>1. Len(Published) \in Nat /\ DOMAIN Published = 1..Len(Published)
    BY MirrorAssumption
  <2>2. CASE Publishes
    BY <1>0, <2>1, <2>2 DEF MirrorTyped, Publishes
  <2>3. CASE MirrorTick
    BY <1>0, <2>3, MirrorAssumption DEF MirrorTyped, MirrorTick
  <2>4. CASE IndexLoaded
    BY <1>0, <2>4 DEF MirrorTyped, IndexLoaded
  <2> QED
    BY <2>2, <2>3, <2>4

<1>4. Sound(store)' /\ IndexSound'
  <2>1. Sound(store)'
    BY <1>0, <1>1, SoundStays DEF Sound
  <2>2. CASE index' = store
    BY <1>0, <1>1, <2>2, SoundStays DEF IndexSound, Sound
  <2>3. CASE index' = index
    <3>1. CASE Sound(index)
      BY <1>0, <1>1, <2>3, <3>1, SoundStays DEF IndexSound, Sound
    <3>2. CASE feed = "rdap-bootstrap" /\ bareRegistry(index)
      BY <1>1, <2>1, <2>3, <3>2 DEF IndexSound, bareRegistry
    <3> QED
      BY <1>0, <3>1, <3>2 DEF IndexSound
  <2>4. CASE /\ index' = registryOf(store)
             /\ feed = "rdap-bootstrap" /\ store # Nothing
    <3>1. bareRegistry(registryOf(store))
      BY <1>0, <2>4, RegistryFacts
    <3> QED
      BY <1>1, <2>1, <2>4, <3>1 DEF IndexSound, bareRegistry
  <2> QED
    BY <1>1, <2>1, <2>2, <2>3, <2>4
<1>5. ASSUME NEW p \in Updater PROVE UpdateSound(updates[p])'
  <2> DEFINE u == updates[p]
  <2>0. UpdateSound(u) /\ updates'[p] = u
    BY <1>0, <1>1
  <2>1. \A n \in 0..now : n \in 0..(now')
    BY <1>0, <1>1 DEF MirrorTyped
  <2>2. u.at \in {"request", "response"} => u.started \in 0..(now') /\ Sound(u.previous)'
    BY <1>2, <2>0, <2>1 DEF UpdateSound
  <2>3. u.at = "response" => u.served \in DOMAIN Published /\ u.started <= replacedAt'[u.served]
    <3> SUFFICES ASSUME u.at = "response"
                 PROVE  u.served \in DOMAIN Published /\ u.started <= replacedAt'[u.served]
      OBVIOUS
    <3>1. u.served \in DOMAIN Published /\ u.started <= replacedAt[u.served] /\ u.started \in 0..now
      BY <2>0 DEF UpdateSound
    <3> HIDE DEF u
    <3> QED
      BY <1>0, <1>1, <3>1 DEF MirrorTyped
  <2>4. u.at = "replace" => u.snapshot # Nothing /\ Sound(u.snapshot)'
    BY <1>2, <2>0 DEF UpdateSound
  <2> QED
    BY <2>0, <2>2, <2>3, <2>4 DEF UpdateSound
<1>6. UseIsRecent'
  <2>1. verdict' = NoVerdict
    BY DEF Publishes, MirrorTick, IndexLoaded
  <2> QED
    BY <2>1 DEF UseIsRecent, FoundInFeed, RoutedBySnapshot, NoVerdict
<1> QED
  BY <1>3, <1>4, <1>5, <1>6 DEF MirrorInv

(* A snapshot that is fresh, or may route, was current a cadence ago. *)
LEMMA FreshIsRecent ==
  ASSUME MirrorTyped, Sound(index), index # Nothing, cadence # Off, now < index.expiresAt
  PROVE  replacedAt[index.version] >= now - cadence
BY DEF MirrorTyped, Sound, Off

LEMMA SnapshotFreshFacts ==
  ASSUME snapshotFreshness(index).status = "fresh", MirrorTyped, Sound(index), index # Nothing
  PROVE  cadence # Off /\ now < index.expiresAt
<1>1. index.expiresAt # -1 /\ ~(now >= index.expiresAt)
  BY DEF snapshotFreshness, freshnessFor
<1> QED
  BY <1>1 DEF MirrorTyped, Sound, Off

(* The enrichers: what they report from is recent. *)
LEMMA ReportsKeep ==
  ASSUME MirrorInv, UrlhausEnriches \/ PhishTankEnriches \/ Uncanonicalizable \/ RdapEnriches
  PROVE  MirrorInv'
<1> DEFINE asked == {"no-hit", "throttled", "network-error", "found"}
<1>0. /\ MirrorTyped /\ Sound(store) /\ IndexSound
      /\ \A p \in Updater : UpdateSound(updates[p])
  BY DEF MirrorInv
<1>1. UNCHANGED <<feed, cadence, now, current, replacedAt, store, index, updates, begun>>
  BY DEF UrlhausEnriches, PhishTankEnriches, Uncanonicalizable, RdapEnriches
<1>2. MirrorTyped' /\ Sound(store)' /\ IndexSound'
  BY <1>0, <1>1 DEF MirrorTyped, Sound, IndexSound, bareRegistry
<1>3. \A p \in Updater : UpdateSound(updates[p])'
  BY <1>0, <1>1 DEF UpdateSound, Sound
<1>4. CASE UrlhausEnriches \/ PhishTankEnriches \/ Uncanonicalizable
  <2>1. feed # "rdap-bootstrap" /\ Sound(index)
    BY <1>0, <1>4 DEF UrlhausEnriches, PhishTankEnriches, Uncanonicalizable, IndexSound
  <2>2. PICK code, finding, freshness :
          /\ verdict' = Verdict(code, finding, freshness)
          /\ finding => /\ index # Nothing /\ snapshotFreshness(index).status = "fresh"
                        /\ freshness = "fresh"
    BY <1>4 DEF UrlhausEnriches, PhishTankEnriches, Uncanonicalizable, noHitOutcome,
                matchOutcome, phishTankMatchOutcome
  <2>3. /\ verdict'.finding = finding /\ verdict'.at = now /\ verdict'.freshness = freshness
        /\ verdict'.version = index.version
    BY <2>2 DEF Verdict
  <2>4. finding => cadence # Off /\ replacedAt[index.version] >= now - cadence
    BY <1>0, <2>1, <2>2, SnapshotFreshFacts, FreshIsRecent
  <2>5. UseIsRecent'
    BY <1>1, <2>1, <2>2, <2>3, <2>4 DEF UseIsRecent, FoundInFeed, RoutedBySnapshot
  <2> QED
    BY <1>2, <1>3, <2>5 DEF MirrorInv
<1>5. CASE RdapEnriches
  <2>0. feed = "rdap-bootstrap"
    BY <1>5 DEF RdapEnriches
  <2>1. PICK code, finding, freshness :
          /\ verdict' = Verdict(code, finding, freshness)
          /\ code \in asked => resolveBootstrap(index) = "usable"
          /\ freshness \in {"fresh", "unknown"}
    <3>1. resolveBootstrap(index) \notin asked
      BY DEF resolveBootstrap
    <3>2. CASE \E code \in {"no-registrable-domain", "unsupported-tld", resolveBootstrap(index)} :
                 verdict' = Verdict(code, FALSE, "unknown")
      <4>1. PICK code \in {"no-registrable-domain", "unsupported-tld", resolveBootstrap(index)} :
                   verdict' = Verdict(code, FALSE, "unknown")
        BY <3>2
      <4>2. code \notin asked
        BY <3>1, <4>1
      <4> QED
        BY <4>1, <4>2
    <3>3. CASE /\ resolveBootstrap(index) = "usable"
               /\ \E code : verdict' = Verdict(code, FALSE, "unknown")
      BY <3>3
    <3>4. ASSUME resolveBootstrap(index) = "usable",
                 NEW age, NEW corroborated \in BOOLEAN, NEW ttl \in 0..1,
                 verdict' = foundOutcome(age, 1, corroborated, ttl)
          PROVE  \E code, finding, freshness :
                   /\ verdict' = Verdict(code, finding, freshness)
                   /\ code \in asked => resolveBootstrap(index) = "usable"
                   /\ freshness \in {"fresh", "unknown"}
      <4>1. now \in Nat
        BY <1>0, MirrorAssumption DEF MirrorTyped
      <4>2. freshnessFor([declaresExpiry |-> TRUE, staleWhenExpired |-> TRUE], now,
                         IF ttl > 0 THEN now + ttl ELSE Off).status \in {"fresh", "unknown"}
        BY <4>1 DEF freshnessFor, Off
      <4> QED
        BY <3>4, <4>2 DEF foundOutcome
    <3>5. \/ verdict' = Verdict("no-registrable-domain", FALSE, "unknown")
          \/ verdict' = Verdict(resolveBootstrap(index), FALSE, "unknown")
          \/ verdict' = Verdict("unsupported-tld", FALSE, "unknown")
          \/ /\ resolveBootstrap(index) = "usable"
             /\ \/ \E code : verdict' = Verdict(code, FALSE, "unknown")
                \/ \E age \in {Off, 0, 2}, corroborated \in BOOLEAN, ttl \in 0..1 :
                     verdict' = foundOutcome(age, 1, corroborated, ttl)
      <4>1. ASSUME verdict' \in {Verdict("no-hit", FALSE, "unknown"),
                                 Verdict("throttled", FALSE, "unknown"),
                                 Verdict("network-error", FALSE, "unknown")}
            PROVE  \E code : verdict' = Verdict(code, FALSE, "unknown")
        BY <4>1
      <4>2. \/ verdict' = Verdict("no-registrable-domain", FALSE, "unknown")
            \/ verdict' = Verdict(resolveBootstrap(index), FALSE, "unknown")
            \/ verdict' = Verdict("unsupported-tld", FALSE, "unknown")
            \/ /\ resolveBootstrap(index) = "usable"
               /\ verdict' \in {Verdict("no-hit", FALSE, "unknown"),
                                Verdict("throttled", FALSE, "unknown"),
                                Verdict("network-error", FALSE, "unknown")}
            \/ /\ resolveBootstrap(index) = "usable"
               /\ \E age \in {Off, 0, 2}, corroborated \in BOOLEAN, ttl \in 0..1 :
                    verdict' = foundOutcome(age, 1, corroborated, ttl)
        BY <1>5 DEF RdapEnriches
      <4> QED
        BY <4>1, <4>2
    <3> HIDE DEF asked
    <3> QED
      BY <3>2, <3>3, <3>4, <3>5
  <2>2. /\ verdict'.code = code /\ verdict'.at = now /\ verdict'.freshness = freshness
        /\ verdict'.version = index.version
    BY <2>1 DEF Verdict
  <2>3. ASSUME resolveBootstrap(index) = "usable", cadence # Off, ~bareRegistry(index)
        PROVE  replacedAt[index.version] >= now - cadence
    <3>1. index # Nothing /\ ~(index.expiresAt # Off /\ now >= index.expiresAt)
      BY <2>3 DEF resolveBootstrap
    <3>2. Sound(index)
      BY <1>0, <2>3 DEF IndexSound
    <3>3. now < index.expiresAt
      BY <1>0, <2>3, <3>1, <3>2 DEF MirrorTyped, Sound, Off
    <3> QED
      BY <1>0, <2>3, <3>1, <3>2, <3>3, FreshIsRecent
  <2>4. bareRegistry(index)' <=> bareRegistry(index)
    BY <1>1 DEF bareRegistry
  <2>5. UseIsRecent'
    BY <1>1, <2>0, <2>1, <2>2, <2>3, <2>4 DEF UseIsRecent, FoundInFeed, RoutedBySnapshot
  <2> QED
    BY <1>2, <1>3, <2>5 DEF MirrorInv
<1> QED
  BY <1>4, <1>5

LEMMA MirrorStep == MirrorInv /\ [MirrorNext]_mirrorVars => MirrorInv'
<1>1. ASSUME MirrorInv, UNCHANGED mirrorVars PROVE MirrorInv'
  <2>1. MirrorTyped' /\ Sound(store)' /\ IndexSound' /\ UseIsRecent'
    BY <1>1 DEF MirrorInv, MirrorTyped, Sound, IndexSound, UseIsRecent, FoundInFeed,
                RoutedBySnapshot, bareRegistry, mirrorVars
  <2>2. \A p \in Updater : UpdateSound(updates[p])'
    BY <1>1 DEF MirrorInv, UpdateSound, Sound, mirrorVars
  <2> QED
    BY <2>1, <2>2 DEF MirrorInv
<1> QED
  BY <1>1, UpdateStepKeeps, WorldKeeps, ReportsKeep DEF MirrorNext

LEMMA MirrorStarts == MirrorInit \/ MirrorRests => MirrorInv
<1> SUFFICES ASSUME MirrorInit \/ MirrorRests PROVE MirrorInv
  OBVIOUS
<1>1. /\ now = 0 /\ current = 1 /\ replacedAt = [v \in DOMAIN Published |-> MaxNow]
      /\ index = Nothing /\ updates = [p \in Updater |-> Idle] /\ verdict = NoVerdict
      /\ feed \in Feeds
  BY DEF MirrorInit, MirrorRests, Feeds
<1>2. cadence \in Nat \cup {Off}
  BY MirrorAssumption DEF MirrorInit, MirrorRests, positiveMs, resolveCadence
<1>3. 1 \in DOMAIN Published
  BY MirrorAssumption
<1>4. MirrorTyped
  BY <1>1, <1>2, <1>3, MirrorAssumption DEF MirrorTyped
<1>5. Sound(store)
  <2>1. CASE store = Nothing
    BY <2>1 DEF Sound
  <2>2. ASSUME NEW records, parsed(Published[1], Published[1]) # <<>>,
               store = [version |-> 1, etag |-> 1, observedAt |-> 0, expiresAt |-> cadence,
                        records |-> records]
        PROVE  Sound(store)
    <3>1. IsTheFeed(1)
      BY <1>3, <2>2, WholeIsTheFeed
    <3>2. replacedAt[1] = MaxNow /\ MaxNow \in Nat
      BY <1>1, <1>3, MirrorAssumption
    <3>3. SnapshotShape(store)
      BY <2>2 DEF SnapshotShape
    <3> QED
      BY <1>1, <1>2, <1>3, <2>2, <3>1, <3>2, <3>3 DEF Sound, Off
  <2> QED
    BY <2>1, <2>2 DEF MirrorInit, MirrorRests
<1>6. \A p \in Updater : UpdateSound(updates[p])
  BY <1>1 DEF UpdateSound, Idle, NoResult, Result
<1>7. UseIsRecent
  BY <1>1 DEF UseIsRecent, FoundInFeed, RoutedBySnapshot, NoVerdict
<1> QED
  BY <1>1, <1>4, <1>5, <1>6, <1>7 DEF MirrorInv, Sound, IndexSound

(* Soundness is what the two promises about snapshots rest on. *)
LEMMA MirrorSafe == MirrorInv => ResultIsTrue /\ UseIsRecent
BY DEF MirrorInv, ResultIsTrue, Sound, UpdateSound, IsTheFeed

-----------------------------------------------------------------------------
(***************************************************************************)
(* All parts together.                                                     *)
(***************************************************************************)
SourcesInv == HttpInv /\ MirrorInv /\ GateInv /\ DnsInv /\ TlsInv

(* Whichever part a behaviour works in, the invariants of all are kept. *)
THEOREM SourcesInvariance == MCSpec => []SourcesInv
<1>1. MCInit => SourcesInv
  BY HttpStarts, MirrorStarts, GateStarts, DnsStarts, TlsStarts DEF MCInit, SourcesInv
<1>2. SourcesInv /\ [MCNext]_<<vars, mirrorVars, gate, dns, tls, part>> => SourcesInv'
  <2>1. [MCNext]_<<vars, mirrorVars, gate, dns, tls, part>> =>
          /\ [Next]_vars /\ [MirrorNext]_mirrorVars /\ [Preflight]_gate
          /\ [DnsNext]_dns /\ [TlsNext]_tls
    BY Zenon DEF MCNext
  <2> QED
    BY <2>1, HttpStep, MirrorStep, GateStep, DnsStep, TlsStep DEF SourcesInv
<1> QED
  BY <1>1, <1>2, PTL DEF MCSpec

(***************************************************************************)
(* Whatever the URLs, redirects and DNS answers, a socket is opened only   *)
(* to an allowed address, never in cleartext by the mirror client, and at  *)
(* most MaxRedirects + 1 times (mirror-http-node.ts, rdap-client.ts).      *)
(***************************************************************************)
THEOREM HopsPoliced == MCSpec => []EveryHopPoliced
  BY SourcesInvariance, PTL DEF SourcesInv, HttpInv

(***************************************************************************)
(* A caller's credential or validator is only ever sent to the origin the  *)
(* caller named, and a source whose gates are passed discloses nothing     *)
(* without consent (crossOriginHeaders, preflightOnlineSource).            *)
(***************************************************************************)
THEOREM NothingLeaves == MCSpec => []NothingLeavesUnasked
<1>1. SourcesInv => NothingLeavesUnasked
  BY GateSafe DEF SourcesInv, HttpInv, NothingLeavesUnasked
<1> QED
  BY <1>1, SourcesInvariance, PTL

(***************************************************************************)
(* An abort, a deadline and a failure of the network that meet are told    *)
(* apart: a provider call and a TLS inspection blame the caller or the     *)
(* deadline only when it was that; a TLS inspection is offered again       *)
(* exactly when it was cut short or failed at something else than the URL, *)
(* the address policy or the certificate; a DNS report that observed       *)
(* nothing names the abort first, then a timeout, then an invalid name     *)
(* (the catch of request, of inspect, dispositionFor, dominantFailure).    *)
(***************************************************************************)
THEOREM CausesOwned == MCSpec => []CausesAreOwned
<1>1. SourcesInv => CausesAreOwned
  BY DEF SourcesInv, HttpInv, TlsInv, DnsInv, CausesAreOwned
<1> QED
  BY <1>1, SourcesInvariance, PTL

(***************************************************************************)
(* For any number of concurrent updates, any cadence and any sequence of   *)
(* published versions: an update says "not modified" only of the snapshot  *)
(* it compared with, and stores nothing of a page that is not the feed; a  *)
(* finding of a feed is fresh; and with a cadence, a finding of a feed,    *)
(* and an RDAP lookup that a dated snapshot routed (not a bare registry),  *)
(* rests on no data that was replaced more than a cadence before           *)
(* (conditionalHeaders, expiresAt, snapshotFreshness, resolveBootstrap).   *)
(***************************************************************************)
THEOREM SnapshotsTrue == MCSpec => []SnapshotsAreTrue
<1>1. SourcesInv => SnapshotsAreTrue
  BY MirrorSafe DEF SourcesInv, SnapshotsAreTrue
<1> QED
  BY <1>1, SourcesInvariance, PTL

(***************************************************************************)
(* Whatever mixture of answers and failures arrives, the mail state, the   *)
(* addresses and the TTL of a DNS report agree with what host and zone     *)
(* hold, "no mail target" of a host that is its own zone being about its   *)
(* addresses only when they could be asked for; and a TLS observation is   *)
(* of the pinned peer, of a certificate the policy does not refuse, and    *)
(* names exactly the defects the leaf has (deriveMailSemantic, minTtl,     *)
(* normalizeTlsCertificate).                                               *)
(***************************************************************************)
THEOREM ClaimsObserved == MCSpec => []ClaimsAreObserved
<1>1. SourcesInv => ClaimsAreObserved
  BY DEF SourcesInv, TlsInv, DnsInv, ClaimsAreObserved
<1> QED
  BY <1>1, SourcesInvariance, PTL
=============================================================================
