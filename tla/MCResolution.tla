---------------------------- MODULE MCResolution ----------------------------
(***************************************************************************)
(* The resolution layer's enrichers and the Node ports, which share no     *)
(* state: a behaviour works in one of them, named by part.                 *)
(*                                                                         *)
(* Three URLs on two domains, one of them plain http, and two hops: every  *)
(* loop, the limit before a new URL, and a downgrade at either hop.        *)
(***************************************************************************)
EXTENDS RedirectChain, EmbeddedWrapper, DivergenceProbe, NodePorts

VARIABLE part

MCUrl == {"https://a/", "http://b/", "https://b/"}
MCHttps == {"https://a/", "https://b/"}
MCOutside == {"mailto:"}

(* "/" is relative, "//b" keeps the scheme, "%" does not parse. *)
MCRef == {"https://a/#top", "http://b/", "//b", "/", "mailto:", "%"}

MCCanonical ==
  [r \in MCRef |-> CASE r = "https://a/#top" -> "https://a/"
                     [] r = "http://b/" -> "http://b/"
                     [] OTHER -> "none"]

MCResolve ==
  [r \in MCRef |-> [u \in MCUrl |->
     CASE r = "https://a/#top" -> "https://a/"
       [] r = "http://b/" -> "http://b/"
       [] r = "//b" -> IF u = "http://b/" THEN "http://b/" ELSE "https://b/"
       [] r = "/" -> u
       [] r = "mailto:" -> "mailto:"
       [] r = "%" -> "none"]]

MCCode == {Suspicion, "x", "y"}

MCOffline ==
  [u \in MCUrl |->
     CASE u = "https://a/" -> [score |-> 1, codes |-> {Suspicion, "x"}, domain |-> "a"]
       [] u = "http://b/"  -> [score |-> 2, codes |-> {"x", "y"}, domain |-> "b"]
       [] u = "https://b/" -> [score |-> -1, codes |-> {"y"}, domain |-> "b"]]

(* An ordinary input, one whose suspicion is suppressed, and bad ones. *)
MCBases ==
  [input : {"https://a/#top"}, codes : {{Suspicion, "x"}, {"x"}, {}}, domain : {"a"},
   payloads : {{"b"}}]
  \cup [input : {"http://b/", "mailto:", "%"}, codes : {{"x", "y"}}, domain : {"b"},
        payloads : {{}}]

Absent == [state |-> "missing", malformed |-> FALSE, late |-> FALSE, ref |-> "none"]
Plain ==
  [redirect |-> FALSE, location |-> Absent, refresh |-> Absent, meta |-> Absent,
   type |-> "text/html", charsetKnown |-> TRUE, size |-> "small",
   sniffed |-> "text/html", noSniff |-> FALSE]

Value(bad, late, ref) ==
  [state |-> "value", malformed |-> bad, late |-> late, ref |-> ref]

Locations ==
  {Absent, [Absent EXCEPT !.state = "ambiguous"]} \cup {Value(FALSE, FALSE, r) : r \in MCRef}

Refreshes ==
  {Value(TRUE, FALSE, "none"), Value(FALSE, TRUE, "/")}
  \cup {Value(FALSE, FALSE, r) : r \in {"empty", "http://b/", "//b", "mailto:"}}

Redirects == {[Plain EXCEPT !.redirect = TRUE, !.location = l] : l \in Locations}

Bodies ==
  {[Plain EXCEPT !.type = t, !.size = s, !.charsetKnown = c] :
     t \in {"none", "text/html", "application/xhtml+xml", "image/png"},
     s \in {"empty", "small", "large"}, c \in BOOLEAN}

MCResponses ==
  Redirects
  \cup {[b EXCEPT !.refresh = Value(FALSE, FALSE, "//b")] : b \in Bodies}
  \cup Bodies
  \cup {[Plain EXCEPT !.refresh = v] : v \in Refreshes \cup {[Absent EXCEPT !.state = "ambiguous"]}}
  \cup {[Plain EXCEPT !.meta = v] : v \in Refreshes}
  \cup {[Plain EXCEPT !.type = "image/png", !.noSniff = TRUE]}

-----------------------------------------------------------------------------
(* Every text of at most five characters, plain or special. *)
MCTemplate == UNION {[1..n -> {"a"} \cup Special] : n \in 0..5}

MCVariants == <<"baseline", "alt-user-agent", "same-origin-referer">>

(* An enricher that is not looked at stays where it begins. *)
MCInit ==
  /\ part \in {"chain", "wrapper", "probe", "sockets", "waits"}
  /\ Init /\ WrapInit /\ ProbeInit /\ PortsInit
  /\ part # "chain" => base = CHOOSE b \in Bases : TRUE
  /\ part # "wrapper" => wrap.url = NotWrapped

WrapReturned == wrap.at = "returned" /\ UNCHANGED wrap
ProbeReturned == probe.at = "returned" /\ UNCHANGED probe

(* A process whose sockets, lookups and timers are all quiet. *)
PortsIdle == (\A i \in Attempt : dials[i].call # "idle") /\ UNCHANGED portVars
WaitsIdle == lookup.call # "idle" /\ sleeper.call # "idle" /\ UNCHANGED portVars

MCNext ==
  \/ part = "chain" /\ Next /\ UNCHANGED <<wrap, probe, portVars, part>>
  \/ /\ part = "wrapper" /\ (WrapNext \/ WrapReturned)
     /\ UNCHANGED <<vars, probe, portVars, part>>
  \/ /\ part = "probe" /\ (ProbeNext \/ ProbeReturned)
     /\ UNCHANGED <<vars, wrap, portVars, part>>
  \/ /\ part = "sockets" /\ (SocketsNext \/ PortsIdle)
     /\ UNCHANGED <<vars, wrap, probe, part>>
  \/ /\ part = "waits" /\ (WaitsNext \/ WaitsIdle)
     /\ UNCHANGED <<vars, wrap, probe, part>>

MCSpec == MCInit /\ [][MCNext]_<<vars, wrap, probe, portVars, part>>

-----------------------------------------------------------------------------
(* A wrapper is opened to the link it holds, or said to be unopened: see   *)
(* UnopenedIsReported and V3RoundTrip of EmbeddedWrapper.                  *)
WrappersAreOpened == UnopenedIsReported /\ V3RoundTrip

(* No socket outlives its use and no error goes unheard: see               *)
(* SocketsAccounted and ErrorsAreHeard of NodePorts.                       *)
NothingLeaks == SocketsAccounted /\ ErrorsAreHeard
=============================================================================
