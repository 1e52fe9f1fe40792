-------------------------- MODULE EnrichmentCache ---------------------------
(***************************************************************************)
(* InMemoryEnrichmentCache (packages/core/src/enrichment-cache.ts): a Map  *)
(* of reports with absolute expiry and lazy eviction.  A report is opaque  *)
(* here; NoReport stands for undefined.                                    *)
(***************************************************************************)
EXTENDS Naturals

CONSTANTS
  Key,
  Report,
  NoReport

VARIABLES
  now,        \* the injected clock
  store

Entry   == [report : Report \cup {NoReport}, expiresAt : Nat]
NoEntry == [report |-> NoReport, expiresAt |-> 0]

Expired(k) == now >= store[k].expiresAt

(***************************************************************************)
(* get: what the caller receives, and the store after the eviction.        *)
(***************************************************************************)
got(k) == IF Expired(k) THEN NoReport ELSE store[k].report

afterGet(k) == IF Expired(k) THEN [store EXCEPT ![k] = NoEntry] ELSE store

(***************************************************************************)
(* set: a non-positive lifetime is refused.                                *)
(***************************************************************************)
afterSet(k, report, ttl) ==
  IF ttl = 0 THEN store
  ELSE [store EXCEPT ![k] = [report |-> report, expiresAt |-> now + ttl]]

=============================================================================
