---------------------------- MODULE MCEnrichment ----------------------------
(***************************************************************************)
(* The governor under any number of runs, and a run of an enricher beside  *)
(* another that shares its source.  A behaviour works in one of the two,   *)
(* named by part, while the other rests.                                   *)
(*                                                                         *)
(* The governor alone: one source (sources share nothing but the clock), a *)
(* bucket of two tokens and a half, a clock that moves freely, a backoff   *)
(* that reaches its cap at the third failure in a row.                     *)
(***************************************************************************)
EXTENDS GovernorUse, EnricherRun

CONSTANTS r1, r2, c1, c2

VARIABLE part

-----------------------------------------------------------------------------
(* Two runs of one source under one key, of two inspectAsync calls: they   *)
(* share the bucket, the backoff and the cache entry.                      *)
MCRunId == {r1, r2}
MCCaller == {c1, c2}
MCSourceOf == [r \in MCRunId |-> "s"]
MCKeyOf == [r \in MCRunId |-> "k"]
MCTtls == {0, 1}
MCCallerOf == [r \in MCRunId |-> IF r = r1 THEN c1 ELSE c2]
MCTimeoutOf == [r \in MCRunId |-> IF r = r1 THEN "unset" ELSE "null"]

MCGovernor == [capacity |-> 3, interval |-> 2, refills |-> TRUE, backoffBase |-> 1,
               backoffMax |-> 2, maxTime |-> 1, monotonic |-> TRUE]

-----------------------------------------------------------------------------
RunRests ==
  /\ clock = 0 /\ sources = [t \in CheckToken |-> NoState]
  /\ store = [k \in Key |-> Cache!NoEntry]
  /\ aborted = [c \in Caller |-> FALSE]
  /\ pc = [r \in RunId |-> "returned"]
  /\ lookup = [r \in RunId |-> "none"] /\ answer = lookup /\ write = lookup
  /\ served = [r \in RunId |-> NoReport] /\ lateWrites = {}
  /\ degradations = [r \in RunId |-> {}]
  /\ result = [r \in RunId |-> [statuses |-> {"skipped"}, causes |-> {}]]
  /\ admitted = [r \in RunId |-> 0] /\ recorded = admitted

MCInit ==
  /\ part \in {"governor", "run"}
  /\ Init
  /\ IF part = "run" THEN RunInit ELSE RunRests

MCNext ==
  \/ part = "governor" /\ Next /\ UNCHANGED <<runVars, part>>
  \/ part = "run" /\ RunNext /\ UNCHANGED <<vars, part>>

MCSpec ==
  /\ MCInit /\ [][MCNext]_<<vars, runVars, part>>
  /\ Fairness

-----------------------------------------------------------------------------
(* A run with a deadline returns, an abort ends one without, and a         *)
(* complete answer that was in time is in what it returns: see RunsReturn  *)
(* and EvidenceRetained of EnricherRun.                                    *)
EveryRunReturns == RunsReturn /\ EvidenceRetained
=============================================================================
