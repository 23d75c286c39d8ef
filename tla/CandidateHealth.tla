--------------------------- MODULE CandidateHealth ---------------------------
(***************************************************************************)
(* The health records of upstream candidates: what one probe makes of the  *)
(* previous record, and the order in which the relay offers candidates.    *)
(*                                                                         *)
(* A health map is a function from the candidates that discovery found to  *)
(* their records.  The program keeps it as a Vec sorted by                 *)
(* sort_candidates, which compares with Before; Relay.tla has the order.   *)
(* A candidate stands for its id (source, kind and endpoint); discovery    *)
(* removes duplicate ids.                                                  *)
(***************************************************************************)
EXTENDS Integers

CONSTANTS
    Candidate,      \* the upstream candidates discovery can ever report
    Priority,       \* [Candidate -> 0..4], CandidateSource::priority
    LatencyBound,   \* latencies are 1..LatencyBound
    FailureCap      \* where consecutive_failures saturates (u32::MAX)

VARIABLE published  \* ProxyRuntime.candidates: what refreshes replace and the relay reads

ASSUME PriorityAssumption == Priority \in [Candidate -> 0..4]
ASSUME LatencyAssumption  == LatencyBound \in Nat \ {0}
ASSUME CapAssumption      == FailureCap \in Nat /\ FailureCap >= 2

HealthState == {"healthy", "degraded", "unknown", "down"}

(* latency_ms is None after a failed probe; None sorts behind every value. *)
NoLatency == LatencyBound + 1

Entry == [state : HealthState, latency : 1..NoLatency, failures : 0..FailureCap]

HealthMap == UNION {[S -> Entry] : S \in SUBSET Candidate}

NoHealth == [c \in {} |-> [state |-> "down", latency |-> NoLatency, failures |-> 0]]

---------------------------------------------------------------------------
(* What a probe makes of the previous record.                              *)

(* mutants of saturating_add: a wider counter, and one that wraps *)
UncheckedAdd(n) == n + 1

WrappingAdd(n) == (n + 1) % (FailureCap + 1)

SaturatingAdd(n) == IF n < FailureCap THEN n + 1 ELSE FailureCap

Failures(previous, c) ==
    IF c \in DOMAIN previous THEN SaturatingAdd(previous[c].failures) ELSE 1

(* mutant: grace for a candidate never seen before *)
UngatedGrace(previous, c) == Failures(previous, c) < 2

(* A failure is forgiven once, to a candidate that was healthy or degraded *)
(* when this refresh read the published list.                              *)
Grace(previous, c) ==
    /\ c \in DOMAIN previous
    /\ previous[c].state \in {"healthy", "degraded"}
    /\ Failures(previous, c) < 2

Passed(latency) == [state |-> "healthy", latency |-> latency, failures |-> 0]

Failed(previous, c) ==
    [state    |-> IF Grace(previous, c) THEN "degraded" ELSE "down",
     latency  |-> NoLatency,
     failures |-> Failures(previous, c)]

(* A record the prober can produce. *)
Coherent(e) ==
    \/ e.state = "healthy"  /\ e.failures = 0 /\ e.latency < NoLatency
    \/ e.state = "degraded" /\ e.failures = 1 /\ e.latency = NoLatency
    \/ e.state = "down"     /\ e.failures > 0 /\ e.latency = NoLatency

CoherentMaps == {h \in HealthMap : \A c \in DOMAIN h : Coherent(h[c])}

---------------------------------------------------------------------------
(* The order of the list.                                                  *)

Rank(state) ==
    CASE state = "healthy"  -> 0
      [] state = "degraded" -> 1
      [] state = "unknown"  -> 2
      [] state = "down"     -> 3

Before(h, c, d) ==
    \/ Rank(h[c].state) < Rank(h[d].state)
    \/ /\ Rank(h[c].state) = Rank(h[d].state)
       /\ \/ Priority[c] < Priority[d]
          \/ Priority[c] = Priority[d] /\ h[c].latency < h[d].latency

(* The candidates that the loop of connect_for_runtime does not skip. *)
Usable(h) == {c \in DOMAIN h : h[c].state # "down"}
=============================================================================
