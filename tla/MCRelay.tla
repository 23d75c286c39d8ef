------------------------------- MODULE MCRelay -------------------------------
(***************************************************************************)
(* Relay with one connection slot, used again and again: tasks share       *)
(* nothing they write, so one shows every interleaving with the publisher. *)
(* Three candidates, two of equal priority that differ in latency, the     *)
(* third preferred although it is slow; every list in which each of them   *)
(* is healthy, degraded or down, a shorter list and the empty one.         *)
(***************************************************************************)
EXTENDS Relay, TLC

CONSTANTS manual, fast, slow

MCPriority == (manual :> 0) @@ (fast :> 4) @@ (slow :> 4)

MCLatency == (manual :> 2) @@ (fast :> 1) @@ (slow :> 2)

MCEntry(c) ==
    {Passed(MCLatency[c]),
     [state |-> "degraded", latency |-> NoLatency, failures |-> 1],
     [state |-> "down", latency |-> NoLatency, failures |-> 2]}

MCPublishable ==
    {h \in [Candidate -> UNION {MCEntry(c) : c \in Candidate}] :
        \A c \in Candidate : h[c] \in MCEntry(c)}
    \cup {fast :> Passed(1), NoHealth}
=============================================================================
