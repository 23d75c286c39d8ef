--------------------------- MODULE HealthAutomaton ---------------------------
(***************************************************************************)
(* What the published list promises about one candidate from refresh to    *)
(* refresh, whoever computes it: "A previously working candidate gets one  *)
(* degraded grace result before becoming down" (docs/architecture.md).     *)
(* A candidate that is not in the list is absent.                          *)
(***************************************************************************)
CONSTANT Candidate

VARIABLE grade

Grade == {"absent", "healthy", "degraded", "down"}

(* One refresh moves a candidate along one of these edges.  It cannot stay *)
(* degraded, cannot fall from healthy to down, and once down comes back    *)
(* only by passing a probe.                                                *)
Move ==
    (Grade \X {"healthy", "absent"}) \cup
    {<<"absent", "down">>, <<"healthy", "degraded">>,
     <<"degraded", "down">>, <<"down", "down">>}

AutomatonInit == grade = [c \in Candidate |-> "absent"]

AutomatonNext ==
    /\ grade' \in [Candidate -> Grade]
    /\ \A c \in Candidate : <<grade[c], grade'[c]>> \in Move

AutomatonSpec == AutomatonInit /\ [][AutomatonNext]_grade
=============================================================================
