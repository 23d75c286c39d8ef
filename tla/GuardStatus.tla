------------------------------ MODULE GuardStatus ------------------------------
(***************************************************************************)
(* What the daemon says of itself: how a line of Codex's logs becomes a    *)
(* failure class, the state of the daemon a status, and a status the next  *)
(* step that the CLI and the desktop application propose.                  *)
(***************************************************************************)
EXTENDS Naturals, Sequences

(* The classes in the order in which classify_error_text looks for them. *)
ClassOrder ==
    <<"proxy_unavailable", "dns", "tls", "proxy_protocol", "authentication",
      "rate_limit", "server", "web_socket", "app_server_crash", "tool_state",
      "timeout">>

FailureClass == {ClassOrder[i] : i \in DOMAIN ClassOrder} \cup {"unknown"}

(* A line is the set of classes whose words are in it. *)
Line == SUBSET (FailureClass \ {"unknown"})

Classify(line) ==
    IF line = {} THEN "unknown"
    ELSE ClassOrder[CHOOSE i \in DOMAIN ClassOrder :
                       /\ ClassOrder[i] \in line
                       /\ \A j \in DOMAIN ClassOrder : ClassOrder[j] \in line => i <= j]

NonNetwork ==
    {"app_server_crash", "tool_state", "authentication", "rate_limit", "server"}

Kind == {"protected", "degraded", "paused", "vpn_unavailable", "non_network_failure"}

(* The best state in the published list. *)
Best == {"healthy", "degraded", "none"}

NoFailure == "none"

(* mutant: a route that works hides that protection is paused *)
RouteFirstKind(paused, best, failure) ==
    IF best = "healthy" THEN "protected"
    ELSE IF best = "degraded" THEN "degraded"
    ELSE IF paused THEN "paused"
    ELSE IF failure \in NonNetwork THEN "non_network_failure"
    ELSE "vpn_unavailable"

StatusKind(paused, best, failure) ==
    IF paused THEN "paused"
    ELSE IF best = "healthy" THEN "protected"
    ELSE IF best = "degraded" THEN "degraded"
    ELSE IF failure \in NonNetwork THEN "non_network_failure"
    ELSE "vpn_unavailable"

Action == {"refresh", "resume_protection", "open_codex", "wait"}

FailureAction(failure) ==
    CASE failure \in {"authentication", "app_server_crash", "tool_state"} -> "open_codex"
      [] failure \in {"rate_limit", "server", "unknown", NoFailure} -> "wait"
      [] OTHER -> "refresh"

(* mutant: a step that the window has no text for *)
GuidanceRetry(kind, failure) ==
    CASE kind = "paused" -> "resume_protection"
      [] kind = "non_network_failure" -> FailureAction(failure)
      [] OTHER -> "retry"

Guidance(kind, failure) ==
    CASE kind = "paused" -> "resume_protection"
      [] kind = "non_network_failure" -> FailureAction(failure)
      [] OTHER -> "refresh"

Status ==
    [kind : Kind, paused : BOOLEAN, best : Best, failure : FailureClass \cup {NoFailure},
     action : Action]

StatusOf(paused, best, failure) ==
    LET kind == StatusKind(paused, best, failure)
    IN  [kind |-> kind, paused |-> paused, best |-> best, failure |-> failure,
         action |-> Guidance(kind, failure)]
=============================================================================
