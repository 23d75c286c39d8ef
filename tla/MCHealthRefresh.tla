--------------------------- MODULE MCHealthRefresh ---------------------------
(***************************************************************************)
(* HealthRefresh on small instances.                                       *)
(*                                                                         *)
(* The loop and an RPC task that refreshes, pauses and changes the         *)
(* upstream at any time.  One candidate, named by the system settings: the *)
(* records of several candidates never meet, so that one shows what        *)
(* overlapping refreshes do to any of them.  Selecting ftp, a URL that is  *)
(* no candidate, takes it out of the list, auto brings it back, and so may *)
(* the keychain, which stores it, holds nothing, or cannot be read.        *)
(***************************************************************************)
EXTENDS HealthRefresh, TLC

CONSTANTS proxy, ftp

MCPriority == [c \in Candidate |-> 2]

MCEdits ==
    {[kind |-> "auto"], [kind |-> "set", manual |-> ftp, keychain |-> FALSE],
     [kind |-> "set", manual |-> ftp, keychain |-> TRUE],
     [kind |-> "pause", paused |-> TRUE], [kind |-> "pause", paused |-> FALSE]}

MCStart == {DefaultConfig}
=============================================================================
