------------------------------- MODULE MCGuard -------------------------------
(***************************************************************************)
(* The whole daemon with one candidate and one connection slot.            *)
(* MCGuard.cfg: one RPC task.  MCPauseRace.cfg: two of them.               *)
(***************************************************************************)
EXTENDS Guard

CONSTANT proxy

MCPriority == [c \in Candidate |-> 2]

MCEdits == [kind : {"pause"}, paused : BOOLEAN]

MCPublishable == CoherentMaps

MCStart == {DefaultConfig}
=============================================================================
