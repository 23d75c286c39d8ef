------------------------------- MODULE MCRemote -------------------------------
(***************************************************************************)
(* RemoteSupervisor with three process ids (one out of reach, one in the   *)
(* slot, one to start), delays of 1, 2 and 3, and one request at a time    *)
(* beside the keeper.                                                      *)
(* MCRemote.cfg checks the properties, MCRemoteStop.cfg refutes StopHolds. *)
(***************************************************************************)
EXTENDS RemoteSupervisor
=============================================================================
