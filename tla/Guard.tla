-------------------------------- MODULE Guard --------------------------------
(***************************************************************************)
(* The daemon: HealthRefresh and Relay joined.  They share the published   *)
(* list, which the refresh tasks replace and the connection tasks copy,    *)
(* and the paused flag, which save_config stores and handle_client loads.  *)
(*                                                                         *)
(* Relay leaves the publisher open; here it is refresh_once, and the       *)
(* daemon is shown to implement Relay's specification.                     *)
(***************************************************************************)
EXTENDS HealthRefresh, Relay

ASSUME AllListsPublishable == CoherentMaps \subseteq Publishable

guardVars == <<published, config, saved, serving, task, system, up, proven,
               order, paused, directFallback, conn>>

GuardInit ==
    /\ RefreshInit
    /\ order = <<>>
    /\ paused = config.paused
    /\ directFallback \in BOOLEAN
    /\ conn = [k \in Connection |-> Closed("none")]

(* mutant: save_config does not tell the relay *)
KeepFlag(r) == Apply(r) /\ UNCHANGED <<order, paused, directFallback, conn>>

(* save_config: set_paused stores the flag. *)
ApplyFlag(r) ==
    /\ Apply(r)
    /\ paused' = task[r].config.paused
    /\ UNCHANGED <<order, directFallback, conn>>

SaveOther(r) ==
    /\ (\E e \in Edit : StartEdit(r, e)) \/ Store(r) \/ StoreFails(r) \/ Commit(r)
    /\ UNCHANGED <<order, paused, directFallback, conn>>

(* refresh_health and replace_candidates sort what is published. *)
RefreshGoesOn(t) ==
    /\ \/ Prepare(t) /\ UNCHANGED order
       \/ PublishResult(t) /\ order' \in Sorted(task[t].result)
    /\ UNCHANGED <<paused, directFallback, conn>>

RefreshStep(t) ==
    \/ Begin(t) /\ UNCHANGED <<order, paused, directFallback, conn>>
    \/ RefreshGoesOn(t)

(* main starts the relay after the first refresh; until then connections   *)
(* wait in the backlog of the bound socket.                                *)
ServeStep(k) ==
    /\ serving
    /\ Serve(k)
    /\ UNCHANGED <<config, saved, serving, task, system, up, proven>>

(* The flags are read from the file again. *)
GuardRestart ==
    /\ DaemonRestart
    /\ order' = <<>>
    /\ paused' = saved.paused
    /\ DropAll
    /\ UNCHANGED directFallback

WorldStep == World /\ UNCHANGED <<order, paused, directFallback, conn>>

GuardNext ==
    \/ \E r \in Requester : ApplyFlag(r) \/ SaveOther(r)
    \/ \E t \in Task : RefreshStep(t)
    \/ \E k \in Connection : ServeStep(k)
    \/ GuardRestart
    \/ WorldStep

GuardSpec == GuardInit /\ [][GuardNext]_guardVars

GuardFairness ==
    /\ \A t \in Task : WF_guardVars(RefreshGoesOn(t))
    /\ \A r \in Requester : WF_guardVars(ApplyFlag(r))
    /\ \A r \in Requester :
          WF_guardVars((Store(r) \/ Commit(r)) /\ UNCHANGED <<order, paused, directFallback, conn>>)
    /\ \A r \in Requester : WF_guardVars(task[r].pc = "selected" /\ RefreshStep(r))
    /\ WF_guardVars(RefreshStep(Loop))
    /\ \A k \in Connection :
          WF_guardVars(/\ serving /\ Connect(k)
                       /\ UNCHANGED <<config, saved, serving, task, system, up, proven>>)

FairGuardSpec == GuardSpec /\ GuardFairness

---------------------------------------------------------------------------
(* Properties.                                                             *)

(* The daemon implements the relay's specification: what the refresh tasks *)
(* publish, whatever their interleaving, is always a list the relay was    *)
(* specified for, and nothing else of the daemon touches a connection.     *)
ImplementsRelay == RelaySpec

(* "CNG tests the route before using it" (README.en.md), end to end: a     *)
(* route that carries a tunnel, or that a connection is about to try, was  *)
(* probed successfully since the daemon started.                           *)
RoutesWereProven ==
    \A k \in Connection :
        /\ conn[k].pc # "closed" => Usable(conn[k].offers) \subseteq proven
        /\ conn[k].via \in Candidate => conn[k].via \in proven

Saving == \E r \in Requester : task[r].pc \in {"saving", "stored", "applied"}

(* The guidance of the paused status (diagnostics.rs) says that the daemon *)
(* forwards no connection while it is paused.  With no request half way    *)
(* through save_config, a connection that arrives while the status reads   *)
(* Paused is refused.                                                      *)
PausedRefuses ==
    [][\A k \in Connection :
          conn[k].pc = "closed" /\ conn'[k].pc = "reading" => ~config.paused \/ Saving]_guardVars

(* "A changed proxy route is selected for the next connection"             *)
(* (docs/testing.md): once a candidate stays offered and up, the           *)
(* connections that come after find it usable in the list they take.       *)
NextConnectionRecovers ==
    \A c \in Candidate :
        <>[](serving /\ up[c] /\ ~config.keychain /\ c \in Offered)
        => <>[](\A k \in Connection :
                   conn[k].pc = "trying" => c \in Usable(conn[k].offers))
=============================================================================
