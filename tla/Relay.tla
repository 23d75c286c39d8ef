-------------------------------- MODULE Relay --------------------------------
(***************************************************************************)
(* The fixed local entry: run_proxy accepts a connection and spawns        *)
(* handle_client, which refuses it while the guard is paused, reads one    *)
(* request head, and asks connect_for_runtime for a route.                 *)
(*                                                                         *)
(* The published list is a Vec: published holds its records, order their   *)
(* order, and both are replaced at once.                                   *)
(*                                                                         *)
(* conn[k] is one connection task.  offers and queue are the copy of that  *)
(* list it took, queue as far as its loop has not come to it, tried the    *)
(* candidates whose tunnel failed, via the candidate (or Direct) whose     *)
(* tunnel it relays, outcome what the client last saw.  CONNECT and plain  *)
(* HTTP requests take the same steps: they differ in the bytes written     *)
(* once the route stands.                                                  *)
(*                                                                         *)
(* Here the health publisher and the RPC handlers are the environment: any *)
(* health map may be published at any time.  Guard.tla replaces them by    *)
(* the real ones and shows that it implements this specification.          *)
(***************************************************************************)
EXTENDS CandidateHealth, SequencesExt

CONSTANTS
    Connection,     \* connection slots
    Direct,         \* the route of a direct connection
    NoRoute,
    Publishable     \* the health maps the environment may publish

ASSUME FiniteAssumption == IsFiniteSet(Candidate)
ASSUME RouteAssumption == Direct # NoRoute /\ {Direct, NoRoute} \cap Candidate = {}
ASSUME PublishableAssumption == Publishable \subseteq HealthMap

VARIABLES
    order,          \* the candidates of ProxyRuntime.candidates in their order
    paused,         \* ProxyRuntime.paused
    directFallback, \* ProxyRuntime.direct_fallback
    conn

relayVars == <<published, order, paused, directFallback, conn>>

Stage   == {"closed", "reading", "connecting", "trying", "direct", "tunnel"}
Outcome == {"none", "refused", "dropped", "failed", "relayed"}

Closed(outcome) ==
    [pc |-> "closed", offers |-> NoHealth, queue |-> <<>>, tried |-> {}, via |-> NoRoute,
     outcome |-> outcome]

RelayTypeOK ==
    /\ published \in HealthMap
    /\ order \in Seq(Candidate)
    /\ paused \in BOOLEAN
    /\ directFallback \in BOOLEAN
    /\ conn \in [Connection -> [pc : Stage, offers : HealthMap,
                                queue : Seq(Candidate),
                                tried : SUBSET Candidate,
                                via : Candidate \cup {Direct, NoRoute},
                                outcome : Outcome]]

RelayInit ==
    /\ published = NoHealth
    /\ order = <<>>
    /\ paused \in BOOLEAN
    /\ directFallback \in BOOLEAN
    /\ conn = [k \in Connection |-> Closed("none")]

(* mutant: the source comes before the state *)
SortedBySource(h) ==
    {s \in SetToSeqs(DOMAIN h) :
        \A i, j \in DOMAIN s : i < j => Priority[s[i]] <= Priority[s[j]]}

(* What sort_candidates makes of the records: candidates that compare      *)
(* equal keep the order of their discovery, which is arbitrary here.       *)
Sorted(h) ==
    {s \in SetToSeqs(DOMAIN h) : \A i, j \in DOMAIN s : i < j => ~Before(h, s[j], s[i])}

---------------------------------------------------------------------------
(* Connection tasks.                                                       *)

(* run_proxy accepts, handle_client looks at paused: once, before anything *)
(* is read.  A slot whose connection has ended is used again.              *)
Accept(k) ==
    /\ conn[k].pc = "closed"
    /\ conn' = [conn EXCEPT ![k] =
                   IF paused THEN Closed("refused")
                             ELSE [Closed("none") EXCEPT !.pc = "reading"]]
    /\ UNCHANGED <<published, order, paused, directFallback>>

(* The head arrived and names a host. *)
ReadRequest(k) ==
    /\ conn[k].pc = "reading"
    /\ conn' = [conn EXCEPT ![k].pc = "connecting"]
    /\ UNCHANGED <<published, order, paused, directFallback>>

(* mutant: a malformed head is answered *)
RejectRequest(k) ==
    /\ conn[k].pc = "reading"
    /\ conn' = [conn EXCEPT ![k] = Closed("rejected")]
    /\ UNCHANGED <<published, order, paused, directFallback>>

(* End of file, an oversized head, a bad authority or URL: the socket is   *)
(* dropped without a reply.                                                *)
BadRequest(k) ==
    /\ conn[k].pc = "reading"
    /\ conn' = [conn EXCEPT ![k] = Closed("dropped")]
    /\ UNCHANGED <<published, order, paused, directFallback>>

(* connect_for_runtime copies the published list. *)
TakeOffers(k) ==
    /\ conn[k].pc = "connecting"
    /\ conn' = [conn EXCEPT ![k] = [@ EXCEPT !.pc = "trying", !.offers = published,
                                              !.queue = order]]
    /\ UNCHANGED <<published, order, paused, directFallback>>

(* The loop has a candidate left, whose turn it is. *)
Trying(k) == conn[k].pc = "trying" /\ conn[k].queue # <<>>

Turn(k) == Head(conn[k].queue)

IsDown(k) == conn[k].offers[Turn(k)].state = "down"

(* A candidate that is down is passed over. *)
Skip(k) ==
    /\ Trying(k)
    /\ IsDown(k)
    /\ conn' = [conn EXCEPT ![k].queue = Tail(@)]
    /\ UNCHANGED <<published, order, paused, directFallback>>

(* connect_tunnel succeeds within the connect timeout. *)
TryOpens(k) ==
    /\ Trying(k)
    /\ ~IsDown(k)
    /\ conn' = [conn EXCEPT ![k] = [@ EXCEPT !.pc = "tunnel", !.via = Turn(k),
                                              !.outcome = "relayed"]]
    /\ UNCHANGED <<published, order, paused, directFallback>>

(* It fails, or the connect timeout expires. *)
TryFails(k) ==
    /\ Trying(k)
    /\ ~IsDown(k)
    /\ conn' = [conn EXCEPT ![k] = [@ EXCEPT !.tried = conn[k].tried \cup {Turn(k)},
                                              !.queue = Tail(conn[k].queue)]]
    /\ UNCHANGED <<published, order, paused, directFallback>>

(* mutant: the list must be empty *)
EmptyGiveUp(k) ==
    /\ conn[k].pc = "trying"
    /\ DOMAIN conn[k].offers = {}
    /\ ~directFallback
    /\ conn' = [conn EXCEPT ![k].pc = "closed", ![k].outcome = "failed"]
    /\ UNCHANGED <<published, order, paused, directFallback>>

(* mutant: one failure is enough *)
HastyGiveUp(k) ==
    /\ conn[k].pc = "trying"
    /\ conn[k].tried # {} \/ conn[k].queue = <<>>
    /\ ~directFallback
    /\ conn' = [conn EXCEPT ![k].pc = "closed", ![k].outcome = "failed"]
    /\ UNCHANGED <<published, order, paused, directFallback>>

(* Every usable candidate failed and direct fallback is off: 502. *)
GiveUp(k) ==
    /\ conn[k].pc = "trying"
    /\ conn[k].queue = <<>>
    /\ ~directFallback
    /\ conn' = [conn EXCEPT ![k].pc = "closed", ![k].outcome = "failed"]
    /\ UNCHANGED <<published, order, paused, directFallback>>

(* Direct fallback is on: one direct attempt. *)
FallBack(k) ==
    /\ conn[k].pc = "trying"
    /\ conn[k].queue = <<>>
    /\ directFallback
    /\ conn' = [conn EXCEPT ![k].pc = "direct"]
    /\ UNCHANGED <<published, order, paused, directFallback>>

DirectOpens(k) ==
    /\ conn[k].pc = "direct"
    /\ conn' = [conn EXCEPT ![k] = [@ EXCEPT !.pc = "tunnel", !.via = Direct, !.outcome = "relayed"]]
    /\ UNCHANGED <<published, order, paused, directFallback>>

DirectFails(k) ==
    /\ conn[k].pc = "direct"
    /\ conn' = [conn EXCEPT ![k].pc = "closed", ![k].outcome = "failed"]
    /\ UNCHANGED <<published, order, paused, directFallback>>

(* copy_bidirectional ends: either side closed. *)
Hangup(k) ==
    /\ conn[k].pc = "tunnel"
    /\ conn' = [conn EXCEPT ![k] = Closed("relayed")]
    /\ UNCHANGED <<published, order, paused, directFallback>>

Connect(k) ==
    \/ TakeOffers(k)
    \/ Skip(k)
    \/ TryOpens(k)
    \/ TryFails(k)
    \/ GiveUp(k)
    \/ FallBack(k)
    \/ DirectOpens(k)
    \/ DirectFails(k)

Serve(k) == Accept(k) \/ ReadRequest(k) \/ BadRequest(k) \/ Connect(k) \/ Hangup(k)

---------------------------------------------------------------------------
(* The other parts of the daemon, as the relay sees them.                  *)

(* replace_candidates stores a whole new sorted list under the write lock. *)
Publish(h) ==
    /\ published' = h
    /\ order' \in Sorted(h)
    /\ UNCHANGED <<paused, directFallback, conn>>

SetPaused(b) ==
    /\ paused' = b
    /\ UNCHANGED <<published, order, directFallback, conn>>

(* The daemon process ends and is started again: an accept error ends it,  *)
(* as does a crash.  Its connections die with it and the flags are read    *)
(* from the configuration file again.                                      *)
DropAll ==
    conn' = [k \in Connection |->
                IF conn[k].pc = "closed" THEN conn[k] ELSE Closed("dropped")]

Restart ==
    /\ published' = NoHealth
    /\ order' = <<>>
    /\ paused' \in BOOLEAN
    /\ directFallback' \in BOOLEAN
    /\ DropAll

RelayNext ==
    \/ \E k \in Connection : Serve(k)
    \/ \E h \in Publishable : Publish(h)
    \/ \E b \in BOOLEAN : SetPaused(b)
    \/ Restart

RelaySpec == RelayInit /\ [][RelayNext]_relayVars

(* Every attempt is bounded by the connect timeout, so a task that has     *)
(* read its request keeps stepping.  Reading has no timeout and a tunnel   *)
(* lasts as long as its two ends: neither is fair.                         *)
FairRelaySpec == RelaySpec /\ \A k \in Connection : WF_relayVars(Connect(k))

---------------------------------------------------------------------------
(* Properties.  A closed connection keeps its offers and tried until its   *)
(* slot is used again, so that they can speak of how it ended.             *)

(* A tunnel runs over a candidate that was not down in the list the        *)
(* connection took, and every usable candidate whose record is better (in  *)
(* state, then source, then latency) was tried and failed first, although  *)
(* the list is sorted by its publisher, long before, and only walked here. *)
BestRouteFirst ==
    \A k \in Connection : conn[k].via \in Candidate =>
        /\ conn[k].via \in Usable(conn[k].offers)
        /\ \A d \in Usable(conn[k].offers) :
               Before(conn[k].offers, d, conn[k].via) => d \in conn[k].tried

(* A client is told 502, or is let out directly, only after every usable   *)
(* candidate of its list was tried; and nothing leaves directly unless     *)
(* direct_fallback is on ("Blocks direct fallback by default and fails     *)
(* fast", README.en.md; the end of connect_for_runtime).                   *)
FailClosed ==
    \A k \in Connection :
        /\ \/ conn[k].outcome = "failed"
           \/ conn[k].via = Direct
           \/ conn[k].pc = "direct"
           => Usable(conn[k].offers) \subseteq conn[k].tried
        /\ conn[k].pc = "direct" \/ conn[k].via = Direct => directFallback

(* A client whose request was read is answered: each attempt is bounded by *)
(* the connect timeout and the list is finite.                             *)
Answered ==
    \A k \in Connection :
        conn[k].pc = "connecting" ~> conn[k].pc \in {"tunnel", "closed"}
=============================================================================
