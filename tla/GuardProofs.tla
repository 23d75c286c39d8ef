----------------------------- MODULE GuardProofs -----------------------------
(***************************************************************************)
(* The daemon implements both of its parts, for any candidates, tasks and  *)
(* connections, so that what is proved of each part holds of the whole;    *)
(* and the two properties that only the whole has: connections run over    *)
(* proven routes, and a paused guard refuses them.                         *)
(***************************************************************************)
EXTENDS Guard, HealthRefreshProofs, RelayProofs

(* A refresh of the daemon is one of HealthRefresh's, and touches neither  *)
(* a flag nor a connection.                                                *)
LEMMA StepIsRefresh ==
  ASSUME NEW t \in Task, RefreshStep(t)
  PROVE  /\ Begin(t) \/ Refresh(t)
         /\ UNCHANGED <<paused, directFallback, conn>>
  BY DEF RefreshStep, RefreshGoesOn, Refresh

(* The refresh tasks of the daemon are those of HealthRefresh: serving     *)
(* connections changes nothing they see.                                   *)
THEOREM GuardImplementsRefresh == GuardSpec => RefreshSpec
<1>1. GuardInit => RefreshInit
  BY DEF GuardInit
<1>2. [GuardNext]_guardVars => [RefreshNext]_refreshVars
  <2> SUFFICES ASSUME [GuardNext]_guardVars PROVE RefreshNext \/ UNCHANGED refreshVars
    OBVIOUS
  <2>1. ASSUME NEW r \in Requester, ApplyFlag(r) \/ SaveOther(r) PROVE RefreshNext
    BY <2>1 DEF ApplyFlag, SaveOther, Save, RefreshNext
  <2>2. ASSUME NEW t \in Task, RefreshStep(t) PROVE RefreshNext
    BY <2>2, StepIsRefresh DEF RefreshNext
  <2>3. ASSUME NEW k \in Connection, ServeStep(k) PROVE UNCHANGED refreshVars
    BY <2>3 DEF ServeStep, refreshVars, Serve, Accept, ReadRequest, BadRequest, Hangup,
           Connect, TakeOffers, Skip, TryOpens, TryFails, GiveUp, FallBack, DirectOpens,
           DirectFails
  <2>4. CASE GuardRestart
    BY <2>4 DEF GuardRestart, RefreshNext
  <2>5. CASE WorldStep
    BY <2>5 DEF WorldStep, RefreshNext
  <2>6. CASE UNCHANGED guardVars
    BY <2>6 DEF guardVars, refreshVars
  <2> QED BY <2>1, <2>2, <2>3, <2>4, <2>5, <2>6 DEF GuardNext
<1> QED BY <1>1, <1>2, PTL DEF GuardSpec, RefreshSpec

(* The steps of a refresh publish nothing, but for the last, which         *)
(* publishes what the task computed.                                       *)
LEMMA PreparePublishesNothing ==
  ASSUME NEW t \in Task, Begin(t) \/ Prepare(t)
  PROVE  UNCHANGED published
  BY DEF Begin, Prepare, Discover, DiscoverFails, TakePrevious, ProbePasses, ProbeFails

(* A sound list of the right type is one the relay was specified for.      *)
LEMMA SoundPublishable ==
  ASSUME NEW h \in HealthMap, NEW passed, Sound(h, passed)
  PROVE  h \in Publishable
  BY AllListsPublishable DEF Sound, CoherentMaps

(* The daemon never changes direct_fallback after it has read it.          *)
LEMMA FallbackFixed == GuardSpec => [](directFallback \in BOOLEAN)
<1>1. GuardInit => directFallback \in BOOLEAN
  BY DEF GuardInit
<1>2. directFallback \in BOOLEAN /\ [GuardNext]_guardVars => (directFallback \in BOOLEAN)'
  <2> SUFFICES ASSUME [GuardNext]_guardVars PROVE UNCHANGED directFallback
    OBVIOUS
  <2>1. ASSUME NEW k \in Connection, Serve(k) PROVE UNCHANGED directFallback
    BY <2>1 DEF Serve, Accept, ReadRequest, BadRequest, Hangup, Connect, TakeOffers, Skip, TryOpens,
           TryFails, GiveUp, FallBack, DirectOpens, DirectFails
  <2> QED BY <2>1 DEF GuardNext, guardVars, ApplyFlag, SaveOther, RefreshStep, RefreshGoesOn,
                      ServeStep, GuardRestart, WorldStep
<1> QED BY <1>1, <1>2, PTL DEF GuardSpec

(* The relay of the daemon is Relay's: every list a refresh publishes is   *)
(* coherent, so Relay's environment may publish it; saving stores the flag *)
(* as that environment does; nothing else reaches a connection.            *)
THEOREM GuardImplementsRelay == GuardSpec => ImplementsRelay
<1>1. GuardInit => RelayInit
  <2>1. ASSUME GuardInit PROVE paused \in BOOLEAN
    BY <2>1, EditAssumption DEF GuardInit, RefreshInit, Config
  <2> QED BY <2>1 DEF GuardInit, RefreshInit, RelayInit
<1>2. /\ RefreshTypeOK /\ HeldInv /\ directFallback \in BOOLEAN
      /\ [GuardNext]_guardVars
      => [RelayNext]_relayVars
  <2> SUFFICES ASSUME RefreshTypeOK, HeldInv, directFallback \in BOOLEAN,
                      [GuardNext]_guardVars
               PROVE  RelayNext \/ UNCHANGED relayVars
    OBVIOUS
  <2>1. ASSUME NEW r \in Requester, ApplyFlag(r) PROVE RelayNext
    <3>1. task[r].config.paused \in BOOLEAN
      BY DEF RefreshTypeOK, Task, Config
    <3> QED BY <2>1, <3>1 DEF ApplyFlag, Apply, SetPaused, RelayNext
  <2>2. ASSUME NEW r \in Requester, SaveOther(r) PROVE UNCHANGED relayVars
    BY <2>2 DEF SaveOther, StartEdit, Store, StoreFails, Commit, relayVars
  <2>3. ASSUME NEW t \in Task, RefreshStep(t) PROVE RelayNext \/ UNCHANGED relayVars
    <3>1. task[t].result \in Publishable
      BY SoundPublishable DEF RefreshTypeOK, HeldInv
    <3>2. CASE RefreshGoesOn(t) /\ PublishResult(t) /\ order' \in Sorted(task[t].result)
      <4>1. Publish(task[t].result)
        BY <3>2 DEF RefreshGoesOn, PublishResult, Publish
      <4> QED BY <3>1, <4>1 DEF RelayNext
    <3>3. CASE (Begin(t) \/ Prepare(t)) /\ UNCHANGED <<order, paused, directFallback, conn>>
      BY <3>3, PreparePublishesNothing DEF relayVars
    <3> QED BY <2>3, <3>2, <3>3 DEF RefreshStep, RefreshGoesOn
  <2>4. ASSUME NEW k \in Connection, ServeStep(k) PROVE RelayNext
    BY <2>4 DEF ServeStep, RelayNext
  <2>5. CASE GuardRestart
    <3>1. saved.paused \in BOOLEAN
      BY DEF RefreshTypeOK, Config
    <3> QED BY <2>5, <3>1 DEF GuardRestart, DaemonRestart, Restart, RelayNext
  <2>6. CASE WorldStep
    BY <2>6 DEF WorldStep, World, SystemChanges, Flip, relayVars
  <2>7. CASE UNCHANGED guardVars
    BY <2>7 DEF guardVars, relayVars
  <2> QED BY <2>1, <2>2, <2>3, <2>4, <2>5, <2>6, <2>7 DEF GuardNext
<1> QED BY <1>1, <1>2, GuardImplementsRefresh, RefreshTypeCorrect, HeldInvariant,
           FallbackFixed, PTL DEF GuardSpec, RelaySpec, ImplementsRelay

(* The type invariant of the daemon is that of its parts. *)
THEOREM GuardTypeCorrect == GuardSpec => [](RefreshTypeOK /\ RelayTypeOK)
  BY GuardImplementsRefresh, RefreshTypeCorrect, GuardImplementsRelay, RelayTypeCorrect, PTL
     DEF ImplementsRelay

(* In the daemon, too, no record passes for what it is not: its state and  *)
(* its counters fit, and what the list calls usable was probed.            *)
THEOREM GuardRecordsHold == GuardSpec => [](RecordsCoherent /\ UsableWasProven)
  BY GuardImplementsRefresh, RecordsCoherentHolds, UsableWasProvenHolds, PTL

(* In the daemon, too, a candidate that worked gets its grace result, if   *)
(* refreshes do not overlap: no connection and no save gets in between.    *)
THEOREM GuardGraceBeforeDown == GuardSpec /\ []OneProbes => GraceBeforeDown
  BY GuardImplementsRefresh, GraceBeforeDownHolds, PTL

(* In the daemon, too, a tunnel runs over the best usable candidate that   *)
(* did not fail: what a refresh publishes is sorted, however late it is.   *)
THEOREM GuardBestRouteFirst == GuardSpec => []BestRouteFirst
  BY GuardImplementsRelay, BestRouteFirstHolds, PTL DEF ImplementsRelay

(* In the daemon, too, nothing is refused or sent directly too early.      *)
THEOREM GuardFailClosed == GuardSpec => []FailClosed
  BY GuardImplementsRelay, FailClosedHolds, PTL DEF ImplementsRelay

---------------------------------------------------------------------------
(* A connection's copy of the list stays proven: proofs are only lost when *)
(* the daemon restarts, which closes every connection.                     *)
OffersProven ==
    \A k \in Connection : conn[k].pc # "closed" => Usable(conn[k].offers) \subseteq proven

(* What one connection task makes of its offers.                           *)
LEMMA ServeOffers ==
  ASSUME RelayTypeOK, NEW k \in Connection, Serve(k), Usable(published) \subseteq proven,
         OffersProven, conn'[k].pc # "closed"
  PROVE  Usable(conn'[k].offers) \subseteq proven
<1> USE DEF RelayTypeOK, OffersProven
<1>1. CASE Accept(k)
  <2>1. conn'[k].offers = NoHealth
    BY <1>1 DEF Accept, Closed
  <2> QED BY <2>1, EmptyMap
<1>2. CASE BadRequest(k) \/ Hangup(k)
  BY <1>2 DEF BadRequest, Hangup, Closed
<1>3. CASE TakeOffers(k)
  BY <1>3 DEF TakeOffers
<1>4. CASE ReadRequest(k)
  BY <1>4 DEF ReadRequest
<1>5. CASE Skip(k)
  BY <1>5 DEF Skip, Trying
<1>8. CASE TryOpens(k)
  BY <1>8 DEF TryOpens, Trying
<1>9. CASE TryFails(k)
  BY <1>9 DEF TryFails, Trying
<1>6. CASE GiveUp(k) \/ DirectFails(k)
  BY <1>6 DEF GiveUp, DirectFails
<1>7. CASE FallBack(k) \/ DirectOpens(k)
  BY <1>7 DEF FallBack, DirectOpens
<1> QED BY <1>1, <1>2, <1>3, <1>4, <1>5, <1>6, <1>7, <1>8, <1>9
        DEF Serve, Connect

(* A refresh forgets no proof and touches no connection.                   *)
LEMMA ProofsGrow ==
  ASSUME NEW t \in Task, Begin(t) \/ Refresh(t)
  PROVE  proven \subseteq proven'
  BY DEF Begin, Refresh, Prepare, Discover, DiscoverFails, TakePrevious, ProbePasses, ProbeFails,
         PublishResult

(* What a connection takes, it takes from the published list, where        *)
(* UsableWasProven holds.                                                  *)
THEOREM OffersInvariant == GuardSpec => []OffersProven
<1>1. GuardInit => OffersProven
  BY DEF GuardInit, OffersProven, Closed
<1>2. RelayTypeOK /\ UsableWasProven /\ OffersProven /\ [GuardNext]_guardVars => OffersProven'
  <2> SUFFICES ASSUME RelayTypeOK, UsableWasProven, OffersProven, [GuardNext]_guardVars
               PROVE  OffersProven'
    OBVIOUS
  <2>1. ASSUME NEW r \in Requester, ApplyFlag(r) \/ SaveOther(r) PROVE OffersProven'
    BY <2>1 DEF ApplyFlag, SaveOther, Apply, StartEdit, Store, StoreFails, Commit, OffersProven
  <2>2. ASSUME NEW t \in Task, RefreshStep(t) PROVE OffersProven'
    BY <2>2, StepIsRefresh, ProofsGrow DEF OffersProven
  <2>3. ASSUME NEW k \in Connection, ServeStep(k) PROVE OffersProven'
    <3>1. UNCHANGED proven /\ Serve(k)
      BY <2>3 DEF ServeStep
    <3>2. ASSUME NEW j \in Connection, conn'[j].pc # "closed"
          PROVE  Usable(conn'[j].offers) \subseteq proven
      <4>1. CASE j = k
        BY <3>1, <3>2, <4>1, ServeOffers DEF UsableWasProven
      <4>2. CASE j # k
        BY <3>1, <3>2, <4>2, ServeFrame DEF OffersProven
      <4> QED BY <4>1, <4>2
    <3> QED BY <3>1, <3>2 DEF OffersProven
  <2>4. CASE GuardRestart
    BY <2>4 DEF GuardRestart, DropAll, Closed, OffersProven
  <2>5. CASE WorldStep
    BY <2>5 DEF WorldStep, World, SystemChanges, Flip, OffersProven
  <2>6. CASE UNCHANGED guardVars
    BY <2>6 DEF guardVars, OffersProven
  <2> QED BY <2>1, <2>2, <2>3, <2>4, <2>5, <2>6 DEF GuardNext
<1> QED BY <1>1, <1>2, GuardImplementsRelay, RelayTypeCorrect, GuardImplementsRefresh,
           UsableWasProvenHolds, PTL DEF GuardSpec, ImplementsRelay

(* End to end: no connection tries or uses a route that was not probed     *)
(* successfully since the daemon started.                                  *)
THEOREM RoutesWereProvenHolds == GuardSpec => []RoutesWereProven
<1>1. RelayInv /\ OffersProven => RoutesWereProven
  <2> SUFFICES ASSUME RelayInv, OffersProven, NEW k \in Connection, conn[k].via \in Candidate
               PROVE  conn[k].via \in proven
    BY DEF RoutesWereProven, OffersProven
  <2>1. Good(conn[k], directFallback)
    BY DEF RelayInv
  <2>2. conn[k].pc = "tunnel"
    BY <2>1, RouteAssumption DEF Good, Staged
  <2>3. conn[k].via \in Usable(conn[k].offers)
    BY <2>1 DEF Good, Best
  <2> QED BY <2>2, <2>3 DEF OffersProven
<1> QED BY <1>1, GuardImplementsRelay, RelayInvariant, OffersInvariant, PTL
        DEF ImplementsRelay

---------------------------------------------------------------------------
(* No two requests are inside save_config at once. *)
OneSaves ==
    \A r, s \in Requester :
        /\ task[r].pc \in {"saving", "stored", "applied"}
        /\ task[s].pc \in {"saving", "stored", "applied"}
        => r = s

(* Then file, flag and record are written in this order by one request     *)
(* alone: what it has written is its configuration, and what it has still  *)
(* to write is the same everywhere.                                        *)
PauseInv ==
    /\ \A r \in Requester : task[r].pc \in {"stored", "applied"} => saved = task[r].config
    /\ (\A r \in Requester : task[r].pc # "stored") => paused = saved.paused
    /\ (\A r \in Requester : task[r].pc \notin {"stored", "applied"}) => saved = config

(* A step of a refresh leaves the configuration and its file alone, and    *)
(* starts from and ends in no save.                                        *)
LEMMA RefreshSavesNothing ==
  ASSUME RefreshTypeOK, NEW t \in Task, Begin(t) \/ Refresh(t)
  PROVE  /\ UNCHANGED <<config, saved>>
         /\ \A s \in Task \ {t} : task'[s] = task[s]
         /\ task[t].pc \notin {"saving", "stored", "applied"}
         /\ task'[t].pc \notin {"saving", "stored", "applied"}
<1> USE DEF RefreshTypeOK, Idle
<1>1. CASE Begin(t)
  BY <1>1 DEF Begin
<1>2. CASE Discover(t)
  BY <1>2 DEF Discover
<1>3. CASE DiscoverFails(t)
  BY <1>3 DEF DiscoverFails
<1>4. CASE TakePrevious(t)
  BY <1>4 DEF TakePrevious
<1>5. CASE \E c \in Candidate : ProbePasses(t, c) \/ ProbeFails(t, c)
  BY <1>5 DEF ProbePasses, ProbeFails
<1>6. CASE PublishResult(t)
  BY <1>6 DEF PublishResult
<1> QED BY <1>1, <1>2, <1>3, <1>4, <1>5, <1>6 DEF Refresh, Prepare

(* By cases on the step: each of save_config's two writes moves both sides *)
(* of what PauseInv relates, or ends the exception that covers it.         *)
LEMMA PauseInvariant == GuardSpec /\ []OneSaves => []PauseInv
<1>1. GuardInit => PauseInv
  BY DEF GuardInit, RefreshInit, PauseInv, Idle, Task
<1>2. RefreshTypeOK /\ OneSaves /\ PauseInv /\ [GuardNext]_guardVars => PauseInv'
  <2> SUFFICES ASSUME RefreshTypeOK, OneSaves, PauseInv, [GuardNext]_guardVars PROVE PauseInv'
    OBVIOUS
  <2> USE DEF PauseInv
  <2>1. ASSUME NEW r \in Requester, ApplyFlag(r) \/ SaveOther(r) PROVE PauseInv'
    <3> r \in DOMAIN task BY DEF Task, RefreshTypeOK
    <3>0. ASSUME task[r].pc \in {"saving", "stored", "applied"},
                 NEW s \in Requester, s # r
          PROVE  task[s].pc \notin {"saving", "stored", "applied"}
      BY <3>0 DEF OneSaves
    <3>6. \A s \in Requester : s # r => task'[s] = task[s]
      BY <2>1 DEF ApplyFlag, SaveOther, Apply, StartEdit, Store, StoreFails, Commit, Task,
             RefreshTypeOK
    <3>1. ASSUME NEW e \in Edit, StartEdit(r, e), UNCHANGED paused PROVE PauseInv'
      <4>1. task[r].pc = "idle" /\ task'[r].pc = "saving" /\ UNCHANGED <<config, saved, paused>>
        BY <3>1 DEF StartEdit, Idle
      <4> QED BY <3>0, <3>6, <4>1
    <3>2. CASE ApplyFlag(r)
      <4>1. /\ task[r].pc = "stored" /\ task'[r].pc = "applied"
            /\ task'[r].config = task[r].config
            /\ paused' = task[r].config.paused /\ UNCHANGED <<config, saved>>
        BY <3>2 DEF ApplyFlag, Apply, RefreshTypeOK, Task
      <4> QED BY <3>0, <3>6, <4>1
    <3>3. CASE StoreFails(r) /\ UNCHANGED paused
      <4>1. task[r].pc = "saving" /\ task'[r].pc = "idle" /\ UNCHANGED <<config, saved, paused>>
        BY <3>3 DEF StoreFails, Idle
      <4> QED BY <3>0, <3>6, <4>1
    <3>5. CASE Store(r) /\ UNCHANGED paused
      <4>1. /\ task[r].pc = "saving" /\ task'[r].pc = "stored"
            /\ task'[r].config = task[r].config
            /\ saved' = task[r].config /\ UNCHANGED <<config, paused>>
        BY <3>5 DEF Store, RefreshTypeOK, Task
      <4> QED BY <3>0, <3>6, <4>1
    <3>4. CASE Commit(r) /\ UNCHANGED paused
      <4>1. task'[r] = [Idle EXCEPT !.pc = "selected"] \/ task'[r] = Idle
        BY <3>4 DEF Commit
      <4>2. task'[r].pc \notin {"stored", "applied"}
        BY <4>1 DEF Idle
      <4>3. /\ task[r].pc = "applied" /\ config' = task[r].config
            /\ UNCHANGED <<saved, paused>>
        BY <3>4 DEF Commit
      <4> QED BY <3>0, <3>6, <4>2, <4>3
    <3> QED BY <2>1, <3>1, <3>2, <3>3, <3>4, <3>5 DEF SaveOther
  <2>2. ASSUME NEW t \in Task, RefreshStep(t) PROVE PauseInv'
    <3>1. UNCHANGED <<config, saved, paused>>
      BY <2>2, StepIsRefresh, RefreshSavesNothing
    <3>2. ASSUME NEW r \in Requester
          PROVE  /\ task'[r].pc = "stored" <=> task[r].pc = "stored"
                 /\ task'[r].pc = "applied" <=> task[r].pc = "applied"
                 /\ task'[r].pc \in {"stored", "applied"} => task'[r] = task[r]
      <4>1. CASE r = t
        BY <2>2, <4>1, StepIsRefresh, RefreshSavesNothing
      <4>2. CASE r # t
        BY <2>2, <4>2, StepIsRefresh, RefreshSavesNothing DEF Task
      <4> QED BY <4>1, <4>2
    <3> QED BY <3>1, <3>2
  <2>3. ASSUME NEW k \in Connection, ServeStep(k) PROVE PauseInv'
    <3>1. UNCHANGED <<config, saved, task, paused>>
      BY <2>3 DEF ServeStep, Serve, Accept, ReadRequest, BadRequest, Hangup, Connect,
             TakeOffers, Skip, TryOpens, TryFails, GiveUp, FallBack, DirectOpens, DirectFails
    <3> QED BY <3>1
  <2>4. CASE GuardRestart
    BY <2>4 DEF GuardRestart, DaemonRestart, Idle, Task
  <2>5. CASE WorldStep
    BY <2>5 DEF WorldStep, World, SystemChanges, Flip
  <2>6. CASE UNCHANGED guardVars
    BY <2>6 DEF guardVars
  <2> QED BY <2>1, <2>2, <2>3, <2>4, <2>5, <2>6 DEF GuardNext
<1> QED BY <1>1, <1>2, GuardImplementsRefresh, RefreshTypeCorrect, PTL DEF GuardSpec

(* As long as no two requests save at once, a connection that arrives      *)
(* while the status reads Paused is refused, whatever refreshes, restarts  *)
(* and other requests do meanwhile; the run pause_race shows that two      *)
(* requests that save at once can lose the flag.                           *)
THEOREM PausedRefusesHolds == GuardSpec /\ []OneSaves => PausedRefuses
<1> DEFINE Refused ==
      \A k \in Connection :
          conn[k].pc = "closed" /\ conn'[k].pc = "reading" => ~config.paused \/ Saving
<1>1. RelayTypeOK /\ PauseInv /\ [GuardNext]_guardVars => [Refused]_guardVars
  <2> SUFFICES ASSUME RelayTypeOK, PauseInv, GuardNext,
                      NEW k \in Connection, conn[k].pc = "closed", conn'[k].pc = "reading"
               PROVE  ~config.paused \/ Saving
    OBVIOUS
  <2>1. ~paused
    <3>1. PICK j \in Connection : ServeStep(j)
      <4>1. conn' # conn
        OBVIOUS
      <4>2. ~GuardRestart
        BY DEF GuardRestart, DropAll, Closed
      <4> QED BY <4>1, <4>2 DEF GuardNext, ApplyFlag, SaveOther, RefreshStep, RefreshGoesOn,
               WorldStep
    <3>2. j = k
      BY <3>1, ServeFrame DEF ServeStep
    <3>3. Serve(k)
      BY <3>1, <3>2 DEF ServeStep
    <3>4. ~ReadRequest(k) /\ ~BadRequest(k) /\ ~Hangup(k) /\ ~Connect(k)
      BY DEF ReadRequest, BadRequest, Hangup, Connect, TakeOffers, Skip, TryOpens, TryFails,
             Trying, GiveUp, FallBack, DirectOpens, DirectFails
    <3>5. Accept(k)
      BY <3>3, <3>4 DEF Serve
    <3> QED BY <3>5 DEF Accept, Closed, RelayTypeOK
  <2> QED BY <2>1 DEF PauseInv, Saving
<1> QED BY <1>1, PauseInvariant, GuardImplementsRelay, RelayTypeCorrect, PTL
        DEF GuardSpec, ImplementsRelay, PausedRefuses
=============================================================================
