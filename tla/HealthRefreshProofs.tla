------------------------- MODULE HealthRefreshProofs -------------------------
(***************************************************************************)
(* Safety of the health refresh for any candidates, tasks, configurations  *)
(* and interleaving.                                                       *)
(*                                                                         *)
(* UsableWasProven is not inductive: a task publishes what it computed     *)
(* from a list it copied earlier.  The inductive invariant says of all     *)
(* that is held, published or not, that it is coherent and that what it    *)
(* calls usable was proven; a failed probe can only keep a candidate       *)
(* usable that was usable in the copied list (GraceNeedsUsable).           *)
(***************************************************************************)
EXTENDS HealthRefresh, TLAPS

RecordType == [pc : TaskStage, config : Config, refresh : BOOLEAN,
               found : SUBSET Candidate, previous : HealthMap, result : HealthMap]

(* The map without candidates is a health map, with nothing usable in it.  *)
LEMMA EmptyMap ==
  /\ NoHealth \in HealthMap
  /\ DOMAIN NoHealth = {}
  /\ Usable(NoHealth) = {}
  BY DEF NoHealth, HealthMap, Usable

(* The record of an idle task has the right type.                          *)
LEMMA IdleType == Idle \in RecordType
  BY EmptyMap DEF Idle, RecordType, TaskStage, DefaultConfig, Config, GuardMode

(* The counter of failures stays within its width.                         *)
LEMMA SaturatingAddBounds ==
  ASSUME NEW n \in 0..FailureCap
  PROVE  SaturatingAdd(n) \in 1..FailureCap /\ (SaturatingAdd(n) < 2 => n = 0)
  BY CapAssumption DEF SaturatingAdd

(* What a failed probe makes of a list of the right type is a record.      *)
LEMMA FailedEntry ==
  ASSUME NEW h \in HealthMap, NEW c
  PROVE  Failed(h, c) \in Entry
<1>1. Failures(h, c) \in 0..FailureCap
  <2>1. CASE c \in DOMAIN h
    <3>1. h[c].failures \in 0..FailureCap
      BY <2>1 DEF HealthMap, Entry
    <3> QED BY <2>1, <3>1, SaturatingAddBounds DEF Failures
  <2>2. CASE c \notin DOMAIN h
    BY <2>2, CapAssumption DEF Failures
  <2> QED BY <2>1, <2>2
<1> QED BY <1>1, LatencyAssumption DEF Failed, Entry, HealthState, NoLatency

(* A passed probe makes a coherent record.                                 *)
LEMMA PassedEntry ==
  ASSUME NEW l \in 1..LatencyBound
  PROVE  Passed(l) \in Entry /\ Coherent(Passed(l))
  BY LatencyAssumption, CapAssumption DEF Passed, Entry, HealthState, NoLatency, Coherent

(* A failed probe makes a coherent record out of a coherent one.           *)
LEMMA FailedCoherent ==
  ASSUME NEW h \in HealthMap, NEW c,
         c \in DOMAIN h => Coherent(h[c])
  PROVE  Coherent(Failed(h, c))
<1>1. CASE c \in DOMAIN h
  <2>1. h[c].failures \in 0..FailureCap
    BY <1>1 DEF HealthMap, Entry
  <2>2. Failures(h, c) = SaturatingAdd(h[c].failures)
    BY <1>1 DEF Failures
  <2>3. Failures(h, c) \in 1..FailureCap
    BY <2>1, <2>2, SaturatingAddBounds
  <2>4. CASE Grace(h, c)
    <3>1. Failures(h, c) = 1
      BY <2>3, <2>4 DEF Grace
    <3> QED BY <2>4, <3>1 DEF Failed, Coherent
  <2>5. CASE ~Grace(h, c)
    BY <2>3, <2>5 DEF Failed, Coherent
  <2> QED BY <2>4, <2>5
<1>2. CASE c \notin DOMAIN h
  BY <1>2 DEF Failed, Failures, Grace, Coherent
<1> QED BY <1>1, <1>2

(* Only a candidate usable in the previous list is usable after a failure. *)
LEMMA GraceNeedsUsable ==
  ASSUME NEW h, NEW c, Failed(h, c).state # "down"
  PROVE  c \in Usable(h)
  BY DEF Failed, Grace, Usable

(* The list w has the record e for c, and otherwise those of h. *)
AddsOne(w, h, c, e) ==
    /\ DOMAIN w = DOMAIN h \cup {c}
    /\ \A d \in DOMAIN w : w[d] = IF d = c THEN e ELSE h[d]

(* Adding one record to the results of a refresh.                          *)
LEMMA WithOne ==
  ASSUME NEW h \in HealthMap, NEW c \in Candidate, NEW e \in Entry
  PROVE  With(h, c, e) \in HealthMap /\ AddsOne(With(h, c, e), h, c, e)
<1>1. DOMAIN h \in SUBSET Candidate /\ h \in [DOMAIN h -> Entry]
  BY DEF HealthMap
<1>2. With(h, c, e) \in [DOMAIN h \cup {c} -> Entry]
  BY <1>1 DEF With
<1>3. DOMAIN h \cup {c} \in SUBSET Candidate
  BY <1>1
<1>4. AddsOne(With(h, c, e), h, c, e)
  BY <1>1 DEF With, AddsOne
<1> QED BY <1>2, <1>3, <1>4 DEF HealthMap

(* A handler turns a configuration into a configuration.                   *)
LEMMA EditedType ==
  ASSUME NEW cfg \in Config, NEW e \in Edit
  PROVE  Edited(cfg, e) \in Config
<1>1. e \in AllEdits
  BY EditAssumption
<1>2. CASE e \in [kind : {"pause"}, paused : BOOLEAN]
  BY <1>2 DEF Edited, Config
<1>3. CASE e \in [kind : {"auto"}]
  BY <1>3 DEF Edited, Config, GuardMode
<1>4. CASE e \in [kind : {"set"}, manual : Url, keychain : BOOLEAN]
  BY <1>4 DEF Edited, Config, GuardMode
<1> QED BY <1>1, <1>2, <1>3, <1>4 DEF AllEdits

---------------------------------------------------------------------------
(* The type invariant is inductive: failure counters saturate and the      *)
(* tasks hold only what discovery and the prober make.                     *)
THEOREM RefreshTypeCorrect == RefreshSpec => []RefreshTypeOK
<1> USE DEF RecordType
<1>1. RefreshInit => RefreshTypeOK
  BY EmptyMap, IdleType, EditAssumption DEF RefreshInit, RefreshTypeOK
<1>2. RefreshTypeOK /\ [RefreshNext]_refreshVars => RefreshTypeOK'
  <2> SUFFICES ASSUME RefreshTypeOK, [RefreshNext]_refreshVars PROVE RefreshTypeOK'
    OBVIOUS
  <2>1. ASSUME NEW r \in Requester, Save(r) PROVE RefreshTypeOK'
    <3> r \in Task BY DEF Task
    <3>1. ASSUME NEW e \in Edit, StartEdit(r, e) PROVE RefreshTypeOK'
      <4>1. Edited(config, e) \in Config
        BY EditedType DEF RefreshTypeOK
      <4>2. [Idle EXCEPT !.pc = "saving", !.config = Edited(config, e),
                         !.refresh = e.kind # "pause"] \in RecordType
        BY <4>1, IdleType DEF TaskStage
      <4> QED BY <3>1, <4>2 DEF StartEdit, RefreshTypeOK
    <3>2. CASE Store(r) \/ Apply(r)
      BY <3>2 DEF Store, Apply, RefreshTypeOK, TaskStage
    <3>3. CASE StoreFails(r)
      BY <3>3, IdleType DEF StoreFails, RefreshTypeOK
    <3>4. CASE Commit(r)
      <4>1. [Idle EXCEPT !.pc = "selected"] \in RecordType
        BY IdleType DEF TaskStage
      <4> QED BY <3>4, <4>1, IdleType DEF Commit, RefreshTypeOK
    <3> QED BY <2>1, <3>1, <3>2, <3>3, <3>4 DEF Save
  <2>2. ASSUME NEW t \in Task, Begin(t) PROVE RefreshTypeOK'
    <3>1. [Idle EXCEPT !.pc = "discovering", !.config = config] \in RecordType
      BY IdleType DEF TaskStage, RefreshTypeOK
    <3> QED BY <2>2, <3>1 DEF Begin, RefreshTypeOK
  <2>3. ASSUME NEW t \in Task, Refresh(t) PROVE RefreshTypeOK'
    <3>1. CASE Discover(t)
      <4>1. PICK m \in ManualFound(task[t].config) :
               task' = [task EXCEPT ![t] = [Idle EXCEPT !.pc = "found",
                                          !.found = m \cup AutoFound(task[t].config)]]
        BY <3>1 DEF Discover
      <4>2. m \cup AutoFound(task[t].config) \subseteq Candidate
        BY <4>1, FoundAssumption DEF ManualFound, AutoFound, RefreshTypeOK
      <4>3. [Idle EXCEPT !.pc = "found", !.found = m \cup AutoFound(task[t].config)]
               \in RecordType
        BY <4>2, IdleType DEF TaskStage
      <4> QED BY <3>1, <4>1, <4>3 DEF Discover, RefreshTypeOK
    <3>2. CASE DiscoverFails(t)
      BY <3>2, IdleType DEF DiscoverFails, RefreshTypeOK
    <3>3. CASE TakePrevious(t)
      <4>1. task[t] \in RecordType /\ published \in HealthMap
        BY DEF RefreshTypeOK
      <4>2. [task[t] EXCEPT !.pc = "probing", !.previous = published] \in RecordType
        BY <4>1 DEF TaskStage
      <4>3. task' = [task EXCEPT ![t] = [task[t] EXCEPT !.pc = "probing",
                                                        !.previous = published]]
        BY <3>3 DEF TakePrevious, RefreshTypeOK
      <4> QED BY <3>3, <4>2, <4>3 DEF TakePrevious, RefreshTypeOK
    <3>4. ASSUME NEW c \in Candidate, ProbePasses(t, c) PROVE RefreshTypeOK'
      <4>1. PICK l \in 1..LatencyBound :
               task' = [task EXCEPT ![t].result = With(@, c, Passed(l))]
        BY <3>4 DEF ProbePasses
      <4>2. With(task[t].result, c, Passed(l)) \in HealthMap
        BY PassedEntry, WithOne DEF RefreshTypeOK
      <4> QED BY <3>4, <4>1, <4>2 DEF ProbePasses, RefreshTypeOK
    <3>5. ASSUME NEW c \in Candidate, ProbeFails(t, c) PROVE RefreshTypeOK'
      <4>1. With(task[t].result, c, Failed(task[t].previous, c)) \in HealthMap
        BY FailedEntry, WithOne DEF RefreshTypeOK
      <4> QED BY <3>5, <4>1 DEF ProbeFails, RefreshTypeOK
    <3>6. CASE PublishResult(t)
      BY <3>6, IdleType DEF PublishResult, RefreshTypeOK
    <3> QED BY <2>3, <3>1, <3>2, <3>3, <3>4, <3>5, <3>6 DEF Refresh, Prepare
  <2>4. CASE DaemonRestart
    BY <2>4, EmptyMap, IdleType DEF DaemonRestart, RefreshTypeOK
  <2>5. CASE World
    BY <2>5 DEF World, SystemChanges, Flip, RefreshTypeOK
  <2>6. CASE UNCHANGED refreshVars
    BY <2>6 DEF refreshVars, RefreshTypeOK
  <2> QED BY <2>1, <2>2, <2>3, <2>4, <2>5, <2>6 DEF RefreshNext
<1> QED BY <1>1, <1>2, PTL DEF RefreshSpec

---------------------------------------------------------------------------
(* A list whose records the prober made and whose usable members have been *)
(* proven.  HeldInv says it of every list in the daemon.                   *)
Sound(h, passed) ==
    /\ \A c \in DOMAIN h : Coherent(h[c])
    /\ Usable(h) \subseteq passed

HeldInv ==
    /\ Sound(published, proven)
    /\ \A t \in Task : Sound(task[t].previous, proven) /\ Sound(task[t].result, proven)

(* A list without candidates is sound, whatever was proven.                *)
LEMMA EmptySound ==
  ASSUME NEW passed PROVE Sound(Idle.previous, passed) /\ Sound(Idle.result, passed)
  BY EmptyMap DEF Sound, Idle

(* More proofs do no harm.                                                 *)
LEMMA SoundGrows ==
  ASSUME NEW h, NEW passed, NEW more, passed \subseteq more, Sound(h, passed)
  PROVE  Sound(h, more)
  BY DEF Sound

(* The result of a probe keeps a list sound, if a record it leaves usable  *)
(* belongs to a proven candidate.                                          *)
LEMMA SoundWith ==
  ASSUME NEW h \in HealthMap, NEW c \in Candidate, NEW e \in Entry, NEW passed,
         Sound(h, passed), Coherent(e), e.state # "down" => c \in passed
  PROVE  Sound(With(h, c, e), passed)
<1> DEFINE w == With(h, c, e)
<1> HIDE DEF w
<1>1. DOMAIN w = DOMAIN h \cup {c} /\ \A d \in DOMAIN w : w[d] = IF d = c THEN e ELSE h[d]
  <2>1. AddsOne(w, h, c, e)
    BY WithOne DEF w
  <2> QED BY <2>1 DEF AddsOne
<1>2. \A d \in DOMAIN w : Coherent(w[d])
  BY <1>1 DEF Sound
<1>3. Usable(w) \subseteq passed
  BY <1>1 DEF Sound, Usable
<1> QED BY <1>2, <1>3 DEF Sound, w

(* Whatever refreshes overlap, every list in the daemon stays sound.       *)
THEOREM HeldInvariant == RefreshSpec => []HeldInv
<1>1. RefreshInit => HeldInv
  BY EmptyMap, EmptySound DEF RefreshInit, HeldInv, Sound
<1>2. RefreshTypeOK /\ HeldInv /\ [RefreshNext]_refreshVars => HeldInv'
  <2> SUFFICES ASSUME RefreshTypeOK, HeldInv, [RefreshNext]_refreshVars PROVE HeldInv'
    OBVIOUS
  <2>2. ASSUME NEW r \in Requester, Save(r) PROVE HeldInv'
    <3> r \in Task BY DEF Task
    <3>1. UNCHANGED <<published, proven>> /\ \A s \in Task \ {r} : task'[s] = task[s]
      BY <2>2 DEF Save, StartEdit, Store, StoreFails, Apply, Commit, RefreshTypeOK
    <3>2. \/ task'[r].previous = task[r].previous /\ task'[r].result = task[r].result
          \/ task'[r].previous = Idle.previous /\ task'[r].result = Idle.result
      <4>1. CASE \E e \in Edit : StartEdit(r, e)
        BY <4>1 DEF StartEdit, RefreshTypeOK, Idle
      <4>2. CASE Store(r) \/ Apply(r)
        BY <4>2 DEF Store, Apply, RefreshTypeOK
      <4>3. CASE StoreFails(r)
        BY <4>3 DEF StoreFails, RefreshTypeOK
      <4>4. CASE Commit(r)
        <5>1. task'[r] = [Idle EXCEPT !.pc = "selected"] \/ task'[r] = Idle
          BY <4>4 DEF Commit, RefreshTypeOK
        <5> QED BY <5>1 DEF Idle
      <4> QED BY <2>2, <4>1, <4>2, <4>3, <4>4 DEF Save
    <3> QED BY <3>1, <3>2, EmptySound DEF HeldInv
  <2>3. ASSUME NEW t \in Task, Begin(t) PROVE HeldInv'
    <3>1. task'[t].previous = Idle.previous /\ task'[t].result = Idle.result
      BY <2>3 DEF Begin, RefreshTypeOK, Idle
    <3> QED BY <2>3, <3>1, EmptySound DEF HeldInv, Begin, RefreshTypeOK
  <2>4. ASSUME NEW t \in Task, Refresh(t) PROVE HeldInv'
    <3>1. CASE Discover(t) \/ DiscoverFails(t)
      <4>1. task'[t].previous = Idle.previous /\ task'[t].result = Idle.result
        BY <3>1 DEF Discover, DiscoverFails, RefreshTypeOK, Idle
      <4> QED BY <3>1, <4>1, EmptySound DEF HeldInv, Discover, DiscoverFails, RefreshTypeOK
    <3>2. CASE TakePrevious(t)
      BY <3>2 DEF TakePrevious, HeldInv, RefreshTypeOK
    <3>3. ASSUME NEW c \in Candidate, ProbePasses(t, c) PROVE HeldInv'
      <4>1. PICK l \in 1..LatencyBound :
               task' = [task EXCEPT ![t].result = With(@, c, Passed(l))]
        BY <3>3 DEF ProbePasses
      <4>2. proven' = proven \cup {c} /\ published' = published
        BY <3>3 DEF ProbePasses
      <4>3. Sound(With(task[t].result, c, Passed(l)), proven')
        <5>1. Sound(task[t].result, proven')
          BY <4>2, SoundGrows DEF HeldInv
        <5> QED BY <4>2, <5>1, PassedEntry, SoundWith DEF RefreshTypeOK
      <4>4. \A s \in Task : task'[s].previous = task[s].previous
        BY <4>1 DEF RefreshTypeOK
      <4>5. \A s \in Task : task'[s].result = IF s = t THEN With(task[t].result, c, Passed(l))
                                                       ELSE task[s].result
        BY <4>1 DEF RefreshTypeOK
      <4> QED BY <4>2, <4>3, <4>4, <4>5, SoundGrows DEF HeldInv
    <3>4. ASSUME NEW c \in Candidate, ProbeFails(t, c) PROVE HeldInv'
      <4> DEFINE e == Failed(task[t].previous, c)
      <4>1. proven' = proven /\ published' = published
        BY <3>4 DEF ProbeFails
      <4>2. task[t].previous \in HealthMap /\ task[t].result \in HealthMap
        BY DEF RefreshTypeOK
      <4>3. Coherent(e) /\ e \in Entry
        BY <4>2, FailedCoherent, FailedEntry DEF HeldInv, Sound
      <4>4. e.state # "down" => c \in proven
        BY GraceNeedsUsable DEF HeldInv, Sound
      <4>5. Sound(With(task[t].result, c, e), proven)
        BY <4>2, <4>3, <4>4, SoundWith DEF HeldInv
      <4>6. \A s \in Task :
              /\ task'[s].previous = task[s].previous
              /\ task'[s].result = IF s = t THEN With(task[t].result, c, e) ELSE task[s].result
        BY <3>4 DEF ProbeFails, RefreshTypeOK
      <4> QED BY <4>1, <4>5, <4>6 DEF HeldInv
    <3>5. CASE PublishResult(t)
      <4>1. task'[t].previous = Idle.previous /\ task'[t].result = Idle.result
        BY <3>5 DEF PublishResult, RefreshTypeOK
      <4> QED BY <3>5, <4>1, EmptySound DEF HeldInv, PublishResult, RefreshTypeOK
    <3> QED BY <2>4, <3>1, <3>2, <3>3, <3>4, <3>5 DEF Refresh, Prepare
  <2>5. CASE DaemonRestart
    BY <2>5, EmptyMap, EmptySound DEF DaemonRestart, HeldInv, Sound
  <2>6. CASE World
    BY <2>6 DEF World, SystemChanges, Flip, HeldInv
  <2>7. CASE UNCHANGED refreshVars
    BY <2>7 DEF refreshVars, HeldInv
  <2> QED BY <2>2, <2>3, <2>4, <2>5, <2>6, <2>7 DEF RefreshNext
<1> QED BY <1>1, <1>2, RefreshTypeCorrect, PTL DEF RefreshSpec

(* No record the daemon holds or shows was ever impossible.                *)
THEOREM RecordsCoherentHolds == RefreshSpec => []RecordsCoherent
<1>1. HeldInv => RecordsCoherent
  BY DEF HeldInv, Sound, RecordsCoherent
<1> QED BY <1>1, HeldInvariant, PTL

(* The relay is offered only candidates that a probe has passed.           *)
THEOREM UsableWasProvenHolds == RefreshSpec => []UsableWasProven
<1>1. HeldInv => UsableWasProven
  BY DEF HeldInv, Sound, UsableWasProven
<1> QED BY <1>1, HeldInvariant, PTL

---------------------------------------------------------------------------
(* Refreshes that do not overlap.  Nothing is then published between the   *)
(* copy of the list and the publication of the results, so every result    *)
(* was computed from the list it replaces.                                 *)
Computed(h, previous) ==
    \A c \in DOMAIN h :
        (\E l \in 1..LatencyBound : h[c] = Passed(l)) \/ h[c] = Failed(previous, c)

(* At most one task probes at a time. *)
OneProbes ==
    \A t, u \in Task : task[t].pc = "probing" /\ task[u].pc = "probing" => t = u

CurrentInv ==
    \A t \in Task :
        /\ task[t].pc = "probing" => task[t].previous = published
        /\ task[t].pc # "probing" => task[t].result = NoHealth
        /\ Computed(task[t].result, task[t].previous)

(* One more result, passed or failed, leaves the results computed from the *)
(* same list.                                                              *)
LEMMA ComputedWith ==
  ASSUME NEW h \in HealthMap, NEW c \in Candidate, NEW e \in Entry, NEW previous,
         Computed(h, previous),
         (\E l \in 1..LatencyBound : e = Passed(l)) \/ e = Failed(previous, c)
  PROVE  Computed(With(h, c, e), previous)
<1> DEFINE w == With(h, c, e)
<1> HIDE DEF w
<1>1. DOMAIN w = DOMAIN h \cup {c} /\ \A d \in DOMAIN w : w[d] = IF d = c THEN e ELSE h[d]
  <2>1. AddsOne(w, h, c, e)
    BY WithOne DEF w
  <2> QED BY <2>1 DEF AddsOne
<1>2. ASSUME NEW d \in DOMAIN w
      PROVE  (\E l \in 1..LatencyBound : w[d] = Passed(l)) \/ w[d] = Failed(previous, d)
  <2>1. CASE d = c
    BY <1>1, <2>1
  <2>2. CASE d # c
    BY <1>1, <2>2 DEF Computed
  <2> QED BY <2>1, <2>2
<1> QED BY <1>2 DEF Computed, w

(* A failed probe moves a coherent record along an edge of the automaton.  *)
LEMMA FailureMoves ==
  ASSUME NEW h \in HealthMap, NEW c, \A d \in DOMAIN h : Coherent(h[d])
  PROVE  <<IF c \in DOMAIN h THEN h[c].state ELSE "absent", Failed(h, c).state>>
            \in Automaton!Move
<1> USE DEF Automaton!Move, Automaton!Grade
<1>1. CASE c \notin DOMAIN h
  BY <1>1 DEF Failed, Grace
<1>2. CASE c \in DOMAIN h
  <2>1. h[c].failures \in 0..FailureCap /\ Coherent(h[c])
    BY <1>2 DEF HealthMap, Entry
  <2>2. Failures(h, c) = SaturatingAdd(h[c].failures)
    BY <1>2 DEF Failures
  <2>3. CASE h[c].state = "healthy"
    <3>1. Failures(h, c) = 1
      BY <2>1, <2>2, <2>3, CapAssumption DEF Coherent, SaturatingAdd
    <3> QED BY <1>2, <2>3, <3>1 DEF Failed, Grace
  <2>4. CASE h[c].state = "degraded"
    <3>1. Failures(h, c) = 2
      BY <2>1, <2>2, <2>4, CapAssumption DEF Coherent, SaturatingAdd
    <3> QED BY <1>2, <2>4, <3>1 DEF Failed, Grace
  <2>5. CASE h[c].state = "down"
    BY <1>2, <2>5 DEF Failed, Grace
  <2> QED BY <2>1, <2>3, <2>4, <2>5 DEF Coherent
<1> QED BY <1>1, <1>2

(* While at most one task probes, the list it copied is the published one. *)
LEMMA CurrentInvariant == RefreshSpec /\ []OneProbes => []CurrentInv
<1>1. RefreshInit => CurrentInv
  BY EmptyMap DEF RefreshInit, CurrentInv, Idle, Computed
<1>2. RefreshTypeOK /\ OneProbes /\ CurrentInv /\ [RefreshNext]_refreshVars => CurrentInv'
  <2> SUFFICES ASSUME RefreshTypeOK, OneProbes, CurrentInv, [RefreshNext]_refreshVars,
                      NEW u \in Task
               PROVE  /\ task'[u].pc = "probing" => task'[u].previous = published'
                      /\ task'[u].pc # "probing" => task'[u].result = NoHealth
                      /\ Computed(task'[u].result, task'[u].previous)
    BY DEF CurrentInv
  <2>0. /\ task[u].pc = "probing" => task[u].previous = published
        /\ task[u].pc # "probing" => task[u].result = NoHealth
        /\ Computed(task[u].result, task[u].previous)
    BY DEF CurrentInv
  <2>1. CASE task'[u] = task[u] /\ (task[u].pc = "probing" => published' = published)
    BY <2>0, <2>1
  <2>2. CASE task'[u].pc # "probing" /\ task'[u].result = NoHealth
    BY <2>2, EmptyMap DEF Computed
  <2>3. ASSUME NEW t \in Task,
               Begin(t) \/ Discover(t) \/ DiscoverFails(t) \/ PublishResult(t)
        PROVE  \/ task'[u].pc # "probing" /\ task'[u].result = NoHealth
               \/ task'[u] = task[u] /\ (task[u].pc = "probing" => published' = published)
    <3>1. CASE u = t
      <4> u \in DOMAIN task
        BY DEF RefreshTypeOK
      <4>1. CASE Begin(t)
        BY <3>1, <4>1 DEF Begin, Idle
      <4>2. CASE Discover(t)
        BY <3>1, <4>2 DEF Discover, Idle
      <4>3. CASE DiscoverFails(t) \/ PublishResult(t)
        BY <3>1, <4>3 DEF DiscoverFails, PublishResult, Idle
      <4> QED BY <2>3, <4>1, <4>2, <4>3
    <3>2. CASE u # t
      <4>1. task'[u] = task[u]
        BY <2>3, <3>2 DEF Begin, Discover, DiscoverFails, PublishResult, RefreshTypeOK
      <4>2. PublishResult(t) => task[u].pc # "probing"
        BY <3>2 DEF PublishResult, OneProbes
      <4> QED BY <2>3, <4>1, <4>2 DEF Begin, Discover, DiscoverFails
    <3> QED BY <3>1, <3>2
  <2>4. ASSUME NEW t \in Task, TakePrevious(t), u = t
        PROVE  /\ task'[u].pc = "probing" /\ task'[u].previous = published'
               /\ Computed(task'[u].result, task'[u].previous)
    <3>1. task[u].result = NoHealth /\ task'[u].result = task[u].result
      BY <2>0, <2>4 DEF TakePrevious, RefreshTypeOK
    <3>2. task'[u].pc = "probing" /\ task'[u].previous = published'
      BY <2>4 DEF TakePrevious, RefreshTypeOK
    <3> QED BY <3>1, <3>2, EmptyMap DEF Computed
  <2>5. ASSUME NEW t \in Task, NEW c \in Candidate, ProbePasses(t, c), u = t
        PROVE  /\ task'[u].pc = "probing" /\ task'[u].previous = published'
               /\ Computed(task'[u].result, task'[u].previous)
    <3>1. PICK l \in 1..LatencyBound :
             task' = [task EXCEPT ![t].result = With(@, c, Passed(l))]
      BY <2>5 DEF ProbePasses
    <3>2. /\ task'[u].pc = "probing" /\ task[u].pc = "probing"
          /\ task'[u].previous = task[u].previous /\ published' = published
          /\ task'[u].result = With(task[u].result, c, Passed(l))
      BY <2>5, <3>1 DEF ProbePasses, RefreshTypeOK
    <3>3. task[u].result \in HealthMap
      BY DEF RefreshTypeOK
    <3>4. Computed(With(task[u].result, c, Passed(l)), task[u].previous)
      BY <2>0, <3>3, PassedEntry, ComputedWith
    <3> QED BY <2>0, <3>2, <3>4
  <2>6. ASSUME NEW t \in Task, NEW c \in Candidate, ProbeFails(t, c), u = t
        PROVE  /\ task'[u].pc = "probing" /\ task'[u].previous = published'
               /\ Computed(task'[u].result, task'[u].previous)
    <3> DEFINE e == Failed(task[u].previous, c)
    <3>1. /\ task'[u].pc = "probing" /\ task[u].pc = "probing"
          /\ task'[u].previous = task[u].previous /\ published' = published
          /\ task'[u].result = With(task[u].result, c, e)
      BY <2>6 DEF ProbeFails, RefreshTypeOK
    <3>2. task[u].result \in HealthMap /\ e \in Entry
      BY FailedEntry DEF RefreshTypeOK
    <3>3. Computed(With(task[u].result, c, e), task[u].previous)
      BY <2>0, <3>2, ComputedWith
    <3> QED BY <2>0, <3>1, <3>3
  <2>7. ASSUME NEW t \in Task, u # t,
               TakePrevious(t) \/ \E c \in Candidate : ProbePasses(t, c) \/ ProbeFails(t, c)
        PROVE  task'[u] = task[u] /\ published' = published
    BY <2>7 DEF TakePrevious, ProbePasses, ProbeFails, RefreshTypeOK
  <2>8. ASSUME NEW r \in Requester, Save(r)
        PROVE  \/ task'[u].pc # "probing" /\ task'[u].result = NoHealth
               \/ task'[u] = task[u] /\ published' = published
    <3>0. r \in Task
      BY DEF Task
    <3>1. CASE u # r
      <4>1. published' = published
        BY <2>8 DEF Save, StartEdit, Store, StoreFails, Apply, Commit
      <4>2. task'[u] = task[u]
        BY <2>8, <3>1 DEF Save, StartEdit, Store, StoreFails, Apply, Commit, RefreshTypeOK
      <4> QED BY <4>1, <4>2
    <3>2. CASE u = r
      <4> u \in DOMAIN task
        BY DEF RefreshTypeOK
      <4>1. CASE \E e \in Edit : StartEdit(r, e)
        BY <3>2, <4>1 DEF StartEdit, Idle
      <4>2. CASE Store(r)
        BY <2>0, <3>2, <4>2 DEF Store, RefreshTypeOK
      <4>3. CASE StoreFails(r)
        BY <3>2, <4>3 DEF StoreFails, Idle
      <4>4. CASE Apply(r)
        BY <2>0, <3>2, <4>4 DEF Apply, RefreshTypeOK
      <4>5. CASE Commit(r)
        BY <3>2, <4>5 DEF Commit, Idle
      <4> QED BY <2>8, <4>1, <4>2, <4>3, <4>4, <4>5 DEF Save
    <3> QED BY <3>1, <3>2
  <2>9. CASE DaemonRestart
    <3>1. task'[u] = Idle
      BY <2>9 DEF DaemonRestart
    <3> QED BY <3>1, <2>2 DEF Idle
  <2>10. CASE World
    BY <2>1, <2>10 DEF World, SystemChanges, Flip
  <2>11. CASE UNCHANGED refreshVars
    BY <2>1, <2>11 DEF refreshVars
  <2>12. ASSUME NEW t \in Task, Begin(t) \/ Refresh(t)
         PROVE  /\ task'[u].pc = "probing" => task'[u].previous = published'
                /\ task'[u].pc # "probing" => task'[u].result = NoHealth
                /\ Computed(task'[u].result, task'[u].previous)
    <3>1. CASE Begin(t) \/ Discover(t) \/ DiscoverFails(t) \/ PublishResult(t)
      BY <2>1, <2>2, <2>3, <3>1
    <3>2. CASE TakePrevious(t) \/ \E c \in Candidate : ProbePasses(t, c) \/ ProbeFails(t, c)
      BY <2>1, <2>4, <2>5, <2>6, <2>7, <3>2
    <3> QED BY <2>12, <3>1, <3>2 DEF Refresh, Prepare
  <2> QED BY <2>1, <2>2, <2>8, <2>9, <2>10, <2>11, <2>12 DEF RefreshNext
<1> QED BY <1>1, <1>2, RefreshTypeCorrect, PTL DEF RefreshSpec

(* Refreshes that do not overlap implement HealthAutomaton, whoever asks   *)
(* for them: one degraded grace result, never from healthy straight to     *)
(* down, back up only by a passed probe.                                   *)
THEOREM RefreshImplementsAutomaton == RefreshSpec /\ []OneProbes => OneGrace
<1>1. RefreshInit => Automaton!AutomatonInit
  BY EmptyMap DEF RefreshInit, Automaton!AutomatonInit, PublishedGrade
<1>2. /\ RefreshTypeOK /\ RefreshTypeOK' /\ CurrentInv /\ HeldInv /\ HeldInv'
      /\ [RefreshNext]_refreshVars
      => [Automaton!AutomatonNext]_PublishedGrade
  <2> SUFFICES ASSUME RefreshTypeOK, RefreshTypeOK', CurrentInv, HeldInv, HeldInv',
                      [RefreshNext]_refreshVars
               PROVE  Automaton!AutomatonNext \/ UNCHANGED PublishedGrade
    BY DEF Automaton!AutomatonNext
  <2>1. CASE published' = published
    BY <2>1 DEF PublishedGrade
  <2>2. CASE DaemonRestart
    <3>1. PublishedGrade' = [c \in Candidate |-> "absent"]
      BY <2>2, EmptyMap DEF DaemonRestart, PublishedGrade
    <3>2. PublishedGrade \in [Candidate -> Automaton!Grade]
      BY DEF PublishedGrade, Automaton!Grade, HeldInv, Sound, Coherent
    <3> QED BY <3>1, <3>2 DEF Automaton!AutomatonNext, Automaton!Move, Automaton!Grade
  <2>3. ASSUME NEW t \in Task, PublishResult(t)
        PROVE  Automaton!AutomatonNext
    <3>1. /\ published' = task[t].result /\ task[t].previous = published
          /\ Computed(published', published)
      BY <2>3 DEF PublishResult, CurrentInv
    <3>2. published \in HealthMap /\ \A d \in DOMAIN published : Coherent(published[d])
      BY DEF RefreshTypeOK, HeldInv, Sound
    <3>3. PublishedGrade \in [Candidate -> Automaton!Grade]
      BY DEF PublishedGrade, Automaton!Grade, HeldInv, Sound, Coherent
    <3>4. PublishedGrade' \in [Candidate -> Automaton!Grade]
      BY DEF PublishedGrade, Automaton!Grade, HeldInv, Sound, Coherent
    <3>5. ASSUME NEW c \in Candidate
          PROVE  <<PublishedGrade[c], PublishedGrade'[c]>> \in Automaton!Move
      <4>1. PublishedGrade[c] \in Automaton!Grade
        BY <3>3
      <4>2. CASE c \notin DOMAIN published'
        <5>1. PublishedGrade'[c] = "absent"
          BY <4>2 DEF PublishedGrade
        <5> QED BY <4>1, <5>1 DEF Automaton!Move
      <4>3. CASE c \in DOMAIN published' /\ \E l \in 1..LatencyBound : published'[c] = Passed(l)
        <5>1. PublishedGrade'[c] = "healthy"
          BY <4>3 DEF PublishedGrade, Passed
        <5> QED BY <4>1, <5>1 DEF Automaton!Move
      <4>4. CASE c \in DOMAIN published' /\ published'[c] = Failed(published, c)
        <5>1. PublishedGrade'[c] = Failed(published, c).state
          BY <4>4 DEF PublishedGrade
        <5>2. PublishedGrade[c] = IF c \in DOMAIN published THEN published[c].state ELSE "absent"
          BY DEF PublishedGrade
        <5> QED BY <3>2, <5>1, <5>2, FailureMoves
      <4> QED BY <3>1, <4>2, <4>3, <4>4 DEF Computed
    <3> QED BY <3>4, <3>5 DEF Automaton!AutomatonNext
  <2>4. ASSUME NEW r \in Requester, Save(r) PROVE published' = published
    BY <2>4 DEF Save, StartEdit, Store, StoreFails, Apply, Commit
  <2> QED BY <2>1, <2>2, <2>3, <2>4
          DEF RefreshNext, Refresh, Prepare, Begin, Discover, DiscoverFails, TakePrevious, ProbePasses,
              ProbeFails, World, SystemChanges, Flip, refreshVars
<1> QED BY <1>1, <1>2, RefreshTypeCorrect, CurrentInvariant, HeldInvariant, PTL
        DEF RefreshSpec, OneGrace, Automaton!AutomatonSpec

(* The loop alone, without requests, implements the automaton.             *)
THEOREM LoopImplementsAutomaton ==
  ASSUME Requester = {}
  PROVE  RefreshSpec => OneGrace
<1>1. OneProbes
  BY DEF OneProbes, Task
<1>2. []OneProbes
  BY <1>1, PTL
<1> QED BY <1>2, RefreshImplementsAutomaton, PTL

(* "A previously working candidate gets one degraded grace result before   *)
(* becoming down" holds of every behaviour in which refreshes do not       *)
(* overlap; that they must not is what the run "grace_race" shows.         *)
THEOREM GraceBeforeDownHolds == RefreshSpec /\ []OneProbes => GraceBeforeDown
<1>1. /\ RefreshTypeOK /\ RefreshTypeOK'
      /\ [Automaton!AutomatonNext]_PublishedGrade
      => [\A c \in DOMAIN published \cap DOMAIN published' :
             published[c].state = "healthy" => published'[c].state # "down"]_refreshVars
  <2> SUFFICES ASSUME RefreshTypeOK, RefreshTypeOK',
                      [Automaton!AutomatonNext]_PublishedGrade,
                      NEW c \in DOMAIN published \cap DOMAIN published',
                      published[c].state = "healthy", published'[c].state = "down"
               PROVE  FALSE
    OBVIOUS
  <2>1. c \in Candidate
    BY DEF RefreshTypeOK, HealthMap
  <2>2. PublishedGrade[c] = "healthy" /\ PublishedGrade'[c] = "down"
    BY <2>1 DEF PublishedGrade
  <2>3. <<PublishedGrade[c], PublishedGrade'[c]>> \in Automaton!Move
    BY <2>1, <2>2 DEF Automaton!AutomatonNext
  <2>4. <<"healthy", "down">> \notin Automaton!Move
    BY DEF Automaton!Move, Automaton!Grade
  <2> QED BY <2>2, <2>3, <2>4
<1> QED BY <1>1, RefreshTypeCorrect, RefreshImplementsAutomaton, PTL
        DEF OneGrace, Automaton!AutomatonSpec, GraceBeforeDown
=============================================================================
