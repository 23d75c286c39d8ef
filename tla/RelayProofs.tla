----------------------------- MODULE RelayProofs -----------------------------
(***************************************************************************)
(* Relay's safety for any candidates, priorities, lists and connections.   *)
(* The published order is a sorted arrangement of the published records.   *)
(* The rest of the inductive invariant speaks of one connection record at  *)
(* a time: to the two properties (Best, Shut) it adds what the loop still  *)
(* has before it (Queued), and which fields are still untouched at which   *)
(* stage (Staged).                                                         *)
(***************************************************************************)
EXTENDS Relay, FiniteSetTheorems, TLAPS

(* What is left of the copied list is sorted, and holds every usable       *)
(* candidate that was not tried.                                           *)
Queued(r) ==
    r.pc = "trying" =>
        /\ \A i \in DOMAIN r.queue : r.queue[i] \in DOMAIN r.offers
        /\ \A i, j \in DOMAIN r.queue : i < j => ~Before(r.offers, r.queue[j], r.queue[i])
        /\ \A c \in Usable(r.offers) : c \in r.tried \/ \E i \in DOMAIN r.queue : r.queue[i] = c

Best(r) ==
    r.via \in Candidate =>
        /\ r.via \in Usable(r.offers)
        /\ \A d \in Usable(r.offers) : Before(r.offers, d, r.via) => d \in r.tried

Shut(r, fallback) ==
    /\ r.outcome = "failed" \/ r.via = Direct \/ r.pc = "direct"
       => Usable(r.offers) \subseteq r.tried
    /\ r.pc = "direct" \/ r.via = Direct => fallback

Staged(r) ==
    /\ r.pc # "tunnel" => r.via = NoRoute
    /\ r.pc \in {"reading", "connecting", "trying", "direct"} => r.outcome = "none"
    /\ r.pc \in {"reading", "connecting"} => r.tried = {}

Good(r, fallback) == Queued(r) /\ Best(r) /\ Shut(r, fallback) /\ Staged(r)

RelayInv ==
    /\ RelayTypeOK
    /\ order \in Sorted(published)
    /\ \A k \in Connection : Good(conn[k], directFallback)

(* A health map with no candidate is a health map. *)
LEMMA NoHealthIsHealthMap == NoHealth \in HealthMap
  BY DEF NoHealth, HealthMap

(* The candidates a list calls usable are candidates. *)
LEMMA UsableCandidates ==
  ASSUME NEW h \in HealthMap PROVE Usable(h) \subseteq Candidate
  BY DEF Usable, HealthMap

---------------------------------------------------------------------------
(* The order of the list.                                                  *)

(* What Before compares are naturals. *)
LEMMA KeysAreNatural ==
  ASSUME NEW h \in HealthMap, NEW c \in DOMAIN h
  PROVE  /\ Rank(h[c].state) \in Nat
         /\ Priority[c] \in Nat
         /\ h[c].latency \in Nat
<1>1. c \in Candidate /\ h[c] \in Entry
  BY DEF HealthMap
<1> QED BY <1>1, PriorityAssumption, LatencyAssumption
        DEF Entry, HealthState, Rank, NoLatency

(* sort_by may panic, or leave the list unsorted, when its comparison is   *)
(* not an order: sort_candidates compares by one, in which "neither before *)
(* the other" is an equivalence.                                           *)
THEOREM BeforeIsAnOrder ==
  ASSUME NEW h \in HealthMap
  PROVE  /\ \A c \in DOMAIN h : ~Before(h, c, c)
         /\ \A c, d, e \in DOMAIN h : Before(h, c, d) /\ Before(h, d, e) => Before(h, c, e)
         /\ \A c, d, e \in DOMAIN h : Before(h, c, e) => Before(h, c, d) \/ Before(h, d, e)
<1>1. ASSUME NEW c \in DOMAIN h PROVE ~Before(h, c, c)
  BY <1>1, KeysAreNatural DEF Before
<1>2. ASSUME NEW c \in DOMAIN h, NEW d \in DOMAIN h, NEW e \in DOMAIN h
      PROVE  /\ Before(h, c, d) /\ Before(h, d, e) => Before(h, c, e)
             /\ Before(h, c, e) => Before(h, c, d) \/ Before(h, d, e)
  <2>1. /\ Rank(h[c].state) \in Nat /\ Rank(h[d].state) \in Nat /\ Rank(h[e].state) \in Nat
        /\ Priority[c] \in Nat /\ Priority[d] \in Nat /\ Priority[e] \in Nat
        /\ h[c].latency \in Nat /\ h[d].latency \in Nat /\ h[e].latency \in Nat
    BY KeysAreNatural
  <2> QED BY <2>1 DEF Before
<1> QED BY <1>1, <1>2

(* The sorted list holds every candidate of the records, each in the place *)
(* that Before gives it: it has as many places as there are records and no *)
(* candidate twice.                                                        *)
LEMMA SortedList ==
  ASSUME NEW h \in HealthMap, NEW s \in Sorted(h)
  PROVE  /\ s \in Seq(Candidate)
         /\ s \in Seq(DOMAIN h)
         /\ \A c \in DOMAIN h : \E i \in DOMAIN s : s[i] = c
         /\ \A i, j \in DOMAIN s : i < j => ~Before(h, s[j], s[i])
<1> DEFINE S == DOMAIN h
<1> DEFINE n == Cardinality(S)
<1>1. S \in SUBSET Candidate
  BY DEF HealthMap
<1>2. IsFiniteSet(S)
  BY <1>1, FiniteAssumption, FS_Subset
<1>3. n \in Nat
  BY <1>2, FS_CardinalityType
<1>4. /\ s \in [1..n -> S]
      /\ \A i, j \in 1..n : i # j => s[i] # s[j]
      /\ \A i, j \in DOMAIN s : i < j => ~Before(h, s[j], s[i])
  BY DEF Sorted, SetToSeqs
<1> HIDE DEF S, n
<1>5. s \in Seq(S) /\ s \in Seq(Candidate)
  BY <1>1, <1>3, <1>4
<1>6. s \in Injection(1..n, S)
  BY <1>4 DEF Injection, IsInjective
<1>7. IsFiniteSet(1..n) /\ Cardinality(1..n) = n
  BY <1>3, FS_Interval
<1>8. s \in Surjection(1..n, S)
  BY <1>2, <1>6, <1>7, FS_Injection DEF n
<1>9. \A c \in S : \E i \in DOMAIN s : s[i] = c
  BY <1>4, <1>8 DEF Surjection
<1> QED BY <1>4, <1>5, <1>9 DEF S

(* Before the first refresh, the empty list is sorted. *)
LEMMA NothingSorted == <<>> \in Sorted(NoHealth)
<1>1. DOMAIN NoHealth = {}
  BY DEF NoHealth
<1>2. Cardinality({}) = 0
  BY FS_EmptySet
<1>3. <<>> \in SetToSeqs({})
  BY <1>2 DEF SetToSeqs
<1> QED BY <1>1, <1>3 DEF Sorted

---------------------------------------------------------------------------
(* Types.                                                                  *)

(* A record of a slot that starts or ends afresh has the right type. *)
LEMMA ClosedType ==
  ASSUME NEW o \in Outcome
  PROVE  Closed(o) \in [pc : Stage, offers : HealthMap, queue : Seq(Candidate),
                        tried : SUBSET Candidate, via : Candidate \cup {Direct, NoRoute},
                        outcome : Outcome]
  BY NoHealthIsHealthMap DEF Closed, Stage

(* The type invariant is inductive: every step writes only stages,         *)
(* outcomes, candidates and published lists into a connection.             *)
THEOREM RelayTypeCorrect == RelaySpec => []RelayTypeOK
<1>1. RelayInit => RelayTypeOK
  BY NoHealthIsHealthMap, ClosedType DEF RelayInit, RelayTypeOK, Outcome
<1>2. RelayTypeOK /\ [RelayNext]_relayVars => RelayTypeOK'
  <2> SUFFICES ASSUME RelayTypeOK, [RelayNext]_relayVars PROVE RelayTypeOK'
    OBVIOUS
  <2> DEFINE Conn == [pc : Stage, offers : HealthMap, queue : Seq(Candidate),
                      tried : SUBSET Candidate, via : Candidate \cup {Direct, NoRoute},
                      outcome : Outcome]
  <2>1. ASSUME NEW k \in Connection, Serve(k) PROVE RelayTypeOK'
    <3> USE DEF RelayTypeOK
    <3>1. CASE Accept(k)
      <4>1. Closed("none") \in Conn /\ Closed("refused") \in Conn
        BY ClosedType DEF Outcome
      <4>2. [Closed("none") EXCEPT !.pc = "reading"] \in Conn
        BY <4>1 DEF Stage
      <4> QED BY <3>1, <4>1, <4>2 DEF Accept
    <3>2. CASE ReadRequest(k)
      BY <3>2 DEF ReadRequest, Stage
    <3>3. CASE BadRequest(k)
      BY <3>3, ClosedType DEF BadRequest, Outcome
    <3>4. CASE TakeOffers(k)
      <4>1. [conn[k] EXCEPT !.pc = "trying", !.offers = published, !.queue = order] \in Conn
        BY DEF Stage
      <4> QED BY <3>4, <4>1 DEF TakeOffers
    <3>0. ASSUME Trying(k)
          PROVE  Turn(k) \in Candidate /\ Tail(conn[k].queue) \in Seq(Candidate)
      BY <3>0 DEF Trying, Turn
    <3>5. CASE Skip(k)
      <4>1. [conn[k] EXCEPT !.queue = Tail(@)] \in Conn
        BY <3>5, <3>0 DEF Skip
      <4> QED BY <3>5, <4>1 DEF Skip
    <3>6. CASE TryOpens(k)
      <4>1. [conn[k] EXCEPT !.pc = "tunnel", !.via = Turn(k), !.outcome = "relayed"] \in Conn
        BY <3>6, <3>0 DEF TryOpens, Stage, Outcome
      <4> QED BY <3>6, <4>1 DEF TryOpens
    <3>11. CASE TryFails(k)
      <4> DEFINE next == [conn[k] EXCEPT !.tried = conn[k].tried \cup {Turn(k)},
                                         !.queue = Tail(conn[k].queue)]
      <4>1. next \in Conn
        BY <3>11, <3>0 DEF TryFails
      <4>2. /\ conn' = [conn EXCEPT ![k] = next]
            /\ UNCHANGED <<published, order, paused, directFallback>>
        BY <3>11 DEF TryFails
      <4> HIDE DEF next
      <4> QED BY <4>1, <4>2
    <3>7. CASE GiveUp(k)
      <4>1. [conn[k] EXCEPT !.pc = "closed", !.outcome = "failed"] \in Conn
        BY DEF Stage, Outcome
      <4> QED BY <3>7, <4>1 DEF GiveUp
    <3>12. CASE DirectFails(k)
      <4>1. [conn[k] EXCEPT !.pc = "closed", !.outcome = "failed"] \in Conn
        BY DEF Stage, Outcome
      <4> QED BY <3>12, <4>1 DEF DirectFails
    <3>8. CASE FallBack(k)
      BY <3>8 DEF FallBack, Stage
    <3>9. CASE DirectOpens(k)
      BY <3>9 DEF DirectOpens, Stage, Outcome
    <3>10. CASE Hangup(k)
      BY <3>10, ClosedType DEF Hangup, Outcome
    <3> QED BY <2>1, <3>1, <3>2, <3>3, <3>4, <3>5, <3>6, <3>7, <3>8, <3>9, <3>10, <3>11,
               <3>12
            DEF Serve, Connect
  <2>2. ASSUME NEW h \in Publishable, Publish(h) PROVE RelayTypeOK'
    <3>1. published' \in HealthMap /\ order' \in Sorted(published')
      BY <2>2, PublishableAssumption DEF Publish
    <3>2. order' \in Seq(Candidate)
      BY <3>1, SortedList
    <3> QED BY <2>2, <3>1, <3>2 DEF Publish, RelayTypeOK
  <2>3. ASSUME NEW b \in BOOLEAN, SetPaused(b) PROVE RelayTypeOK'
    BY <2>3 DEF SetPaused, RelayTypeOK
  <2>4. CASE Restart
    BY <2>4, NoHealthIsHealthMap, ClosedType DEF Restart, DropAll, RelayTypeOK, Outcome
  <2>5. CASE UNCHANGED relayVars
    BY <2>5 DEF relayVars, RelayTypeOK
  <2> QED BY <2>1, <2>2, <2>3, <2>4, <2>5 DEF RelayNext
<1> QED BY <1>1, <1>2, PTL DEF RelaySpec

---------------------------------------------------------------------------
(* A record that starts or ends afresh is good, whatever the flag is.      *)
LEMMA ClosedGood ==
  ASSUME NEW o, o # "failed", NEW fallback \in BOOLEAN
  PROVE  Good(Closed(o), fallback) /\ Good([Closed("none") EXCEPT !.pc = "reading"], fallback)
  BY RouteAssumption DEF Good, Queued, Best, Shut, Staged, Closed

(* The candidate whose turn it is comes before all that are left: those    *)
(* with a better record, if they are usable, were tried.                   *)
LEMMA TurnIsBest ==
  ASSUME RelayTypeOK, NEW k \in Connection, Trying(k), Queued(conn[k])
  PROVE  /\ Turn(k) \in DOMAIN conn[k].offers
         /\ \A d \in Usable(conn[k].offers) :
                Before(conn[k].offers, d, Turn(k)) => d \in conn[k].tried
<1> DEFINE r == conn[k]
<1>1. r.offers \in HealthMap /\ r.queue \in Seq(Candidate) /\ r.pc = "trying" /\ r.queue # <<>>
  BY DEF RelayTypeOK, Trying
<1> HIDE DEF r
<1>2. 1 \in DOMAIN r.queue /\ Head(r.queue) = r.queue[1]
  BY <1>1
<1>3. Turn(k) = r.queue[1]
  BY <1>2 DEF Turn, r
<1>4. Turn(k) \in DOMAIN r.offers
  BY <1>1, <1>2, <1>3 DEF Queued, r
<1>5. ASSUME NEW d \in Usable(r.offers), Before(r.offers, d, Turn(k)), d \notin r.tried
      PROVE  FALSE
  <2>1. PICK i \in DOMAIN r.queue : r.queue[i] = d
    BY <1>1, <1>5 DEF Queued, r
  <2>2. i # 1
    BY <1>1, <1>3, <1>4, <1>5, <2>1, BeforeIsAnOrder
  <2>3. DOMAIN r.queue = 1..Len(r.queue) /\ Len(r.queue) \in Nat
    BY <1>1
  <2>4. 1 < i
    BY <2>1, <2>2, <2>3
  <2>5. ~Before(r.offers, r.queue[i], r.queue[1])
    BY <1>1, <1>2, <2>1, <2>4 DEF Queued, r
  <2> QED BY <1>3, <1>5, <2>1, <2>5
<1> QED BY <1>4, <1>5 DEF r

(* Once the candidate whose turn it is failed, or is passed over because   *)
(* it is down, what is left is still sorted and complete.                  *)
LEMMA TailIsQueued ==
  ASSUME RelayTypeOK, NEW k \in Connection, Trying(k), Queued(conn[k]),
         NEW r, r.queue = Tail(conn[k].queue), r.offers = conn[k].offers,
         conn[k].tried \subseteq r.tried,
         Turn(k) \in Usable(conn[k].offers) => Turn(k) \in r.tried
  PROVE  Queued(r)
<1> DEFINE q == conn[k].queue
           rest == Tail(q)
           offers == conn[k].offers
<1>1. q \in Seq(Candidate) /\ q # <<>> /\ conn[k].pc = "trying"
  BY DEF RelayTypeOK, Trying
<1>2. /\ \A i \in DOMAIN q : q[i] \in DOMAIN offers
      /\ \A i, j \in DOMAIN q : i < j => ~Before(offers, q[j], q[i])
      /\ \A c \in Usable(offers) : c \in conn[k].tried \/ \E i \in DOMAIN q : q[i] = c
  BY <1>1 DEF Queued
<1>3. Turn(k) = q[1]
  BY <1>1 DEF Turn
<1> HIDE DEF q, offers
<1>4. /\ Len(q) \in Nat /\ DOMAIN q = 1..Len(q)
      /\ DOMAIN rest = 1..(Len(q) - 1)
      /\ \A i \in 1..(Len(q) - 1) : rest[i] = q[i + 1]
  BY <1>1
<1> HIDE DEF rest
<1>5. \A i \in DOMAIN rest : i + 1 \in DOMAIN q /\ rest[i] = q[i + 1]
  BY <1>4
<1>6. \A i \in DOMAIN rest : rest[i] \in DOMAIN offers
  BY <1>2, <1>5
<1>7. ASSUME NEW i \in DOMAIN rest, NEW j \in DOMAIN rest, i < j
      PROVE  ~Before(offers, rest[j], rest[i])
  <2>1. i + 1 < j + 1
    BY <1>4, <1>7
  <2> QED BY <1>2, <1>5, <2>1
<1>8. ASSUME NEW c \in Usable(offers), c \notin r.tried
      PROVE  \E i \in DOMAIN rest : rest[i] = c
  <2>1. c \notin conn[k].tried
    BY <1>8
  <2>2. PICK i \in DOMAIN q : q[i] = c
    BY <1>2, <2>1
  <2>3. i # 1
    BY <1>3, <1>8, <2>2 DEF offers
  <2>4. i - 1 \in DOMAIN rest /\ rest[i - 1] = q[i]
    BY <1>4, <2>2, <2>3
  <2> QED BY <2>2, <2>4
<1> QED BY <1>6, <1>7, <1>8 DEF Queued, rest, q, offers

(* A step of one connection task leaves its record good. *)
LEMMA ServeKeepsGood ==
  ASSUME RelayTypeOK, order \in Sorted(published), NEW k \in Connection,
         Good(conn[k], directFallback), Serve(k)
  PROVE  Good(conn'[k], directFallback')
<1> USE RouteAssumption DEF RelayTypeOK
<1>1. CASE Accept(k)
  BY <1>1, ClosedGood DEF Accept
<1>2. CASE ReadRequest(k)
  BY <1>2 DEF ReadRequest, Good, Queued, Best, Shut, Staged
<1>3. CASE BadRequest(k)
  BY <1>3, ClosedGood DEF BadRequest
<1>4. CASE TakeOffers(k)
  <2>1. /\ order \in Seq(DOMAIN published)
        /\ \A c \in DOMAIN published : \E i \in DOMAIN order : order[i] = c
        /\ \A i, j \in DOMAIN order : i < j => ~Before(published, order[j], order[i])
    BY SortedList
  <2>2. \A i \in DOMAIN order : order[i] \in DOMAIN published
    BY <2>1
  <2>3. conn'[k].queue = order /\ conn'[k].offers = published
    BY <1>4 DEF TakeOffers
  <2>4. Usable(published) \subseteq DOMAIN published
    BY DEF Usable
  <2>5. Queued(conn'[k])
    BY <2>1, <2>2, <2>3, <2>4 DEF Queued
  <2> QED BY <1>4, <2>5 DEF TakeOffers, Good, Best, Shut, Staged
<1>5. CASE Skip(k)
  <2>1. /\ conn'[k] = [conn[k] EXCEPT !.queue = Tail(conn[k].queue)]
        /\ Trying(k) /\ UNCHANGED directFallback
    BY <1>5 DEF Skip
  <2>2. Turn(k) \notin Usable(conn[k].offers)
    BY <1>5 DEF Skip, IsDown, Usable
  <2>3. /\ conn'[k].queue = Tail(conn[k].queue) /\ conn'[k].offers = conn[k].offers
        /\ conn'[k].tried = conn[k].tried
    BY <2>1
  <2>4. Queued(conn'[k])
    BY <2>1, <2>2, <2>3, TailIsQueued DEF Good
  <2> QED BY <2>1, <2>4 DEF Trying, Good, Best, Shut, Staged
<1>6. CASE TryOpens(k)
  <2>1. /\ conn'[k] = [conn[k] EXCEPT !.pc = "tunnel", !.via = Turn(k), !.outcome = "relayed"]
        /\ Trying(k) /\ UNCHANGED directFallback
    BY <1>6 DEF TryOpens
  <2>2. Turn(k) \in Usable(conn[k].offers)
    BY <1>6, <2>1, TurnIsBest DEF TryOpens, IsDown, Usable, Good
  <2>3. Turn(k) \in Candidate
    BY <2>1 DEF Turn, Trying
  <2>4. Best(conn'[k])
    BY <2>1, <2>2, TurnIsBest DEF Best, Good
  <2> QED BY <2>1, <2>3, <2>4 DEF Good, Queued, Shut, Staged
<1>7. CASE TryFails(k)
  <2>1. /\ conn'[k] = [conn[k] EXCEPT !.tried = conn[k].tried \cup {Turn(k)},
                                      !.queue = Tail(conn[k].queue)]
        /\ Trying(k) /\ UNCHANGED directFallback
    BY <1>7 DEF TryFails
  <2>2. /\ conn'[k].queue = Tail(conn[k].queue) /\ conn'[k].offers = conn[k].offers
        /\ conn'[k].tried = conn[k].tried \cup {Turn(k)}
    BY <2>1
  <2>3. Queued(conn'[k])
    BY <2>1, <2>2, TailIsQueued DEF Good
  <2> QED BY <2>1, <2>3 DEF Trying, Good, Best, Shut, Staged
<1>8. CASE GiveUp(k) \/ FallBack(k)
  <2>1. conn[k].pc = "trying" /\ conn[k].queue = <<>>
    BY <1>8 DEF GiveUp, FallBack
  <2>2. Usable(conn[k].offers) \subseteq conn[k].tried
    BY <2>1 DEF Good, Queued
  <2> QED BY <1>8, <2>2 DEF GiveUp, FallBack, Good, Queued, Best, Shut, Staged
<1>9. CASE DirectOpens(k)
  BY <1>9 DEF DirectOpens, Good, Queued, Best, Shut, Staged
<1>10. CASE DirectFails(k)
  BY <1>10 DEF DirectFails, Good, Queued, Best, Shut, Staged
<1>11. CASE Hangup(k)
  BY <1>11, ClosedGood DEF Hangup
<1> QED BY <1>1, <1>2, <1>3, <1>4, <1>5, <1>6, <1>7, <1>8, <1>9, <1>10, <1>11
        DEF Serve, Connect

(* A step of one task leaves the records of the others and the flag alone. *)
LEMMA ServeFrame ==
  ASSUME RelayTypeOK, NEW k \in Connection, Serve(k)
  PROVE  /\ UNCHANGED <<published, order, directFallback>>
         /\ \A j \in Connection \ {k} : conn'[j] = conn[j]
  BY DEF RelayTypeOK, Serve, Connect, Accept, ReadRequest, BadRequest, TakeOffers, Skip,
         TryOpens, TryFails, GiveUp, FallBack, DirectOpens, DirectFails, Hangup

(* A restart leaves a closed record good under either value of the flag.   *)
LEMMA RestartKeepsGood ==
  ASSUME RelayTypeOK, NEW k \in Connection, Good(conn[k], directFallback),
         DropAll, directFallback' \in BOOLEAN
  PROVE  Good(conn'[k], directFallback')
<1>1. CASE conn[k].pc = "closed"
  <2>1. conn'[k] = conn[k]
    BY <1>1 DEF DropAll
  <2> QED BY <1>1, <2>1, RouteAssumption DEF Good, Shut, Staged
<1>2. CASE conn[k].pc # "closed"
  <2>1. conn'[k] = Closed("dropped")
    BY <1>2 DEF DropAll
  <2> QED BY <2>1, ClosedGood
<1> QED BY <1>1, <1>2

(* Every connection record stays good: by cases on the step, the acting    *)
(* task's record by ServeKeepsGood, the others because nothing they say    *)
(* changes, and all of them across a restart.  The order is replaced with  *)
(* the records only.                                                       *)
THEOREM RelayInvariant == RelaySpec => []RelayInv
<1>1. RelayInit => order \in Sorted(published)
  BY NothingSorted DEF RelayInit
<1>2. RelayInit => \A k \in Connection : Good(conn[k], directFallback)
  BY ClosedGood DEF RelayInit
<1>3. /\ RelayTypeOK /\ order \in Sorted(published) /\ [RelayNext]_relayVars
      => (order \in Sorted(published))'
  <2> SUFFICES ASSUME RelayTypeOK, order \in Sorted(published), [RelayNext]_relayVars
               PROVE  order' \in Sorted(published')
    OBVIOUS
  <2>1. ASSUME NEW k \in Connection, Serve(k) PROVE order' \in Sorted(published')
    BY <2>1, ServeFrame
  <2>2. CASE \E h \in Publishable : Publish(h)
    BY <2>2 DEF Publish
  <2>3. CASE \E b \in BOOLEAN : SetPaused(b)
    BY <2>3 DEF SetPaused
  <2>4. CASE Restart
    BY <2>4, NothingSorted DEF Restart
  <2>5. CASE UNCHANGED relayVars
    BY <2>5 DEF relayVars
  <2> QED BY <2>1, <2>2, <2>3, <2>4, <2>5 DEF RelayNext
<1>4. /\ RelayTypeOK /\ RelayTypeOK' /\ order \in Sorted(published)
      /\ \A k \in Connection : Good(conn[k], directFallback)
      /\ [RelayNext]_relayVars
      => (\A k \in Connection : Good(conn[k], directFallback))'
  <2> SUFFICES ASSUME RelayTypeOK, RelayTypeOK', order \in Sorted(published),
                      [RelayNext]_relayVars,
                      \A k \in Connection : Good(conn[k], directFallback),
                      NEW j \in Connection
               PROVE  Good(conn'[j], directFallback')
    OBVIOUS
  <2>1. ASSUME NEW k \in Connection, Serve(k) PROVE Good(conn'[j], directFallback')
    <3>1. CASE j = k
      BY <2>1, <3>1, ServeKeepsGood
    <3>2. CASE j # k
      BY <2>1, <3>2, ServeFrame
    <3> QED BY <3>1, <3>2
  <2>2. CASE \E h \in Publishable : Publish(h)
    BY <2>2 DEF Publish
  <2>3. CASE \E b \in BOOLEAN : SetPaused(b)
    BY <2>3 DEF SetPaused
  <2>4. CASE Restart
    <3>1. DropAll /\ directFallback' \in BOOLEAN
      BY <2>4 DEF Restart
    <3> QED BY <3>1, RestartKeepsGood
  <2>5. CASE UNCHANGED relayVars
    BY <2>5 DEF relayVars
  <2> QED BY <2>1, <2>2, <2>3, <2>4, <2>5 DEF RelayNext
<1> QED BY <1>1, <1>2, <1>3, <1>4, RelayTypeCorrect, PTL DEF RelaySpec, RelayInv

(* For any records and any arrangement of ties, a tunnel runs over the     *)
(* best usable candidate of the list its connection took that did not      *)
(* fail: sorted once by the publisher, the list is copied, shortened and   *)
(* passed over by the loop, and still in order when a tunnel opens.        *)
THEOREM BestRouteFirstHolds == RelaySpec => []BestRouteFirst
<1>1. RelayInv => BestRouteFirst
  BY DEF RelayInv, Good, Best, BestRouteFirst
<1> QED BY <1>1, RelayInvariant, PTL

(* For any list, nothing is refused or sent directly before every usable   *)
(* candidate was tried, nor directly without direct_fallback.              *)
THEOREM FailClosedHolds == RelaySpec => []FailClosed
<1>1. RelayInv => FailClosed
  BY DEF RelayInv, Good, Shut, FailClosed
<1> QED BY <1>1, RelayInvariant, PTL

---------------------------------------------------------------------------
(* How a connection gets on.                                               *)

(* How far a connection is from its answer. *)
Distance(r) ==
    CASE r.pc = "connecting" -> 3
      [] r.pc = "trying"     -> 2
      [] r.pc = "direct"     -> 1
      [] OTHER               -> 0

(* Nearer in stage, or with a shorter list left to go through. *)
Nearer(r, s) ==
    \/ Distance(s) < Distance(r)
    \/ s.pc = "trying" /\ r.pc = "trying" /\ Len(s.queue) < Len(r.queue)

(* Whatever happens to a connection whose request was read brings it       *)
(* nearer to its answer: no place of the list is come to twice and no      *)
(* stage is gone back to, so that the attempts end.                        *)
THEOREM EachStepNears ==
    RelaySpec => [][\A k \in Connection :
                       conn[k].pc \in {"connecting", "trying", "direct"} /\ conn'[k] # conn[k]
                       => Nearer(conn[k], conn'[k])]_relayVars
<1>1. RelayTypeOK /\ [RelayNext]_relayVars =>
        [\A k \in Connection :
            conn[k].pc \in {"connecting", "trying", "direct"} /\ conn'[k] # conn[k]
            => Nearer(conn[k], conn'[k])]_relayVars
  <2> SUFFICES ASSUME RelayTypeOK, RelayNext, NEW k \in Connection,
                      conn[k].pc \in {"connecting", "trying", "direct"}, conn'[k] # conn[k]
               PROVE  Nearer(conn[k], conn'[k])
    OBVIOUS
  <2> USE DEF RelayTypeOK
  <2>1. CASE Serve(k)
    <3>1. ~Accept(k) /\ ~ReadRequest(k) /\ ~BadRequest(k) /\ ~Hangup(k)
      BY DEF Accept, ReadRequest, BadRequest, Hangup
    <3>2. CASE TakeOffers(k)
      BY <3>2 DEF TakeOffers, Nearer, Distance
    <3>3. CASE TryOpens(k)
      BY <3>3 DEF TryOpens, Trying, Nearer, Distance
    <3>4. CASE Skip(k) \/ TryFails(k)
      <4>1. /\ conn'[k].pc = "trying" /\ conn[k].pc = "trying"
            /\ conn'[k].queue = Tail(conn[k].queue)
            /\ conn[k].queue \in Seq(Candidate) /\ conn[k].queue # <<>>
        BY <3>4 DEF Skip, TryFails, Trying
      <4>2. Len(conn'[k].queue) < Len(conn[k].queue)
        BY <4>1
      <4> QED BY <4>1, <4>2 DEF Nearer
    <3>5. CASE GiveUp(k) \/ DirectFails(k)
      BY <3>5 DEF GiveUp, DirectFails, Nearer, Distance
    <3>6. CASE FallBack(k)
      BY <3>6 DEF FallBack, Nearer, Distance
    <3>7. CASE DirectOpens(k)
      BY <3>7 DEF DirectOpens, Nearer, Distance
    <3> QED BY <2>1, <3>1, <3>2, <3>3, <3>4, <3>5, <3>6, <3>7 DEF Serve, Connect
  <2>2. ASSUME NEW j \in Connection, j # k, Serve(j) PROVE FALSE
    BY <2>2, ServeFrame
  <2>3. CASE Restart
    <3>1. conn'[k].pc = "closed"
      BY <2>3 DEF Restart, DropAll, Closed
    <3> QED BY <3>1 DEF Nearer, Distance
  <2>4. ~(\E h \in Publishable : Publish(h)) /\ ~(\E b \in BOOLEAN : SetPaused(b))
    BY DEF Publish, SetPaused
  <2> QED BY <2>1, <2>2, <2>3, <2>4 DEF RelayNext
<1> QED BY <1>1, RelayTypeCorrect, PTL DEF RelaySpec
=============================================================================
