----------------------------- MODULE DesktopProofs -----------------------------
(***************************************************************************)
(* Safety of the window, the socket and the daemon's answers, for any      *)
(* number of requests and daemons and whatever Codex logs.                 *)
(***************************************************************************)
EXTENDS Desktop, TLAPS

Failure == FailureClass \cup {NoFailure}

(* Some class of a line comes first. *)
LEMMA FirstClass ==
  ASSUME NEW line \in Line, line # {}
  PROVE  \E i \in DOMAIN ClassOrder :
            /\ ClassOrder[i] \in line
            /\ \A j \in DOMAIN ClassOrder : ClassOrder[j] \in line => i <= j
<1>1. DOMAIN ClassOrder = 1..11
  BY DEF ClassOrder
<1> DEFINE In(i) == ClassOrder[i] \in line
<1>2. \E i \in 1..11 : In(i)
  BY <1>1 DEF Line, FailureClass
<1>3. \E i \in 1..11 : In(i) /\ \A j \in 1..11 : In(j) => i <= j
  <2> HIDE DEF In
  <2>1. \A i \in 1..11 : i \in {1, 2, 3, 4, 5, 6, 7, 8, 9, 10, 11}
    OBVIOUS
  <2>2. CASE In(1) \/ In(2) \/ In(3) \/ In(4)
    BY <2>1, <2>2
  <2>3. CASE ~In(1) /\ ~In(2) /\ ~In(3) /\ ~In(4) /\ (In(5) \/ In(6) \/ In(7) \/ In(8))
    BY <2>1, <2>3
  <2>4. CASE /\ ~In(1) /\ ~In(2) /\ ~In(3) /\ ~In(4) /\ ~In(5) /\ ~In(6) /\ ~In(7) /\ ~In(8)
             /\ In(9) \/ In(10) \/ In(11)
    BY <2>1, <2>4
  <2> QED BY <1>2, <2>1, <2>2, <2>3, <2>4
<1> QED BY <1>1, <1>3

(* Every line has a class. *)
LEMMA ClassifyType ==
  ASSUME NEW line \in Line
  PROVE  Classify(line) \in FailureClass
<1>1. CASE line = {}
  BY <1>1 DEF Classify, FailureClass
<1>2. CASE line # {}
  <2> DEFINE First(i) == /\ ClassOrder[i] \in line
                         /\ \A j \in DOMAIN ClassOrder : ClassOrder[j] \in line => i <= j
  <2>1. \E i \in DOMAIN ClassOrder : First(i)
    BY <1>2, FirstClass
  <2>2. (CHOOSE i \in DOMAIN ClassOrder : First(i)) \in DOMAIN ClassOrder
    <3> HIDE DEF First
    <3> QED BY <2>1
  <2>3. Classify(line) = ClassOrder[CHOOSE i \in DOMAIN ClassOrder : First(i)]
    BY <1>2 DEF Classify
  <2> HIDE DEF First
  <2> QED BY <2>2, <2>3 DEF FailureClass
<1> QED BY <1>1, <1>2

(* Any status the daemon can put together is one whose parts fit. *)
LEMMA StatusFits ==
  ASSUME NEW p \in BOOLEAN, NEW b \in Best, NEW f \in Failure
  PROVE  StatusOf(p, b, f) \in Status /\ Fits(StatusOf(p, b, f))
<1> DEFINE kind == StatusKind(p, b, f)
           action == Guidance(kind, f)
<1>1. kind \in Kind
  BY DEF StatusKind, Kind
<1>2. FailureAction(f) \in {"open_codex", "wait", "refresh"}
  BY DEF FailureAction
<1>3. f \in NonNetwork => FailureAction(f) \in {"open_codex", "wait"}
  BY DEF FailureAction, NonNetwork
<1>4. action \in Action
  BY <1>2 DEF Guidance, Action
<1>5. p <=> kind = "paused"
  BY DEF StatusKind
<1>6. kind = "paused" <=> action = "resume_protection"
  BY <1>2 DEF Guidance
<1>7. kind = "non_network_failure" => f \in NonNetwork
  BY DEF StatusKind
<1>8. f = "authentication" /\ b = "none" => kind # "vpn_unavailable"
  BY DEF StatusKind, NonNetwork
<1>9. kind = "non_network_failure" => action # "refresh"
  BY <1>3, <1>7 DEF Guidance
<1>10. StatusOf(p, b, f) = [kind |-> kind, paused |-> p, best |-> b, failure |-> f,
                            action |-> action]
  BY DEF StatusOf
<1> HIDE DEF kind, action
<1> QED BY <1>1, <1>4, <1>5, <1>6, <1>8, <1>9, <1>10 DEF Fits, Status, Failure

(* The failure that the daemon finds in the logs is a class or none. *)
LEMMA FailureNow ==
  ASSUME DesktopTypeOK
  PROVE  Now.failure \in Failure
<1>1. (IF log = NoLine THEN NoFailure ELSE Classify(log)) \in Failure
  <2>1. CASE log = NoLine
    BY <2>1 DEF Failure
  <2>2. CASE log # NoLine
    <3>1. log \in Line
      BY <2>2, DesktopAssumption DEF DesktopTypeOK
    <3> QED BY <2>2, <3>1, ClassifyType DEF Failure
  <2> QED BY <2>1, <2>2
<1> QED BY <1>1 DEF Now, StatusOf

Request == [pc : Stage, by : Caller, method : Method, want : BOOLEAN,
            server : Daemon \cup {Nobody}, seen : BOOLEAN, answer : Status \cup {Nothing}]

(* A slot that holds no request. *)
LEMMA FreeType ==
  /\ Free \in Request
  /\ \A by \in Caller : [Free EXCEPT !.pc = "failed", !.by = by] \in Request
  BY DEF Free, Request, Stage, Caller, Method

(* A slot's request keeps its form, and no other slot is touched. *)
Changes(k) ==
    /\ call' \in [Call -> Request]
    /\ \A j \in Call \ {k} : call'[j] = call[j]

(* What a client's action does to the requests: one slot gets one. *)
LEMMA SendType ==
  ASSUME DesktopTypeOK, NEW k \in Call, NEW by \in Caller, NEW method \in Method,
         NEW want \in BOOLEAN, Send(k, by, method, want)
  PROVE  Changes(k) /\ wish' \in BOOLEAN \cup {Nothing}
<1>1. socket \in Daemon \/ ~Listening
  BY DEF Listening
<1>2. [Free EXCEPT !.pc = IF Listening THEN "sent" ELSE "failed",
                   !.by = by, !.method = method, !.want = want,
                   !.server = IF Listening THEN socket ELSE Nobody] \in Request
  <2>1. (IF Listening THEN "sent" ELSE "failed") \in Stage
    BY DEF Stage
  <2>2. (IF Listening THEN socket ELSE Nobody) \in Daemon \cup {Nobody}
    BY <1>1
  <2> DEFINE q == IF Listening THEN "sent" ELSE "failed"
             s == IF Listening THEN socket ELSE Nobody
  <2> HIDE DEF q, s
  <2> QED BY <2>1, <2>2, FreeType DEF Request, q, s
<1>3. call' \in [Call -> Request] /\ \A j \in Call \ {k} : call'[j] = call[j]
  BY <1>2 DEF Send, DesktopTypeOK, Request
<1>4. wish' = wish \/ wish' = Nothing \/ wish' = want
  BY DEF Send, Wish
<1> QED BY <1>3, <1>4 DEF Changes, DesktopTypeOK

(* The timer, the buttons and the CLI send requests and show nothing yet.  *)
LEMMA ClientsSend ==
  ASSUME NEW k \in Call,
         Poll(k) \/ ClickPause(k) \/ ClickGuidance(k) \/ ClickOther(k) \/ Command(k)
  PROVE  /\ \E by \in Caller, method \in Method, want \in BOOLEAN : Send(k, by, method, want)
         /\ UNCHANGED window
<1>0. (window.current = Nothing \/ ~window.current.paused) \in BOOLEAN
  OBVIOUS
<1>1. CASE Poll(k)
  BY <1>1 DEF Poll, Caller, Method
<1>2. CASE ClickPause(k)
  BY <1>0, <1>2 DEF ClickPause, Caller, Method
<1>3. CASE ClickGuidance(k)
  BY <1>3 DEF ClickGuidance, Caller, Method
<1>4. CASE ClickOther(k)
  BY <1>4 DEF ClickOther, Caller, Method
<1>5. CASE Command(k)
  BY <1>5 DEF Command, Caller, Method
<1> QED BY <1>1, <1>2, <1>3, <1>4, <1>5

(* What the daemon makes of a request. *)
LEMMA HandleType ==
  ASSUME DesktopTypeOK, NEW k \in Call, Handle(k)
  PROVE  Changes(k) /\ paused' \in BOOLEAN /\ best' \in Best /\ wish' \in BOOLEAN \cup {Nothing}
<1> USE DEF DesktopTypeOK
<1>0. call \in [Call -> Request] /\ call[k] \in Request
  BY DEF Request
<1>1. CASE Copy(k)
  <2>1. call[k].want \in BOOLEAN
    BY <1>0 DEF Request
  <2>2. (IF call[k].method = "pause" THEN call[k].want ELSE paused) \in BOOLEAN
    BY <2>1
  <2>3. call' \in [Call -> Request]
    BY <1>0, <1>1, <2>2 DEF Copy, Request, Stage
  <2> QED BY <1>0, <1>1, <2>3 DEF Copy, Changes, guard
<1>2. CASE Execute(k)
  <2>1. call[k].seen \in BOOLEAN
    BY <1>0 DEF Request
  <2>2. paused' \in BOOLEAN
    BY <1>2, <2>1 DEF Execute
  <2>3. best' \in Best
    BY <1>2, DesktopAssumption DEF Execute
  <2>4. call' \in [Call -> Request]
    BY <1>0, <1>2 DEF Execute, Request, Stage, Method
  <2> QED BY <1>0, <1>2, <2>2, <2>3, <2>4 DEF Execute, Changes
<1>3. CASE ExecuteFails(k)
  <2>1. [Free EXCEPT !.pc = "failed", !.by = call[k].by] \in Request
    BY <1>0, FreeType DEF Request
  <2>2. call' \in [Call -> Request]
    BY <1>0, <1>3, <2>1 DEF ExecuteFails
  <2> QED BY <1>0, <1>3, <2>2 DEF ExecuteFails, Changes, guard
<1>4. CASE LookAtConfig(k)
  <2>1. call' \in [Call -> Request]
    BY <1>0, <1>4 DEF LookAtConfig, Request, Stage
  <2> QED BY <1>0, <1>4, <2>1 DEF LookAtConfig, Changes, guard
<1>5. CASE Answer(k)
  <2>1. StatusOf(call[k].seen, best, Now.failure) \in Status
    BY <1>0, FailureNow, StatusFits DEF Request
  <2>2. call[k].by \in Caller
    BY <1>0 DEF Request
  <2>3. \A s \in Status, by \in Caller :
           [Free EXCEPT !.pc = "answered", !.by = by, !.answer = s] \in Request
    BY DEF Free, Request, Stage, Method, Caller
  <2>4. call' \in [Call -> Request]
    BY <1>0, <1>5, <2>1, <2>2, <2>3 DEF Answer
  <2> QED BY <1>0, <1>5, <2>4 DEF Answer, Changes, guard
<1> QED BY <1>1, <1>2, <1>3, <1>4, <1>5 DEF Handle

(* The type invariant: every answer and everything shown is a status, and  *)
(* proposes a step that the window knows.                                  *)
THEOREM DesktopTypeCorrect == DesktopSpec => []DesktopTypeOK
<1> USE DEF DesktopTypeOK
<1>1. DesktopInit => DesktopTypeOK
  <2> SUFFICES ASSUME DesktopInit PROVE DesktopTypeOK
    OBVIOUS
  <2>1. call \in [Call -> Request]
    BY FreeType DEF DesktopInit
  <2> QED BY <2>1 DEF DesktopInit, Best, Request
<1>2. DesktopTypeOK /\ [DesktopNext]_desktopVars => DesktopTypeOK'
  <2> SUFFICES ASSUME DesktopTypeOK, [DesktopNext]_desktopVars PROVE DesktopTypeOK'
    OBVIOUS
  <2>0. call \in [Call -> Request]
    BY DEF Request
  <2>1. ASSUME NEW d \in Daemon, Start(d) \/ Clear(d) \/ Listen(d) PROVE DesktopTypeOK'
    BY <2>1, DesktopAssumption DEF Start, Clear, Listen, guard
  <2>2. ASSUME NEW d \in Daemon, Crash(d) PROVE DesktopTypeOK'
    <3>1. \A k \in Call : [Free EXCEPT !.pc = "failed", !.by = call[k].by] \in Request
      BY <2>0, FreeType DEF Request
    <3>2. call' \in [Call -> Request]
      BY <2>0, <2>2, <3>1 DEF Crash
    <3>3. paused' \in BOOLEAN
      <4>1. \A k \in Call : call[k].seen \in BOOLEAN
        BY <2>0 DEF Request
      <4> QED BY <2>2, <4>1 DEF Crash, HalfSaved
    <3> QED BY <2>2, <3>2, <3>3 DEF Crash, Request
  <2>3. ASSUME NEW k \in Call, Poll(k) PROVE DesktopTypeOK'
    <3>1. Changes(k) /\ wish' \in BOOLEAN \cup {Nothing}
      BY <2>3, SendType DEF Poll, Caller, Method
    <3> QED BY <2>3, <3>1 DEF Poll, Send, Changes, link, guard, Request
  <2>4. ASSUME NEW k \in Call, Handle(k) PROVE DesktopTypeOK'
    <3>1. UNCHANGED <<link, log, window>>
      BY <2>4 DEF Handle, Copy, Execute, ExecuteFails, LookAtConfig, Answer, guard
    <3> QED BY <2>4, <3>1, HandleType DEF Changes, link, Request
  <2>5. ASSUME NEW k \in Call, Deliver(k) PROVE DesktopTypeOK'
    <3>1. call' \in [Call -> Request]
      BY <2>0, <2>5, FreeType DEF Deliver
    <3>2. window' \in [card : {"loading", "status", "unavailable"},
                       current : Status \cup {Nothing}, onboarding : BOOLEAN]
      <4>1. call[k].answer \in Status \cup {Nothing}
        BY <2>0 DEF Request
      <4>2. \/ window' = Loaded(call[k].answer) \/ window' = Rendered(call[k].answer)
            \/ window' = Unavailable \/ window' = window
        BY <2>5 DEF Deliver
      <4> QED BY <4>1, <4>2 DEF Loaded, Rendered, Unavailable
    <3> QED BY <2>5, <3>1, <3>2 DEF Deliver, link, guard, Request
  <2>6. ASSUME NEW k \in Call, ClickPause(k) \/ ClickGuidance(k) \/ ClickOther(k) \/ Command(k)
        PROVE  DesktopTypeOK'
    <3>1. \E by \in Caller, method \in Method, want \in BOOLEAN : Send(k, by, method, want)
      BY <2>6, ClientsSend
    <3>2. UNCHANGED window
      BY <2>6, ClientsSend
    <3>3. Changes(k) /\ wish' \in BOOLEAN \cup {Nothing}
      BY <3>1, SendType
    <3>4. UNCHANGED <<link, guard>>
      BY <3>1 DEF Send
    <3> QED BY <3>2, <3>3, <3>4 DEF Changes, link, guard, Request
  <2>7. CASE ChangeLocale
    BY <2>7 DEF ChangeLocale, Rendered, link, guard
  <2>8. CASE ListChanges \/ CodexLogs
    BY <2>8, DesktopAssumption DEF ListChanges, CodexLogs, link
  <2>9. CASE UNCHANGED desktopVars
    BY <2>9 DEF desktopVars, link, guard
  <2> QED BY <2>1, <2>2, <2>3, <2>4, <2>5, <2>6, <2>7, <2>8, <2>9 DEF DesktopNext, UserNext
<1> QED BY <1>1, <1>2, PTL DEF DesktopSpec

(* Only one process gets past the relay's port. *)
OneDaemon ==
    /\ \A d, e \in Daemon : proc[d] # "off" /\ proc[e] # "off" => d = e
    /\ SocketReachesDaemon

(* For any number of daemons that are started and end at any time, the one *)
(* that serves is the one the socket leads to.                             *)
THEOREM SocketCorrect == DesktopSpec => []SocketReachesDaemon
<1> USE DEF OneDaemon, SocketReachesDaemon, Serving
<1>1. DesktopInit => OneDaemon
  BY DEF DesktopInit
<1>2. OneDaemon /\ DesktopTypeOK /\ [DesktopNext]_desktopVars => OneDaemon'
  <2> SUFFICES ASSUME OneDaemon, DesktopTypeOK, [DesktopNext]_desktopVars PROVE OneDaemon'
    OBVIOUS
  <2>0. proc \in [Daemon -> {"off", "started", "cleared", "serving"}]
    BY DEF DesktopTypeOK
  <2>1. ASSUME NEW d \in Daemon, Start(d) PROVE OneDaemon'
    BY <2>0, <2>1 DEF Start
  <2>2. ASSUME NEW d \in Daemon, Clear(d) PROVE OneDaemon'
    BY <2>0, <2>2 DEF Clear
  <2>3. ASSUME NEW d \in Daemon, Listen(d) PROVE OneDaemon'
    BY <2>0, <2>3 DEF Listen
  <2>4. ASSUME NEW d \in Daemon, Crash(d) PROVE OneDaemon'
    BY <2>0, <2>4 DEF Crash
  <2>5. CASE UNCHANGED link
    BY <2>5 DEF link
  <2>6. ASSUME NEW k \in Call, Poll(k) \/ Handle(k) \/ Deliver(k) PROVE UNCHANGED link
    BY <2>6 DEF Poll, Handle, Deliver, Send, Copy, Execute, ExecuteFails, LookAtConfig, Answer
  <2>7. CASE UserNext
    BY <2>5, <2>7 DEF UserNext, ClickPause, ClickGuidance, ClickOther, Command, ChangeLocale, Send
  <2>8. CASE ListChanges \/ CodexLogs \/ UNCHANGED desktopVars
    BY <2>5, <2>8 DEF ListChanges, CodexLogs, desktopVars
  <2> QED BY <2>1, <2>2, <2>3, <2>4, <2>5, <2>6, <2>7, <2>8 DEF DesktopNext
<1> QED BY <1>1, <1>2, DesktopTypeCorrect, PTL DEF DesktopSpec

(* Whatever is read in between, what is answered and shown fits together,  *)
(* for all lines that Codex may log.                                       *)
THEOREM GuidanceCorrect == DesktopSpec => []GuidanceFits
<1> DEFINE Fine(s) == s = Nothing \/ Fits(s)
           AllFine == Fine(window.current) /\ \A k \in Call : Fine(call[k].answer)
<1>1. DesktopInit => AllFine
  BY DEF DesktopInit, Free
<1>2. AllFine /\ DesktopTypeOK /\ [DesktopNext]_desktopVars => AllFine'
  <2> SUFFICES ASSUME AllFine, DesktopTypeOK, [DesktopNext]_desktopVars PROVE AllFine'
    OBVIOUS
  <2> HIDE DEF Fine
  <2>0. call \in [Call -> Request] /\ Fine(Nothing) /\ Free.answer = Nothing
    BY DEF DesktopTypeOK, Request, Fine, Free
  <2>1. ASSUME NEW k \in Call, Answer(k) PROVE AllFine'
    <3>1. call[k].seen \in BOOLEAN /\ best \in Best
      BY <2>0 DEF Request, DesktopTypeOK
    <3>2. Fine(StatusOf(call[k].seen, best, Now.failure))
      BY <3>1, FailureNow, StatusFits DEF Fine
    <3>3. call'[k].answer = StatusOf(call[k].seen, best, Now.failure)
      BY <2>0, <2>1 DEF Answer, Free
    <3>4. \A j \in Call \ {k} : call'[j] = call[j]
      BY <2>0, <2>1 DEF Answer
    <3>5. UNCHANGED window
      BY <2>1 DEF Answer
    <3> QED BY <3>2, <3>3, <3>4, <3>5
  <2>2. ASSUME NEW k \in Call, Copy(k) \/ Execute(k) \/ ExecuteFails(k) \/ LookAtConfig(k)
        PROVE  AllFine'
    <3>1. UNCHANGED window
      BY <2>2 DEF Copy, Execute, ExecuteFails, LookAtConfig
    <3>2. call'[k].answer \in {call[k].answer, Nothing}
      <4>1. CASE Copy(k)
        BY <2>0, <4>1 DEF Copy, Request
      <4>2. CASE Execute(k)
        BY <2>0, <4>2 DEF Execute, Request
      <4>3. CASE ExecuteFails(k)
        BY <2>0, <4>3 DEF ExecuteFails, Free
      <4>4. CASE LookAtConfig(k)
        BY <2>0, <4>4 DEF LookAtConfig, Request
      <4> QED BY <2>2, <4>1, <4>2, <4>3, <4>4
    <3>3. \A j \in Call \ {k} : call'[j] = call[j]
      BY <2>0, <2>2 DEF Copy, Execute, ExecuteFails, LookAtConfig
    <3> QED BY <2>0, <3>1, <3>2, <3>3
  <2>3. ASSUME NEW d \in Daemon, Crash(d) PROVE AllFine'
    <3>1. \A k \in Call : call'[k].answer \in {call[k].answer, Nothing}
      BY <2>0, <2>3 DEF Crash, Free
    <3> QED BY <2>0, <2>3, <3>1 DEF Crash
  <2>4. ASSUME NEW k \in Call, Deliver(k) PROVE AllFine'
    <3>1. \A j \in Call : call'[j] = IF j = k THEN Free ELSE call[j]
      BY <2>0, <2>4 DEF Deliver
    <3>2. window'.current \in {window.current, call[k].answer}
      <4>1. \/ window' = Loaded(call[k].answer) \/ window' = Rendered(call[k].answer)
            \/ window' = Unavailable \/ window' = window
        BY <2>4 DEF Deliver
      <4> QED BY <4>1 DEF Loaded, Rendered, Unavailable, DesktopTypeOK
    <3> QED BY <2>0, <3>1, <3>2
  <2>5. ASSUME NEW k \in Call, NEW by \in Caller, NEW method \in Method, NEW want \in BOOLEAN,
               Send(k, by, method, want), UNCHANGED window
        PROVE  AllFine'
    <3>1. call'[k].answer = Nothing
      BY <2>0, <2>5 DEF Send, Free
    <3>2. \A j \in Call \ {k} : call'[j] = call[j]
      BY <2>0, <2>5 DEF Send
    <3> QED BY <2>0, <2>5, <3>1, <3>2
  <2>6. CASE UNCHANGED <<call, window>>
    BY <2>6
  <2>7. ASSUME NEW k \in Call,
               Poll(k) \/ ClickPause(k) \/ ClickGuidance(k) \/ ClickOther(k) \/ Command(k)
        PROVE  AllFine'
    <3>1. \E by \in Caller, method \in Method, want \in BOOLEAN : Send(k, by, method, want)
      BY <2>7, ClientsSend
    <3>2. UNCHANGED window
      BY <2>7, ClientsSend
    <3> QED BY <2>5, <3>1, <3>2
  <2>8. CASE ChangeLocale
    <3>1. window'.current = window.current /\ UNCHANGED call
      BY <2>8 DEF ChangeLocale, Rendered, DesktopTypeOK
    <3> QED BY <3>1
  <2>9. ASSUME NEW d \in Daemon, Start(d) \/ Clear(d) \/ Listen(d) PROVE AllFine'
    BY <2>6, <2>9 DEF Start, Clear, Listen
  <2>10. CASE ListChanges \/ CodexLogs \/ UNCHANGED desktopVars
    BY <2>6, <2>10 DEF ListChanges, CodexLogs, desktopVars
  <2> HIDE DEF AllFine
  <2> QED BY <2>1, <2>2, <2>3, <2>4, <2>7, <2>8, <2>9, <2>10 DEF DesktopNext, UserNext, Handle
<1>3. AllFine => GuidanceFits
  BY DEF GuidanceFits, Shown
<1> QED BY <1>1, <1>2, <1>3, DesktopTypeCorrect, PTL DEF DesktopSpec

(* While the last request for a pause counts there is at most one change   *)
(* under way, and it is that request or carries its value on.              *)
Carries(k) ==
    IF call[k].method = "pause"
    THEN IF call[k].pc = "sent" THEN call[k].want = wish ELSE call[k].seen = wish
    ELSE paused = wish /\ (call[k].pc = "copied" => call[k].seen = wish)

RequestInv ==
    wish # Nothing =>
        /\ \A j, k \in Call : Editing(j) /\ Editing(k) => j = k
        /\ \A k \in Call : Editing(k) => Carries(k)
        /\ (\A k \in Call : ~Editing(k)) => paused = wish

(* The value of the last request for a pause holds until another change    *)
(* overlaps it, for any number of requests at once.                        *)
THEOREM LastRequestCorrect == DesktopSpec => []LastRequestHolds
<1>1. DesktopInit => RequestInv
  BY DEF DesktopInit, RequestInv
<1>2. RequestInv /\ DesktopTypeOK /\ [DesktopNext]_desktopVars => RequestInv'
  <2> SUFFICES ASSUME RequestInv, DesktopTypeOK, [DesktopNext]_desktopVars PROVE RequestInv'
    OBVIOUS
  <2>0. call \in [Call -> Request]
    BY DEF DesktopTypeOK, Request
  <2>1. ASSUME NEW k \in Call, NEW by \in Caller, NEW method \in Method, NEW want \in BOOLEAN,
               Send(k, by, method, want)
        PROVE  RequestInv'
    <3>1. \A j \in Call \ {k} : call'[j] = call[j]
      BY <2>0, <2>1 DEF Send
    <3>2. UNCHANGED paused /\ wish' = Wish(method, want)
      BY <2>1 DEF Send, guard
    <3>3. /\ call'[k].method = method /\ call'[k].want = want
          /\ call'[k].pc = IF Listening THEN "sent" ELSE "failed"
      BY <2>0, <2>1 DEF Send, Free
    <3>4. ~Editing(k)
      BY <2>1 DEF Send, Editing
    <3>5. \A j \in Call \ {k} : Editing(j)' <=> Editing(j)
      BY <3>1 DEF Editing
    <3>6. CASE ~Listening \/ method \notin Edit
      <4>1. ~Editing(k)' /\ wish' = wish
        BY <3>2, <3>3, <3>6 DEF Editing, Wish
      <4>2. \A j \in Call : Editing(j)' => Editing(j) /\ call'[j] = call[j]
        BY <3>1, <3>5, <4>1
      <4>3. \A j \in Call : Editing(j) => Editing(j)'
        BY <3>4, <3>5
      <4> QED BY <3>2, <4>1, <4>2, <4>3 DEF RequestInv, Carries
    <3>7. CASE Listening /\ method \in Edit /\ \E j \in Call : Editing(j)
      BY <3>2, <3>7 DEF Wish, RequestInv
    <3>8. CASE Listening /\ method \in Edit /\ \A j \in Call : ~Editing(j)
      <4>1. \A j \in Call : Editing(j)' <=> j = k
        BY <3>3, <3>5, <3>8 DEF Editing
      <4>2. wish' = IF method = "pause" THEN want ELSE wish
        BY <3>2, <3>8 DEF Wish
      <4>3. wish' # Nothing => Carries(k)'
        BY <3>2, <3>3, <3>8, <4>2 DEF RequestInv, Carries
      <4> QED BY <4>1, <4>3 DEF RequestInv
    <3> QED BY <3>6, <3>7, <3>8
  <2>2. ASSUME NEW k \in Call, Copy(k) PROVE RequestInv'
    <3>1. \A j \in Call \ {k} : call'[j] = call[j]
      BY <2>0, <2>2 DEF Copy
    <3>2. UNCHANGED <<paused, wish>>
      BY <2>2 DEF Copy, guard
    <3>3. /\ call'[k].method = call[k].method /\ call'[k].pc = "copied"
          /\ call'[k].seen = IF call[k].method = "pause" THEN call[k].want ELSE paused
      BY <2>0, <2>2 DEF Copy, Request
    <3>4. Editing(k) /\ \A j \in Call : Editing(j)' <=> Editing(j)
      BY <2>2, <3>1, <3>3 DEF Editing, Copy
    <3>5. ASSUME wish # Nothing, NEW j \in Call, Editing(j) PROVE Carries(j)'
      <4>1. j = k /\ Carries(k)
        BY <3>4, <3>5 DEF RequestInv
      <4> QED BY <2>2, <3>2, <3>3, <4>1 DEF Carries, Copy
    <3> QED BY <3>2, <3>4, <3>5 DEF RequestInv
  <2>3. ASSUME NEW k \in Call, Execute(k) PROVE RequestInv'
    <3>1. \A j \in Call \ {k} : call'[j] = call[j]
      BY <2>0, <2>3 DEF Execute
    <3>2. UNCHANGED wish /\ paused' = IF call[k].method \in Edit THEN call[k].seen ELSE paused
      BY <2>3 DEF Execute
    <3>3. call'[k].pc = "executed"
      BY <2>0, <2>3 DEF Execute, Request
    <3>4. ~Editing(k)' /\ \A j \in Call \ {k} : Editing(j)' <=> Editing(j)
      BY <3>1, <3>3 DEF Editing
    <3>5. CASE call[k].method \in Edit
      <4>1. call[k].pc = "copied" /\ Editing(k)
        BY <2>3, <3>5 DEF Execute, Editing
      <4>2. ASSUME wish # Nothing
            PROVE  paused' = wish /\ \A j \in Call : ~Editing(j)'
        <5>1. Carries(k) /\ \A j \in Call \ {k} : ~Editing(j)
          BY <4>1, <4>2 DEF RequestInv
        <5>2. call[k].seen = wish
          BY <4>1, <5>1 DEF Carries
        <5> QED BY <3>2, <3>4, <3>5, <5>1, <5>2
      <4> QED BY <3>2, <4>2 DEF RequestInv
    <3>6. CASE call[k].method \notin Edit
      <4>1. ~Editing(k) /\ paused' = paused
        BY <3>2, <3>6 DEF Editing
      <4> QED BY <3>1, <3>2, <3>4, <4>1 DEF RequestInv, Carries
    <3> QED BY <3>5, <3>6
  <2>4. ASSUME NEW k \in Call, ExecuteFails(k) PROVE RequestInv'
    <3>1. \A j \in Call \ {k} : call'[j] = call[j]
      BY <2>0, <2>4 DEF ExecuteFails
    <3>2. /\ wish' = IF call[k].method = "pause" THEN Nothing ELSE wish
          /\ \/ UNCHANGED paused
             \/ Editing(k) /\ call[k].pc = "copied" /\ paused' = call[k].seen
      BY <2>4 DEF ExecuteFails, Editing, Edit
    <3>3. call'[k].pc = "failed"
      BY <2>0, <2>4 DEF ExecuteFails, Free
    <3>4. ~Editing(k)' /\ \A j \in Call \ {k} : Editing(j)' <=> Editing(j)
      BY <3>1, <3>3 DEF Editing
    <3>5. ASSUME wish' # Nothing PROVE (\A j \in Call : ~Editing(j)') => paused' = wish'
      <4>1. wish' = wish /\ call[k].method # "pause"
        BY <3>2, <3>5
      <4>2. CASE Editing(k)
        <5>1. Carries(k)
          BY <3>5, <4>1, <4>2 DEF RequestInv
        <5> QED BY <3>2, <4>1, <5>1 DEF Carries
      <4>3. CASE ~Editing(k)
        BY <3>2, <3>4, <3>5, <4>1, <4>3 DEF RequestInv
      <4> QED BY <4>2, <4>3
    <3>6. ASSUME wish' # Nothing, NEW j \in Call, Editing(j)' PROVE Carries(j)'
      <4>1. j # k /\ Editing(j) /\ wish' = wish
        BY <3>2, <3>4, <3>6
      <4>2. Carries(j) /\ ~Editing(k)
        BY <3>6, <4>1 DEF RequestInv
      <4>3. UNCHANGED paused
        BY <3>2, <4>2
      <4> QED BY <3>1, <4>1, <4>2, <4>3 DEF Carries
    <3> QED BY <3>2, <3>4, <3>5, <3>6 DEF RequestInv
  <2>5. ASSUME NEW k \in Call, LookAtConfig(k) \/ Answer(k) \/ Deliver(k) PROVE RequestInv'
    <3>1. \A j \in Call \ {k} : call'[j] = call[j]
      BY <2>0, <2>5 DEF LookAtConfig, Answer, Deliver
    <3>2. UNCHANGED <<paused, wish>>
      BY <2>5 DEF LookAtConfig, Answer, Deliver, guard
    <3>3. call'[k].pc \in {"looked", "answered", "free"}
      <4>1. CASE LookAtConfig(k)
        BY <2>0, <4>1 DEF LookAtConfig, Request
      <4>2. CASE Answer(k)
        BY <2>0, <4>2 DEF Answer, Free
      <4>3. CASE Deliver(k)
        BY <2>0, <4>3 DEF Deliver, Free
      <4> QED BY <2>5, <4>1, <4>2, <4>3
    <3>4. ~Editing(k) /\ ~Editing(k)'
      BY <2>5, <3>3 DEF Editing, LookAtConfig, Answer, Deliver
    <3>5. \A j \in Call : Editing(j)' <=> Editing(j)
      BY <3>1, <3>4 DEF Editing
    <3>6. \A j \in Call : Editing(j) => (Carries(j)' <=> Carries(j))
      BY <3>1, <3>2, <3>4 DEF Carries
    <3> QED BY <3>2, <3>5, <3>6 DEF RequestInv
  <2>6. ASSUME NEW d \in Daemon, Crash(d) PROVE RequestInv'
    <3>1. CASE \E k \in Call : Editing(k)
      BY <2>6, <3>1 DEF Crash, RequestInv
    <3>2. CASE \A k \in Call : ~Editing(k)
      <4>1. UNCHANGED <<paused, wish>>
        <5>1. HalfSaved(d) = {}
          BY <3>2 DEF HalfSaved
        <5> QED BY <2>6, <3>2, <5>1 DEF Crash
      <4>2. \A k \in Call : call'[k] = call[k] \/ call'[k].pc = "failed"
        BY <2>0, <2>6 DEF Crash, Free
      <4>3. \A k \in Call : ~Editing(k)'
        BY <3>2, <4>2 DEF Editing
      <4> QED BY <3>2, <4>1, <4>3 DEF RequestInv
    <3> QED BY <3>1, <3>2
  <2>7. CASE UNCHANGED <<paused, call, wish>>
    BY <2>7 DEF RequestInv, Carries, Editing
  <2>8. ASSUME NEW k \in Call,
               Poll(k) \/ ClickPause(k) \/ ClickGuidance(k) \/ ClickOther(k) \/ Command(k)
        PROVE  RequestInv'
    BY <2>1, <2>8, ClientsSend
  <2>9. ASSUME NEW d \in Daemon, Start(d) \/ Clear(d) \/ Listen(d) PROVE RequestInv'
    BY <2>7, <2>9 DEF Start, Clear, Listen, guard
  <2>10. CASE ChangeLocale \/ ListChanges \/ CodexLogs \/ UNCHANGED desktopVars
    BY <2>7, <2>10 DEF ChangeLocale, ListChanges, CodexLogs, desktopVars, guard
  <2> HIDE DEF RequestInv
  <2> QED BY <2>2, <2>3, <2>4, <2>5, <2>6, <2>8, <2>9, <2>10 DEF DesktopNext, UserNext, Handle
<1>3. RequestInv => LastRequestHolds
  BY DEF RequestInv, LastRequestHolds
<1> QED BY <1>1, <1>2, <1>3, DesktopTypeCorrect, PTL DEF DesktopSpec
=============================================================================
