-------------------------------- MODULE Desktop --------------------------------
(***************************************************************************)
(* The clients of the daemon and the local socket between them: the        *)
(* desktop's window, which polls, sends requests for its buttons and       *)
(* renders the answers as they come, and the CLI.                          *)
(*                                                                         *)
(* Every request has a connection and a task of the daemon of its own, so  *)
(* requests overtake each other, and so do answers.  A daemon may end at   *)
(* any time and leaves its socket file behind; another, or a second one,   *)
(* may start at any time.  The steps of save_config are HealthRefresh's    *)
(* matter, and what a refresh publishes: here it may be anything.          *)
(***************************************************************************)
EXTENDS GuardStatus

CONSTANTS
    Daemon,         \* processes that run cngd
    Call,           \* requests that may be under way at a time
    Timer,          \* the one that only the timer of the window uses
    Lines,          \* lines that Codex may log
    Bests,          \* what the best state of a list may be
    NoLine, Nothing, Nobody, Stale

ASSUME DesktopAssumption ==
    /\ Timer \in Call
    /\ Lines \subseteq Line /\ Bests \subseteq Best
    /\ {Nobody, Stale} \cap Daemon = {}

VARIABLES
    proc,           \* how far each daemon is
    socket,         \* the daemon that bound the socket file there is, Nobody
                    \* if there is none, Stale if that daemon has ended
    paused,         \* the configuration's flag, which outlives a daemon
    best,           \* the best state in the daemon's list
    log,            \* the last line in Codex's logs that tells of a failure
    call,           \* the requests
    window,         \* what the desktop shows and remembers
    wish            \* history: what the last pause or resume asked for, if
                    \* no other change of the configuration overlapped it

link == <<proc, socket>>
guard == <<paused, best, log>>
desktopVars == <<link, guard, call, window, wish>>

Method == {"status", "refresh", "pause", "upstream", "remote"}

(* They write back a copy of the configuration, with their own field set. *)
Edit == {"pause", "upstream", "remote"}

(* Where the answer goes: load renders it, or that there is none; a click  *)
(* renders it, or shows the error as text; the rest, and the CLI, is text. *)
Caller == {"load", "click", "text"}

Free == [pc |-> "free", by |-> "text", method |-> "status", want |-> FALSE,
         server |-> Nobody, seen |-> FALSE, answer |-> Nothing]

Stage == {"free", "sent", "copied", "executed", "looked", "answered", "failed"}

DesktopTypeOK ==
    /\ proc \in [Daemon -> {"off", "started", "cleared", "serving"}]
    /\ socket \in Daemon \cup {Nobody, Stale}
    /\ paused \in BOOLEAN /\ best \in Best /\ log \in Lines \cup {NoLine}
    /\ call \in [Call -> [pc : Stage,
                          by : Caller, method : Method, want : BOOLEAN,
                          server : Daemon \cup {Nobody}, seen : BOOLEAN,
                          answer : Status \cup {Nothing}]]
    /\ window \in [card : {"loading", "status", "unavailable"},
                   current : Status \cup {Nothing}, onboarding : BOOLEAN]
    /\ wish \in BOOLEAN \cup {Nothing}

DesktopInit ==
    /\ proc = [d \in Daemon |-> "off"]
    /\ socket = Nobody
    /\ paused = FALSE /\ best = "none" /\ log = NoLine
    /\ call = [k \in Call |-> Free]
    /\ window = [card |-> "loading", current |-> Nothing, onboarding |-> FALSE]
    /\ wish = Nothing

Now == StatusOf(paused, best, IF log = NoLine THEN NoFailure ELSE Classify(log))

Serving(d) == proc[d] = "serving"

Listening == socket \in Daemon /\ Serving(socket)

---------------------------------------------------------------------------
(* The daemon's side: main and run_server.                                 *)

(* mutant: the relay's port is bound after the socket *)
StartAnyway(d) ==
    /\ proc[d] = "off"
    /\ proc' = [proc EXCEPT ![d] = "started"]
    /\ best' \in Bests
    /\ UNCHANGED <<socket, paused, log, call, window, wish>>

(* The relay's port can be bound, then the first refresh is done. *)
Start(d) ==
    /\ \A e \in Daemon : proc[e] = "off"
    /\ proc' = [proc EXCEPT ![d] = "started"]
    /\ best' \in Bests
    /\ UNCHANGED <<socket, paused, log, call, window, wish>>

(* run_server removes the file that is there, *)
Clear(d) ==
    /\ proc[d] = "started"
    /\ proc' = [proc EXCEPT ![d] = "cleared"]
    /\ socket' = Nobody
    /\ UNCHANGED <<guard, call, window, wish>>

(* and binds its own. *)
Listen(d) ==
    /\ proc[d] = "cleared"
    /\ socket = Nobody
    /\ proc' = [proc EXCEPT ![d] = "serving"]
    /\ socket' = d
    /\ UNCHANGED <<guard, call, window, wish>>

UnderWay(k) == call[k].pc \in {"sent", "copied", "executed", "looked"}

Editing(k) == call[k].method \in Edit /\ call[k].pc \in {"sent", "copied"}

(* What the file may say by then of a daemon that ends in save_config. *)
HalfSaved(d) ==
    {call[k].seen : k \in {c \in Call : Editing(c) /\ call[c].pc = "copied"
                                        /\ call[c].server = d}}

(* It ends: what it had not answered, the callers see as an error, and a   *)
(* copy that is in the file by then is the next daemon's configuration.    *)
Crash(d) ==
    /\ proc[d] # "off"
    /\ proc' = [proc EXCEPT ![d] = "off"]
    /\ call' = [k \in Call |-> IF UnderWay(k) /\ call[k].server = d
                               THEN [Free EXCEPT !.pc = "failed", !.by = call[k].by]
                               ELSE call[k]]
    /\ wish' = IF \E k \in Call : Editing(k) THEN Nothing ELSE wish
    /\ socket' = IF socket = d THEN Stale ELSE socket
    /\ paused' \in {paused} \cup HalfSaved(d)
    /\ UNCHANGED <<best, log, window>>

(* mutant: the daemon turns its flag over *)
Toggle(k) ==
    /\ call[k].pc = "sent" /\ call[k].method \in Edit
    /\ call' = [call EXCEPT ![k].pc = "copied", ![k].want = FALSE,
                            ![k].seen = IF call[k].method = "pause" THEN ~paused ELSE paused]
    /\ UNCHANGED <<link, guard, window, wish>>

(* process_line; a change of the configuration is made in a copy first, *)
Copy(k) ==
    /\ call[k].pc = "sent" /\ call[k].method \in Edit
    /\ call' = [call EXCEPT ![k].pc = "copied", ![k].want = FALSE,
                            ![k].seen = IF call[k].method = "pause" THEN call[k].want ELSE paused]
    /\ UNCHANGED <<link, guard, window, wish>>

(* which is saved, however old it is (remote.start runs Codex in between). *)
(* Or there is a refresh, or nothing is to be done before the status.      *)
Execute(k) ==
    /\ call[k].pc = IF call[k].method \in Edit THEN "copied" ELSE "sent"
    /\ call' = [call EXCEPT ![k] = [@ EXCEPT !.pc = "executed", !.method = "status",
                                              !.seen = FALSE]]
    /\ paused' = IF call[k].method \in Edit THEN call[k].seen ELSE paused
    /\ best' \in IF call[k].method \in {"refresh", "upstream"} THEN Bests ELSE {best}
    /\ UNCHANGED <<link, log, window, wish>>

(* An error of save_config, or of the refresh or the run of Codex that may *)
(* follow it: request_failed.                                              *)
ExecuteFails(k) ==
    /\ call[k].pc \in {"sent", "copied"}
    /\ call[k].method # "status"
    /\ call' = [call EXCEPT ![k] = [Free EXCEPT !.pc = "failed", !.by = call[k].by]]
    /\ paused' \in IF call[k].pc = "copied" /\ call[k].method \in {"upstream", "remote"}
                   THEN {paused, call[k].seen} ELSE {paused}
    /\ wish' = IF call[k].method = "pause" THEN Nothing ELSE wish
    /\ UNCHANGED <<link, best, log, window>>

(* AppState::status copies the configuration first, *)
LookAtConfig(k) ==
    /\ call[k].pc = "executed"
    /\ call' = [call EXCEPT ![k].pc = "looked", ![k].seen = paused]
    /\ UNCHANGED <<link, guard, window, wish>>

(* then the list and the logs. *)
Answer(k) ==
    /\ call[k].pc = "looked"
    /\ call' = [call EXCEPT ![k] =
                  [Free EXCEPT !.pc = "answered", !.by = call[k].by,
                               !.answer = StatusOf(call[k].seen, best, Now.failure)]]
    /\ UNCHANGED <<link, guard, window, wish>>

Handle(k) == Copy(k) \/ Execute(k) \/ ExecuteFails(k) \/ LookAtConfig(k) \/ Answer(k)

---------------------------------------------------------------------------
(* The callers: rpc::call, app.js, the CLI.                                *)

(* What the requests for pause and resume come to, if they do. *)
Wish(method, want) ==
    IF ~Listening \/ method \notin Edit THEN wish
    ELSE IF \E k \in Call : Editing(k) THEN Nothing
    ELSE IF method = "pause" THEN want ELSE wish

(* Connect and write one line, or find nobody there. *)
Send(k, by, method, want) ==
    /\ call[k].pc = "free"
    /\ call' = [call EXCEPT ![k] =
                  [Free EXCEPT !.pc = IF Listening THEN "sent" ELSE "failed",
                               !.by = by, !.method = method, !.want = want,
                               !.server = IF Listening THEN socket ELSE Nobody]]
    /\ wish' = Wish(method, want)
    /\ UNCHANGED <<link, guard>>

(* mutant: the timer is set again only when an answer came *)
PollWhileFine(k) ==
    /\ window.card # "unavailable"
    /\ Send(k, "load", "status", FALSE)
    /\ UNCHANGED <<window>>

(* setInterval, and the load at the start. *)
Poll(k) ==
    /\ Send(k, "load", "status", FALSE)
    /\ UNCHANGED <<window>>

(* The button: { paused: !current?.paused }. *)
ClickPause(k) ==
    /\ Send(k, "click", "pause", window.current = Nothing \/ ~window.current.paused)
    /\ UNCHANGED <<window>>

(* runGuidanceAction, as far as it changes anything here. *)
ClickGuidance(k) ==
    /\ window.current # Nothing
    /\ CASE window.current.action = "resume_protection" -> Send(k, "click", "pause", FALSE)
         [] window.current.action = "refresh" -> Send(k, "load", "refresh", FALSE)
         [] OTHER -> FALSE
    /\ UNCHANGED <<window>>

(* The other buttons; the wizard ends with a load. *)
ClickOther(k) ==
    /\ \/ \E method \in {"status", "refresh"} : Send(k, "load", method, FALSE)
       \/ Send(k, "click", "upstream", FALSE)
       \/ Send(k, "text", "remote", FALSE)
    /\ UNCHANGED window

(* cng pause and resume; its other commands change what the buttons do. *)
Command(k) ==
    /\ \E want \in BOOLEAN : Send(k, "text", "pause", want)
    /\ UNCHANGED window

Rendered(status) == [window EXCEPT !.card = "status", !.current = status]

Loaded(status) == [Rendered(status) EXCEPT !.onboarding = FALSE]

Unavailable == [window EXCEPT !.card = "unavailable", !.onboarding = TRUE]

(* mutant: an error leaves what is shown *)
DeliverAnswers(k) ==
    /\ call[k].pc \in {"answered", "failed"}
    /\ call' = [call EXCEPT ![k] = Free]
    /\ window' = IF call[k].pc = "answered" /\ call[k].by # "text"
                 THEN Loaded(call[k].answer) ELSE window
    /\ UNCHANGED <<link, guard, wish>>

(* The line comes, or the connection ends; load, render and showOutput. *)
Deliver(k) ==
    /\ call[k].pc \in {"answered", "failed"}
    /\ call' = [call EXCEPT ![k] = Free]
    /\ window' =
          CASE call[k].by = "load"  /\ call[k].pc = "answered" -> Loaded(call[k].answer)
            [] call[k].by = "load"  /\ call[k].pc = "failed" -> Unavailable
            [] call[k].by = "click" /\ call[k].pc = "answered" -> Rendered(call[k].answer)
            [] OTHER -> window
    /\ UNCHANGED <<link, guard, wish>>

(* The texts are shown again in the other language. *)
ChangeLocale ==
    /\ window.current # Nothing
    /\ window' = Rendered(window.current)
    /\ UNCHANGED <<link, guard, call, wish>>

---------------------------------------------------------------------------
(* The rest of the world: the health loop, and Codex's logs.               *)

ListChanges ==
    /\ \E d \in Daemon : Serving(d)
    /\ best' \in Bests
    /\ UNCHANGED <<link, paused, log, call, window, wish>>

CodexLogs ==
    /\ log' \in Lines \cup {NoLine}
    /\ UNCHANGED <<link, paused, best, call, window, wish>>

UserNext ==
    \/ \E k \in Call \ {Timer} : ClickPause(k) \/ ClickGuidance(k) \/ ClickOther(k)
                                 \/ Command(k)
    \/ ChangeLocale

DesktopNext ==
    \/ \E d \in Daemon : Start(d) \/ Clear(d) \/ Listen(d) \/ Crash(d)
    \/ \E k \in Call : Poll(k) \/ Handle(k) \/ Deliver(k)
    \/ UserNext
    \/ ListChanges \/ CodexLogs

DesktopSpec == DesktopInit /\ [][DesktopNext]_desktopVars

(* A daemon that serves answers, the timer fires, an answer is shown.      *)
DesktopFairness ==
    /\ WF_desktopVars(Poll(Timer))
    /\ \A k \in Call : WF_desktopVars(Handle(k)) /\ WF_desktopVars(Deliver(k))

FairDesktopSpec == DesktopSpec /\ DesktopFairness

---------------------------------------------------------------------------
(* Properties.                                                             *)

(* run_server removes whatever socket file is there, and may do so only    *)
(* because the relay's port keeps a second daemon from getting so far: one *)
(* that serves can always be reached.                                      *)
SocketReachesDaemon == \A d \in Daemon : Serving(d) => socket = d

Shown == ({window.current} \cup {call[k].answer : k \in Call}) \ {Nothing}

Fits(s) ==
    /\ s.paused <=> s.kind = "paused"
    /\ s.paused <=> s.action = "resume_protection"
    /\ s.kind = "non_network_failure" => s.action # "refresh"
    /\ s.failure = "authentication" /\ s.best = "none" => s.kind # "vpn_unavailable"

(* "Status includes ... a constrained UI action so desktop and CLI present *)
(* the same next step" (docs/architecture.md).  What is answered and shown *)
(* fits together, though it is put together from three reads and three     *)
(* functions: paused protection can be resumed, and only that; a failure   *)
(* that is not the network's never asks for another look at the network.   *)
GuidanceFits == \A s \in Shown : Fits(s)

(* A request to pause or to resume asks for a value, not for a change, so  *)
(* that a click on a window that shows an old status cannot do the         *)
(* opposite; and later requests, each of which writes the whole            *)
(* configuration back, keep what it set, unless they overlap it.           *)
LastRequestHolds ==
    wish # Nothing /\ (\A k \in Call : ~Editing(k)) => paused = wish

(* Once nothing changes any more the window comes to show what the daemon  *)
(* says, whatever the order in which answers came, whatever the user does  *)
(* and whichever of his requests fail.                                     *)
ShowsCurrent ==
    <>[]Listening /\ <>[][UNCHANGED guard]_desktopVars
    => <>[](window.current = Now) /\ []<>(window.card = "status")

(* A daemon that is gone is noticed, and its installation is offered.      *)
DownIsShown ==
    <>[](\A d \in Daemon : proc[d] = "off")
    => []<>(window.card = "unavailable") /\ <>[]window.onboarding
=============================================================================
