# Codex Network Guard: specifications, checks and proofs

Codex Network Guard (CNG) is a local relay for Codex.  A per-user daemon,
`cngd`, finds the proxies a machine offers, probes them, keeps a sorted list of
them, and opens the CONNECT tunnels of its clients over the best one that works.
It also keeps a Codex remote-control process alive.  A CLI (`cng`), a wrapper
(`cng-codex`) and a desktop application talk to it over a local socket.

This directory holds TLA+ modules translated from the Rust source, the TLC
configurations that check them, and proofs that TLAPS checks.  `PROJECT.json`
maps every definition to the lines it stands for.

    tlc -workers 2 -config MCGuard.cfg MCGuard.tla      (a run)
    tlapm GuardProofs.tla                               (a proof module)

## 1. Inventory

Paths are relative to `src/`; `core` stands for `crates/cng-core/src`.

| Component | Source | State | Operations |
|---|---|---|---|
| Candidate health | `core/model.rs`, `core/proxy.rs` | one record per candidate: state, latency, failures in a row | `check_candidate`, `sort_candidates` |
| Relay | `core/proxy.rs` | the published list, `paused`, `direct_fallback`, one task per connection | accept, read the request, try routes, fall back, answer, copy, close |
| Health refresh | `crates/cngd/src/main.rs`, `core/discovery.rs` | the configuration record and its file; what each running refresh holds | `refresh_once` in `main`, in the loop and in requests; `save_config` |
| Remote-control supervision | `crates/cngd/src/main.rs`, `core/codex.rs` | the slot `remote_child`, the flag, the status, the delay | the keeper; `remote.start`, `remote.stop`, `remote.pair` |
| RPC | `core/rpc.rs` | the socket file, one task per client | remove the old socket, bind, accept; one line in, one line out |
| Configuration store | `core/config.rs` | `config.toml`, `config.tmp` | load or create, save through the temporary file |
| Service installation | `core/service.rs` | executables, LaunchAgent or task, `CODEX_CLI_PATH`, `install-state.json` | install, uninstall, restart, migrate-legacy |
| Terminal profile | `core/service.rs` | the managed block of `~/.zprofile` | enable, disable |
| Diagnostics | `core/diagnostics.rs` | none (it reads Codex's logs) | find and classify the last failure, choose the next step |
| Codex lookup and wrapping | `core/codex.rs`, `crates/cng-codex` | none | find the real Codex, run it with the relay's environment |
| CLI and desktop | `crates/cng`, `apps/desktop` | the status the window shows and remembers | one RPC or service call per command or click; a poll every 10 s |

How they interact.  The list is shared memory: refreshes replace it as a whole,
connection tasks copy it once.  `paused` is an atomic that `save_config` stores and
`handle_client` loads.  The configuration record is copied, changed and written
back under no common lock.  The process slot is behind a mutex that is held while
a process is being started.  The CLI, the desktop and the wrapper reach the daemon
by RPC only; service commands work on the system beside it.  The configuration file
is shared by all programs: each of them loads it, or creates it, when it starts, and
the daemon saves it for its requests.  Each RPC call has a connection and a task of
its own, so that requests and answers overtake each other.

What is hard here, and which property speaks of it:

* several refreshes overlap: what each publishes was computed from a list that
  may be gone (`RecordsCoherent`, `UsableWasProven`, `GraceBeforeDown`,
  `RecoversWhenUp`, `DropsWhenDown`, `FollowsSelection`);
* a connection walks a copy of a list that its publisher sorted, while the list changes
  (`BestRouteFirst`, `FailClosed`, `RoutesWereProven`, `NextConnectionRecovers`);
* `save_config` writes in four places, and requests overlap (`PausedRefuses`);
* the keeper acts on a configuration it read long ago, and shares the slot with
  requests, while Codex's commands may hang and processes get out of hand
  (`ChildReachable`, `KeptAlive`, `Replied`, `StopHolds`);
* an installation is a row of steps in different systems, each of which can fail,
  read wrong, be the last, or be repeated (`WrapperExists`, `PreviousIsKept`,
  `UninstallIsComplete`, `OverridesSafely`, `MigrationKeepsBoth`, `MigrationIsSafe`,
  `RestoresThePriorValue`);
* all writers of the configuration share one temporary file and may end between any
  two calls (`FileIsWhole`, `FileIsPrivate`, `ImplementsRegister`);
* a daemon leaves its socket file behind, and the next one removes whatever file is
  there (`SocketReachesDaemon`);
* the window acts on a status that may be old, and gets its answers in any order
  (`LastRequestHolds`, `ShowsCurrent`, `DownIsShown`); a status is put together from
  several reads (`GuidanceFits`);
* the user's shell profile is edited by commands and by the user in turns
  (`ProfileIsMine`, `ShellRestored`).

`PROJECT.json` lists each hazard at its line, those without a property too.

## 2. Modules

| Module | Models | Extends |
|---|---|---|
| `CandidateHealth` | records, the grace result, what the list is sorted by: operators, and the variable `published` | |
| `HealthAutomaton` | abstract: the life of a candidate as `docs/architecture.md` tells it | |
| `Relay` | connection tasks against a publisher that may publish any list of a set | `CandidateHealth` |
| `HealthRefresh` | refreshes and saves of the loop and of RPC tasks, the world's routes and settings, restarts | `CandidateHealth` |
| `Guard` | the daemon: the two joined over the list and the paused flag | `HealthRefresh`, `Relay` |
| `RemoteSupervisor` | the keeper and the remote requests | |
| `PathOverride` | abstract: what the guard promises to do with the user's `CODEX_CLI_PATH` | |
| `ServiceInstall` | the service commands on macOS and Windows | instance of `PathOverride` |
| `TerminalProfile` | the block in `~/.zprofile`: operators on sequences of lines, and the commands | |
| `Setup` | installation and profile joined: uninstall also cleans the profile | `ServiceInstall`, `TerminalProfile` |
| `ConfigRegister` | abstract: a register that lone saves replace at once or not at all | |
| `ConfigStore` | the configuration file and its temporary file, shared by processes | instance of `ConfigRegister` |
| `GuardStatus` | failure class, status kind, next step: operators | |
| `Desktop` | daemons and their socket, requests and answers, the window and the CLI | `GuardStatus` |
| `MC*` | values of the constants for TLC | |
| `*Proofs` | theorems | the component, `TLAPS` |

Between two awaits of the async code nothing of the same task intervenes, so an
action stands for the code from one await to the next, unless a second thread can
see what lies in between: tokio runs on several threads here, which is why
`save_config`'s file, flags and record are steps of their own, and reading and
replacing the list are too.

**Relay.**  A connection slot runs through `closed`, `reading`, `connecting`,
`trying`, `direct`, `tunnel`.  The list is a `Vec`: `published` holds its records and
`order` the sequence they are in, which `Publish` replaces together.  `Sorted` is what
`sort_candidates` may make of the records; what compares equal stays in the order of
discovery, which is arbitrary.  `TakeOffers` is the copy of the list in
`connect_for_runtime`: the records in `offers`, the sequence in `queue`.  The loop
takes the `Turn` of the head of `queue`, whatever that is: `Skip` passes over one that is
down, `TryOpens` and `TryFails` are the two ends of an attempt (success; an error or the
timeout).  That the best route comes first is therefore no guard of the loop, but rests
on what was published.  `GiveUp` is the 502, `FallBack` the direct route.  Bytes, headers
and TLS are left out; a request that cannot be parsed closes the connection.  A slot
stands for one connection after the other; there is no limit on connections in the code.

**HealthRefresh.**  `Begin` copies the configuration, `Discover` reads keychain and
system settings, `TakePrevious` copies the published list, `ProbePasses` and
`ProbeFails` end one probe each (they run side by side and so end in any order, at
any time), `PublishResult` replaces the list.  `StartEdit`, `Store`, `Apply`,
`Commit` are a handler's copy and the three writes of `save_config`.  Candidates
stand for their ids: the id of `model.rs` leaves credentials out, and so does the
model.  PAC files and settings are the set `system`.  `proven` is a history variable.

**Guard.**  Every action is one of the parts' with the other part's variables fixed;
`ApplyFlag`, `GuardRestart` and the last step of a refresh, which publishes records and
their sorted order (`RefreshGoesOn`), change both.  The relay starts after the first
refresh (`serving`).

**RemoteSupervisor.**  `Grab`, `Spawn`, `ReportOnline` are `ensure_remote_started`:
take the lock and find nothing running, start, drop the lock, write the status.
`Inspect` is `try_wait`.  `Elapse` doubles the delay.  The request `other` is any
request that writes back the flag it copied.  `works` says whether looking for
Codex and starting it succeeds now.  Codex's commands have no timeout, except the one
that `remote.stop` runs last; `hung` is the set of tasks whose command hangs, the one
under the slot's lock (`features list`, `codex.rs:134`) included.  A process whose
`try_wait` or `kill` fails leaves the slot while it runs (`GiveUp`); `stray` remembers it.

**ServiceInstall.**  `step` is the next step of the one command that runs.
`Following` is the order of `install`, which differs between the builds.  Failing
steps end the command or call `uninstall`, as the code does at that place; `Die`
ends the process anywhere; `Login` is a log-out and log-in, after which the value set
by `launchctl setenv` is gone and the one set by `setx` is not.  On Windows a running
`cngd.exe` cannot be removed, and `schtasks /delete` does not end it.

A failed read is no failure of a command: the exit status of `launchctl getenv` is not
looked at (`service.rs:273`, `:437`), a failed `reg query` and a value of another type are
`None` (`:491`), an `install-state.json` that cannot be read or parsed says "not set"
(`:452`).  `Reads` is what a read of the variable may return, and `misread` remembers what
came of it: `look`, an uninstall that took the wrapper for absent and went on to delete
what the variable needs; `value`, a kept or restored value that is not the user's.

`PathOverride` says with five variables what becomes of `CODEX_CLI_PATH`: the wrapper takes
its place only while it is there and a value is kept; the kept value is replaced by
no other, and put back only after a look that found the wrapper; it and the wrapper go only
when the variable does not name the wrapper.  Its exceptions are the three a failed read
makes: a look may miss the wrapper, "not set" may be kept, and "not set" may be put back.
What the user writes between that look and the step that restores is lost, in the code and
in the promise.

**TerminalProfile, Setup.**  The profile is a sequence of lines; the three lines of the
block are `start`, `path`, `end`.  `Removed` is `remove_managed_block`: from the first
`start` to the first `end` behind it, then blank lines at the end; `Appended` is what
`terminal-enable` writes.  The write is in place, so that one that breaks off leaves a
prefix (`Cuts`).  A profile that is not UTF-8 (`readable`) counts as empty for enable
and is an error for disable.  The user may write it anew, or lines before and behind the
block.  `mine` and `said` are history: the lines the user last wrote, and the last command
that reported no error, or `broken` from one that broke off or could not read the file
until the user writes it as a whole.  In `Setup` the profile is cleaned in the
step of `uninstall` that precedes the removal of the executables, whatever comes of it;
the terminal commands run between the service commands.

**ConfigStore.**  `toml` and `tmp` are the files that the two names stand for, each with
a text and a mode.  A save is `Open` (truncates or creates), `Write` (through the handle),
`Protect` (the mode, by name), `Rename` and `Return`; a read is `Look` and `Read`.  A handle
follows its file when another process renames it, which is how two overlapping saves
may write into `config.toml` itself or find the temporary file gone.  `Stop` is a failing
call or the end of the process, and may leave part of a text.  An empty text parses as
the defaults, a torn one as anything or as an error.  `alone` and `clash` are history: the
save that no other one ran beside, and whether saves overlapped since the last such one.
`Look` finds no file and then saves the defaults like any other value: if another save
ends in between, the defaults replace what it saved (`config.rs:55`).
`ConfigRegister` says the same with one value; `HealthRefresh` and `Guard` use the file
as that register (`Store`).

**Desktop, GuardStatus.**  `Start`, `Clear`, `Listen` are `main` and `run_server` up to the
first `accept`: the relay's port (taken from all daemons at once, as the configuration
names one port), the removal of the socket file, the bind.  A request runs through
`sent`, `copied` (a copy of the configuration with its own field set), `executed`, `looked`
(the status has read the configuration), `answered` or `failed`.  A caller is a `load`,
which renders the answer or the daemon's absence, a `click`, which renders the answer
and shows an error as text, or `text`: everything whose answer is only printed, the CLI
included.  A daemon that ends (`Crash`) may leave in the file the copy that a request was
about to make the configuration (`HalfSaved`).  What a refresh publishes and what Codex logs may change at any time.  A line
of the log is the set of classes whose words it has; `Classify` takes the first in the
order of the code.  Of the wizard there is the load at its end; export, doctor and
opening Codex change nothing here.  `wish` is a history variable.

## 3. Runs

| Run | Expect | Distinct states | What it asks |
|---|---|---|---|
| `relay` | pass | 35,980 | the best routes first, failing closed, always an answer |
| `refresh` | pass | 105,024 | overlapping refreshes: coherent records, only proven routes, convergence |
| `grace_race` | violation | | one grace result before down, with a requested refresh beside the loop |
| `guard` | pass | 163,360 | the daemon implements `Relay`; the end-to-end properties |
| `pause_race` | violation | | `PausedRefuses` with two requests at a time |
| `remote` | pass | 151,620 | one reachable process, kept alive; requests are answered unless Codex hangs |
| `remote_stop` | violation | | nothing is started after an acknowledged stop |
| `service` | pass | 1,929,200 | the installation's invariants under failures, wrong reads, deaths and logins; it implements `PathOverride`; the profile |
| `service_env` | violation | | what uninstall puts back is what the wrapper replaced |
| `migration` | violation | | a daemon runs when the old guard's removal begins |
| `config` | pass | 109,787 | the file is whole and private, and implements a register |
| `desktop` | pass | 1,185,536 | a serving daemon is reachable, the guidance fits, requests hold, the window converges |

Deadlock is checked in all passing runs.  Each property of a passing run has a
mutant in `PROJECT.json`: a plausible bug in a mapped definition that violates it.

### Bounds

* `FailureCap` = 2 stands for the width of `consecutive_failures` (`u32`): the code
  distinguishes 0, 1 and more only, and saturates.  The proofs have any cap from 2 up.
* `LatencyBound`, with a `NoLatency` above it, stands for milliseconds; two values
  are enough to order two candidates, one where no property compares them.
* `relay`: three candidates, two of equal priority that differ in latency, and every
  list of their states, a shorter one and the empty one.  Connection tasks write
  nothing that another reads, so one slot meets every interleaving there is.
* `refresh`: one candidate and one request task beside the loop; the automatic mode, a
  manual URL and one whose URL is in the keychain.  Records of different candidates are
  computed apart; two refreshes are what an interleaving needs, and theorems cover more.
* `guard`: one candidate, one slot, one request task; `pause_race` has two.
* `remote`: three process ids, one for the slot, one for the start that follows and one
  out of reach (`MaxStrays` = 1); delays up to 3, which passes 1, 2 and the cap.
* `service`: both builds, two values of the user's own (one of them "not set"), lines of
  the user before and behind the block that are none or end with a blank one; no bound on
  the number of commands.  The profile does not grow without a bound because the block is
  appended once.
* `config`: two processes and two configurations, one of them the default.  Two
  processes hold two handles, which with the two names gives every way in which saves
  meet in a file; the theorems are about any number.
* `desktop`: two daemons, the timer's request and one more, the lists' best state healthy
  or none, one line of the log with words of two classes.  Two requests are enough for
  answers to overtake each other and for a poll to show what a click did; two changes
  of the configuration that overlap need a third slot, and there the theorem
  `LastRequestCorrect` covers what the run does not.

### Fairness

* `Relay`: each attempt has the connect timeout, so a task that is choosing a route
  keeps stepping.  Reading a request has no timeout and a tunnel lasts as long as its
  ends: neither is fair, and `Answered` starts when the request is read.
* `HealthRefresh`: a refresh keeps stepping (probes have a timeout), the timer of
  the loop fires, a selection's refresh follows its save.  Discovery is assumed to end.
  The code runs `scutil` and `security` without a timeout: the assumption is about
  those tools, and the hazard is listed.  No request, restart or change of the world
  is fair.  A restart for ever prevents convergence; the properties say `<>[]serving`.
* `RemoteSupervisor`: a task whose command does not hang goes on and timers fire (weak
  fairness of the keeper's and handlers' steps, which a task in `hung` cannot take).
  Neither that a command hangs nor that it stops hanging is fair: it may hang for ever.
  tokio's mutex serves its waiters in order, so waiting for the slot is strongly fair.
  `Replied` names what may hold a request up for ever: a command of its own, or one that
  hangs in a start and so under the lock.  `KeptAlive` supposes that from some time on the
  daemon stays up, Codex can be started, and none of its commands hangs.
* `Desktop`: `setInterval` fires (weak fairness of `Poll(Timer)`), the daemon's task goes
  on with a request and answers it, an answer or the end of the connection reaches
  the caller.  Nothing the user does is fair, nor is a start or an end of a daemon:
  `ShowsCurrent` supposes that one serves from some time on and that the configuration,
  the list and the log stay as they are; `DownIsShown` that no daemon runs any more.
  A request that the daemon never answers (an RPC call has no timeout) is excluded by
  the second assumption.  For a request that runs Codex it is what `Replied` says under
  which condition it holds.
* `Setup` and `ConfigStore` have no liveness property: the user and a process may always
  stop.

## 4. What the violations show

* `grace_race`.  `docs/architecture.md` says a working candidate "gets one degraded
  grace result before becoming down".  Nothing orders the loop's refresh and a
  requested one.  One that copied the list while the candidate was absent or down
  publishes "down" over the "healthy" that the other published meanwhile: from healthy
  to down in one step.  It is repaired by the next refresh (`RecoversWhenUp`).
* `pause_race`.  Two requests, pause on and pause off, interleave in `save_config`
  such that the record, which the status shows, says paused while the flag says not:
  connections are relayed under a status that says they are not.
* `remote_stop`.  The keeper reads the flag once, then may wait for the delay and for
  two runs of Codex.  A `remote.stop` that completes in between is acknowledged, and
  the keeper starts a process afterwards.  The keeper leaves it alone from then on,
  since keepalive is off.
* `service_env`.  `install-state.json` is kept if it exists.  After a first install
  that failed, the user changes `CODEX_CLI_PATH` and installs again: uninstall puts
  back the older value.  `docs/architecture.md:35`: installation "restores the prior value
  only if it still equals the guard wrapper during uninstall.  This prevents overwriting a
  later user change."
* `migration`.  `migrate_legacy` asks `status().running`, which is the success of
  `launchctl print`: launchd has the job.  The job stays when its daemon ends, so that the
  old guard is backed up and booted out while none runs.  `docs/architecture.md:37` wants
  the new service "installed and running", the help of `cng` (`crates/cng/src/main.rs:91`)
  "after CNG is healthy".  What does hold is `MigrationKeepsBoth`: launchd has the new
  job and its plist is there, and the old plist is saved.

Other things seen while modelling, which contradict no statement of the repository:
`install` says "installation was rolled back" whatever its uninstall came to, and on
Windows it cannot remove a daemon that runs; a login on macOS forgets
`CODEX_CLI_PATH`, which then does not name the wrapper until the next install; a
legacy agent that was booted out loads again at the next login, since its plist
stays; the status may say `online` after a stop that overtook `ReportOnline`; while
`codex features list` hangs in a start, `remote.stop` waits for it without a limit.

A read of `CODEX_CLI_PATH` that fails goes unnoticed.  An uninstall then deletes
`install-state.json` and the wrapper while the variable names the wrapper, and reports
success; an install keeps "not set" in place of the user's value.  `WrapperExists`,
`PreviousIsKept`, `UninstallIsComplete` and `OverridesSafely` except this by name
(`misread`), and say that nothing else goes wrong and that the next install, which copies
the wrapper and saves a value before it sets the variable, ends it.

Further, from the profile, the store and the clients:

* `terminal-enable` reads a profile that is not UTF-8 as empty and replaces its lines by
  the block (`service.rs:621`); `README.en.md:131` says that it adds only the block.  The
  first copy in `shell-backup` has the lines.
* A write that breaks off between the first marker and the last leaves a block that
  `enable` takes for complete and `disable` does not remove.  Removing the block also
  removes the user's blank lines at the end; `ProfileIsMine` leaves those out.
* Two saves of the configuration that overlap may leave a torn or an empty
  `config.toml`; an empty one is read as the defaults.  The next save that runs alone
  repairs it, and nothing else does.  There is no `fsync` before the rename.
* A program that starts, finds no file and saves the defaults undoes a save that
  completes meanwhile (`config.rs:55`).  Nothing in the repository says which of the two
  should win; `ImplementsRegister` allows it, as two saves that overlap.
* The status is `non_network_failure` only while no route is usable
  (`crates/cngd/src/main.rs:52`), but the guidance for it says that the proxy works
  (`diagnostics.rs:134`, `:146`).
* A refresh that the daemon answers with an error is shown as a daemon that is not
  running until the next poll (`app.js:66`); a change of the language shows the last
  status again while the daemon is gone (`app.js:153`); an error of `open_codex` from the
  guidance's button is lost, since its promise is returned without an await (`app.js:81`).
* `is_real_codex` excludes only the running program (`codex.rs:70`): with the terminal
  integration, `cng` and the desktop may take the wrapper on PATH for Codex.

## 5. Proofs

The theorems hold for every value of the constants that satisfies the `ASSUME`s of the
modules: any finite set of candidates (a list has a length), any set of connections,
tasks, processes and paths, any priorities, any cap.

* **`RelayProofs`**: `RelayTypeCorrect`, `BestRouteFirstHolds`, `FailClosedHolds`.
  `RelayInv` says that the published order is a sorted arrangement of the published
  records, and of each connection that what is left of its copy is sorted and holds every
  usable candidate that was not tried (`Queued`).  The head of such a rest is the best
  (`TurnIsBest`), and its tail is such a rest again when the head is down or has been tried
  (`TailIsQueued`); `SortedList` says that what is published is one to begin with.  All
  of it rests on the sorting in `Publish`.
  `BeforeIsAnOrder`: what `sort_candidates` compares by is irreflexive, transitive and
  has transitive ties, which `sort_by` demands.  `EachStepNears` is the variant: each step
  of a connection goes to a later stage or leaves a shorter list to go through, which is
  what the proof of `Answered` would need beside fairness.
* **`HealthRefreshProofs`**: `RefreshTypeCorrect`, `RecordsCoherentHolds`,
  `UsableWasProvenHolds`.  `UsableWasProven` is not inductive, as a task publishes what
  it computed from an older list.  `HeldInv` says it of all that is held anywhere: the
  published list, every copy and every partial result.  A failed probe can only keep a
  candidate usable that was usable in the copy (`GraceNeedsUsable`).
  `RefreshImplementsAutomaton` and `GraceBeforeDownHolds` are about the behaviours in
  which no two tasks are between the copy of the list and its replacement
  (`[]OneProbes`), the hypothesis that `grace_race` shows to be needed: then the copy of the
  task that probes is the list (`CurrentInv`), whatever other requests save, discover
  or restart.  `LoopImplementsAutomaton` follows: without request tasks `OneProbes` always
  holds.
* **`GuardProofs`**: `GuardImplementsRefresh` and `GuardImplementsRelay` are refinements
  (initial states to initial states, every step to a step or a stutter); what is
  proved of the parts carries over (`GuardTypeCorrect`, `GuardRecordsHold`,
  `GuardGraceBeforeDown`, `GuardBestRouteFirst`, `GuardFailClosed`).  The last step of a
  refresh is the `Publish` of `Relay` because it sorts what it publishes.
  `RoutesWereProvenHolds` adds that what a connection copied was proven.
  `PausedRefusesHolds` is proved of the behaviours in which no two requests are inside
  `save_config` at once (`[]OneSaves`), the hypothesis that `pause_race` shows to be
  needed; there may be any number of requests one after the other, and of refreshes.
  `PauseInv` says how far the file, the flag and the record are written at each stage.
* **`RemoteProofs`**: `RemoteTypeCorrect`, `ChildReachableHolds`.  `SlotInv` adds that
  while a start is under way only strays run, and that the lock lets one start be under way.
  `StopHoldsAtRest`: "stopped" holds in the behaviours in which the flag is cleared only
  when the keeper's round can no longer start anything (`ClearedAtRest`), the case that
  `remote_stop` is the opposite of.  `RequestsAdvance` is the variant of a request: each of
  its steps brings it nearer to its reply, and it waits for the lock once; how long it
  stays at a step, for ever if Codex hangs there, is not the variant's matter.
* **`ServiceProofs`**: `ServiceTypeCorrect`, `WrapperExistsHolds`, `PreviousIsKeptHolds`,
  `UninstallIsCompleteHolds`, `MigrationKeepsBothHolds`.  `ServiceInv` says what each step may
  rely on (before `set` the wrapper is copied and the user's value saved, before
  `remove` the variable does not name the wrapper), which makes a failure or a death at
  any step harmless.  Where a step relies on what a read returned, it says "unless
  `misread`", and nowhere else.  `Continuing` turns the order of the steps into facts.
  `ServiceImplementsOverride` is the refinement of `PathOverride`: `ServiceInv` gives each
  step the guard that the promise demands; it also shows that, unless a look failed, `install` never meets the wrapper without a state
  file and `restore_previous_environment` always finds one.
  `RestoresThePriorValueHolds`: the documented sentence holds in the behaviours in which
  an install that finds a state file finds the variable as it was kept or as the wrapper
  (`[]FindsKnown`), the exception that `service_env` shows, and as long as no read failed.
* **`SetupProofs`**: `SetupIsService`.  Every step of `Setup` is one of `ServiceInstall` or
  leaves its variables alone, so that the theorems above hold of `Setup`, which is
  what the run `service` checks.  `ProfileIsMineCorrect` rests on `ProfileInv`: as long as no
  command broke off, the profile is the user's lines, with one block somewhere among them
  or without it.  The lemmas before it say what `Lines`, `Trim` and `Removed` make of texts
  of any length; where they need induction they take the least position at which something
  goes wrong (`Least`), as the order of the naturals is well founded.  The assumption
  is that the user's own lines are none of the three of the block.  `ShellRestoredCorrect`
  adds that an uninstall on macOS which has got to the removal has cleaned the profile.
* **`ConfigProofs`**: `ConfigTypeCorrect`, `FileIsWholeCorrect`, `FileIsPrivateCorrect`,
  `StoreImplementsRegister`.  Neither of the two safety properties is inductive.  `ConfigInv` adds that what is saved is a configuration (`ValueInv`), that a name
  which is not there has no text (`NamesInv`), that without a clash every save is the one in
  `alone` (`AloneInv`), how far that one's temporary file is at each stage (`Progress`), and
  that without a clash `config.toml` is sound.  The refinement maps the four stages up to the
  rename to one, the rename to `Put`, and what overlapping saves do to `Spoil`.
* **`DesktopProofs`**: `DesktopTypeCorrect`, `SocketCorrect`, `GuidanceCorrect`,
  `LastRequestCorrect`.  For the socket the invariant is that at most one daemon is not off
  (the relay's port), and that one that serves made the file.  For the guidance
  `StatusFits` goes through the kinds and the classes once, `FirstClass` says that
  `Classify` returns a class of the line.  For the requests `RequestInv` says that while
  `wish` has a value at most one change is under way, and that it carries that value.

The theorems with a hypothesis on the behaviour (`[]OneProbes`, `[]OneSaves`,
`[][ClearedAtRest]_vars`, `[]FindsKnown`) are about what the runs `grace_race`, `pause_race`, `remote_stop` and
`service_env` refute without it.  The code does nothing to ensure these hypotheses, and the theorems do not claim it
does: they say which overlap or order is to blame, and that nothing else is.

Only model-checked: the liveness properties `Answered`, `RecoversWhenUp`,
`DropsWhenDown`, `FollowsSelection`, `NextConnectionRecovers`, `KeptAlive`, `Replied`,
`ShowsCurrent`, `DownIsShown`, since liveness under fairness and `ENABLED` are out of the
prover's reach (of `Answered` and `Replied` the variants are proved).  All invariants and
action properties of the passing runs are proved.

## 6. Not modelled, and why

* Bytes: HTTP parsing, TLS, redaction, PAC evaluation, XML, terminal output.
* RPC framing and the check of its version; the named pipe of Windows, where a client
  finds no instance between two of them (`rpc.rs:71`).
* Processes that outlive the daemon: `DaemonRestart` of `RemoteSupervisor` drops them, as
  launchd does with the process group of a job.  (Those that this daemon gave up are there.)
* What a file system keeps at a power cut: processes end at any step, the machine does not.
* Credentials that change under an unchanged candidate id.
* Overlapping service commands; a copy of an executable that leaves part of a file.
* The search for the newest log file, lookup of Codex on PATH, log pruning, the wizard's
  probe, export, the tray and the window; build scripts.

## 7. Plan

Done: `CandidateHealth`, `Relay`, `HealthRefresh`, `Guard`, `RemoteSupervisor`,
`ServiceInstall`, in this order, because routing decides what the product promises, the
supervision starts processes, and the installation touches the user's settings; then
`ConfigStore` with its register, `Desktop` with `GuardStatus`, `TerminalProfile` and `Setup`;
then `PathOverride`, and the proofs of every invariant and action property.

Open, in order:

1. `RemoteSupervisor` with orphans: processes that outlive the daemon, the next
   daemon's second one; what the status may say meanwhile.
2. Two service commands at once.
3. Candidates apart from their ids, for credentials that change under one id.
4. Lookup of Codex on PATH with the wrapper on it.
5. More theorems: the part of `RecoversWhenUp` and `KeptAlive` that is safety (what one
   undisturbed refresh, or one round of the keeper, leaves behind).
