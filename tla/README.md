# Ember BTX miner: TLA+ models, model checking and proofs

This directory is a verification project for the miner in `client/src/dexbtx_miner` and for
the tuner, the dashboard and the launcher around it (`gui/`, `ember`): TLA+ modules
translated from the code, TLC configurations that check them on small instances, and
theorems that TLAPS proves for every value of the constants. Line numbers below are of the
files in `client/src/dexbtx_miner` unless a path is given.

## 1. The system

The miner is one Python process (asyncio, one thread that matters) between a mining pool
and a closed GPU solver, `bin/btx-gbt-solve`, that it runs as a daemon.

| Part | Code | State it keeps | Operations |
|---|---|---|---|
| Solver daemon wrapper | `gbt_solve_wrapper.py` | `_daemon`, `_matmul_params`, `_solver_preempt_capable`, `_stderr_task`, the daemon's pipes | `solve_slice`, `_ensure_daemon`, `_shutdown_daemon`, `force_restart`, `preempt` |
| Solver loop and notifications | `stratum_client.py` 370-416, 475-618 | `_current_job` (with `nonce64_start` in it), `_job_changed`, `_inflight_parent` | `_on_notify`, `_solver_loop` |
| Pool session, RPC, submission | `stratum_client.py` 187-368, 620-697, 808-824 | `_reader`/`_writer`, the session's tasks, `_pending`, `_msg_id_seq`, `_submitted_share_keys`, the counters | `run_forever`, `_session_once`, `_handshake`, `_reader_loop`, `_call`, `_submit_share` |
| Heal watchdog | `stratum_client.py` 700-758 | `_consec_rejects`, `_last_solver_result_at`, `_last_heal_at`, `_heals_without_accept`, `_session_started_at` | one check every 15 s by default, `force_restart` |
| Wrapper updater | `wrapper_updater.py` | the installed package, the mark in the environment | manifest, pip, re-exec |
| Solver updater | `solver_updater.py` | the binary on disk | manifest, floor, download, verify, replace |
| Update watcher, process | `__main__.py` 116-240 | the two SHAs of one check | start, re-check in a thread (every 30 min by default), re-exec, Ctrl-C |
| Deep tuner | `gui/ember_tune.py` | the trials, the best one, the miner's process group, the profile file | sweep, Ctrl-C, save |
| Dashboard | `gui/ember_gui.py` | a `State` shared by threads, the miner's process group | log reader, signal handler, pollers, HTTP |
| Launcher | `ember` | reads the profile | becomes the tuner or the dashboard |
| Telemetry | `_metrics_loop`, `hardware.py` | none that anything else reads | a report every 60 s |
| Names given by the pool | `canonical_names.py` | a JSON file | `load`, `upsert`, `save` |
| Configuration, benchmark | `config.py`, `benchmark.py` | values read once | - |
| GUI updater, installers | `gui/ember_update.py`, `install.sh`, `client/install.sh` | a marker file | shell, one question to GitHub |

How they interact. The session creates the solver, metrics and heal tasks and cancels them
at its end. The solver loop takes the current job, awaits `solve_slice`, and creates submit
tasks, which are the only ones the session's end does not touch. A notification changes the
current job under the running slice and may call `preempt()`, which signals the daemon. The
heal loop calls `force_restart()`, which shuts the daemon down under the running slice and
takes no lock. The updaters run before the miner does, and again from a thread beside it;
they replace the package, the binary and the process itself, and several miners of a host
share what they replace. The tuner and the dashboard each start the miner as a child in a
session of its own, read its log, and must stop it and its daemon as a group; the launcher
runs one or the other, and hands the profile that the tuner saved to the dashboard's miner.

What is hard in it:

* **Interleaving.** One thread, but every `await` is a point where the other tasks run, and
  attributes such as `self._daemon` are read again after it.
* **Cancellation.** A session's end cancels the solver loop anywhere: in a pipe read, in a
  spawn, in the middle of a shutdown. What it leaves behind (a daemon with a job, a half
  finished shutdown) is what the next session starts from.
* **An unreliable peer on each side.** The pool may answer late, out of order or never and
  drop the connection at any time; the daemon may hang, die, or print at any
  time what the client's `except` clauses name, or do not.
* **Timeouts and retries.** 5 s, 30 s and 60 s limits, one retry of a job, heal bounces
  under a cooldown that grows.
* **Processes.** A process replaces itself, is killed between two steps of an update, leaves
  children behind, or waits for a child that ignores it; a signal handler runs in the middle
  of the very wait that it needs.

`PROJECT.json` lists the hazards line by line with the property that covers each, or why
none does yet.

## 2. The modules

| Module | What it is |
|---|---|
| `GbtSolveWrapper` | the daemon's life cycle and pipes, with the three callers the client gives the wrapper |
| `GbtSolveWrapper_proofs` | its inductive invariant and four theorems |
| `SolveService` | abstract: what the wrapper promises the solver loop |
| `GbtSolveHeard` | `GbtSolveWrapper` and what its slices were given; implements `SolveService` |
| `GbtSolveHeard_proofs` | the refinement, and three theorems that follow from it |
| `NonceScan` | the current job, the nonce position and the preempt decision |
| `NonceScan_proofs` | its inductive invariants and three theorems |
| `ShareLedger` | abstract: what the client promises of a share |
| `StratumSession` | sessions, calls and submissions; implements `ShareLedger` |
| `StratumSession_proofs` | the refinement, and three more theorems |
| `HealWatchdog` | the watchdog with its clock |
| `HealWatchdog_proofs` | its inductive invariant and five theorems |
| `Update` | both updaters, the watcher and the processes of the miners on one host |
| `Update_proofs` | its inductive invariants and three theorems |
| `MinerGroup` | the miner as a child: its process group, and what is left of it |
| `DeepTune`, `Dashboard` | the two programs that start it; each EXTENDS `MinerGroup` |
| `Ember` | their composition: the launcher runs one after the other |
| `Ember_proofs` | its inductive invariant and five theorems |
| `MC...` | the instances that TLC checks; each `.cfg` is named after its run |

A step is, in the modules about the client, what asyncio runs between two awaits. This is
the code's real grain: the interpreter never switches tasks elsewhere. In those about
processes and threads it is what happens between two system calls that another process, a
signal or a crash can come between. The values a model leaves out
(hashes, targets, wording of log lines) are ones no property tells apart.

### GbtSolveWrapper

`task[c].pc` says at which `await` the solver loop and the heal loop are; `daemon`,
`matmul_params`, `preempt_capable` and `stderr_task` are the attributes of the same names.
`_shutdown_daemon` is a subroutine of both callers, so a task in it also carries `why` (who
called: a changed `shape`, a missing `ready` line, a failed `io`, a `heal`) and `proc`, the
process it waits for. `AfterShutdown` is the return to that caller.

The processes in `Procs` are external: a `DaemonReady`, `DaemonPrints`, `DaemonAnswer` or
`DaemonDies` may come at any time, or never; what is printed before a job is done, and how
often, is not limited (`MaxUnread` bounds the lines nobody has read yet, as a pipe does).
A line is of a `Kind`, by what the read loop makes of it: a streamed share, the final record
or job error, `garbage` (`json.loads` refuses it, and the retry's `except` at `:443` catches
that), or `bad`: it raises what that clause does not name (a line over the reader's 16 MiB,
JSON that is no object, a record without numbers). Jobs and lines in the pipes carry a history tag
that says whether they belong to the slice that runs (`cur`) or to one that ended without
reading them (`old`); the code has no such tag, which is the point of the properties.

Things a reader might expect and not find:

* `_daemon_lock` is not a variable: only the solver loop takes it.
* Shutting down re-reads `self._daemon` after the await of the stderr task
  (`ShutdownDrained`) and before the kill (`ShutdownKill`), as the code does. So does
  `_ensure_daemon` after the ready line (`ReadReadyLine`): a `force_restart` meanwhile
  leaves `None` there and the slice raises.
* `wait_for` and cancellation are those of Python 3.12. SIGKILL ends a process at once, and
  a spawn that is cancelled leaves no process.
* `Quiet` in `Spawned`: asyncio has run every task that could run before it sees the new
  child. Without it a task would have to be paused for the duration of a process start.
* Process identities are reused; nothing in the code compares them.
* After a line that is not JSON the pipe is given up with its daemon, so the line may stay
  in it (`ReadGarbage`).
* After a `bad` line the slice raises with the daemon alive, and its job stays in the pipes
  (`ReadRaises`); of a line over the limit the rest may be left to the next reader (`Torn`).
  A ready line over the limit raises the same way (`ReadyLineRaises`), and the task that
  drains stderr may end on one (`StderrBreaks`).
* A daemon prints on stdout only while it has a job.

### SolveService and GbtSolveHeard

`SolveService` is the wrapper as the solver loop may think of it. `slice` says whether a
`solve_slice` is under way (`run`), none is (`idle`), or there is no solver loop (`none`).
`heard` is whose lines the slice was given, shares and record alike; `debt` is that the
daemon still owes the lines of an earlier slice. Without a debt a slice hears only its own;
a slice that heard itself has none behind it; and only a slice that is cut short makes a
debt: one that is cancelled, or that raises (`cut` is the state after it). In particular a
slice that *returns* makes none, however it failed, was retried or had its daemon bounced
under it, and a lost session makes none when it finds no slice running.

`GbtSolveHeard` adds the history variable `heard` to `GbtSolveWrapper` and changes nothing
else. Its mapping is `SliceState` and `Debt`: some process whose stdout can still be read
has an `old` job or an `old` line in its pipes.

### NonceScan

`current` is `_current_job`, reduced to its parent block, its `nonce64_start` (a number,
absent, or JSON null) and its matmul object (with the fields `to_solve_challenge` insists
on, without one of them, or null); `job` is the job of the
slice that runs, `pc` the solver loop's await. `solve_slice` is one await (`SliceReturns`,
`SliceFinds`, `SliceRaises`), in which notifications arrive. Nonces count from the session's
broadcast `nonce64_start`. `scanned`, `preempted` and `died` are history.

Three exceptions are kept apart. A job without a field raises inside the `try`: a failed
slice (`RefuseJob`). A null position or matmul object raises outside it, at `:506-507` or at
the write-back (`:618`): the solver task ends, the session does not, and the rig idles until
its connection is lost (`LoopDies`, `WriteBack`); the heal watchdog bounces the daemon, which
does not help. The carry-over of a position from or to a null matmul object raises in
`_on_notify`, out of the reader, and ends the session (`NotifyRaises`).

Of the pool it is assumed, from the comments in `_on_notify`, that a notification without
`clean_jobs` is for the parent it is building on (`PoolSends`), and that the broadcast start
does not change within a session. A solver never scans beyond `max_tries`. The position saturates at `MaxNonce`, a
bound of the checks; `NoRescan` is about positions below it. That a record which the loop is
given is the running slice's own is what `SolveService` promises as long as there is no debt;
`wrapper_one_job` shows what happens when there is one.

### StratumSession and ShareLedger

`phase` is where `run_forever` is, `call[c]` the `_call` that caller `c` awaits, `pending`
the dictionary of futures, `wire` and `replies` what is on its way. The callers are the
session (for the handshake), the solver loop (for a found record without a `shares` array,
when it awaits `_submit_share`), and the background submit tasks. `outcome` and
`stale_rejects` are history, `verdict` is the pool's.

* A created task starts before the session does anything else, so `SubmitShare` is the
  creation, the dedupe and the send.
* Writes do not block (`drain` returns), and the teardown's awaits end here; that one of
  them may not is shown in `GbtSolveWrapper`.
* A timeout may come when the answer has just been read (`SubmitTimesOut` with a reply):
  `wait_for` may lose that race.
* `HealBounce` is the watchdog with its clock left out.
* The dedupe set is emptied beyond `MaxSeen` keys (8192); the runs stay below and the
  theorems assume it, because beyond it a share can be submitted twice.

`ShareLedger` has no sessions, calls or ids: a share is new, sent, then accepted, rejected
or lost, the pool judges it at most once, and only a share the pool accepted is ever counted
as accepted. The refinement mapping is `StatusOf`: a share is new until it is in the dedupe
set, sent while a caller is in flight with it, and then what its outcome says.

### HealWatchdog

Timestamps are kept as ages (`heal_age` is `now - _last_heal_at`), which stop at a horizon
beyond every limit they are compared with, so the state space is finite and nothing is lost.
`Tick` moves every age on; it waits for a sleep that is over, a bounce that takes its longest,
and a healthy slice that is due: timers fire on time. `_last_heal_at` starts at 0.0, so the
first age is whatever the host's clock shows: `Init` takes every one.

* `solver` is what the comments on the `heal_*` settings say may become of the daemon:
  `hung` (no line, each slice is given up after two reads, and that *is* a result for
  trigger A), `wrong` (slices return, the shares are rejected), `failing` (each job fails).
  It changes at any time (`Wedge`).
* `retrying` is a slice that a bounce hit: its second attempt may end at any time.
* `EndBounce` sets the windows to the `now` that was read before `force_restart`, so they
  start with the age of the bounce.
* `SessionDown` in the middle of a bounce cancels it, and nothing of it is recorded (`cut`);
  `SessionStuck` is the teardown that waits for ever, the state `wrapper_reconnect` shows.
* `bounce_age`, `cut`, `fruitless`, `fine_age` and `streak_age` (for how long the streak of
  rejects has been at its limit) are history.

### Update

One record per miner: where its check is (`pc`), whether it mines meanwhile (`mining`: then
the check is the watcher's thread), the variables of the functions it is in (`target`, `sha`,
`floor`, `current`, `before`), the version it loaded, the mark
`DEXBTX_WRAPPER_JUST_UPGRADED`, the binary its daemon runs. `package` and `binary` are the
host's and shared. `execs`, `disturbed`, `missed` and `installer` are history.

* Each step of an update may fail by itself; `Raises` is what neither updater catches (a
  response that breaks off, a manifest that is no object). At a start that ends the process,
  in the watcher it is logged.
* `Broken` releases do not say the version they are published as (`Says`), which is what the
  mark in the environment is there for.
* `Stop` is Ctrl-C: `asyncio.run` waits for the thread, which may go on to install or to
  re-exec. `Crash` is possible anywhere. `os.replace` is atomic.
* The miners are those that `client/install.sh` sets up; the `ember` launcher switches both
  updaters off in the environment.

### MinerGroup, DeepTune, Dashboard, Ember

`miner` is the group that the parent has started: its leader, and the solver daemon in it,
which may be deaf (hung in the driver: only SIGKILL ends it). `stray` is what earlier groups
have left running, and `abandoned` says that a parent was gone before it could stop its
miner, the only way a miner may be left (`MinerStopsWithParent`). A deaf solver may be left
by a parent that did what it could: `poll()` looks at the leader only.

* In the tuner, `Measured` records a trial and `Compare` compares it, or one that was
  remembered; Ctrl-C may come between the two and in every wait. `BeginWrite` and `EndWrite`
  are the two halves of `write_text`: killed in between, the tuner leaves a `Torn` profile,
  which the launcher reads as none (`Profiled`). Median rate and mean power of a trial are
  any of `Rates` and `Powers`.
* In the dashboard, the signal handler runs inside the main thread's `proc.wait()` and cannot
  take the lock that this wait holds: `poll()` says "running" and `wait(8)` times out, so the
  handler always comes to its SIGKILL (`ShutdownKills`), and the pump's own `wait()` cannot
  find the miner gone meanwhile (`PumpEnds`). `FeedLine` sets the totals a line carries; a
  rejection carries no blocks, and a submission that raised or timed out is counted as
  rejected and logged without any totals (`SubmitRaises`, `stratum_client.py:676-680`), so the
  page lags behind by `raised` until the next verdict. The line of totals that the miner
  prints on SIGINT is left out, because neither parent sends one; so are the rates and the
  GPU figures, which the page only shows.
* `PumpBreaks`: the terminal does not take the line that is echoed to it; the thread dies
  before it feeds the line to `State`, and nobody reads the miner's log any more.

## 3. What is checked

| Run | Instance | Properties | States |
|---|---|---|---|
| `wrapper_safety` | 2 processes, 1 shape, `MaxUnread` and `MaxBacklog` 1; symmetry | `TypeOK`, `NoOrphanDaemon`, `OneCopyOfTheJob`, `DesyncOnlyWhenCutShort`, `ImplementsService` | 1.7 M |
| `wrapper_liveness` | 1 process identity (reused), 2 shapes | `SliceEnds`, `ForceRestartEnds` | 53 k |
| `scan` | 2 parents, slices of 2 nonces, positions to 6, absent and null positions | `TypeOK`, `NoRescan`, `PreemptsDeadTip`, `TipIsMined` | 275 k |
| `session` | 2 shares, 1 background task and the solver loop, 3 sessions | `TypeOK`, `CountersBalance`, `WaiterEntered`, `ImplementsLedger`, `SubmissionsEnd`, `HandshakeEnds` | 124 k |
| `watchdog` | checks 1 apart, stall 3, grace 4, cooldown 3 to 9, 2 rejects, slices of 2, a bounce of 1 | `TypeOK`, `NoticedInTime`, `StreakNoticed`, `CooldownKept`, `HealthyLeftAlone`, `HungIsBounced`, `StreakIsBounced` | 719 k |
| `update` | 2 miners, 2 binaries, 3 manifests: none, a broken release with a mandatory solver, a good one that takes it back | `TypeOK`, `BoundedRestarts`, `OwnInstallRuns`, `StartEnds`, `KeepsAsking` | 273 k |
| `ember` | 2 batch sizes, 2 worker counts (one pair of them the default), rates 0 and 1, powers 1, 2 and none, 2 shares, a pipe of 2 lines | `TypeOK`, `ShownIsCounted`, `ShownGrows`, `MinerStopsWithParent`, `BestIsSaved`, `TuneEnds`, `GuiEnds` | 385 k |

Why the bounds are enough. In the wrapper, two processes let an old and a new daemon
coexist if anything allowed it; one unread line at a time and one abandoned job are enough
for a line to be read by the wrong slice, and the number of lines printed is not bounded.
Two shapes are needed for the respawn on a changed shape and are in the liveness run. In the
scan, two parents give old and new tip, three slices fit below the bound, and every
combination of partial, full and unreported slices with rotations occurs. In the
session, two shares are the fewest that an id or an answer can confuse, and three sessions
are the fewest in which a submission outlives its session, a reconnect and the next loss.
The limits of the watchdog keep the order of the defaults (slice and bounce below the stall
limit, stall limit and check below two read timeouts), and the escalation has three levels,
so that each comparison has both outcomes at each. Two miners are the fewest that share a
binary; three manifests hold an upgrade of each part, a floor and the way back. In the sweep
the default pair is a candidate, so that it is remembered, and the second phase revisits the
first one's winner; a pipe of two lines fills, and two shares are accepted, rejected or
raise in any order and with a block in between (`Shown` and `Grows` are proved for any
number).
Every action fires in the passing runs, and every property is broken by a plausible bug in
the code: the mutants in `PROJECT.json` (a dropped kill, a retry without the shutdown,
reused ids, the position reset of v0.4.1, ...), each defined just before the definition it
replaces.

Fairness. asyncio resumes a coroutine whose await is over and fires its timers: weak
fairness of the solver's, the shutdowns' and the session's own steps. Nothing is assumed
of the daemon, the pool, the network or the user: they may be silent for ever.
Each line of a daemon restarts the 60 s of the read (`:423-438`), so a daemon that streams
shares without end keeps its slice for ever: `SliceEnds` says that this is the only way, and
the watchdog's trigger A is what then bounces it. `NonceScan` assumes that a slice ends.
`HealWatchdog` assumes that time passes, that the loop resumes, and that a *healthy* solver returns.
`Update` assumes that the check of a `Steady` miner goes on (its calls have timeouts) and
that its watcher wakes; other miners may freeze anywhere, and the channel, pip, downloads
and installations may fail for ever. `Ember` assumes that the tuner and the dashboard's main
thread go on, and nothing of the pump, which writes to a terminal that may block; that a
trial's window ends (`EndWindow`) is an assumption about the miner, because
`measure()` looks at its clock only when a line comes: a miner that hangs without a line
hangs the tuner. That the leader dies after SIGTERM is not assumed: SIGKILL follows.

Deadlock is checked in `scan`, `watchdog`, `update` and `ember`. In the wrapper the client really can stop (`wrapper_reconnect`
below), and in `session` the bound on sessions ends every behaviour.

What some of the properties leave out, because the code does not keep more:

* `DesyncOnlyWhenCutShort` and `ImplementsService` name the two ways in which a slice is cut
  short: the session's end and `ReadRaises`. `OwnAnswers` and `OneJob` (below) assume both away.
* `TipIsMined` exempts a session whose solver loop has died of a null position.
* `PreemptsDeadTip` ends at the call of `preempt()`, which does nothing if it finds no daemon.
* `CooldownKept` exempts a bounce that a session's end cancelled: it is not recorded.
* `OwnInstallRuns` exempts a failed re-exec, and a check during which another miner replaced
  the file.
* `KeepsAsking` says that a miner goes on asking for releases, whatever fails. It asks again
  for a broken one too: the mark that stops a second attempt is popped by the start, and the
  periodic check of the same process runs pip again, although `wrapper_updater.py:131-134`
  and `:164-168` say that no further attempt is made in this process's lifetime.
  `BoundedRestarts` therefore counts only up to the next spell of mining.
* That mining "must not proceed" below a mandatory floor has no property: the code refuses
  only when the *download* fails. When the installation of a good download fails
  (`solver_updater.py:289-294`) the old solver mines on, and the SHA that is compared was read
  before the download (`:281`). `Update` has both steps.
* `StartEnds` counts a process that is gone: a start may end in an exception of the updaters.
* `BestIsSaved` exempts a trial recorded and not compared when Ctrl-C came, and compares
  trials with a power reading only with each other.

### What does not hold

Five runs show a comment, docstring or changelog entry that the code does not keep:

* `wrapper_one_job` / `OneJobInFlight`. "One job at a time per process" (`gbt_solve_wrapper.py:19`).
  A connection loss cancels the solver loop while it waits for the daemon's answer. The job
  stays in the daemon; the next session's first job is written behind it, and the client
  takes the answer to the old job for the answer to the new one, for every slice from then
  on, until something restarts the daemon. The same happens with no session lost when a line
  raises what `:443` does not name: the slice raises, its daemon and its job stay.
* `wrapper_preempt` / `PreemptOnlyAdvertised`. `preempt()` is to do nothing unless the
  solver advertised the capability in its ready line (`:340`). The flag is never reset, so
  after a bounce a new tip sends SIGUSR1 to a daemon that is still initialising.
* `wrapper_reconnect` / `ReconnectsAfterLoss`. "Reconnect: on disconnect or error"
  (`stratum_client.py:12`). `_shutdown_daemon` swallows `CancelledError` while it awaits the
  stderr task; a cancelled solver loop goes on, `_session_once` waits for it and the miner
  stays offline.
* `session_heal_window` / `FreshHealWindow`. "A reconnect must not count pre-reconnect
  silence/rejects" (`stratum_client.py:214`). Submit tasks survive their session, and their
  30 s timeouts count into the next one's streak.
* `scan_range` / `SweepsOwnRange`. Solvers that respect `nonce64_start` "automatically sweep
  disjoint nonce ranges" (`client/CHANGELOG.md:1054`). Sessions are 2^32 nonces apart; a
  found or failed slice advances the position by `nonces_per_slice`, 10^11 by default.

## 4. What is proved

The proof modules hold, for every set of processes and shapes, every number of lines, every set of parents and slice length, any shares and any number of sessions, all
limits of the watchdog in the defaults' order, any miners, releases and binaries, any
candidates, rates and log length:

| Theorem | States |
|---|---|
| `GbtSolveWrapper_proofs!TypeCorrect` | `Spec => []TypeOK` |
| `GbtSolveWrapper_proofs!NoOrphan` | `Spec => []NoOrphanDaemon` |
| `GbtSolveWrapper_proofs!OneCopy` | `Spec => []OneCopyOfTheJob` |
| `GbtSolveWrapper_proofs!Desync` | `Spec => DesyncOnlyWhenCutShort` |
| `GbtSolveHeard_proofs!Implements` | `HSpec => ImplementsService` |
| `GbtSolveHeard_proofs!StaysInStep` | `HSpec => []Service!InStep` |
| `GbtSolveHeard_proofs!OwnAnswers` | `HSpec => [](heard \subseteq {"cur"})`, if `[][~CutShort]_hvars` |
| `GbtSolveHeard_proofs!OneJob` | `HSpec => []OneJobAtATime`, if `[][~CutShort]_hvars` |
| `NonceScan_proofs!TypeCorrect` | `Spec => []TypeOK` |
| `NonceScan_proofs!Rescan` | `Spec => []NoRescan` |
| `NonceScan_proofs!DeadTip` | `Spec => []PreemptsDeadTip` |
| `StratumSession_proofs!TypeCorrect` | `Spec => []TypeOK` |
| `StratumSession_proofs!Implements` | `Spec => ImplementsLedger`, if `FewShares` |
| `StratumSession_proofs!Balance` | `Spec => []CountersBalance`, if `FewShares` and `Tasks` is finite |
| `StratumSession_proofs!Entered` | `Spec => []WaiterEntered` |
| `HealWatchdog_proofs!TypeCorrect` | `Spec => []TypeOK` |
| `HealWatchdog_proofs!InTime` | `Spec => []NoticedInTime` |
| `HealWatchdog_proofs!StreakInTime` | `Spec => []StreakNoticed` |
| `HealWatchdog_proofs!Cooled` | `Spec => CooldownKept` |
| `HealWatchdog_proofs!Spared` | `Spec => HealthyLeftAlone` |
| `Update_proofs!TypeCorrect` | `Spec => []TypeOK` |
| `Update_proofs!Bounded` | `Spec => []BoundedRestarts` |
| `Update_proofs!OwnInstall` | `Spec => []OwnInstallRuns` |
| `Ember_proofs!TypeCorrect` | `Spec => []TypeOK` |
| `Ember_proofs!Shown` | `Spec => []ShownIsCounted` |
| `Ember_proofs!Grows` | `Spec => ShownGrows` |
| `Ember_proofs!StopsWithParent` | `Spec => []MinerStopsWithParent` |
| `Ember_proofs!Best` | `Spec => BestIsSaved` |

The only assumptions are those the modules name (`None` is not a process, a shape, a
parent, a job, a share, a binary, a configuration or a number, the bounds are natural
numbers, a slice is not empty, rates and powers are numbers, objectives are the two of the
command line), `DefaultsAssumption` (the order of the watchdog's defaults),
`HorizonAssumption` (the ages stop beyond every limit) and, where the table says so,
`FewShares`: the shares are finitely many and no more than the dedupe set holds before it is
emptied. That is the condition of the code, not of the proof:
without it the refinement is false.

*The daemon.* `NoOrphanDaemon` alone is not inductive: a spawn could orphan what a shutdown
still waits for. `OwnershipInv` adds that nothing lives while a process is being spawned and
that a shutdown which waits for a process waits for `self._daemon` if that lives;
`CallersInv` says who calls `_shutdown_daemon` and why. `PipesInv` is the invariant behind
`OneCopyOfTheJob` and `DesyncOnlyWhenCutShort`: only a slice that reads, or that gives up
reading, has anything in the pipes of a living process; its job is the last job there, and
its answer, once it is printed, is the last line and has no job behind it. `SessionInv`
closes the gap between two sessions. Each action has its lemma, one per part it can disturb.

*The promise to the solver loop.* `HIInv` adds three parts to that invariant. `FlagInv`:
`_inflight_parent` is set while a slice runs, so that it tells a slice that returned from one
that raised. `ReaderInv`: the process whose stdout is read is `self._daemon`, or that was
reset. `OrderInv`: in the pipes,
what ended slices left comes before what is the running one's, so its first own line shows
that nothing is owed. A step is then of one of a few kinds (`StepKinds`): nothing
is written or read, a job is written, the slice ends, a process is spawned, a share is read,
or a daemon prints a line; `DebtFalls` says of each that no debt arises, except where
`LoseSession` ends a slice that runs (`LostWithoutDebt` is the rest of that action) or
`ReadRaises` ends one. `LoopStays`, `SliceGoesOn`, `FlagStep` and `RaisedFlagged` are what
the mapping of `slice` needs. `OneJob` is the part of "one job at a time per process" that
does hold: until a slice is cut short a daemon has one job at most, and no answer in front
of it; with `OwnAnswers` that isolates the two ways of `CutShort`, a session's end and an
exception that `:443` does not name, as the only causes of what `wrapper_one_job` shows. The
hypothesis of both, `[][~CutShort]_hvars`, leaves every other failure possible: timeouts,
dead daemons, text that is no JSON, retries, and bounces at any point.

*The nonce position.* `NoRescan` needs to know what is true while nothing scans:
`CurrentAbove`, that the current job's position is above all that was scanned on its parent
unless a slice on it has ended and is about to write its position back; `JobAbove`, that the
slice, and the position it will write, are above it too; and `FirstJob`, that nothing is
scanned before a session's first notification. An absent or null position counts as 0
there: nothing has been scanned on its parent yet. `DeadTip` rests on `PreemptInv`: while a
slice runs, the handler compares with the parent of that very slice, however the slices
before it ended.

*The ledger.* A step of the session is mapped to the ledger by `StatusOf`. That an accepted
share was accepted by the pool needs the way of an answer: `Numbered` (no id that is in a
request, an answer or a call will be given out again), `AnswersInv` (what answers a
submission's id, on the way or read, is about its share and says ok only if the pool did)
and `CallsInv` (a share is in flight with one submitter at most, and has an outcome once it
is with none). For the counters, `Unsettled` adds that a share has no outcome before it is
submitted or while it is in flight, so none is counted twice. `WaitersInv` adds to `WaiterEntered` that no two calls wait under
one id and that none waits under an id still to be given out: what a late answer, or a
timeout that removes its own entry, could otherwise take from another.

*The watchdog.* `NoticedInTime` speaks of the end of a sleep; `Noticed` says it of every
moment of it, and `Streak` does the same for `StreakNoticed`: it counts up to the next check,
or the cooldown that held back the last one still lasts. For `CooldownKept`, `Recorded` relates what the loop remembers to what was
done: the age it uses is never above the age of the last bounce unless that was cut, and the
escalation it counts is the bounces since the last accept. For `HealthyLeftAlone`, `Healthy`
says that a slice of a healthy solver is short and began with a result or with the health.
That the slice limit is below the stall limit is used, and needed.

*The updates.* `Carries` says at which point of a check a process has which of its
variables. `FewRestarts` is the argument against a restart loop: a process that does not
mine yet was re-executed at most once, or has the mark that keeps it from upgrading again; a
mining one has started a new count. `KnowsFile` is what a thread may conclude from the SHA
it read, as long as no other miner replaces the file, which `disturbed` records.

*The programs around the miner.* `LogInv`: the log counts up, line by line, from what is
shown to what the miner has counted, and a rejection has the blocks of the line before it,
which is why it may be silent about them; a submission that raised changes nothing that is
shown, and the next verdict's line brings it in (`Said` is what the log has said so far). The
same order of the lines gives `ShownGrows`.
`OffInv` says what a new dashboard starts with.
`BestInv`: what was compared does not beat the best, and the best scored what was recorded
of it; `SweepInv`: a trial that runs is a new one, and only an interrupt ends the sweep early.

Only model-checked, because liveness under fairness is outside the prover's reach:
`SliceEnds`, `ForceRestartEnds`, `TipIsMined`, `SubmissionsEnd`, `HandshakeEnds`,
`HungIsBounced`, `StreakIsBounced`, `StartEnds`, `KeepsAsking`, `TuneEnds` and
`GuiEnds`. Every safety property of a passing run is stated by a theorem. The inductive
invariants were checked with TLC on the instances of the runs before they were proved.

## 5. What is not modelled

* Telemetry, the parsing of the configuration, the benchmark, the installers, pages: I/O,
  values read once, or one command after the other.
* `canonical_names.py`: a file of names that are shown; two miners may lose an entry of each
  other's (listed as a hazard).
* Of the dashboard: the `rocm-smi` poller, the HTTP threads and the figures that are only
  displayed. `gui/ember_update.py` asks once a day for a newer tag and prints it.
* Of the launcher: its search for files, and its end when a tool such as `rocminfo` is
  missing.
* The solver binary: closed; whatever its client can observe of it is allowed.
* Backpressure: `drain()` and `wait_closed()` have no timeout and could block on a peer that
  stops reading; a job is far smaller than a pipe's buffer.
* How much a daemon prints on stderr, and so the hang of a daemon nobody drains.
* What a malformed record says: a line either raises, and where, or it is taken for what it is
  (`Kind`).
* A terminal that blocks the dashboard's log reader without failing: nothing is assumed of
  that thread, and nothing is promised of it.
* The interpreter's exit in the dashboard, which may wait for the browser's timer thread.

## 6. What is left

1. `Miner`: `NonceScan` over `SolveService`, so that a record of another slice moves the
   position; with it, the preempt that finds no daemon because one is being respawned, so
   that the dead tip is mined to the slice's end.
2. `CanonicalNames`: two miners that read, change and replace one file.
3. `HealWatchdog` over `GbtSolveWrapper`'s daemon instead of the four kinds of solver it
   takes as given.
4. The promises of the updaters that the code does not keep (no second attempt at a release
   in one run, no mining below the floor) as runs that show it.
5. Theorems: what of `NoRescan` survives a debt in the composed miner.
