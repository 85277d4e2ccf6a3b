--------------------------- MODULE GbtSolveWrapper ---------------------------
(***************************************************************************)
(* client/src/dexbtx_miner/gbt_solve_wrapper.py: the persistent solver     *)
(* daemon behind GbtSolveWrapper, with the three asyncio callers that      *)
(* stratum_client.py gives it:                                             *)
(*   - the solver loop, which runs one solve_slice after another;          *)
(*   - the heal loop, which calls force_restart() without the lock;        *)
(*   - the notify handler, which calls preempt() (SIGUSR1);                *)
(* and with the session teardown that cancels the first two.  The daemon   *)
(* itself (bin/btx-gbt-solve) is external: it may become ready, stream     *)
(* shares, answer, print something unexpected, hang or die at any time.    *)
(*                                                                         *)
(* One step is what asyncio runs between two awaits.  _daemon_lock is not  *)
(* a variable: only the solver loop takes it, so it is never contended.    *)
(***************************************************************************)
EXTENDS Naturals, Sequences

CONSTANTS
  Procs,        \* identities of daemon processes, reused once a process is gone
  Shapes,       \* the matmul shapes (n, b, r, epsilon_bits) a job may ask for
  None,         \* Python's None
  MaxUnread,    \* bound: unread lines in a pipe with which the daemon prints on
  MaxBacklog    \* bound: lines and jobs in the pipes when a slice is cut short

ASSUME NoneAssumption == None \notin Procs /\ None \notin Shapes
ASSUME BoundAssumption == MaxUnread \in Nat /\ MaxBacklog \in Nat

Callers == {"solver", "heal"}

VARIABLES
  \* the daemon processes and their pipes (external)
  life,             \* "init" | "up" | "dead"
  stdin_open,       \* our end of its stdin is open
  line,             \* its ready line: "none" | "plain" | "preempt"
  inbox,            \* jobs written to it and not answered yet
  stdout,           \* lines it printed that nobody has read yet
  abort,            \* SIGUSR1 received, job not yet cut short
  \* GbtSolveWrapper's attributes
  daemon,           \* _daemon
  matmul_params,    \* _matmul_params
  preempt_capable,  \* _solver_preempt_capable
  stderr_task,      \* the process _stderr_task drains, None when there is none
  \* the callers
  task,             \* where each coroutine awaits
  attempt,          \* _send_job_with_retry: attempt
  challenge,        \* the shape of the slice's challenge
  inflight_parent,  \* StratumClient._inflight_parent is not None
  session           \* "up" | "endSolver" | "endHeal" | "down"

procVars == <<life, stdin_open, line, abort>>
wrapperVars == <<daemon, matmul_params, preempt_capable, stderr_task>>
sliceVars == <<inbox, stdout, attempt, challenge, inflight_parent>>
vars == <<procVars, wrapperVars, task, sliceVars, session>>

(***************************************************************************)
(* Every job and every line carries whose it is: "cur" belongs to the      *)
(* slice that is running, "old" to a slice that ended without reading it.  *)
(***************************************************************************)
Owner == {"cur", "old"}

(***************************************************************************)
(* What a line is to the read loop: a streamed share; "final", the record  *)
(* or the job error that ends the slice; no JSON at all ("garbage"), which *)
(* the except clause of the retry loop names; or a line that raises what   *)
(* that clause does not name ("bad"): over the reader's 16 MiB limit       *)
(* (ValueError), JSON that is no object, a record without numbers where    *)
(* _result_from_record wants them.                                         *)
(***************************************************************************)
Kind == {"share", "final", "garbage", "bad"}
Line == [kind : Kind, owner : Owner]

Pc == {"none",      \* no such task
       "idle",      \* between two slices, or between two bounces
       "spawn",     \* await create_subprocess_exec
       "ready",     \* await stderr.readline(), 30 s
       "read",      \* await stdout.readline(), 60 s
       "backoff",   \* await asyncio.sleep(1.0)
       "drain",     \* _shutdown_daemon: await stderr_task
       "wait",      \* _shutdown_daemon: await wait_for(wait(), 5 s)
       "kill"}      \* _shutdown_daemon: await wait() after kill()
Why == {"shape", "ready", "io", "heal", "-"}    \* who called _shutdown_daemon
Task == [pc : Pc, why : Why, proc : Procs \cup {None}]

At(pc) == [pc |-> pc, why |-> "-", proc |-> None]
On(pc, p) == [pc |-> pc, why |-> "-", proc |-> p]
Down(pc, why, p) == [pc |-> pc, why |-> why, proc |-> p]

TypeOK ==
  /\ life \in [Procs -> {"init", "up", "dead"}]
  /\ stdin_open \in [Procs -> BOOLEAN]
  /\ line \in [Procs -> {"none", "plain", "preempt"}]
  /\ inbox \in [Procs -> Seq(Owner)]
  /\ stdout \in [Procs -> Seq(Line)]
  /\ abort \in [Procs -> BOOLEAN]
  /\ daemon \in Procs \cup {None}
  /\ matmul_params \in Shapes \cup {None}
  /\ preempt_capable \in BOOLEAN
  /\ stderr_task \in Procs \cup {None}
  /\ task \in [Callers -> Task]
  /\ attempt \in {1, 2}
  /\ challenge \in Shapes \cup {None}
  /\ inflight_parent \in BOOLEAN
  /\ session \in {"up", "endSolver", "endHeal", "down"}

Alive(p) == life[p] # "dead"
DaemonAlive == daemon # None /\ Alive(daemon)
Goto(c, t) == task' = [task EXCEPT ![c] = t]
InShutdown(c) == task[c].pc \in {"drain", "wait", "kill"}

\* Nothing is between two awaits that the event loop would resume before it
\* sees a child process come up: no shutdown has anything left to do now.
Quiet == \A c \in Callers :
           /\ task[c].pc # "drain"
           /\ task[c].pc \in {"wait", "kill"} => Alive(task[c].proc)

Init ==
  /\ life = [p \in Procs |-> "dead"]
  /\ stdin_open = [p \in Procs |-> FALSE]
  /\ line = [p \in Procs |-> "none"]
  /\ inbox = [p \in Procs |-> <<>>]
  /\ stdout = [p \in Procs |-> <<>>]
  /\ abort = [p \in Procs |-> FALSE]
  /\ daemon = None
  /\ matmul_params = None
  /\ preempt_capable = FALSE
  /\ stderr_task = None
  /\ task = [c \in Callers |-> At("idle")]
  /\ attempt = 1
  /\ challenge = None
  /\ inflight_parent = FALSE
  /\ session = "up"

-----------------------------------------------------------------------------
(***************************************************************************)
(* The end of a slice.  The pipes of a dead process are gone with it, and  *)
(* what the slice leaves in the pipes of a living one is nobody's now.     *)
(***************************************************************************)
Disown(q) == [i \in 1..Len(q) |-> "old"]
DisownLines(q) == [i \in 1..Len(q) |-> [q[i] EXCEPT !.owner = "old"]]

LeavePipes(out) ==
  /\ inbox' = [p \in Procs |-> IF Alive(p) THEN Disown(inbox[p]) ELSE <<>>]
  /\ stdout' = [p \in Procs |-> IF Alive(p) THEN DisownLines(out[p]) ELSE <<>>]

\* solve_slice returns (with a result or with found=False): the solver loop
\* clears _inflight_parent.
SliceReturns(out) ==
  /\ LeavePipes(out)
  /\ Goto("solver", At("idle"))
  /\ attempt' = 1
  /\ challenge' = None
  /\ inflight_parent' = FALSE

\* solve_slice raises: the solver loop logs it and _inflight_parent stays.
SliceRaises(out) ==
  /\ LeavePipes(out)
  /\ Goto("solver", At("idle"))
  /\ attempt' = 1
  /\ challenge' = None
  /\ UNCHANGED inflight_parent


-----------------------------------------------------------------------------
(***************************************************************************)
(* _shutdown_daemon: a subroutine of both callers.                         *)
(***************************************************************************)

\* stdin.close(), then wait for the process: self._daemon is read again here,
\* and the process it names is waited for from then on.
CloseAndWait(c, why) ==
  /\ stdin_open' = [stdin_open EXCEPT ![daemon] = FALSE]
  /\ Goto(c, Down("wait", why, daemon))

\* The body up to its first await: a stderr task is cancelled and awaited.
BeginShutdown(c, why, drained) ==
  /\ daemon # None
  /\ \/ drained # None /\ Goto(c, Down("drain", why, None)) /\ UNCHANGED stdin_open
     \/ drained = None /\ CloseAndWait(c, why)

\* Mutant: the retry loop forgets how many attempts it may make.
AfterShutdownUnbounded(c, why) ==
  IF why = "io" THEN /\ Goto(c, At("backoff"))
                     /\ attempt' = attempt + 1
                     /\ UNCHANGED <<inbox, stdout, challenge, inflight_parent>>
                ELSE Goto(c, At("idle")) /\ UNCHANGED sliceVars

\* What the caller does once _shutdown_daemon has returned.
AfterShutdown(c, why) ==
  \/ /\ why = "heal"                       \* force_restart returns
     /\ Goto(c, At("idle"))
     /\ UNCHANGED sliceVars
  \/ /\ why = "shape"                      \* _ensure_daemon goes on to spawn
     /\ Goto(c, At("spawn"))
     /\ UNCHANGED sliceVars
  \/ /\ why = "ready"                      \* raise RuntimeError
     /\ SliceRaises(stdout)
  \/ /\ why = "io" /\ attempt = 1          \* await asyncio.sleep(1.0)
     /\ Goto(c, At("backoff"))
     /\ attempt' = 2
     /\ UNCHANGED <<inbox, stdout, challenge, inflight_parent>>
  \/ /\ why = "io" /\ attempt = 2          \* return None
     /\ SliceReturns(stdout)

\* The solver loop calls _shutdown_daemon, which does nothing without a daemon.
CallShutdown(why) ==
  \/ BeginShutdown("solver", why, stderr_task) /\ UNCHANGED sliceVars
  \/ daemon = None /\ AfterShutdown("solver", why) /\ UNCHANGED stdin_open

\* The stderr task has ended.  If the other caller's shutdown has completed
\* meanwhile, self._daemon is None and the attribute access raises.
ShutdownDrained(c) ==
  /\ task[c].pc = "drain"
  /\ stderr_task' = None
  /\ \/ /\ daemon # None
        /\ CloseAndWait(c, task[c].why)
        /\ UNCHANGED sliceVars
     \/ /\ daemon = None /\ c = "solver"
        /\ SliceRaises(stdout)
        /\ UNCHANGED stdin_open
     \/ /\ daemon = None /\ c = "heal"
        /\ Goto(c, At("idle"))
        /\ UNCHANGED <<stdin_open, sliceVars>>
  /\ UNCHANGED <<life, line, abort, daemon, matmul_params,
                 preempt_capable, session>>

\* The process has exited: _daemon and _matmul_params are reset.
ShutdownDone(c) ==
  /\ task[c].pc \in {"wait", "kill"}
  /\ ~Alive(task[c].proc)
  /\ daemon' = None
  /\ matmul_params' = None
  /\ AfterShutdown(c, task[c].why)
  /\ UNCHANGED <<life, stdin_open, line, abort,
                 preempt_capable, stderr_task, session>>

\* Mutant: no time limit on the process's exit.
NeverKill(c) == FALSE

\* Mutant: after 5 s the shutdown gives the process up instead of killing it.
ShutdownGivesUp(c) ==
  /\ task[c].pc = "wait"
  /\ Alive(task[c].proc)
  /\ daemon' = None
  /\ matmul_params' = None
  /\ AfterShutdown(c, task[c].why)
  /\ UNCHANGED <<life, stdin_open, line, abort,
                 preempt_capable, stderr_task, session>>

\* 5 s have passed: SIGKILL to the process self._daemon names now, and wait.
ShutdownKill(c) ==
  /\ task[c].pc = "wait"
  /\ Alive(task[c].proc)
  /\ daemon # None
  /\ Goto(c, Down("kill", task[c].why, daemon))
  /\ life' = [life EXCEPT ![daemon] = "dead"]
  /\ UNCHANGED <<stdin_open, line, abort, wrapperVars,
                 sliceVars, session>>

-----------------------------------------------------------------------------
(***************************************************************************)
(* The solver loop: solve_slice, _send_job_with_retry, _ensure_daemon.     *)
(***************************************************************************)

\* stdin.write(job), drain().  A closed or broken stdin raises, the first of
\* the I/O failures of the retry loop.
WriteJob(drained) ==
  \/ /\ stdin_open[daemon] /\ Alive(daemon)
     /\ inbox' = [inbox EXCEPT ![daemon] = Append(@, "cur")]
     /\ Goto("solver", On("read", daemon))
     /\ UNCHANGED stdin_open
  \/ /\ ~(stdin_open[daemon] /\ Alive(daemon))
     /\ BeginShutdown("solver", "io", drained)
     /\ UNCHANGED inbox

\* _ensure_daemon up to its first await, and the write that follows when it
\* has none.
EnsureDaemon(shape) ==
  /\ \/ /\ daemon # None /\ matmul_params # shape
        /\ BeginShutdown("solver", "shape", stderr_task)
        /\ UNCHANGED inbox
     \/ /\ DaemonAlive /\ matmul_params = shape
        /\ WriteJob(stderr_task)
     \/ /\ ~DaemonAlive /\ (daemon # None => matmul_params = shape)
        /\ Goto("solver", At("spawn"))
        /\ UNCHANGED <<stdin_open, inbox>>
  /\ UNCHANGED <<life, line, stdout, abort, wrapperVars,
                 session>>

\* The solver loop takes the pool's current job and calls solve_slice.
StartSlice(shape) ==
  /\ task["solver"].pc = "idle"
  /\ challenge' = shape
  /\ inflight_parent' = TRUE
  /\ EnsureDaemon(shape)
  /\ UNCHANGED attempt

\* The second attempt, 1 s later.
Retry ==
  /\ task["solver"].pc = "backoff"
  /\ EnsureDaemon(challenge)
  /\ UNCHANGED <<attempt, challenge, inflight_parent>>

\* The child process is there: it becomes self._daemon.
Spawned(p) ==
  /\ task["solver"].pc = "spawn"
  /\ Quiet
  /\ ~Alive(p)
  /\ life' = [life EXCEPT ![p] = "init"]
  /\ stdin_open' = [stdin_open EXCEPT ![p] = TRUE]
  /\ line' = [line EXCEPT ![p] = "none"]
  /\ inbox' = [inbox EXCEPT ![p] = <<>>]
  /\ stdout' = [stdout EXCEPT ![p] = <<>>]
  /\ abort' = [abort EXCEPT ![p] = FALSE]
  /\ daemon' = p
  /\ stderr_task' = IF stderr_task = p THEN None ELSE stderr_task
  /\ Goto("solver", On("ready", p))
  /\ UNCHANGED <<matmul_params, preempt_capable, attempt, challenge,
                 inflight_parent, session>>

\* The binary cannot be started: OSError, which the retry loop does not catch.
SpawnFailed ==
  /\ task["solver"].pc = "spawn"
  /\ SliceRaises(stdout)
  /\ UNCHANGED <<life, stdin_open, line, abort,
                 wrapperVars, session>>

\* The ready line, or EOF when the process died first.  Whatever the line is,
\* the daemon is taken as ready; only a line that says so makes it preemptible.
\* _drain_stderr is started on, and _ensure_daemon returns, what self._daemon
\* is now: None after a force_restart, and then the caller's assertion raises.
ReadReadyLine ==
  LET p == task["solver"].proc IN
  /\ task["solver"].pc = "ready"
  /\ line[p] # "none" \/ ~Alive(p)
  /\ preempt_capable' = (line[p] = "preempt")
  /\ matmul_params' = challenge
  /\ stderr_task' = daemon
  /\ \/ /\ daemon = None
        /\ SliceRaises(stdout)
        /\ UNCHANGED stdin_open
     \/ /\ daemon # None
        /\ WriteJob(daemon)
        /\ UNCHANGED <<stdout, attempt, challenge, inflight_parent>>
  /\ UNCHANGED <<life, line, abort, daemon, session>>

callUnchanged == <<life, line, abort, wrapperVars, session>>

\* A ready line over the reader's limit: ValueError, which nobody catches.  The
\* process lives on as self._daemon, with _matmul_params as it was before.
ReadyLineRaises ==
  /\ task["solver"].pc = "ready"
  /\ line[task["solver"].proc] = "plain"
  /\ SliceRaises(stdout)
  /\ UNCHANGED <<stdin_open, callUnchanged>>

\* No ready line in 30 s.
ReadyTimeout ==
  /\ task["solver"].pc = "ready"
  /\ line[task["solver"].proc] = "none" /\ Alive(task["solver"].proc)
  /\ CallShutdown("ready")
  /\ UNCHANGED callUnchanged

Reading(p) == task["solver"].pc = "read" /\ task["solver"].proc = p
Popped(p) == [stdout EXCEPT ![p] = Tail(@)]

\* A streamed share: on_stream_share is called and the loop reads on.
ReadShare(p) ==
  /\ Reading(p) /\ stdout[p] # <<>>
  /\ Head(stdout[p]).kind = "share"
  /\ stdout' = Popped(p)
  /\ UNCHANGED <<procVars, wrapperVars, task, inbox, attempt, challenge,
                 inflight_parent, session>>

\* The slice's record, or a job error: solve_slice returns.
ReadFinal(p) ==
  /\ Reading(p) /\ stdout[p] # <<>>
  /\ Head(stdout[p]).kind = "final"
  /\ SliceReturns(Popped(p))
  /\ UNCHANGED <<stdin_open, callUnchanged>>

\* Mutant: a bad line ends the slice and leaves the daemon as it is.
ReturnOnGarbage(p) ==
  /\ Reading(p) /\ stdout[p] # <<>>
  /\ Head(stdout[p]).kind = "garbage"
  /\ SliceReturns(stdout)
  /\ UNCHANGED <<stdin_open, callUnchanged>>

\* A line that is not JSON.  It stays in the pipe, which nobody reads again.
ReadGarbage(p) ==
  /\ Reading(p) /\ stdout[p] # <<>>
  /\ Head(stdout[p]).kind = "garbage"
  /\ CallShutdown("io")
  /\ UNCHANGED callUnchanged

\* A line over the limit: the reader drops what it holds of it, and the rest
\* of the line is left to whoever reads next.
Torn(p) == [stdout EXCEPT ![p] = [@ EXCEPT ![1].kind = "garbage"]]

\* A line that raises what the except clause does not name: solve_slice raises
\* there and then, without _shutdown_daemon and without a second attempt.
ReadRaises(p) ==
  /\ Reading(p) /\ stdout[p] # <<>>
  /\ Head(stdout[p]).kind = "bad"
  /\ \E out \in {Popped(p), Torn(p)} : SliceRaises(out)
  /\ UNCHANGED <<stdin_open, callUnchanged>>

\* EOF after the last line.
ReadEof(p) ==
  /\ Reading(p) /\ stdout[p] = <<>> /\ ~Alive(p)
  /\ CallShutdown("io")
  /\ UNCHANGED callUnchanged

\* Mutants of the next action: no time limit; a retry, and a return, that leave
\* the daemon as it is.
ReadForever(p) == FALSE
RetryOnTimeout(p) ==
  /\ Reading(p) /\ stdout[p] = <<>> /\ Alive(p)
  /\ AfterShutdown("solver", "io")
  /\ UNCHANGED <<stdin_open, callUnchanged>>
ReturnOnTimeout(p) ==
  /\ Reading(p) /\ stdout[p] = <<>> /\ Alive(p)
  /\ SliceReturns(stdout)
  /\ UNCHANGED <<stdin_open, callUnchanged>>

\* No line in 60 s.
ReadTimeout(p) ==
  /\ Reading(p) /\ stdout[p] = <<>> /\ Alive(p)
  /\ CallShutdown("io")
  /\ UNCHANGED callUnchanged

\* _drain_stderr ends at the EOF of a dead process, or earlier: a line over the
\* limit raises there too, and from then on nobody reads that stderr.
StderrBreaks ==
  /\ stderr_task # None /\ Alive(stderr_task)
  /\ stderr_task' = None
  /\ UNCHANGED <<procVars, daemon, matmul_params, preempt_capable, task,
                 sliceVars, session>>

StderrEof ==
  /\ stderr_task # None /\ ~Alive(stderr_task)
  /\ stderr_task' = None
  /\ UNCHANGED <<procVars, daemon, matmul_params, preempt_capable, task,
                 sliceVars, session>>
-----------------------------------------------------------------------------
(***************************************************************************)
(* The other callers: the heal loop, the notify handler, the session.      *)
(***************************************************************************)

\* The heal loop decides to bounce the daemon: force_restart, which takes no
\* lock.  Without a daemon it returns at once and changes nothing.
ForceRestart ==
  /\ task["heal"].pc = "idle"
  /\ BeginShutdown("heal", "heal", stderr_task)
  /\ UNCHANGED <<sliceVars, callUnchanged>>

\* preempt() sends the signal under these conditions; the notify handler
\* calls it while a slice is thought to be in flight on another parent.
CanSignal == session = "up" /\ inflight_parent /\ preempt_capable /\ DaemonAlive

\* A new tip: SIGUSR1.  A solver that has announced the capability aborts the
\* job it works on; on one that has not, the signal is fatal.
TipPreempt ==
  /\ CanSignal
  /\ \/ /\ line[daemon] = "preempt" /\ inbox[daemon] # <<>>
        /\ abort' = [abort EXCEPT ![daemon] = TRUE]
        /\ UNCHANGED life
     \/ /\ line[daemon] # "preempt"
        /\ life' = [life EXCEPT ![daemon] = "dead"]
        /\ UNCHANGED abort
  /\ UNCHANGED <<stdin_open, line, wrapperVars, task,
                 sliceVars, session>>

\* Task.cancel(): CancelledError at the coroutine's await, except that the
\* await of the stderr task swallows it (except (CancelledError, Exception)).
Cancel(c) ==
  IF task[c].pc = "drain" THEN UNCHANGED task ELSE Goto(c, At("none"))

Backlog(p) == Len(inbox[p]) + Len(stdout[p])

\* The connection to the pool is lost: _session_once cancels the solver task,
\* wherever it is.  MaxBacklog bounds how often a job may be abandoned.
LoseSession ==
  /\ session = "up"
  /\ \A p \in Procs : Reading(p) => Backlog(p) <= MaxBacklog
  /\ Cancel("solver")
  /\ IF task["solver"].pc = "drain"
       THEN UNCHANGED <<inbox, stdout, attempt, challenge>>
       ELSE LeavePipes(stdout) /\ attempt' = 1 /\ challenge' = None
  /\ session' = "endSolver"
  /\ UNCHANGED <<procVars, wrapperVars, inflight_parent>>

\* `await self._solver_task` has returned: the heal task is next.
SolverTaskEnded ==
  /\ session = "endSolver" /\ task["solver"].pc = "none"
  /\ Cancel("heal")
  /\ session' = "endHeal"
  /\ UNCHANGED <<procVars, wrapperVars, sliceVars>>

\* `await self._heal_task` has returned: the teardown is complete.
HealTaskEnded ==
  /\ session = "endHeal" /\ task["heal"].pc = "none"
  /\ session' = "down"
  /\ UNCHANGED <<procVars, wrapperVars, task, sliceVars>>

\* run_forever reconnects, and the handshake starts both tasks again.
Reconnect ==
  /\ session = "down"
  /\ session' = "up"
  /\ task' = [c \in Callers |-> At("idle")]
  /\ UNCHANGED <<procVars, wrapperVars, sliceVars>>

-----------------------------------------------------------------------------
(***************************************************************************)
(* The daemon process (external).                                          *)
(***************************************************************************)
daemonUnchanged == <<stdin_open, wrapperVars, task, attempt, challenge,
                     inflight_parent, session>>

\* The ready line; an installed binary may or may not support the preempt.
DaemonReady(p) ==
  /\ life[p] = "init"
  /\ life' = [life EXCEPT ![p] = "up"]
  /\ \E l \in {"plain", "preempt"} : line' = [line EXCEPT ![p] = l]
  /\ UNCHANGED <<inbox, stdout, abort, daemonUnchanged>>

\* MaxBacklog bounds how often the reader may be made to raise.
MayPrint(p, k) == k = "bad" => Backlog(p) <= MaxBacklog

PrintsLine(p, k) ==
  /\ MayPrint(p, k)
  /\ stdout' = [stdout EXCEPT ![p] =
                  Append(@, [kind |-> k, owner |-> Head(inbox[p])])]

\* A line while it works on a job, and any number of them: a share, for which
\* it is not too late, or whatever it prints that is no answer.
DaemonPrints(p) ==
  /\ life[p] = "up" /\ inbox[p] # <<>>
  /\ Len(stdout[p]) < MaxUnread
  /\ \E k \in Kind \ {"final"} : (k = "share" => ~abort[p]) /\ PrintsLine(p, k)
  /\ UNCHANGED <<life, line, inbox, abort, daemonUnchanged>>

\* The job's last line: its record, a job error, or something that raises.
DaemonAnswer(p) ==
  /\ life[p] = "up" /\ inbox[p] # <<>>
  /\ \E k \in {"final", "bad"} : PrintsLine(p, k)
  /\ inbox' = [inbox EXCEPT ![p] = Tail(@)]
  /\ abort' = [abort EXCEPT ![p] = FALSE]
  /\ UNCHANGED <<life, line, daemonUnchanged>>

\* It exits: on the EOF of its stdin, on a crash, on a signal.  What it had
\* printed can still be read; its state is gone.
DaemonDies(p) ==
  /\ Alive(p)
  /\ life' = [life EXCEPT ![p] = "dead"]
  /\ inbox' = [inbox EXCEPT ![p] = <<>>]
  /\ abort' = [abort EXCEPT ![p] = FALSE]
  /\ UNCHANGED <<line, stdout, daemonUnchanged>>

-----------------------------------------------------------------------------
SolverStep ==
  \/ Retry \/ \E p \in Procs : Spawned(p)
  \/ ReadReadyLine \/ ReadyLineRaises \/ ReadyTimeout
  \/ \E p \in Procs : \/ ReadShare(p) \/ ReadFinal(p) \/ ReadGarbage(p)
                      \/ ReadRaises(p) \/ ReadEof(p) \/ ReadTimeout(p)
ShutdownStep(c) == ShutdownDrained(c) \/ ShutdownDone(c) \/ ShutdownKill(c)
SessionStep == SolverTaskEnded \/ HealTaskEnded \/ Reconnect
DaemonStep(p) == DaemonReady(p) \/ DaemonPrints(p) \/ DaemonAnswer(p) \/ DaemonDies(p)

Next ==
  \/ \E s \in Shapes : StartSlice(s)
  \/ SolverStep
  \/ SpawnFailed
  \/ \E c \in Callers : ShutdownStep(c)
  \/ StderrEof \/ StderrBreaks
  \/ ForceRestart
  \/ TipPreempt
  \/ LoseSession
  \/ SessionStep
  \/ \E p \in Procs : DaemonStep(p)

Spec == Init /\ [][Next]_vars

(***************************************************************************)
(* Fairness: asyncio resumes every coroutine whose await is over, and its  *)
(* timers fire.  Nothing is assumed of the daemon, the pool or the user.   *)
(***************************************************************************)
FairSpec ==
  /\ Spec
  /\ WF_vars(SolverStep)
  /\ \A c \in Callers : WF_vars(ShutdownStep(c))
  /\ WF_vars(StderrEof)
  /\ WF_vars(SessionStep)

-----------------------------------------------------------------------------
(***************************************************************************)
(* Properties.                                                             *)
(***************************************************************************)

\* The GPU is never shared by two solvers: whatever force_restart, a retry, a
\* shape change or a cancelled shutdown do to each other, a daemon process
\* that still runs is the one self._daemon names, so none is ever orphaned.
NoOrphanDaemon == \A p \in Procs : Alive(p) => p = daemon

\* Jobs of ended slices are still in the pipes of this process: its answers
\* no longer line up with the jobs written to it.
Desynced(p) ==
  \/ \E i \in 1..Len(inbox[p]) : inbox[p][i] = "old"
  \/ \E i \in 1..Len(stdout[p]) : stdout[p][i].owner = "old"

\* However a slice fails (text that is no JSON, EOF, timeouts, force_restart at
\* any point, its ready line or its spawn), the daemon the next slice finds is
\* in step with it.  Two things alone cut a slice short and leave its job in a
\* living daemon's pipes: the cancellation at the end of a pool session, and a
\* line that raises what the except clause of the retry loop does not name.
NoNewDesync == \A p \in Procs : Alive(p)' /\ Desynced(p)' => Desynced(p)
CutShort == LoseSession \/ \E p \in Procs : ReadRaises(p)
DesyncOnlyWhenCutShort == [][CutShort \/ NoNewDesync]_vars

\* The running slice has at most one job in the pipes of a living daemon, as a
\* job or as the line that answers it: no failure path leads to a retry that
\* writes a second copy to a daemon that may still answer the first.
CurrentJobs(p) == {i \in 1..Len(inbox[p]) : inbox[p][i] = "cur"}
CurrentAnswers(p) ==
  {i \in 1..Len(stdout[p]) : stdout[p][i].owner = "cur" /\ stdout[p][i].kind = "final"}
OneCopyOfTheJob ==
  \A p \in Procs : Alive(p) =>
    /\ \A i, j \in CurrentJobs(p) : i = j
    /\ \A i, j \in CurrentAnswers(p) : i = j
    /\ CurrentJobs(p) = {} \/ CurrentAnswers(p) = {}

\* A slice comes to an end: solve_slice returns, raises, or is cancelled.  Every
\* line restarts the 60 s of the read, so there is one way for a daemon to keep
\* a slice for ever, which is to stream shares for ever.
SliceEnds ==
  <>[][\A p \in Procs : ~ReadShare(p)]_vars =>
    (task["solver"].pc \notin {"idle", "none"} ~> task["solver"].pc \in {"idle", "none"})

\* Whatever the daemon does, and whatever the solver loop and the session's end
\* do in between, force_restart returns, or is cancelled: it is stuck neither on
\* the stderr task nor on a process that does not exit.
ForceRestartEnds == InShutdown("heal") ~> task["heal"].pc \in {"idle", "none"}

(***************************************************************************)
(* What the comments and docstrings say.                                   *)
(***************************************************************************)

\* "One job at a time per process": the daemon never holds a second job.
OneJobInFlight == \A p \in Procs : Alive(p) => Len(inbox[p]) <= 1

\* "No-op unless the solver advertised tip-preempt capability in its
\* daemon_ready line": the process that gets SIGUSR1 has said it takes it.
PreemptOnlyAdvertised == CanSignal => line[daemon] = "preempt"

\* "Reconnect: on disconnect or error": a lost session is torn down and a new
\* one begins.
ReconnectsAfterLoss == session = "endSolver" ~> session = "up"

-----------------------------------------------------------------------------
(***************************************************************************)
(* The inductive invariants behind NoOrphanDaemon, OneCopyOfTheJob and     *)
(* DesyncOnlyWhenCutShort (GbtSolveWrapper_proofs).                        *)
(***************************************************************************)
\* Who may call _shutdown_daemon, and why.
CallersInv ==
  /\ task["heal"].pc \in {"none", "idle", "drain", "wait", "kill"}
  /\ InShutdown("heal") => task["heal"].why = "heal"
  /\ InShutdown("solver") => task["solver"].why \in {"shape", "ready", "io"}

\* A living process is self._daemon; nothing lives while one is spawned; a
\* shutdown that waits, waits for a process: for self._daemon, if that lives.
OwnershipInv ==
  /\ NoOrphanDaemon
  /\ task["solver"].pc = "spawn" => \A p \in Procs : ~Alive(p)
  /\ \A c \in Callers :
       task[c].pc \in {"wait", "kill"} =>
         task[c].proc \in Procs /\ (DaemonAlive => task[c].proc = daemon)

HasCurrent(p) ==
  \/ \E i \in 1..Len(inbox[p]) : inbox[p][i] = "cur"
  \/ \E i \in 1..Len(stdout[p]) : stdout[p][i].owner = "cur"

\* The solver loop may have a job of its slice in this daemon: it waits for
\* the answer or it is giving up on it.
SolverBusy(p) == \/ Reading(p)
                 \/ InShutdown("solver") /\ task["solver"].why = "io"

\* Only a slice that reads, or gives up reading, has anything in the pipes of
\* a living process; its job is the last of the jobs, and once that is
\* answered the answer is the last of the lines.
PipesInv ==
  \A p \in Procs : Alive(p) =>
    /\ HasCurrent(p) => SolverBusy(p)
    /\ \A i \in 1..Len(inbox[p]) : inbox[p][i] = "cur" => i = Len(inbox[p])
    /\ \A i \in CurrentAnswers(p) : i = Len(stdout[p]) /\ inbox[p] = <<>>

\* Past the solver task's end there is no solver task until the reconnect.
SessionInv == session \in {"endHeal", "down"} => task["solver"].pc = "none"

IInv == TypeOK /\ CallersInv /\ SessionInv /\ OwnershipInv /\ PipesInv
=============================================================================
