-------------------------------- MODULE Update --------------------------------
(***************************************************************************)
(* client/src/dexbtx_miner/wrapper_updater.py, solver_updater.py and the   *)
(* part of __main__.py that calls them: at the start of a miner, and from  *)
(* _solver_update_watcher every solver_recheck_interval_secs (by default   *)
(* 1800).  The miners of one host share the installed package and the      *)
(* solver binary; each one is a process of its own, and may be stopped,    *)
(* killed and started again at any step.                                   *)
(*                                                                         *)
(* The miners are those of client/install.sh: the `ember` launcher turns   *)
(* all of this off.  A SHA is a member of Binaries, a version a number.    *)
(***************************************************************************)
EXTENDS Naturals

CONSTANTS
  Miners,       \* the miners of the host
  Steady,       \* those that are given time to run; the others may freeze
  Binaries,     \* the SHAs of solver binaries
  None,         \* no binary, no usable entry for this host, no floor
  MaxVersion,   \* bound: the last wrapper version that is published
  Broken,       \* the releases whose __version__ was not bumped
  Manifests     \* the manifests that may be published

Versions == 0..MaxVersion
Sha == Binaries \union {None}

ASSUME UpdateAssumption ==
  /\ None \notin Binaries
  /\ Steady \subseteq Miners
  /\ MaxVersion \in Nat
  /\ Broken \subseteq Versions \ {0}
  /\ Manifests \subseteq [version : Versions, sha : Sha, floor : Sha]

VARIABLES
  channel,      \* the manifest at the channel's URL (external)
  package,      \* the __version__ of the installed package
  binary,       \* the SHA of the file at gbt_solve_path
  proc,         \* the miners' processes
  installer     \* history: the miner that replaced the binary last

vars == <<channel, package, binary, proc, installer>>

\* Where a process is in its check.  In a mining process the check runs in a
\* thread, beside the mining; in one that starts, it comes first.
Pc == {"down", "wrapper", "pip", "exec", "solver", "download", "install",
       "after", "reexec", "idle"}
InThread == {"wrapper", "pip", "exec", "solver", "download", "install"}
Checking == {"solver", "download", "install", "after"}

Process ==
  [pc : Pc,
   mining : BOOLEAN,      \* run_forever has begun
   stopping : BOOLEAN,    \* interrupted; only the check's thread goes on
   loaded : Versions,     \* the __version__ it runs
   mark : Versions,       \* DEXBTX_WRAPPER_JUST_UPGRADED, 0 when unset
   target : Versions,     \* the version pip installs
   sha : Sha,             \* target_sha, once it differs from the binary
   floor : Sha,           \* min_required
   current : Sha,         \* current_sha
   before : Sha,          \* the watcher's `before`
   daemon : Sha,          \* the binary its solver daemon runs
   execs : 0..3,          \* history: re-execs since it last mined, up to three
   disturbed : BOOLEAN,   \* history: another miner replaced the binary since
                          \* the watcher's `before`
   missed : BOOLEAN]      \* history: a check did not re-exec because it could
                          \* not, or was disturbed

Down ==
  [pc |-> "down", mining |-> FALSE, stopping |-> FALSE, loaded |-> 0,
   mark |-> 0, target |-> 0, sha |-> None, floor |-> None, current |-> None,
   before |-> None, daemon |-> None, execs |-> 0, missed |-> FALSE,
   disturbed |-> FALSE]

TypeOK ==
  /\ channel \in Manifests
  /\ package \in Versions /\ binary \in Sha
  /\ proc \in [Miners -> Process]
  /\ installer \in Miners \union {None}

Init ==
  /\ channel \in Manifests
  /\ package = 0 /\ binary \in Sha
  /\ proc = [m \in Miners |-> Down]
  /\ installer = None

Becomes(m, p) == proc' = [proc EXCEPT ![m] = p]
Host == <<package, binary, installer>>

-----------------------------------------------------------------------------
(***************************************************************************)
(* How a check's steps hand over to one another.                           *)
(***************************************************************************)

\* A new process image: the installed package, an environment, no daemon.
Fresh(mark, execs) ==
  [Down EXCEPT !.pc = "wrapper", !.loaded = package, !.mark = mark,
               !.execs = IF execs < 3 THEN execs ELSE 3]

\* The watcher sleeps until the next check; what the check knew is gone.
Asleep(p) ==
  [p EXCEPT !.pc = "idle", !.sha = None, !.floor = None, !.current = None,
            !.before = None, !.disturbed = FALSE]

\* maybe_self_upgrade has returned: at a start the solver is next, in the
\* watcher its SHA is taken first.  A process that was stopped ends here.
AfterWrapper(p) ==
  IF p.stopping THEN Down
  ELSE [p EXCEPT !.pc = "solver", !.mark = 0, !.target = 0,
                 !.before = IF p.mining THEN binary ELSE None]

\* maybe_update_solver has returned: a start mines, the watcher looks again.
AfterSolver(p) ==
  IF p.stopping THEN Down
  ELSE IF p.mining THEN [p EXCEPT !.pc = "after", !.sha = None, !.floor = None,
                                  !.current = None]
  ELSE [Asleep(p) EXCEPT !.mining = TRUE, !.execs = 0]

\* An exception reaches the caller: SolverUpdateRequired, or one that no
\* updater catches.  The watcher logs it, a start ends.
Thrown(p) == IF p.mining /\ ~p.stopping THEN [Asleep(p) EXCEPT !.target = 0]
             ELSE Down

-----------------------------------------------------------------------------
(***************************************************************************)
(* maybe_self_upgrade.                                                     *)
(***************************************************************************)

\* The mark of the process that ran before is set: no upgrade this time.
PopMark(m) ==
  /\ proc[m].pc = "wrapper" /\ proc[m].mark # 0
  /\ Becomes(m, AfterWrapper(proc[m]))
  /\ UNCHANGED <<channel, Host>>

\* A newer wrapper is published.
NewerWrapper(m) ==
  /\ proc[m].pc = "wrapper" /\ proc[m].mark = 0
  /\ channel.version > proc[m].loaded
  /\ Becomes(m, [proc[m] EXCEPT !.pc = "pip", !.target = channel.version])
  /\ UNCHANGED <<channel, Host>>

\* None is, or the manifest cannot be fetched: no connection, no JSON.
NoNewerWrapper(m) ==
  /\ proc[m].pc = "wrapper" /\ proc[m].mark = 0
  /\ Becomes(m, AfterWrapper(proc[m]))
  /\ UNCHANGED <<channel, Host>>

\* What the package of a release says of itself.
Says(v) == IF v \in Broken THEN v - 1 ELSE v

\* Either of pip's two attempts succeeds; or neither does, or one hangs.
PipInstalls(m) ==
  /\ proc[m].pc = "pip"
  /\ package' = Says(proc[m].target)
  /\ Becomes(m, [proc[m] EXCEPT !.pc = "exec"])
  /\ UNCHANGED <<channel, binary, installer>>

PipFails(m) ==
  /\ proc[m].pc = "pip"
  /\ Becomes(m, AfterWrapper(proc[m]))
  /\ UNCHANGED <<channel, Host>>

\* Mutant: the mark is not passed on.
ExecUnmarked(m) ==
  /\ proc[m].pc = "exec"
  /\ Becomes(m, Fresh(0, proc[m].execs + 1))
  /\ UNCHANGED <<channel, Host>>

\* os.execvpe with the mark in the new environment, also from the thread of a
\* process that was told to stop.
Exec(m) ==
  /\ proc[m].pc = "exec"
  /\ Becomes(m, Fresh(proc[m].target, proc[m].execs + 1))
  /\ UNCHANGED <<channel, Host>>

ExecFails(m) ==
  /\ proc[m].pc = "exec"
  /\ Becomes(m, AfterWrapper(proc[m]))
  /\ UNCHANGED <<channel, Host>>

-----------------------------------------------------------------------------
(***************************************************************************)
(* maybe_update_solver.                                                    *)
(***************************************************************************)

\* The manifest has an entry for this host, and it is not the local binary.
NewerSolver(m) ==
  /\ proc[m].pc = "solver"
  /\ channel.sha \notin {None, binary}
  /\ Becomes(m, [proc[m] EXCEPT !.pc = "download", !.sha = channel.sha,
                                !.floor = channel.floor, !.current = binary])
  /\ UNCHANGED <<channel, Host>>

\* It is, or there is no usable entry, or no manifest.
NoNewerSolver(m) ==
  /\ proc[m].pc = "solver"
  /\ Becomes(m, AfterSolver(proc[m]))
  /\ UNCHANGED <<channel, Host>>

\* Mutant: what was downloaded is not verified.
DownloadsAnything(m) ==
  /\ proc[m].pc = "download"
  /\ Becomes(m, [proc[m] EXCEPT !.pc = "install", !.sha = "garbled"])
  /\ UNCHANGED <<channel, Host>>

\* The whole file, with the SHA of the manifest.
Downloads(m) ==
  /\ proc[m].pc = "download"
  /\ Becomes(m, [proc[m] EXCEPT !.pc = "install"])
  /\ UNCHANGED <<channel, Host>>

\* No connection, or the wrong SHA: below the floor, SolverUpdateRequired.
DownloadFails(m) ==
  LET p == proc[m] IN
  /\ p.pc = "download"
  /\ Becomes(m, IF p.floor \notin {None, p.current} THEN Thrown(p)
                ELSE AfterSolver(p))
  /\ UNCHANGED <<channel, Host>>

\* os.replace, after a backup.
Installs(m) ==
  /\ proc[m].pc = "install"
  /\ binary' = proc[m].sha /\ installer' = m
  /\ proc' = [n \in Miners |->
               IF n = m THEN AfterSolver(proc[n])
               ELSE [proc[n] EXCEPT
                       !.disturbed = proc[n].mining /\ proc[n].pc \in Checking]]
  /\ UNCHANGED <<channel, package>>

\* The backup or the replacement fails: the caller learns nothing of it.
InstallFails(m) ==
  /\ proc[m].pc = "install"
  /\ Becomes(m, AfterSolver(proc[m]))
  /\ UNCHANGED <<channel, Host>>

\* A response that breaks off, a manifest that is no object, a directory that
\* takes no temporary file: exceptions that neither updater catches.
Raises(m) ==
  /\ proc[m].pc \in {"wrapper", "solver", "download"}
  /\ proc[m].mark = 0
  /\ Becomes(m, Thrown(proc[m]))
  /\ UNCHANGED <<channel, Host>>

-----------------------------------------------------------------------------
(***************************************************************************)
(* __main__.py: the watcher and the process.                               *)
(***************************************************************************)

\* Mutant: the binary is compared with itself.
NeverReplaced(p) == FALSE

\* `before and after and before != after`.
Replaced(p) == binary # None /\ p.before # None /\ p.before # binary

\* The binary's SHA again, after the check.
Compare(m) ==
  /\ proc[m].pc = "after"
  /\ Becomes(m, IF Replaced(proc[m])
                THEN [proc[m] EXCEPT !.pc = "reexec"]
                ELSE [Asleep(proc[m]) EXCEPT !.missed = @ \/ proc[m].disturbed])
  /\ UNCHANGED <<channel, Host>>

Reexec(m) ==
  /\ proc[m].pc = "reexec"
  /\ \/ Becomes(m, Fresh(proc[m].mark, proc[m].execs + 1))
     \/ Becomes(m, [Asleep(proc[m]) EXCEPT !.missed = TRUE])
  /\ UNCHANGED <<channel, Host>>

\* Mutant: only the solver is looked at again.
WakeForSolver(m) ==
  /\ proc[m].pc = "idle"
  /\ Becomes(m, AfterWrapper(proc[m]))
  /\ UNCHANGED <<channel, Host>>

\* The interval is over.
Wake(m) ==
  /\ proc[m].pc = "idle"
  /\ Becomes(m, [proc[m] EXCEPT !.pc = "wrapper"])
  /\ UNCHANGED <<channel, Host>>

Launch(m) ==
  /\ proc[m].pc = "down"
  /\ Becomes(m, Fresh(0, 0))
  /\ UNCHANGED <<channel, Host>>

\* Ctrl-C.  asyncio.run waits for the thread of a check that is under way.
Stop(m) ==
  LET p == proc[m] IN
  /\ p.pc # "down" /\ ~p.stopping
  /\ Becomes(m, IF p.mining /\ p.pc \in InThread
                THEN [p EXCEPT !.stopping = TRUE, !.daemon = None]
                ELSE Down)
  /\ UNCHANGED <<channel, Host>>

Crash(m) ==
  /\ proc[m].pc # "down"
  /\ Becomes(m, Down)
  /\ UNCHANGED <<channel, Host>>

\* The daemon exits, or the wrapper spawns one from the file.
Respawn(m) ==
  /\ proc[m].mining /\ ~proc[m].stopping
  /\ \E b \in {None, binary} : Becomes(m, [proc[m] EXCEPT !.daemon = b])
  /\ UNCHANGED <<channel, Host>>

\* The project publishes a release (external).
Publish ==
  /\ \E c \in Manifests : c.version > channel.version /\ channel' = c
  /\ UNCHANGED <<Host, proc>>

WrapperStep(m) ==
  \/ PopMark(m) \/ NewerWrapper(m) \/ NoNewerWrapper(m)
  \/ PipInstalls(m) \/ PipFails(m) \/ Exec(m) \/ ExecFails(m)

SolverStep(m) ==
  \/ NewerSolver(m) \/ NoNewerSolver(m) \/ Downloads(m) \/ DownloadFails(m)
  \/ Installs(m) \/ InstallFails(m)

CheckStep(m) ==
  WrapperStep(m) \/ SolverStep(m) \/ Raises(m) \/ Compare(m) \/ Reexec(m)

Next ==
  \/ \E m \in Miners :
       CheckStep(m) \/ Wake(m) \/ Launch(m) \/ Stop(m) \/ Crash(m) \/ Respawn(m)
  \/ Publish

Spec == Init /\ [][Next]_vars

(***************************************************************************)
(* Fairness.  Every call of a check has a timeout, so its steps go on,     *)
(* whatever their outcome; the watcher wakes.                              *)
(***************************************************************************)
FairSpec ==
  Spec /\ \A m \in Steady : WF_vars(CheckStep(m)) /\ WF_vars(Wake(m))

-----------------------------------------------------------------------------
(***************************************************************************)
(* Properties.                                                             *)
(***************************************************************************)

\* "A broken release can't infinite-loop the operator's process": between two
\* spells of mining a process re-execs itself at most twice (for a solver, then
\* for a wrapper), whatever is published and whatever fails meanwhile.
BoundedRestarts == \A m \in Miners : proc[m].execs <= 2

\* A miner does not mine on with a daemon of the binary that it replaced itself:
\* once its check is over it runs the file - unless the re-exec failed, which is
\* not tried again, or another miner replaced the file during a check of its.
OwnInstallRuns ==
  \A m \in Miners :
    LET p == proc[m] IN
    p.pc = "idle" /\ installer = m /\ ~p.missed
      => p.daemon \in {None, binary}

\* A start ends: the miner mines, or the process is gone.
StartEnds ==
  \A m \in Steady :
    proc[m].pc # "down" /\ ~proc[m].mining
      ~> proc[m].mining \/ proc[m].pc = "down"

\* "Fail-open: every error is logged": no failure of a check ends the watcher.
\* Whatever raises, fails to install or fails to re-exec, a miner that goes on
\* mining asks for a newer wrapper again and again, so a later release can reach
\* it.  (It asks also for the release whose installation it has just refused to
\* retry "this run".)
KeepsAsking ==
  \A m \in Steady :
    proc[m].mining ~> proc[m].pc = "wrapper" \/ ~proc[m].mining \/ proc[m].stopping
=============================================================================
