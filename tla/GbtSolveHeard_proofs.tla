------------------------- MODULE GbtSolveHeard_proofs -------------------------
(***************************************************************************)
(* Proof that GbtSolveWrapper implements SolveService, for any set of      *)
(* process identities, any shapes and any bounds.                          *)
(***************************************************************************)
EXTENDS GbtSolveHeard, GbtSolveWrapper_proofs

\* The history variable changes nothing: with it gone, a step is a step of
\* GbtSolveWrapper,
LEMMA HistoryStep ==
  ASSUME [HNext]_hvars
  PROVE  [Next]_vars
BY DEF HNext, hvars, Given, SilentStep, Next, SolverStep

\* and a behaviour one of its behaviours, with its invariant.
LEMMA HistoryOnly == HSpec => Spec /\ []IInv
<1>1. HInit => Init
  BY DEF HInit
<1> QED
  BY <1>1, HistoryStep, Inductive, PTL DEF HSpec, Spec

-----------------------------------------------------------------------------
(***************************************************************************)
(* What a step may do to the pipes that are open.                          *)
(***************************************************************************)

\* Nothing is written and nothing is read; a process that dies may lose jobs.
Shrinks ==
  /\ Fewer
  /\ \A p \in Procs : Reading(p)' => Reading(p)
  /\ \A p \in Procs : Open(p)' =>
       inbox'[p] \in {inbox[p], <<>>} /\ stdout'[p] = stdout[p]

\* A slice with no job in a living daemon writes one to self._daemon.
Writes ==
  /\ SolverFree /\ daemon \in Procs /\ Alive(daemon) /\ life' = life
  /\ inbox' = [inbox EXCEPT ![daemon] = Append(@, "cur")]
  /\ stdout' = stdout
  /\ \A p \in Procs : Reading(p)' => p = daemon

\* The slice is over: only living daemons are still open.
Ends == /\ ~SliceRuns' /\ life' = life
        /\ \E out \in [Procs -> Seq(Line)] : LeavePipes(out)

\* A daemon prints a line for the job at the head of its queue.
Prints(p) == DaemonPrints(p) \/ DaemonAnswer(p)

Kinds ==
  \/ Shrinks \/ Writes \/ Ends
  \/ \E p \in Procs : Spawned(p) \/ ReadShare(p) \/ Prints(p)

\* Nothing is read after a move to an await that is not the read of stdout,
LEMMA MovedAway ==
  ASSUME TypeOK, NEW t, Goto("solver", t), t.pc # "read"
  PROVE  task'["solver"] = t /\ \A p \in Procs : ~Reading(p)'
BY DEF Goto, TypeOK, Callers, Reading

\* the end of a slice is one,
LEMMA SliceEnded ==
  ASSUME TypeOK, life' = life, NEW out \in [Procs -> Seq(Line)],
         SliceReturns(out) \/ SliceRaises(out)
  PROVE  Ends
<1>1. Goto("solver", At("idle")) /\ At("idle").pc = "idle"
  BY DEF SliceReturns, SliceRaises, At
<1>2. ~SliceRuns'
  BY <1>1, MovedAway DEF SliceRuns
<1>3. LeavePipes(out)
  BY DEF SliceReturns, SliceRaises
<1> QED
  BY <1>2, <1>3 DEF Ends

\* the beginning of a shutdown by the solver loop too.
LEMMA ShutdownBegun ==
  ASSUME TypeOK, life' = life, inbox' = inbox, stdout' = stdout, NEW why, NEW drained,
         \/ BeginShutdown("solver", why, drained)
         \/ CloseAndWait("solver", why)
  PROVE  Shrinks
<1>1. Down("drain", why, None).pc = "drain" /\ Down("wait", why, daemon).pc = "wait"
  BY DEF Down
<1>2. \A p \in Procs : ~Reading(p)'
  BY <1>1, MovedAway DEF BeginShutdown, CloseAndWait
<1> QED
  BY <1>2 DEF Shrinks, Fewer, Alive

\* What follows a shutdown that is over.
LEMMA ShutdownOver ==
  ASSUME TypeOK, life' = life, NEW c \in Callers, NEW why, AfterShutdown(c, why),
         c = "heal" => why = "heal"
  PROVE  Shrinks \/ Ends
<1>1. CASE why = "heal" \/ why = "shape" \/ (why = "io" /\ attempt = 1)
  <2>1. \E pc \in {"idle", "spawn", "backoff"} : Goto(c, At(pc))
    BY <1>1 DEF AfterShutdown
  <2>2. \A p \in Procs : Reading(p)' => Reading(p)
    BY <2>1 DEF Goto, At, TypeOK, Callers, Reading
  <2> QED
    BY <1>1, <2>2 DEF AfterShutdown, sliceVars, Shrinks, Fewer, Alive
<1>2. CASE why = "ready" \/ (why = "io" /\ attempt = 2)
  <2>1. SliceReturns(stdout) \/ SliceRaises(stdout)
    BY <1>2 DEF AfterShutdown
  <2> QED
    BY <2>1, SliceEnded DEF TypeOK
<1> QED
  BY <1>1, <1>2 DEF AfterShutdown

\* A call of _shutdown_daemon from the solver loop,
LEMMA ShutdownCalled ==
  ASSUME TypeOK, life' = life, NEW why, CallShutdown(why)
  PROVE  Shrinks \/ Ends
BY ShutdownBegun, ShutdownOver DEF CallShutdown, sliceVars, Callers

\* the write of a job,
LEMMA JobWritten ==
  ASSUME TypeOK, SolverFree, daemon # None, life' = life, stdout' = stdout,
         NEW drained, WriteJob(drained)
  PROVE  Shrinks \/ Writes
<1>1. CASE /\ Alive(daemon)
           /\ inbox' = [inbox EXCEPT ![daemon] = Append(@, "cur")]
           /\ Goto("solver", On("read", daemon))
  <2>1. \A p \in Procs : Reading(p)' => p = daemon
    BY <1>1 DEF Goto, On, Reading, TypeOK, Callers
  <2> QED
    BY <1>1, <2>1 DEF Writes, TypeOK
<1>2. CASE BeginShutdown("solver", "io", drained) /\ UNCHANGED inbox
  BY <1>2, ShutdownBegun
<1> QED
  BY <1>1, <1>2 DEF WriteJob

\* and _ensure_daemon, with the write that may follow.
LEMMA DaemonEnsured ==
  ASSUME TypeOK, SolverFree, NEW shape, EnsureDaemon(shape)
  PROVE  Shrinks \/ Writes
<1>0. life' = life /\ stdout' = stdout
  BY DEF EnsureDaemon
<1>1. CASE BeginShutdown("solver", "shape", stderr_task) /\ UNCHANGED inbox
  BY <1>0, <1>1, ShutdownBegun
<1>2. CASE DaemonAlive /\ WriteJob(stderr_task)
  BY <1>0, <1>2, JobWritten DEF DaemonAlive
<1>3. CASE Goto("solver", At("spawn")) /\ UNCHANGED <<stdin_open, inbox>>
  <2>1. At("spawn").pc = "spawn"
    BY DEF At
  <2>2. \A p \in Procs : ~Reading(p)'
    BY <1>3, <2>1, MovedAway
  <2> QED
    BY <1>0, <1>3, <2>2 DEF Shrinks, Fewer, Alive
<1> QED
  BY <1>1, <1>2, <1>3 DEF EnsureDaemon

\* A step that leaves the pipes and the solver task alone, and brings no
\* process to life.
LEMMA SolverStays ==
  ASSUME inbox' = inbox, stdout' = stdout, Fewer, task'["solver"] = task["solver"]
  PROVE  Shrinks
BY DEF Shrinks, Reading

\* Every step is one of these kinds.
LEMMA StepKinds ==
  ASSUME IInv, [Next]_vars
  PROVE  Kinds
<1> USE DEF IInv
<1>0. ASSUME life' = life PROVE Fewer
  BY <1>0 DEF Fewer, Alive
<1>f. ASSUME task["solver"].pc \in {"none", "idle", "spawn", "ready", "backoff"}
      PROVE  SolverFree
  BY <1>f DEF SolverFree, SolverBusy, Reading, InShutdown
<1>h. ASSUME NEW t, Goto("heal", t) PROVE task'["solver"] = task["solver"]
  BY <1>h DEF Goto, TypeOK, Callers
<1>k. Shrinks \/ Writes \/ Ends => Kinds
  BY DEF Kinds
<1>s. ASSUME life' = life, stdout' = stdout, inbox' = inbox, task' = task PROVE Kinds
  BY <1>s, <1>0, <1>k, SolverStays
<1>1. ASSUME NEW s \in Shapes, StartSlice(s) PROVE Kinds
  BY <1>1, <1>f, <1>k, DaemonEnsured DEF StartSlice
<1>2. CASE Retry
  BY <1>2, <1>f, <1>k, DaemonEnsured DEF Retry
<1>3. CASE SpawnFailed \/ ReadyLineRaises
  BY <1>3, <1>k, SliceEnded DEF SpawnFailed, ReadyLineRaises, callUnchanged, TypeOK
<1>4. CASE ReadReadyLine
  <2>1. life' = life /\ SolverFree
    BY <1>4, <1>f DEF ReadReadyLine
  <2>2. CASE SliceRaises(stdout)
    BY <2>1, <2>2, <1>k, SliceEnded DEF TypeOK
  <2>3. CASE daemon # None /\ WriteJob(daemon) /\ stdout' = stdout
    BY <2>1, <2>3, <1>k, JobWritten
  <2> QED
    BY <1>4, <2>2, <2>3 DEF ReadReadyLine
<1>5. CASE ReadyTimeout
  BY <1>5, <1>k, ShutdownCalled DEF ReadyTimeout, callUnchanged
<1>6. ASSUME NEW p \in Procs, ReadFinal(p) \/ ReadRaises(p) PROVE Kinds
  <2>1. {Popped(p), Torn(p)} \subseteq [Procs -> Seq(Line)]
    BY <1>6, ReadTyped DEF ReadFinal, ReadRaises
  <2> QED
    BY <1>6, <2>1, <1>k, SliceEnded DEF ReadFinal, ReadRaises, callUnchanged
<1>7. ASSUME NEW p \in Procs, ReadGarbage(p) \/ ReadEof(p) \/ ReadTimeout(p)
      PROVE  Kinds
  BY <1>7, <1>k, ShutdownCalled DEF ReadGarbage, ReadEof, ReadTimeout, callUnchanged
<1>8. ASSUME NEW c \in Callers, ShutdownDrained(c) PROVE Kinds
  <2>1. life' = life /\ Fewer
    BY <1>8, <1>0 DEF ShutdownDrained
  <2>2. CASE c = "solver"
    BY <1>8, <1>k, <2>1, <2>2, ShutdownBegun, SliceEnded DEF ShutdownDrained, sliceVars, TypeOK
  <2>3. CASE c = "heal"
    <3>1. (\E t : Goto("heal", t)) /\ UNCHANGED sliceVars
      BY <1>8, <2>3 DEF ShutdownDrained, CloseAndWait
    <3> QED
      BY <1>h, <1>k, <2>1, <3>1, SolverStays DEF sliceVars
  <2> QED
    BY <2>2, <2>3 DEF Callers
<1>9. ASSUME NEW c \in Callers, ShutdownDone(c) PROVE Kinds
  <2>1. c = "heal" => task[c].why = "heal"
    BY <1>9 DEF ShutdownDone, CallersInv, InShutdown
  <2> QED
    BY <1>9, <2>1, <1>k, ShutdownOver DEF ShutdownDone
<1>10. ASSUME NEW c \in Callers, ShutdownKill(c) PROVE Kinds
  <2>1. Fewer
    BY <1>10 DEF ShutdownKill, Fewer, Alive, TypeOK
  <2>2. \A p \in Procs : Reading(p)' => Reading(p)
    BY <1>10 DEF ShutdownKill, Goto, Down, Reading, TypeOK, Callers
  <2> QED
    BY <1>10, <1>k, <2>1, <2>2 DEF ShutdownKill, sliceVars, Shrinks
<1>11. CASE StderrEof \/ StderrBreaks
  BY <1>11, <1>s DEF StderrEof, StderrBreaks, procVars, sliceVars
<1>12. CASE ForceRestart
  <2>1. \E t : Goto("heal", t)
    BY <1>12 DEF ForceRestart, BeginShutdown, CloseAndWait
  <2> QED
    BY <1>12, <1>0, <1>h, <1>k, <2>1, SolverStays DEF ForceRestart, callUnchanged, sliceVars
<1>13. CASE TipPreempt
  <2>1. Fewer
    BY <1>13 DEF TipPreempt, Fewer, Alive, TypeOK
  <2> QED
    BY <1>13, <1>k, <2>1, SolverStays DEF TipPreempt, sliceVars
<1>14. CASE LoseSession
  <2>1. CASE task["solver"].pc = "drain"
    BY <1>14, <2>1, <1>s DEF LoseSession, Cancel, procVars
  <2>2. CASE task["solver"].pc # "drain"
    <3>1. Goto("solver", At("none")) /\ At("none").pc = "none"
      BY <1>14, <2>2 DEF LoseSession, Cancel, At
    <3>2. ~SliceRuns'
      BY <3>1, MovedAway DEF SliceRuns
    <3> QED
      BY <1>14, <2>2, <3>2, <1>k DEF LoseSession, Ends, procVars, TypeOK
  <2> QED
    BY <2>1, <2>2
<1>15. CASE SolverTaskEnded
  <2>1. task'["solver"] = task["solver"]
    BY <1>15, <1>h DEF SolverTaskEnded, Cancel
  <2> QED
    BY <1>15, <2>1, <1>0, <1>k, SolverStays DEF SolverTaskEnded, procVars, sliceVars
<1>16. CASE HealTaskEnded
  BY <1>16, <1>s DEF HealTaskEnded, procVars, sliceVars
<1>17. CASE Reconnect
  <2>1. \A p \in Procs : ~Reading(p)'
    BY <1>17 DEF Reconnect, Reading, At, Callers
  <2> QED
    BY <1>17, <2>1, <1>k DEF Reconnect, procVars, sliceVars, Shrinks, Fewer, Alive
<1>18. ASSUME NEW p \in Procs, DaemonReady(p) PROVE Kinds
  <2>1. Fewer
    BY <1>18 DEF DaemonReady, Fewer, Alive, TypeOK
  <2> QED
    BY <1>18, <2>1, <1>k, SolverStays DEF DaemonReady, daemonUnchanged
<1>19. ASSUME NEW p \in Procs, DaemonDies(p) PROVE Kinds
  <2>1. Fewer /\ task' = task
    BY <1>19 DEF DaemonDies, Fewer, Alive, TypeOK, daemonUnchanged
  <2>2. \A q \in Procs : inbox'[q] \in {inbox[q], <<>>}
    BY <1>19 DEF DaemonDies, TypeOK
  <2> QED
    BY <1>19, <2>1, <2>2, <1>k DEF DaemonDies, Shrinks, Reading
<1>20. CASE UNCHANGED vars
  BY <1>20, <1>s DEF vars, procVars, sliceVars
<1>21. ASSUME NEW p \in Procs, Spawned(p) \/ ReadShare(p) \/ Prints(p) PROVE Kinds
  BY <1>21 DEF Kinds
<1> QED
  BY <1>1, <1>2, <1>3, <1>4, <1>5, <1>6, <1>7, <1>8, <1>9, <1>10, <1>11, <1>12,
     <1>13, <1>14, <1>15, <1>16, <1>17, <1>18, <1>19, <1>20, <1>21
  DEF Next, SolverStep, ShutdownStep, SessionStep, DaemonStep, Prints

-----------------------------------------------------------------------------
(***************************************************************************)
(* The reader, and the order of the lines.                                 *)
(***************************************************************************)

\* Every step keeps the reader on self._daemon, or on what was self._daemon.
LEMMA ReaderStep ==
  ASSUME IInv, ReaderInv, [Next]_vars
  PROVE  ReaderInv'
<1> USE DEF IInv
<1>1. ASSUME daemon' \in {daemon, None}, \A p \in Procs : Reading(p)' => Reading(p) \/ p = daemon
      PROVE  ReaderInv'
  BY <1>1 DEF ReaderInv
<1>2. ASSUME NEW p \in Procs, Spawned(p) PROVE ReaderInv'
  BY <1>2 DEF Spawned, Goto, On, ReaderInv, Reading, TypeOK, Callers
<1>3. CASE \A p \in Procs : ~Spawned(p)
  <2>1. daemon' \in {daemon, None}
    BY <1>3 DEF Next, SolverStep, ShutdownStep, SessionStep, DaemonStep,
       StartSlice, Retry, EnsureDaemon, SpawnFailed, ReadReadyLine, ReadyLineRaises,
       ReadyTimeout, ReadShare, ReadFinal, ReadGarbage, ReadRaises, ReadEof, ReadTimeout,
       callUnchanged, ShutdownDrained, ShutdownDone, ShutdownKill, StderrEof,
       StderrBreaks, ForceRestart,
       TipPreempt, LoseSession, SolverTaskEnded, HealTaskEnded, Reconnect,
       DaemonReady, DaemonPrints, DaemonAnswer, DaemonDies, daemonUnchanged,
       wrapperVars, vars
  <2>2. \A p \in Procs : Reading(p)' => Reading(p) \/ p = daemon
    <3>1. CASE Shrinks \/ Writes
      BY <3>1 DEF Shrinks, Writes
    <3>2. CASE Ends
      BY <3>2 DEF Ends, SliceRuns, Reading
    <3>3. ASSUME NEW p \in Procs, ReadShare(p) \/ Prints(p) PROVE task' = task
      BY <3>3 DEF ReadShare, Prints, DaemonPrints, DaemonAnswer, daemonUnchanged
    <3> QED
      BY <1>3, <3>1, <3>2, <3>3, StepKinds DEF Kinds, Reading
  <2> QED
    BY <1>1, <2>1, <2>2
<1> QED
  BY <1>2, <1>3

\* A process that is spawned is the only one that is open then,
LEMMA SpawnOpens ==
  ASSUME IInv, NEW q \in Procs, Spawned(q), NEW p \in Procs, Open(p)'
  PROVE  p = q /\ inbox'[p] = <<>> /\ stdout'[p] = <<>>
BY DEF IInv, Spawned, OwnershipInv, TypeOK, Open, Alive, Reading, Goto, On, Callers

\* and in no other step does one become open.
LEMMA OpenStep ==
  ASSUME IInv, Kinds, NEW p \in Procs, Open(p)', \A q \in Procs : ~Spawned(q)
  PROVE  Open(p)
<1>1. CASE Shrinks \/ Writes
  BY <1>1 DEF Shrinks, Fewer, Writes, Open, Alive
<1>2. CASE Ends
  BY <1>2 DEF Ends, Open, Alive, Reading, SliceRuns
<1>3. ASSUME NEW q \in Procs, ReadShare(q) \/ Prints(q) PROVE Open(p)
  BY <1>3 DEF ReadShare, Prints, DaemonPrints, DaemonAnswer, daemonUnchanged, procVars,
     Open, Alive, Reading
<1> QED
  BY <1>1, <1>2, <1>3 DEF Kinds

\* A living daemon that gets a line of an ended slice in its pipes already
\* had one there; so had a dead one that is read to its end.
LEMMA DebtFalls ==
  ASSUME IInv, Kinds, NoNewDesync \/ Shrinks, Debt'
  PROVE  Debt
<1> USE DEF IInv
<1>0. PICK p \in Procs : Open(p)' /\ Desynced(p)'
  BY DEF Debt
<1>1. \A q \in Procs : ~Spawned(q)
  <2> SUFFICES ASSUME NEW q \in Procs, Spawned(q) PROVE FALSE
    OBVIOUS
  <2>1. inbox'[p] = <<>> /\ stdout'[p] = <<>>
    BY <1>0, SpawnOpens
  <2> QED
    BY <1>0, <2>1 DEF Desynced
<1>2. Open(p)
  BY <1>0, <1>1, OpenStep
<1>3. SUFFICES Desynced(p)
  BY <1>2 DEF Debt
<1>4. CASE Shrinks
  BY <1>0, <1>4 DEF Shrinks, Desynced
<1>5. ASSUME NoNewDesync, Alive(p)' PROVE Desynced(p)
  BY <1>0, <1>5 DEF NoNewDesync
<1>6. CASE NoNewDesync /\ (Writes \/ Ends)
  <2>1. Alive(p)'
    BY <1>0, <1>6 DEF Writes, Ends, Open, Alive, Reading, SliceRuns
  <2> QED
    BY <1>5, <1>6, <2>1
<1>7. ASSUME NEW q \in Procs, ReadShare(q) PROVE Desynced(p)
  <2>1. stdout[q] # <<>> /\ stdout' = [stdout EXCEPT ![q] = Tail(@)] /\ inbox' = inbox
    BY <1>7 DEF ReadShare, Popped
  <2>2. CASE p # q
    BY <1>0, <2>1, <2>2 DEF Desynced, TypeOK
  <2>3. CASE p = q
    <3>1. stdout'[p] = Tail(stdout[p]) /\ stdout[p] \in Seq(Line) /\ stdout[p] # <<>>
      BY <2>1, <2>3 DEF TypeOK
    <3>2. /\ Len(stdout'[p]) = Len(stdout[p]) - 1 /\ Len(stdout[p]) \in Nat
          /\ \A i \in 1..Len(stdout'[p]) : stdout'[p][i] = stdout[p][i + 1]
      BY <3>1, TailFacts
    <3> QED
      BY <1>0, <2>1, <3>2 DEF Desynced
  <2> QED
    BY <2>2, <2>3
<1>8. ASSUME NEW q \in Procs, Prints(q), NoNewDesync PROVE Desynced(p)
  <2>1. CASE p = q
    <3>1. Alive(p)'
      BY <1>8, <2>1 DEF Prints, DaemonPrints, DaemonAnswer, Alive
    <3> QED
      BY <1>5, <1>8, <3>1
  <2>2. CASE p # q
    BY <1>0, <1>8, <2>2 DEF Prints, DaemonPrints, DaemonAnswer, PrintsLine, Desynced, TypeOK
  <2> QED
    BY <2>1, <2>2
<1> QED
  BY <1>1, <1>4, <1>6, <1>7, <1>8 DEF Kinds

\* Only the lines of the slice that runs are in the pipe behind its first.
Sorted(lines, jobs) ==
  \A i \in 1..Len(lines) : lines[i].owner = "cur" =>
    /\ \A j \in i..Len(lines) : lines[j].owner = "cur"
    /\ \A j \in 1..Len(jobs) : jobs[j] = "cur"

\* A line taken from the head leaves the others in their order,
LEMMA SortedTail ==
  ASSUME NEW lines \in Seq(Line), NEW jobs, lines # <<>>, Sorted(lines, jobs)
  PROVE  Sorted(Tail(lines), jobs)
<1>1. /\ Len(Tail(lines)) = Len(lines) - 1 /\ Len(lines) \in Nat
      /\ \A i \in 1..Len(Tail(lines)) : Tail(lines)[i] = lines[i + 1]
  BY TailFacts
<1>2. ASSUME NEW i \in 1..Len(Tail(lines)), Tail(lines)[i].owner = "cur"
      PROVE  /\ \A j \in i..Len(Tail(lines)) : Tail(lines)[j].owner = "cur"
             /\ \A j \in 1..Len(jobs) : jobs[j] = "cur"
  <2>1. i + 1 \in 1..Len(lines) /\ lines[i + 1].owner = "cur"
    BY <1>1, <1>2
  <2>2. /\ \A j \in (i + 1)..Len(lines) : lines[j].owner = "cur"
        /\ \A j \in 1..Len(jobs) : jobs[j] = "cur"
    BY <2>1 DEF Sorted
  <2> QED
    BY <1>1, <2>2
<1> QED
  BY <1>2 DEF Sorted

\* and so does one that is added for the job at the head of the queue, whether
\* the job is done with it or not.
LEMMA SortedAppend ==
  ASSUME NEW lines \in Seq(Line), NEW jobs \in Seq(Owner), NEW left \in Seq(Owner),
         NEW l \in Line, Sorted(lines, jobs), jobs # <<>>, l.owner = Head(jobs),
         \A i \in 1..Len(jobs) : jobs[i] = "cur" => i = Len(jobs),
         left = jobs \/ left = Tail(jobs)
  PROVE  Sorted(Append(lines, l), left)
<1> DEFINE more == Append(lines, l)
<1>1. /\ Len(more) = Len(lines) + 1 /\ Len(lines) \in Nat
      /\ \A i \in 1..Len(lines) : more[i] = lines[i]
      /\ more[Len(lines) + 1] = l
  OBVIOUS
<1>2. /\ Len(jobs) \in Nat /\ Len(jobs) > 0 /\ Head(jobs) = jobs[1] /\ Head(jobs) \in Owner
      /\ Len(Tail(jobs)) = Len(jobs) - 1
      /\ \A i \in 1..Len(Tail(jobs)) : Tail(jobs)[i] = jobs[i + 1]
  BY TailFacts
<1>i. 1 \in 1..Len(jobs)
  <2>1. Len(jobs) \in Nat /\ Len(jobs) > 0
    BY <1>2
  <2> QED
    BY <2>1
<1> HIDE DEF more
<1> SUFFICES ASSUME NEW i \in 1..Len(more), more[i].owner = "cur"
             PROVE  /\ \A j \in i..Len(more) : more[j].owner = "cur"
                    /\ \A j \in 1..Len(left) : left[j] = "cur"
  BY DEF Sorted, more
<1>3. CASE Head(jobs) = "cur"
  <2>1. Len(jobs) = 1
    BY <1>2, <1>3, <1>i
  <2>2. \A j \in 1..Len(left) : left[j] = "cur"
    BY <1>2, <1>3, <2>1
  <2>3. ASSUME NEW j \in i..Len(more), j # Len(lines) + 1 PROVE more[j].owner = "cur"
    <3>1. i \in 1..Len(lines) /\ j \in i..Len(lines) /\ j \in 1..Len(lines)
      BY <1>1, <2>3
    <3>2. lines[i].owner = "cur"
      BY <1>1, <3>1
    <3> QED
      BY <1>1, <3>1, <3>2 DEF Sorted
  <2> QED
    BY <1>1, <1>3, <2>2, <2>3
<1>4. CASE Head(jobs) # "cur"
  <2>1. ASSUME NEW k \in 1..Len(lines), lines[k].owner = "cur" PROVE FALSE
    <3>1. \A j \in 1..Len(jobs) : jobs[j] = "cur"
      BY <2>1 DEF Sorted
    <3> QED
      BY <1>2, <1>4, <1>i, <3>1
  <2>2. i \in 1..Len(lines) \/ i = Len(lines) + 1
    BY <1>1
  <2> QED
    BY <1>1, <1>4, <2>1, <2>2
<1> QED
  BY <1>3, <1>4

\* Every step keeps the lines in their order.
LEMMA OrderStep ==
  ASSUME IInv, OrderInv, [Next]_vars
  PROVE  OrderInv'
<1> USE DEF IInv
<1>o. \A p \in Procs : Open(p) => Sorted(stdout[p], inbox[p])
  BY DEF OrderInv, Sorted
<1> SUFFICES ASSUME NEW p \in Procs, Open(p)'
             PROVE  Sorted(stdout'[p], inbox'[p])
  BY DEF OrderInv, Sorted
<1>k. Kinds
  BY StepKinds
<1>t. stdout[p] \in Seq(Line) /\ inbox[p] \in Seq(Owner)
  BY DEF TypeOK
<1>1. ASSUME NEW q \in Procs, Spawned(q) PROVE Sorted(stdout'[p], inbox'[p])
  BY <1>1, SpawnOpens DEF Sorted
<1>2. CASE \A q \in Procs : ~Spawned(q)
  <2>1. Sorted(stdout[p], inbox[p])
    BY <1>2, <1>k, <1>o, OpenStep
  <2>2. CASE Shrinks
    <3>1. stdout'[p] = stdout[p] /\ inbox'[p] \in {inbox[p], <<>>}
      BY <2>2 DEF Shrinks
    <3> QED
      BY <2>1, <3>1 DEF Sorted
  <2>3. CASE Writes
    <3>1. CASE p = daemon
      <4>1. \A i \in 1..Len(stdout[p]) : stdout[p][i].owner # "cur"
        BY <2>3, <3>1 DEF Writes, PipesInv, SolverFree, HasCurrent
      <4> QED
        BY <2>3, <4>1 DEF Writes, Sorted
    <3>2. CASE p # daemon
      <4>1. stdout'[p] = stdout[p] /\ inbox'[p] = inbox[p]
        BY <2>3, <3>2 DEF Writes, TypeOK
      <4> QED
        BY <2>1, <4>1
    <3> QED
      BY <3>1, <3>2
  <2>4. CASE Ends
    <3>1. Alive(p)' /\ Alive(p)
      BY <2>4 DEF Ends, Open, Alive, Reading, SliceRuns
    <3>2. PICK out \in [Procs -> Seq(Line)] : LeavePipes(out)
      BY <2>4 DEF Ends
    <3>3. stdout'[p] = DisownLines(out[p])
      BY <3>1, <3>2 DEF LeavePipes
    <3>4. Len(DisownLines(out[p])) = Len(out[p])
          /\ \A i \in 1..Len(out[p]) : DisownLines(out[p])[i].owner = "old"
      BY DisownPipe
    <3> QED
      BY <3>3, <3>4 DEF Sorted
  <2>5. ASSUME NEW q \in Procs, ReadShare(q) PROVE Sorted(stdout'[p], inbox'[p])
    <3>1. stdout[q] # <<>> /\ stdout' = [stdout EXCEPT ![q] = Tail(@)] /\ inbox' = inbox
      BY <2>5 DEF ReadShare, Popped
    <3>2. stdout'[p] = IF p = q THEN Tail(stdout[p]) ELSE stdout[p]
      BY <3>1 DEF TypeOK
    <3> QED
      BY <1>t, <2>1, <3>1, <3>2, SortedTail
  <2>6. ASSUME NEW q \in Procs, Prints(q) PROVE Sorted(stdout'[p], inbox'[p])
    <3>1. CASE p # q
      BY <2>1, <2>6, <3>1 DEF Prints, DaemonPrints, DaemonAnswer, PrintsLine, TypeOK
    <3>2. CASE p = q
      <4>1. Alive(p) /\ inbox[p] # <<>>
        BY <2>6, <3>2 DEF Prints, DaemonPrints, DaemonAnswer, Alive
      <4>2. PICK k \in Kind : stdout'[p] = Append(stdout[p], [kind |-> k, owner |-> Head(inbox[p])])
        BY <2>6, <3>2 DEF Prints, DaemonPrints, DaemonAnswer, PrintsLine, Kind, TypeOK
      <4>3. inbox'[p] = inbox[p] \/ inbox'[p] = Tail(inbox[p])
        BY <2>6, <3>2 DEF Prints, DaemonPrints, DaemonAnswer, TypeOK
      <4>4. Head(inbox[p]) \in Owner /\ Tail(inbox[p]) \in Seq(Owner)
        BY <1>t, <4>1, TailFacts
      <4>5. /\ [kind |-> k, owner |-> Head(inbox[p])] \in Line
            /\ [kind |-> k, owner |-> Head(inbox[p])].owner = Head(inbox[p])
        BY <4>4 DEF Line
      <4>6. \A i \in 1..Len(inbox[p]) : inbox[p][i] = "cur" => i = Len(inbox[p])
        BY <4>1 DEF PipesInv
      <4>7. inbox'[p] \in Seq(Owner)
        BY <1>t, <4>3, <4>4
      <4>8. ASSUME NEW l \in Line, l.owner = Head(inbox[p]), stdout'[p] = Append(stdout[p], l)
            PROVE  Sorted(stdout'[p], inbox'[p])
        <5>1. Sorted(Append(stdout[p], l), inbox'[p])
          BY <1>t, <2>1, <4>1, <4>3, <4>6, <4>7, <4>8, SortedAppend
        <5> QED
          BY <4>8, <5>1
      <4> QED
        BY <4>2, <4>5, <4>8
    <3> QED
      BY <3>1, <3>2
  <2> QED
    BY <1>2, <1>k, <2>2, <2>3, <2>4, <2>5, <2>6 DEF Kinds
<1> QED
  BY <1>1, <1>2

-----------------------------------------------------------------------------
(***************************************************************************)
(* The refinement.                                                         *)
(***************************************************************************)

\* Only a StartSlice starts a slice.
LEMMA SliceGoesOn ==
  ASSUME IInv, SilentStep, SliceRuns'
  PROVE  SliceRuns
<1> USE DEF IInv
<1> SUFFICES ASSUME task["solver"].pc \in {"idle", "none"}
             PROVE  task'["solver"].pc \in {"idle", "none"}
  BY DEF SliceRuns
<1>h. ASSUME NEW t, Goto("heal", t) PROVE task'["solver"] = task["solver"]
  BY <1>h DEF Goto, TypeOK, Callers
<1>1. CASE \/ Retry \/ ReadReadyLine \/ ReadyLineRaises \/ ReadyTimeout \/ SpawnFailed
           \/ \E p \in Procs : \/ Spawned(p) \/ ReadGarbage(p) \/ ReadRaises(p)
                               \/ ReadEof(p) \/ ReadTimeout(p)
  BY <1>1 DEF Retry, ReadReadyLine, ReadyLineRaises, ReadyTimeout, SpawnFailed, Spawned,
     ReadGarbage, ReadRaises, ReadEof, ReadTimeout, Reading
<1>2. ASSUME NEW c \in Callers, ShutdownStep(c) PROVE task'["solver"] = task["solver"]
  <2>1. InShutdown(c)
    BY <1>2 DEF ShutdownStep, ShutdownDrained, ShutdownDone, ShutdownKill, InShutdown
  <2>2. c = "heal" /\ task["heal"].why = "heal"
    BY <2>1 DEF InShutdown, CallersInv, Callers
  <2>3. \E t : Goto("heal", t)
    BY <1>2, <2>2 DEF ShutdownStep, ShutdownDrained, ShutdownDone, ShutdownKill,
       AfterShutdown, CloseAndWait
  <2> QED
    BY <1>h, <2>3
<1>3. CASE ForceRestart
  <2>1. \E t : Goto("heal", t)
    BY <1>3 DEF ForceRestart, BeginShutdown, CloseAndWait
  <2> QED
    BY <1>h, <2>1
<1>4. CASE LoseSession
  BY <1>4 DEF LoseSession, Cancel, Goto, At, TypeOK, Callers
<1>5. CASE SolverTaskEnded
  BY <1>5, <1>h DEF SolverTaskEnded, Cancel
<1>6. CASE Reconnect
  BY <1>6 DEF Reconnect, At, Callers
<1>7. CASE StderrEof \/ StderrBreaks \/ TipPreempt \/ HealTaskEnded
  BY <1>7 DEF StderrEof, StderrBreaks, TipPreempt, HealTaskEnded
<1>8. ASSUME NEW p \in Procs, DaemonStep(p) PROVE task' = task
  BY <1>8 DEF DaemonStep, DaemonReady, DaemonPrints, DaemonAnswer, DaemonDies, daemonUnchanged
<1> QED
  BY <1>1, <1>2, <1>3, <1>4, <1>5, <1>6, <1>7, <1>8 DEF SilentStep, SessionStep

\* Only the loss of a session ends the solver loop.
LEMMA LoopStays ==
  ASSUME IInv, SilentStep, ~LoseSession, task'["solver"].pc = "none"
  PROVE  task["solver"].pc = "none"
<1> USE DEF IInv
<1>h. ASSUME NEW t, Goto("heal", t) PROVE task'["solver"] = task["solver"]
  BY <1>h DEF Goto, TypeOK, Callers
<1>g. ASSUME NEW t, t.pc # "none", NEW c \in Callers, Goto(c, t)
      PROVE  task["solver"].pc = "none"
  BY <1>g DEF Goto, TypeOK, Callers
<1>d. \A pc \in {"wait", "drain", "kill"} : \A why, p : Down(pc, why, p).pc = pc
  BY DEF Down
<1>a. \A pc \in Pc : At(pc).pc = pc
  BY DEF At
<1>e. ASSUME NEW why, NEW c \in Callers, AfterShutdown(c, why)
      PROVE  task["solver"].pc = "none"
  <2>1. \E pc \in {"idle", "spawn", "backoff"} : Goto(c, At(pc)) \/ Goto("solver", At(pc))
    BY <1>e DEF AfterShutdown, SliceReturns, SliceRaises
  <2> QED
    BY <2>1, <1>g, <1>a DEF Callers, Pc
<1>b. ASSUME NEW why, NEW drained, NEW c \in Callers,
             BeginShutdown(c, why, drained) \/ CloseAndWait(c, why)
      PROVE  task["solver"].pc = "none"
  BY <1>b, <1>d, <1>g DEF BeginShutdown, CloseAndWait
<1>1. CASE ReadReadyLine \/ ReadyTimeout \/ \E p \in Procs : ReadGarbage(p) \/ ReadEof(p) \/ ReadTimeout(p)
  BY <1>1, <1>a, <1>b, <1>e, <1>g DEF ReadReadyLine, ReadyTimeout, ReadGarbage, ReadEof,
     ReadTimeout, CallShutdown, SliceReturns, SliceRaises, WriteJob, Callers, Pc, On
<1>2. CASE \/ Retry \/ SpawnFailed \/ ReadyLineRaises
           \/ \E p \in Procs : Spawned(p) \/ ReadRaises(p)
  BY <1>2, <1>a, <1>b, <1>e, <1>g DEF Retry, SpawnFailed, ReadyLineRaises, Spawned,
     ReadRaises, EnsureDaemon, WriteJob, SliceReturns, SliceRaises, Callers, Pc, On
<1>3. ASSUME NEW c \in Callers, ShutdownStep(c) PROVE task["solver"].pc = "none"
  <2>1. CASE ShutdownDrained(c)
    <3>1. CASE CloseAndWait(c, task[c].why)
      BY <1>b, <3>1
    <3>2. CASE Goto(c, At("idle")) \/ Goto("solver", At("idle"))
      BY <1>a, <1>g, <3>2 DEF Callers, Pc
    <3> QED
      BY <2>1, <3>1, <3>2 DEF ShutdownDrained, SliceRaises
  <2>2. CASE ShutdownDone(c)
    BY <1>e, <2>2 DEF ShutdownDone
  <2>3. CASE ShutdownKill(c)
    BY <1>d, <1>g, <2>3 DEF ShutdownKill
  <2> QED
    BY <1>3, <2>1, <2>2, <2>3 DEF ShutdownStep
<1>4. CASE ForceRestart
  BY <1>4, <1>b DEF ForceRestart, Callers
<1>5. CASE SolverTaskEnded
  BY <1>5 DEF SolverTaskEnded
<1>6. CASE Reconnect
  BY <1>6 DEF Reconnect, At, Callers
<1>7. CASE StderrEof \/ StderrBreaks \/ TipPreempt \/ HealTaskEnded
  BY <1>7 DEF StderrEof, StderrBreaks, TipPreempt, HealTaskEnded
<1>8. ASSUME NEW p \in Procs, DaemonStep(p) PROVE task' = task
  BY <1>8 DEF DaemonStep, DaemonReady, DaemonPrints, DaemonAnswer, DaemonDies, daemonUnchanged
<1> QED
  BY <1>1, <1>2, <1>3, <1>4, <1>5, <1>6, <1>7, <1>8 DEF SilentStep, SessionStep

\* The flag comes down with the return of a slice, and only then,
LEMMA FlagStays ==
  ASSUME IInv, SilentStep, inflight_parent' # inflight_parent
  PROVE  /\ SliceRuns /\ inflight_parent' = FALSE
         /\ task'["solver"].pc = "idle"
<1> USE DEF IInv
<1>r. ASSUME NEW out, SliceReturns(out)
      PROVE  inflight_parent' = FALSE /\ task'["solver"].pc = "idle"
  BY <1>r DEF SliceReturns, Goto, At, TypeOK, Callers
<1>e. ASSUME NEW why, NEW c \in Callers, AfterShutdown(c, why)
      PROVE  inflight_parent' = FALSE /\ task'["solver"].pc = "idle" /\ why = "io"
  BY <1>e, <1>r DEF AfterShutdown, SliceRaises, sliceVars
<1>1. CASE \/ Retry \/ ReadReadyLine \/ ReadyLineRaises \/ SpawnFailed
           \/ \E p \in Procs : Spawned(p) \/ ReadRaises(p) \/ DaemonStep(p)
           \/ StderrEof \/ StderrBreaks \/ ForceRestart \/ TipPreempt
           \/ LoseSession \/ SessionStep
  BY <1>1 DEF Retry, ReadReadyLine, ReadyLineRaises, SpawnFailed, Spawned, ReadRaises,
     SliceRaises, DaemonStep, DaemonReady, DaemonPrints, DaemonAnswer, DaemonDies,
     daemonUnchanged, StderrEof, StderrBreaks, ForceRestart, TipPreempt, LoseSession,
     SessionStep, SolverTaskEnded, HealTaskEnded, Reconnect, sliceVars
<1>2. CASE ReadyTimeout \/ \E p \in Procs : ReadGarbage(p) \/ ReadEof(p) \/ ReadTimeout(p)
  <2>1. \E why : AfterShutdown("solver", why)
    BY <1>2 DEF ReadyTimeout, ReadGarbage, ReadEof, ReadTimeout, CallShutdown, sliceVars
  <2> QED
    BY <1>2, <1>e, <2>1 DEF ReadyTimeout, ReadGarbage, ReadEof, ReadTimeout, Reading,
       SliceRuns, Callers
<1>3. ASSUME NEW c \in Callers, ShutdownStep(c)
      PROVE  /\ SliceRuns /\ inflight_parent' = FALSE
             /\ task'["solver"].pc = "idle"
  <2>1. AfterShutdown(c, task[c].why) /\ task[c].pc \in {"wait", "kill"}
    BY <1>3 DEF ShutdownStep, ShutdownDrained, ShutdownDone, ShutdownKill, SliceRaises,
       sliceVars
  <2>2. task[c].why = "io"
    BY <1>e, <2>1
  <2>3. c = "solver"
    BY <2>1, <2>2 DEF CallersInv, InShutdown, Callers
  <2> QED
    BY <1>e, <2>1, <2>3 DEF SliceRuns
<1> QED
  BY <1>1, <1>2, <1>3 DEF SilentStep

\* so that it is up while a slice runs.
LEMMA FlagStep ==
  ASSUME IInv, FlagInv, [HNext]_hvars
  PROVE  FlagInv'
<1>1. ASSUME NEW s \in Shapes, StartSlice(s) PROVE FlagInv'
  BY <1>1 DEF StartSlice, FlagInv
<1>2. ASSUME NEW p \in Procs, Given(p) PROVE FlagInv'
  BY <1>2 DEF Given, ReadShare, ReadFinal, SliceReturns, Goto, At, FlagInv, SliceRuns,
     IInv, TypeOK, Callers
<1>3. CASE SilentStep
  BY <1>3, SliceGoesOn, FlagStays DEF FlagInv, SliceRuns
<1>4. CASE UNCHANGED hvars
  BY <1>4 DEF hvars, vars, sliceVars, FlagInv, SliceRuns
<1> QED
  BY <1>1, <1>2, <1>3, <1>4 DEF HNext

\* An exception that escapes the read loop leaves the flag up.
LEMMA RaisedFlagged ==
  ASSUME IInv, FlagInv, NEW p \in Procs, ReadRaises(p)
  PROVE  SliceRuns /\ SliceState' = "cut"
<1>1. SliceRuns /\ inflight_parent
  BY DEF ReadRaises, Reading, SliceRuns, FlagInv
<1>2. task'["solver"].pc = "idle" /\ inflight_parent' = inflight_parent
  BY DEF ReadRaises, SliceRaises, Goto, At, IInv, TypeOK, Callers
<1> QED
  BY <1>1, <1>2 DEF SliceState, SliceRuns

\* A session lost between two slices, or while the solver task waits for the
\* stderr task, makes no debt.
LEMMA LostWithoutDebt ==
  ASSUME IInv, LoseSession, ~SliceRuns \/ task["solver"].pc = "drain"
  PROVE  NoNewDesync \/ Shrinks
<1> USE DEF IInv
<1>1. Fewer
  BY DEF LoseSession, procVars, Fewer, Alive
<1>2. CASE task["solver"].pc = "drain"
  BY <1>1, <1>2, SolverStays DEF LoseSession, Cancel
<1>3. CASE task["solver"].pc \in {"idle", "none"}
  <2>1. SolverFree
    BY <1>3 DEF SolverFree, SolverBusy, Reading, InShutdown
  <2>2. LeavePipes(stdout)
    BY <1>3 DEF LoseSession
  <2> QED
    BY <1>1, <2>1, <2>2, PipesLeftClean DEF Kept
<1> QED
  BY <1>2, <1>3 DEF SliceRuns

\* No other step makes one either.
LEMMA DebtStep ==
  ASSUME IInv, [Next]_vars, Debt',
         LoseSession => ~SliceRuns \/ task["solver"].pc = "drain",
         \A p \in Procs : ~ReadRaises(p)
  PROVE  Debt
BY StepKinds, DebtFalls, PipesStep, LostWithoutDebt DEF IInv, CutShort

\* A line of its own at the head of the pipe: nothing is owed.
LEMMA OwnLineNoDebt ==
  ASSUME HIInv, NEW p \in Procs, Reading(p), stdout[p] # <<>>, Head(stdout[p]).owner = "cur"
  PROVE  ~Debt
<1> USE DEF HIInv, IInv
<1>1. stdout[p] \in Seq(Line) /\ inbox[p] \in Seq(Owner)
  BY DEF TypeOK
<1>2. Len(stdout[p]) \in Nat /\ Len(stdout[p]) > 0 /\ Head(stdout[p]) = stdout[p][1]
  BY <1>1, TailFacts
<1>3. 1 \in 1..Len(stdout[p]) /\ stdout[p][1].owner = "cur"
  BY <1>2
<1>4. /\ \A j \in 1..Len(stdout[p]) : stdout[p][j].owner = "cur"
      /\ \A j \in 1..Len(inbox[p]) : inbox[p][j] = "cur"
  BY <1>3 DEF OrderInv, Open
<1>5. ~Desynced(p)
  BY <1>4 DEF Desynced
<1>6. ASSUME NEW q \in Procs, Open(q) PROVE q = p
  <2>1. Reading(q) => q = p
    BY DEF Reading
  <2>2. Alive(q) => q = daemon
    BY DEF OwnershipInv, NoOrphanDaemon
  <2>3. daemon \in {p, None}
    BY DEF ReaderInv
  <2> QED
    BY <1>6, <2>1, <2>2, <2>3, NoneAssumption DEF Open
<1> QED
  BY <1>5, <1>6 DEF Debt

\* Every step is a step of SolveService or changes nothing it speaks of.
LEMMA ServiceStep ==
  ASSUME HIInv, [HNext]_hvars
  PROVE  [Service!Next]_<<SliceState, heard, Debt>>
<1> USE DEF HIInv, IInv
<1>n. [Next]_vars
  BY HistoryStep
<1>b. Debt \in BOOLEAN /\ Debt' \in BOOLEAN
  BY DEF Debt
<1>1. ASSUME NEW s \in Shapes, StartSlice(s), heard' = {} PROVE Service!Begin
  <2>1. ~SliceRuns /\ SliceState \in {"idle", "cut"}
    BY <1>1 DEF StartSlice, SliceRuns, SliceState
  <2>2. SliceRuns'
    <3>1. ASSUME NEW t, Goto("solver", t), t.pc \in {"drain", "wait", "read", "spawn"}
          PROVE  SliceRuns'
      BY <3>1 DEF Goto, TypeOK, Callers, SliceRuns
    <3>2. ASSUME NEW why, NEW drained, BeginShutdown("solver", why, drained)
          PROVE  SliceRuns'
      BY <3>1, <3>2 DEF BeginShutdown, CloseAndWait, Down
    <3> QED
      BY <1>1, <3>1, <3>2 DEF StartSlice, EnsureDaemon, WriteJob, On, At
  <2>3. Debt' => Debt
    <3>1. \A p \in Procs : ~ReadRaises(p)
      BY <2>1 DEF ReadRaises, Reading, SliceRuns
    <3> QED
      BY <1>n, <2>1, <3>1, DebtStep
  <2> QED
    BY <1>1, <1>b, <2>1, <2>2, <2>3 DEF Service!Begin, Service!DebtMayFall, SliceState
<1>2. ASSUME NEW p \in Procs, Given(p)
      PROVE  \E whose \in {"cur", "old"} : Service!Hear(whose)
  <2> DEFINE whose == Head(stdout[p]).owner
  <2>1. /\ Reading(p) /\ stdout[p] # <<>> /\ heard' = heard \cup {whose}
        /\ Head(stdout[p]).kind # "bad"
    BY <1>2 DEF Given, ReadShare, ReadFinal
  <2>2. Head(stdout[p]) = stdout[p][1] /\ 1 \in 1..Len(stdout[p]) /\ Head(stdout[p]) \in Line
    BY <2>1, TailFacts DEF TypeOK
  <2>3. SliceRuns
    BY <2>1 DEF Reading, SliceRuns
  <2>4. whose \in {"cur", "old"}
    BY <2>2 DEF Line, Owner
  <2>5. whose = "old" => Debt
    BY <2>1, <2>2 DEF Debt, Open, Desynced
  <2>6. Debt' => Debt
    <3>1. ~LoseSession
      BY <1>2 DEF Given, ReadShare, ReadFinal, LoseSession, callUnchanged
    <3>2. \A q \in Procs : ~ReadRaises(q)
      BY <2>1 DEF ReadRaises, Reading
    <3> QED
      BY <1>n, <3>1, <3>2, DebtStep
  <2>7. whose = "cur" => ~Debt
    BY <2>1, OwnLineNoDebt
  <2>8. SliceState = "run" /\ SliceState' \in {"run", "idle"}
    <3>1. CASE ReadShare(p)
      BY <2>3, <3>1 DEF ReadShare, SliceState, SliceRuns
    <3>2. CASE ReadFinal(p)
      BY <2>3, <3>2 DEF ReadFinal, SliceReturns, SliceState, SliceRuns, Goto, At, TypeOK,
         Callers
    <3> QED
      BY <1>2, <3>1, <3>2 DEF Given
  <2>9. Service!Hear(whose)
    BY <1>b, <2>1, <2>5, <2>6, <2>7, <2>8 DEF Service!Hear, Service!DebtMayFall
  <2> QED
    BY <2>4, <2>9
<1>3. ASSUME SilentStep, heard' = heard
      PROVE  Service!Fail \/ Service!Raise \/ Service!Cancel \/ Service!Resume \/ Service!Settle
  <2> USE DEF Service!DebtMayFall
  <2>s. /\ SliceState \in {"run", "idle", "cut", "none"}
        /\ SliceState = "run" <=> SliceRuns
        /\ SliceState = "none" <=> task["solver"].pc = "none"
    BY DEF SliceState, SliceRuns
  <2>t. /\ SliceState' \in {"run", "idle", "cut", "none"}
        /\ SliceState' = "run" <=> SliceRuns'
        /\ SliceState' = "none" <=> task'["solver"].pc = "none"
    BY DEF SliceState, SliceRuns
  <2>1. SliceRuns' => SliceRuns
    BY <1>3, SliceGoesOn
  <2>2. CASE LoseSession /\ task["solver"].pc \notin {"drain", "none"}
    <3>1. SliceState' = "none" /\ SliceState # "none"
      BY <2>2, <2>s, <2>t DEF LoseSession, Cancel, Goto, At, TypeOK, Callers
    <3>2. CASE SliceState = "run"
      BY <1>b, <1>3, <3>1, <3>2 DEF Service!Cancel
    <3>3. CASE SliceState # "run"
      <4>1. \A p \in Procs : ~ReadRaises(p)
        BY <2>s, <3>3 DEF ReadRaises, Reading, SliceRuns
      <4>2. Debt' => Debt
        BY <1>n, <2>s, <3>3, <4>1, DebtStep
      <4> QED
        BY <1>b, <1>3, <3>1, <3>3, <4>2 DEF Service!Cancel
    <3> QED
      BY <3>2, <3>3
  <2>3. ASSUME NEW p \in Procs, ReadRaises(p) PROVE Service!Raise
    BY <1>b, <1>3, <2>3, <2>s, RaisedFlagged DEF Service!Raise
  <2>4. CASE /\ LoseSession => task["solver"].pc \in {"drain", "none"}
             /\ \A p \in Procs : ~ReadRaises(p)
    <3>1. Debt' => Debt
      BY <1>n, <2>4, DebtStep DEF SliceRuns
    <3>2. SliceState' = "none" => SliceState = "none"
      <4>1. CASE LoseSession
        BY <2>4, <2>s, <2>t, <4>1 DEF LoseSession, Cancel, Goto, At, TypeOK, Callers
      <4>2. CASE ~LoseSession
        BY <1>3, <2>s, <2>t, <4>2, LoopStays
      <4> QED
        BY <4>1, <4>2
    <3>3. CASE SliceState = "run"
      BY <1>b, <1>3, <2>t, <3>1, <3>2, <3>3 DEF Service!Fail, Service!Raise
    <3>4. CASE SliceState = "none"
      BY <1>b, <1>3, <2>s, <2>t, <2>1, <3>1, <3>4 DEF Service!Resume, Service!Settle
    <3>5. CASE SliceState \in {"idle", "cut"}
      <4>1. inflight_parent' = inflight_parent
        BY <1>3, <2>s, <3>5, FlagStays
      <4>2. SliceState' = SliceState
        BY <2>s, <2>t, <2>1, <3>2, <3>5, <4>1 DEF SliceState, SliceRuns
      <4> QED
        BY <1>b, <1>3, <3>1, <4>2 DEF Service!Settle
    <3> QED
      BY <2>s, <3>3, <3>4, <3>5
  <2> QED
    BY <2>2, <2>3, <2>4
<1>4. CASE UNCHANGED hvars
  BY <1>4 DEF hvars, vars, procVars, wrapperVars, sliceVars, SliceRuns, SliceState, Debt,
     Open, Alive, Reading, Desynced
<1> QED
  BY <1>1, <1>2, <1>3, <1>4 DEF HNext, Service!Next

\* What HIInv adds to IInv holds initially, and every step keeps it.
LEMMA HeardInductive == HSpec => []HIInv
<1>1. HInit => heard \subseteq Owner /\ FlagInv /\ ReaderInv /\ OrderInv
  BY DEF HInit, Init, FlagInv, SliceRuns, ReaderInv, OrderInv, Open, Alive, Reading, At, Callers
<1>2. ASSUME HIInv, [HNext]_hvars PROVE (heard \subseteq Owner /\ FlagInv /\ ReaderInv /\ OrderInv)'
  <2>1. FlagInv' /\ ReaderInv' /\ OrderInv'
    BY <1>2, HistoryStep, FlagStep, ReaderStep, OrderStep DEF HIInv
  <2>2. ASSUME NEW p \in Procs, Given(p) PROVE heard' \subseteq Owner
    <3>1. stdout[p] \in Seq(Line) /\ stdout[p] # <<>>
      BY <1>2, <2>2 DEF HIInv, IInv, TypeOK, Given, ReadShare, ReadFinal
    <3>2. Head(stdout[p]) \in Line
      BY <3>1, TailFacts
    <3>3. Head(stdout[p]).owner \in Owner
      BY <3>2 DEF Line
    <3> QED
      BY <1>2, <2>2, <3>3 DEF HIInv, Given
  <2>3. heard' \subseteq Owner
    BY <1>2, <2>2 DEF HIInv, HNext, hvars
  <2> QED
    BY <2>1, <2>3
<1>3. IInv /\ (heard \subseteq Owner /\ FlagInv /\ ReaderInv /\ OrderInv) <=> HIInv
  BY DEF HIInv
<1> QED
  BY <1>1, <1>2, <1>3, HistoryOnly, PTL DEF HSpec

\* For any processes, shapes and bounds GbtSolveWrapper keeps the promise of
\* SolveService: no slice that returns, however it failed, was retried or had its
\* daemon bounced, leaves a line behind for the next one; only one that raises or
\* is cancelled may; and a slice that was given one line of its own is given no
\* other's.
THEOREM Implements == HSpec => ImplementsService
<1>1. HInit => Service!Init
  BY DEF HInit, Init, Service!Init, SliceRuns, SliceState, Debt, Open, Desynced, Alive, Reading, At,
     Callers
<1>2. HIInv /\ [HNext]_hvars
        => [Service!Next]_<<SliceState, heard, Debt>>
  BY ServiceStep
<1> QED
  BY <1>1, <1>2, HeardInductive, PTL DEF HSpec, ImplementsService, Service!Spec

\* Once in step, a slice stays in step: what SolveService implies.
THEOREM StaysInStep == HSpec => []Service!InStep
<1>1. Service!Init => Service!InStep
  BY DEF Service!Init, Service!InStep
<1>2. ASSUME Service!InStep,
             [Service!Next]_<<SliceState, heard, Debt>>
      PROVE  Service!InStep'
  BY <1>2 DEF Service!Next, Service!Begin, Service!Hear, Service!Fail, Service!Raise, Service!Cancel,
     Service!Resume, Service!Settle, Service!DebtMayFall, Service!InStep
<1> QED
  BY <1>1, <1>2, Implements, PTL DEF ImplementsService, Service!Spec

\* As long as no slice is cut short nothing is ever owed.
Clean == ~Debt /\ heard \subseteq {"cur"}

LEMMA StaysClean == HSpec /\ [][~CutShort]_hvars => [](Clean /\ HIInv)
<1>1. HInit => Clean
  BY DEF HInit, Init, Clean, Debt, Desynced, Open, Alive, Reading, At, Callers
<1>2. ASSUME HIInv, Clean, [HNext]_hvars, [~CutShort]_hvars PROVE Clean'
  <2> USE DEF Clean
  <2>1. CASE UNCHANGED hvars
    BY <1>2, <2>1 DEF hvars, vars, procVars, wrapperVars, sliceVars, Debt, Open, Alive,
       Reading, Desynced
  <2>2. CASE ~CutShort
    <3>1. ~Debt'
      BY <1>2, <2>2, HistoryStep, DebtStep DEF HIInv, CutShort
    <3>2. ASSUME NEW p \in Procs, Given(p) PROVE Head(stdout[p]).owner = "cur"
      <4>1. Reading(p) /\ stdout[p] # <<>> /\ stdout[p] \in Seq(Line)
        BY <1>2, <3>2 DEF Given, ReadShare, ReadFinal, HIInv, IInv, TypeOK
      <4>2. Head(stdout[p]) = stdout[p][1] /\ 1 \in 1..Len(stdout[p]) /\ Head(stdout[p]) \in Line
        BY <4>1, TailFacts
      <4> QED
        BY <1>2, <4>1, <4>2 DEF Debt, Open, Desynced, Line, Owner
    <3>3. ASSUME NEW p \in Procs, Given(p) PROVE heard' = heard \cup {"cur"}
      BY <3>2, <3>3 DEF Given
    <3>4. heard' \subseteq {"cur"}
      BY <1>2, <3>3 DEF HNext, hvars
    <3> QED
      BY <3>1, <3>4
  <2> QED
    BY <1>2, <2>1, <2>2
<1> QED
  BY <1>1, <1>2, HeardInductive, PTL DEF HSpec

\* As long as no slice is cut short, by the loss of its session or by a line that
\* raises what the retry loop does not catch, every share and every record
\* solve_slice is given answers the job that very slice wrote: through lines that
\* are no JSON, timeouts, dead daemons, retries and force_restart at any point.
THEOREM OwnAnswers == HSpec /\ [][~CutShort]_hvars => [](heard \subseteq {"cur"})
<1>1. Clean => heard \subseteq {"cur"}
  BY DEF Clean
<1> QED
  BY <1>1, StaysClean, PTL

\* "One job at a time per process" (OneJobInFlight) is true until a slice is cut
\* short: a living daemon holds one job at most, and none whose answer waits.
OneJobAtATime ==
  \A p \in Procs : Alive(p) =>
    /\ Len(inbox[p]) <= 1
    /\ inbox[p] # <<>> => \A i \in 1..Len(stdout[p]) : stdout[p][i].kind # "final"

\* So the docstring of the wrapper holds until a session is lost or a line raises
\* what the retry loop does not catch, however else slices fail.
THEOREM OneJob == HSpec /\ [][~CutShort]_hvars => []OneJobAtATime
<1>1. ASSUME Clean, HIInv PROVE OneJobAtATime
  <2> USE DEF HIInv, IInv
  <2> SUFFICES ASSUME NEW p \in Procs, Alive(p)
               PROVE  /\ Len(inbox[p]) <= 1
                      /\ inbox[p] # <<>> =>
                           \A i \in 1..Len(stdout[p]) : stdout[p][i].kind # "final"
    BY DEF OneJobAtATime
  <2>1. inbox[p] \in Seq(Owner) /\ stdout[p] \in Seq(Line)
    BY <1>1 DEF TypeOK
  <2>2. /\ \A i \in 1..Len(inbox[p]) : inbox[p][i] = "cur"
        /\ \A i \in 1..Len(stdout[p]) : stdout[p][i].owner = "cur"
    <3>1. ~Desynced(p)
      BY <1>1 DEF Clean, Debt, Open
    <3>2. \A i \in 1..Len(inbox[p]) : inbox[p][i] \in Owner
      BY <2>1
    <3>3. \A i \in 1..Len(stdout[p]) : stdout[p][i].owner \in Owner
      <4>1. \A i \in 1..Len(stdout[p]) : stdout[p][i] \in Line
        BY <2>1
      <4> QED
        BY <4>1 DEF Line
    <3> QED
      BY <3>1, <3>2, <3>3 DEF Desynced, Owner
  <2>3. \A i \in 1..Len(inbox[p]) : i = Len(inbox[p])
    BY <1>1, <2>2 DEF PipesInv
  <2>4. Len(inbox[p]) <= 1
    <3>1. Len(inbox[p]) \in Nat
      BY <2>1, LenProperties
    <3>2. \A n \in Nat : (\A i \in 1..n : i = n) => n <= 1
      OBVIOUS
    <3> QED
      BY <2>3, <3>1, <3>2
  <2>5. inbox[p] # <<>> => CurrentAnswers(p) = {}
    BY <1>1 DEF PipesInv
  <2> QED
    BY <2>2, <2>4, <2>5 DEF CurrentAnswers
<1> QED
  BY <1>1, StaysClean, PTL
=============================================================================
