----------------------- MODULE GbtSolveWrapper_proofs -----------------------
(***************************************************************************)
(* Proofs about GbtSolveWrapper, for any set of process identities, any    *)
(* shapes and any bounds.                                                  *)
(***************************************************************************)
EXTENDS GbtSolveWrapper, SequenceTheorems, TLAPS

\* What is left of a queue when its head is taken.
LEMMA TailFacts ==
  ASSUME NEW S, NEW s \in Seq(S), s # <<>>
  PROVE  /\ Len(s) \in Nat /\ Len(s) > 0
         /\ Head(s) = s[1] /\ Head(s) \in S
         /\ Tail(s) \in Seq(S)
         /\ Len(Tail(s)) = Len(s) - 1
         /\ \A i \in 1..Len(Tail(s)) : Tail(s)[i] = s[i + 1]
<1>1. Len(s) \in Nat /\ Len(s) # 0
  BY EmptySeq
<1>2. Len(Tail(s)) = Len(s) - 1 /\ \A i \in 1..Len(Tail(s)) : Tail(s)[i] = s[i + 1]
  BY HeadTailProperties
<1> QED
  BY <1>1, <1>2

\* What an ended slice leaves in a job queue: as many entries, all "old".
LEMMA DisownQueue ==
  ASSUME NEW q \in Seq(Owner)
  PROVE  /\ Disown(q) \in Seq(Owner)
         /\ Len(Disown(q)) = Len(q)
         /\ \A i \in 1..Len(q) : Disown(q)[i] = "old"
<1>1. Len(q) \in Nat
  OBVIOUS
<1>2. "old" \in Owner
  BY DEF Owner
<1>3. Disown(q) \in Seq(Owner)
  BY <1>1, <1>2, IsASeq DEF Disown
<1> QED
  BY <1>1, <1>3 DEF Disown

\* What it leaves in a stdout pipe: the same lines, all "old".
LEMMA DisownPipe ==
  ASSUME NEW q \in Seq(Line)
  PROVE  /\ DisownLines(q) \in Seq(Line)
         /\ Len(DisownLines(q)) = Len(q)
         /\ \A i \in 1..Len(q) : DisownLines(q)[i].owner = "old"
<1>1. Len(q) \in Nat /\ \A i \in 1..Len(q) : q[i] \in Line
  OBVIOUS
<1>2. \A i \in 1..Len(q) : /\ [q[i] EXCEPT !.owner = "old"] \in Line
                           /\ [q[i] EXCEPT !.owner = "old"].owner = "old"
  BY <1>1 DEF Line, Owner
<1>3. DisownLines(q) \in Seq(Line)
  BY <1>1, <1>2, IsASeq DEF DisownLines
<1>4. \A i \in 1..Len(q) : DisownLines(q)[i] = [q[i] EXCEPT !.owner = "old"]
  BY <1>1 DEF DisownLines
<1>5. Len(DisownLines(q)) = Len(q)
  <2>1. DOMAIN DisownLines(q) = 1..Len(q)
    BY DEF DisownLines
  <2>2. DOMAIN DisownLines(q) = 1..Len(DisownLines(q)) /\ Len(DisownLines(q)) \in Nat
    BY <1>3, LenProperties
  <2> QED
    BY <1>1, <2>1, <2>2
<1> QED
  BY <1>2, <1>3, <1>4, <1>5

-----------------------------------------------------------------------------
(***************************************************************************)
(* Type correctness.                                                       *)
(***************************************************************************)

\* The task records the actions build are tasks.
LEMMA TaskRecords ==
  ASSUME NEW pc \in Pc, NEW why \in Why, NEW p \in Procs \cup {None}
  PROVE  At(pc) \in Task /\ On(pc, p) \in Task /\ Down(pc, why, p) \in Task
BY DEF At, On, Down, Task, Why

\* The variables a slice owns keep their types.
SliceTyped ==
  /\ inbox \in [Procs -> Seq(Owner)]
  /\ stdout \in [Procs -> Seq(Line)]
  /\ attempt \in {1, 2}
  /\ challenge \in Shapes \cup {None}
  /\ inflight_parent \in BOOLEAN

TaskTyped == task \in [Callers -> Task]
StdinTyped == stdin_open \in [Procs -> BOOLEAN]

\* A coroutine goes from one await to another.
LEMMA GotoTyped ==
  ASSUME TypeOK, NEW c \in Callers, NEW t \in Task, Goto(c, t)
  PROVE  TaskTyped'
BY DEF TypeOK, Goto, TaskTyped

\* Dropping dead pipes and disowning living ones keeps both queues typed.
LEMMA LeavePipesTyped ==
  ASSUME TypeOK, NEW out \in [Procs -> Seq(Line)], LeavePipes(out)
  PROVE  inbox' \in [Procs -> Seq(Owner)] /\ stdout' \in [Procs -> Seq(Line)]
<1>1. \A p \in Procs : Disown(inbox[p]) \in Seq(Owner)
  BY DisownQueue DEF TypeOK
<1>2. \A p \in Procs : DisownLines(out[p]) \in Seq(Line)
  BY DisownPipe
<1>3. <<>> \in Seq(Owner) /\ <<>> \in Seq(Line)
  OBVIOUS
<1> QED
  BY <1>1, <1>2, <1>3 DEF LeavePipes

\* What is left of stdout when its head is read, or torn.
LEMMA ReadTyped ==
  ASSUME TypeOK, NEW p \in Procs, stdout[p] # <<>>
  PROVE  {Popped(p), Torn(p)} \subseteq [Procs -> Seq(Line)]
<1>1. stdout[p] \in Seq(Line) /\ stdout \in [Procs -> Seq(Line)]
  BY DEF TypeOK
<1>2. Tail(stdout[p]) \in Seq(Line) /\ 1 \in 1..Len(stdout[p])
  BY <1>1, TailFacts
<1>3. stdout[p][1] \in Line
  BY <1>1, <1>2
<1>4. [stdout[p][1] EXCEPT !.kind = "garbage"] \in Line
  BY <1>3 DEF Line, Kind
<1>5. [stdout[p] EXCEPT ![1] = [@ EXCEPT !.kind = "garbage"]] \in Seq(Line)
  BY <1>1, <1>2, <1>4, ExceptSeq
<1> QED
  BY <1>1, <1>2, <1>5 DEF Popped, Torn

\* The end of a slice, returned or raised, keeps the types.
LEMMA SliceEndTyped ==
  ASSUME TypeOK, NEW out \in [Procs -> Seq(Line)],
         SliceReturns(out) \/ SliceRaises(out)
  PROVE  SliceTyped' /\ TaskTyped'
<1>1. TaskTyped'
  BY TaskRecords, GotoTyped DEF SliceReturns, SliceRaises, Pc, Why, Callers
<1>2. inbox' \in [Procs -> Seq(Owner)] /\ stdout' \in [Procs -> Seq(Line)]
  BY LeavePipesTyped DEF SliceReturns, SliceRaises
<1> QED
  BY <1>1, <1>2 DEF SliceReturns, SliceRaises, SliceTyped, TypeOK

\* So does whatever follows a shutdown,
LEMMA AfterShutdownTyped ==
  ASSUME TypeOK, NEW c \in Callers, NEW why \in Why, AfterShutdown(c, why)
  PROVE  SliceTyped' /\ TaskTyped'
<1>1. CASE why = "heal" \/ why = "shape" \/ (why = "io" /\ attempt = 1)
  <2>1. TaskTyped'
    BY <1>1, TaskRecords, GotoTyped DEF AfterShutdown, Pc, Why
  <2> QED
    BY <1>1, <2>1 DEF AfterShutdown, SliceTyped, TypeOK, sliceVars
<1>2. CASE why = "ready" \/ (why = "io" /\ attempt = 2)
  <2>1. stdout \in [Procs -> Seq(Line)]
    BY DEF TypeOK
  <2> QED
    BY <1>2, <2>1, SliceEndTyped DEF AfterShutdown
<1> QED
  BY <1>1, <1>2 DEF AfterShutdown

\* its beginning,
LEMMA BeginShutdownTyped ==
  ASSUME TypeOK, NEW c \in Callers, NEW why \in Why, NEW drained,
         BeginShutdown(c, why, drained) \/ (daemon # None /\ CloseAndWait(c, why))
  PROVE  StdinTyped' /\ TaskTyped'
<1>1. daemon \in Procs
  BY DEF BeginShutdown, TypeOK
<1>2. StdinTyped'
  BY <1>1 DEF BeginShutdown, CloseAndWait, TypeOK, StdinTyped
<1>3. Down("drain", why, None) \in Task /\ Down("wait", why, daemon) \in Task
  BY <1>1, TaskRecords DEF Pc
<1> QED
  BY <1>2, <1>3, GotoTyped DEF BeginShutdown, CloseAndWait

\* a call of it from the solver loop,
LEMMA CallShutdownTyped ==
  ASSUME TypeOK, NEW why \in Why, CallShutdown(why)
  PROVE  StdinTyped' /\ TaskTyped' /\ SliceTyped'
<1>1. "solver" \in Callers
  BY DEF Callers
<1>2. CASE BeginShutdown("solver", why, stderr_task) /\ UNCHANGED sliceVars
  BY <1>1, <1>2, BeginShutdownTyped DEF TypeOK, SliceTyped, sliceVars
<1>3. CASE AfterShutdown("solver", why) /\ UNCHANGED stdin_open
  BY <1>1, <1>3, AfterShutdownTyped DEF TypeOK, StdinTyped
<1> QED
  BY <1>2, <1>3 DEF CallShutdown

InboxTyped == inbox \in [Procs -> Seq(Owner)]

\* the write of a job,
LEMMA WriteJobTyped ==
  ASSUME TypeOK, daemon # None, NEW drained, WriteJob(drained)
  PROVE  StdinTyped' /\ TaskTyped' /\ InboxTyped'
<1>1. daemon \in Procs /\ "solver" \in Callers /\ "io" \in Why /\ "read" \in Pc
  BY DEF TypeOK, Callers, Why, Pc
<1>2. CASE /\ inbox' = [inbox EXCEPT ![daemon] = Append(@, "cur")]
           /\ Goto("solver", On("read", daemon))
           /\ UNCHANGED stdin_open
  <2>1. Append(inbox[daemon], "cur") \in Seq(Owner)
    BY <1>1 DEF TypeOK, Owner
  <2>2. On("read", daemon) \in Task
    BY <1>1, TaskRecords
  <2> QED
    BY <1>1, <1>2, <2>1, <2>2, GotoTyped DEF TypeOK, StdinTyped, InboxTyped
<1>3. CASE BeginShutdown("solver", "io", drained) /\ UNCHANGED inbox
  BY <1>1, <1>3, BeginShutdownTyped DEF TypeOK, InboxTyped
<1> QED
  BY <1>2, <1>3 DEF WriteJob

\* and _ensure_daemon, with the write that may follow.
LEMMA EnsureDaemonTyped ==
  ASSUME TypeOK, NEW shape, EnsureDaemon(shape)
  PROVE  StdinTyped' /\ TaskTyped' /\ InboxTyped'
<1>1. "solver" \in Callers /\ "shape" \in Why /\ "spawn" \in Pc
  BY DEF Callers, Why, Pc
<1>2. CASE BeginShutdown("solver", "shape", stderr_task) /\ UNCHANGED inbox
  BY <1>1, <1>2, BeginShutdownTyped DEF TypeOK, InboxTyped
<1>3. CASE DaemonAlive /\ WriteJob(stderr_task)
  BY <1>3, WriteJobTyped DEF DaemonAlive
<1>4. CASE Goto("solver", At("spawn")) /\ UNCHANGED <<stdin_open, inbox>>
  BY <1>1, <1>4, TaskRecords, GotoTyped DEF TypeOK, StdinTyped, InboxTyped
<1> QED
  BY <1>2, <1>3, <1>4 DEF EnsureDaemon

\* Every step keeps every variable in its type.
LEMMA TypeStep ==
  ASSUME TypeOK, [Next]_vars
  PROVE  TypeOK'
<1> USE DEF TypeOK, StdinTyped, TaskTyped, SliceTyped, InboxTyped
<1>c. "solver" \in Callers /\ "heal" \in Callers
  BY DEF Callers
<1>w. {"shape", "ready", "io", "heal"} \subseteq Why
  BY DEF Why
<1>1. ASSUME NEW s \in Shapes, StartSlice(s) PROVE TypeOK'
  <2>1. StdinTyped' /\ TaskTyped' /\ InboxTyped'
    BY <1>1, EnsureDaemonTyped DEF StartSlice
  <2> QED
    BY <1>1, <2>1 DEF StartSlice, EnsureDaemon, wrapperVars
<1>2. CASE Retry
  <2>1. StdinTyped' /\ TaskTyped' /\ InboxTyped'
    BY <1>2, EnsureDaemonTyped DEF Retry
  <2> QED
    BY <1>2, <2>1 DEF Retry, EnsureDaemon, wrapperVars
<1>3. ASSUME NEW p \in Procs, Spawned(p) PROVE TypeOK'
  <2>1. TaskTyped'
    BY <1>3, <1>c, TaskRecords, GotoTyped DEF Spawned, Pc, Why
  <2>2. inbox' \in [Procs -> Seq(Owner)] /\ stdout' \in [Procs -> Seq(Line)]
    <3>1. <<>> \in Seq(Owner) /\ <<>> \in Seq(Line)
      OBVIOUS
    <3> QED
      BY <1>3, <3>1 DEF Spawned
  <2> QED
    BY <1>3, <2>1, <2>2 DEF Spawned
<1>4. CASE SpawnFailed \/ ReadyLineRaises
  <2>1. SliceTyped' /\ TaskTyped'
    BY <1>4, SliceEndTyped DEF SpawnFailed, ReadyLineRaises
  <2> QED
    BY <1>4, <2>1 DEF SpawnFailed, ReadyLineRaises, callUnchanged, wrapperVars
<1>5. CASE ReadReadyLine
  <2>1. CASE daemon = None /\ SliceRaises(stdout) /\ UNCHANGED stdin_open
    <3>1. SliceTyped' /\ TaskTyped'
      BY <2>1, SliceEndTyped
    <3> QED
      BY <1>5, <2>1, <3>1 DEF ReadReadyLine
  <2>2. CASE /\ daemon # None /\ WriteJob(daemon)
             /\ UNCHANGED <<stdout, attempt, challenge, inflight_parent>>
    <3>1. StdinTyped' /\ TaskTyped' /\ InboxTyped'
      BY <2>2, WriteJobTyped
    <3> QED
      BY <1>5, <2>2, <3>1 DEF ReadReadyLine
  <2> QED
    BY <1>5, <2>1, <2>2 DEF ReadReadyLine
<1>6. ASSUME NEW why \in Why, CallShutdown(why), UNCHANGED callUnchanged
      PROVE  TypeOK'
  <2>1. StdinTyped' /\ TaskTyped' /\ SliceTyped'
    BY <1>6, CallShutdownTyped
  <2> QED
    BY <1>6, <2>1 DEF callUnchanged, wrapperVars
<1>7. CASE ReadyTimeout
  BY <1>7, <1>6, <1>w DEF ReadyTimeout
<1>8. ASSUME NEW p \in Procs, ReadShare(p) PROVE TypeOK'
  <2>1. Tail(stdout[p]) \in Seq(Line)
    BY <1>8 DEF ReadShare
  <2> QED
    BY <1>8, <2>1 DEF ReadShare, Popped, procVars, wrapperVars
<1>9. ASSUME NEW p \in Procs, ReadFinal(p) \/ ReadRaises(p) PROVE TypeOK'
  <2>1. {Popped(p), Torn(p)} \subseteq [Procs -> Seq(Line)]
    BY <1>9, ReadTyped DEF ReadFinal, ReadRaises
  <2>2. SliceTyped' /\ TaskTyped'
    BY <1>9, <2>1, SliceEndTyped DEF ReadFinal, ReadRaises
  <2> QED
    BY <1>9, <2>2 DEF ReadFinal, ReadRaises, callUnchanged, wrapperVars
<1>10. ASSUME NEW p \in Procs, ReadGarbage(p) \/ ReadEof(p) \/ ReadTimeout(p)
       PROVE  TypeOK'
  BY <1>10, <1>6, <1>w DEF ReadGarbage, ReadEof, ReadTimeout
<1>11. ASSUME NEW c \in Callers, ShutdownDrained(c) PROVE TypeOK'
  <2>1. task[c].why \in Why
    BY DEF Task
  <2>2. StdinTyped' /\ TaskTyped' /\ SliceTyped'
    <3>1. CASE daemon # None /\ CloseAndWait(c, task[c].why) /\ UNCHANGED sliceVars
      BY <3>1, <2>1, BeginShutdownTyped DEF sliceVars
    <3>2. CASE SliceRaises(stdout) /\ UNCHANGED stdin_open
      BY <3>2, SliceEndTyped
    <3>3. CASE Goto(c, At("idle")) /\ UNCHANGED <<stdin_open, sliceVars>>
      BY <3>3, TaskRecords, GotoTyped DEF Pc, Why, sliceVars
    <3> QED
      BY <1>11, <3>1, <3>2, <3>3 DEF ShutdownDrained
  <2> QED
    BY <1>11, <2>2 DEF ShutdownDrained
<1>12. ASSUME NEW c \in Callers, ShutdownDone(c) PROVE TypeOK'
  <2>1. task[c].why \in Why
    BY DEF Task
  <2>2. TaskTyped' /\ SliceTyped'
    BY <1>12, <2>1, AfterShutdownTyped DEF ShutdownDone
  <2> QED
    BY <1>12, <2>2 DEF ShutdownDone
<1>13. ASSUME NEW c \in Callers, ShutdownKill(c) PROVE TypeOK'
  <2>1. task[c].why \in Why /\ daemon \in Procs /\ "kill" \in Pc
    BY <1>13 DEF Task, ShutdownKill, Pc
  <2>2. TaskTyped'
    BY <1>13, <2>1, TaskRecords, GotoTyped DEF ShutdownKill
  <2> QED
    BY <1>13, <2>1, <2>2 DEF ShutdownKill, wrapperVars, sliceVars
<1>14. CASE StderrEof \/ StderrBreaks
  BY <1>14 DEF StderrEof, StderrBreaks, procVars, sliceVars
<1>15. CASE ForceRestart
  <2>1. StdinTyped' /\ TaskTyped'
    BY <1>15, <1>c, <1>w, BeginShutdownTyped DEF ForceRestart
  <2> QED
    BY <1>15, <2>1 DEF ForceRestart, callUnchanged, wrapperVars, sliceVars
<1>16. CASE TipPreempt
  BY <1>16 DEF TipPreempt, CanSignal, DaemonAlive, wrapperVars, sliceVars
<1>17. ASSUME NEW c \in Callers, Cancel(c) PROVE TaskTyped'
  BY <1>17, TaskRecords, GotoTyped DEF Cancel, Pc, Why
<1>18. CASE LoseSession
  <2>1. SliceTyped'
    BY <1>18, LeavePipesTyped DEF LoseSession
  <2> QED
    BY <1>18, <1>17, <1>c, <2>1 DEF LoseSession, procVars, wrapperVars
<1>19. CASE SolverTaskEnded
  BY <1>19, <1>17, <1>c DEF SolverTaskEnded, procVars, wrapperVars, sliceVars
<1>20. CASE HealTaskEnded
  BY <1>20 DEF HealTaskEnded, procVars, wrapperVars, sliceVars
<1>21. CASE Reconnect
  <2>1. TaskTyped'
    BY <1>21, TaskRecords DEF Reconnect, Pc, Why
  <2> QED
    BY <1>21, <2>1 DEF Reconnect, procVars, wrapperVars, sliceVars
<1>22. ASSUME NEW p \in Procs, DaemonStep(p) PROVE TypeOK'
  <2> USE DEF daemonUnchanged, wrapperVars
  <2>1. CASE DaemonReady(p)
    BY <2>1 DEF DaemonReady
  <2>2. ASSUME NEW k \in Kind, inbox[p] # <<>>, PrintsLine(p, k)
        PROVE  stdout' \in [Procs -> Seq(Line)]
    <3>1. Head(inbox[p]) \in Owner
      BY <2>2, TailFacts
    <3>2. [kind |-> k, owner |-> Head(inbox[p])] \in Line
      BY <3>1 DEF Line
    <3>3. Append(stdout[p], [kind |-> k, owner |-> Head(inbox[p])]) \in Seq(Line)
      BY <3>2
    <3> QED
      BY <2>2, <3>3 DEF PrintsLine
  <2>3. CASE DaemonPrints(p) \/ DaemonAnswer(p)
    <3>1. stdout' \in [Procs -> Seq(Line)]
      BY <2>2, <2>3 DEF DaemonPrints, DaemonAnswer, Kind
    <3>2. inbox[p] # <<>> /\ Tail(inbox[p]) \in Seq(Owner)
      BY <2>3, TailFacts DEF DaemonPrints, DaemonAnswer
    <3> QED
      BY <2>3, <3>1, <3>2 DEF DaemonPrints, DaemonAnswer
  <2>4. CASE DaemonDies(p)
    <3>1. <<>> \in Seq(Owner)
      OBVIOUS
    <3> QED
      BY <2>4, <3>1 DEF DaemonDies
  <2> QED
    BY <1>22, <2>1, <2>3, <2>4 DEF DaemonStep
<1>23. CASE UNCHANGED vars
  BY <1>23 DEF vars, procVars, wrapperVars, sliceVars
<1> QED
  BY <1>1, <1>2, <1>3, <1>4, <1>5, <1>7, <1>8, <1>9, <1>10, <1>11, <1>12, <1>13,
     <1>14, <1>15, <1>16, <1>18, <1>19, <1>20, <1>21, <1>22, <1>23
  DEF Next, SolverStep, ShutdownStep, SessionStep

\* The initial state is well typed.
LEMMA InitTyped == Init => TypeOK
<1>1. <<>> \in Seq(Owner) /\ <<>> \in Seq(Line)
  OBVIOUS
<1>2. At("idle") \in Task
  BY TaskRecords DEF Pc, Why
<1>3. Init => /\ inbox \in [Procs -> Seq(Owner)]
              /\ stdout \in [Procs -> Seq(Line)]
  BY <1>1 DEF Init
<1>4. Init => task \in [Callers -> Task]
  BY <1>2 DEF Init
<1> QED
  BY <1>3, <1>4 DEF Init, TypeOK

\* Whatever the daemon, the pool and the watchdog do, every attribute and every
\* pipe holds what its comment says it holds.
THEOREM TypeCorrect == Spec => []TypeOK
  BY InitTyped, TypeStep, PTL DEF Spec

-----------------------------------------------------------------------------
(***************************************************************************)
(* Who is where in _shutdown_daemon.                                       *)
(***************************************************************************)

\* The solver loop moves on its own: the heal task stays where it is.
LEMMA SolverGoto ==
  ASSUME TypeOK, CallersInv, NEW t \in Task, Goto("solver", t),
         t.pc \in {"drain", "wait", "kill"} => t.why \in {"shape", "ready", "io"}
  PROVE  CallersInv'
BY DEF TypeOK, CallersInv, InShutdown, Goto, Callers

\* The callers' invariant only depends on where the coroutines await: a solver
\* loop outside a shutdown keeps it,
LEMMA SolverIdle ==
  ASSUME TypeOK, CallersInv, NEW pc \in Pc \ {"drain", "wait", "kill"},
         Goto("solver", At(pc))
  PROVE  CallersInv'
<1>1. At(pc) \in Task /\ At(pc).pc = pc
  BY TaskRecords DEF At, Why
<1> QED
  BY <1>1, SolverGoto

\* as does one that begins a shutdown for a reason of its own.
LEMMA SolverShutdown ==
  ASSUME TypeOK, CallersInv, NEW why \in {"shape", "ready", "io"}, NEW drained,
         BeginShutdown("solver", why, drained) \/ (daemon # None /\ CloseAndWait("solver", why))
  PROVE  CallersInv'
<1>1. why \in Why /\ daemon \in Procs
  BY DEF Why, BeginShutdown, TypeOK
<1>2. /\ Down("drain", why, None) \in Task /\ Down("drain", why, None).why = why
      /\ Down("wait", why, daemon) \in Task /\ Down("wait", why, daemon).why = why
  BY <1>1, TaskRecords DEF Down, Pc
<1> QED
  BY <1>2, SolverGoto DEF BeginShutdown, CloseAndWait

\* The same for the end of a slice,
LEMMA SliceEndCallers ==
  ASSUME TypeOK, CallersInv, NEW out, SliceReturns(out) \/ SliceRaises(out)
  PROVE  CallersInv'
BY SolverIdle DEF SliceReturns, SliceRaises, Pc

\* the end of a shutdown,
LEMMA AfterShutdownCallers ==
  ASSUME TypeOK, CallersInv, NEW c \in Callers, AfterShutdown(c, task[c].why),
         InShutdown(c)
  PROVE  CallersInv'
<1>1. CASE c = "heal"
  <2>1. task["heal"].why = "heal" /\ Goto("heal", At("idle"))
    BY <1>1 DEF CallersInv, AfterShutdown
  <2> QED
    BY <1>1, <2>1 DEF TypeOK, CallersInv, InShutdown, Goto, At, Callers
<1>2. CASE c = "solver"
  <2>1. task["solver"].why # "heal"
    BY <1>2 DEF CallersInv
  <2> QED
    BY <1>2, <2>1, SolverIdle, SliceEndCallers DEF AfterShutdown, Pc
<1> QED
  BY <1>1, <1>2 DEF Callers

\* a call of it,
LEMMA CallShutdownCallers ==
  ASSUME TypeOK, CallersInv, NEW why \in {"shape", "ready", "io"}, CallShutdown(why)
  PROVE  CallersInv'
<1>1. CASE BeginShutdown("solver", why, stderr_task)
  BY <1>1, SolverShutdown
<1>2. CASE AfterShutdown("solver", why)
  BY <1>2, SolverIdle, SliceEndCallers DEF AfterShutdown, Pc
<1> QED
  BY <1>1, <1>2 DEF CallShutdown

\* the write of a job,
LEMMA WriteJobCallers ==
  ASSUME TypeOK, CallersInv, daemon # None, NEW drained, WriteJob(drained)
  PROVE  CallersInv'
<1>1. daemon \in Procs
  BY DEF TypeOK
<1>2. On("read", daemon) \in Task /\ On("read", daemon).pc = "read"
  BY <1>1, TaskRecords DEF On, Pc, Why
<1> QED
  BY <1>2, SolverGoto, SolverShutdown DEF WriteJob

\* _ensure_daemon,
LEMMA EnsureDaemonCallers ==
  ASSUME TypeOK, CallersInv, NEW shape, EnsureDaemon(shape)
  PROVE  CallersInv'
BY SolverShutdown, WriteJobCallers, SolverIdle DEF EnsureDaemon, DaemonAlive, Pc

\* and a cancellation.
LEMMA CancelCallers ==
  ASSUME TypeOK, CallersInv, NEW c \in Callers, Cancel(c)
  PROVE  CallersInv'
BY DEF TypeOK, CallersInv, Cancel, Goto, At, InShutdown, Callers

\* The heal task is only ever idle, gone, or in the shutdown it asked for; the
\* solver task calls _shutdown_daemon for one of its three reasons.
LEMMA CallersStep ==
  ASSUME TypeOK, CallersInv, [Next]_vars
  PROVE  CallersInv'
<1>0. ASSUME UNCHANGED task PROVE CallersInv'
  BY <1>0 DEF CallersInv, InShutdown
<1>1. ASSUME NEW s \in Shapes, StartSlice(s) PROVE CallersInv'
  BY <1>1, EnsureDaemonCallers DEF StartSlice
<1>2. CASE Retry
  BY <1>2, EnsureDaemonCallers DEF Retry
<1>3. ASSUME NEW p \in Procs, Spawned(p) PROVE CallersInv'
  <2>1. On("ready", p) \in Task /\ On("ready", p).pc = "ready"
    BY TaskRecords DEF On, Pc, Why
  <2> QED
    BY <1>3, <2>1, SolverGoto DEF Spawned
<1>4. CASE SpawnFailed \/ ReadyLineRaises
  BY <1>4, SliceEndCallers DEF SpawnFailed, ReadyLineRaises
<1>5. CASE ReadReadyLine
  BY <1>5, SliceEndCallers, WriteJobCallers DEF ReadReadyLine
<1>6. CASE ReadyTimeout
  BY <1>6, CallShutdownCallers DEF ReadyTimeout
<1>7. ASSUME NEW p \in Procs, ReadShare(p) PROVE CallersInv'
  BY <1>7, <1>0 DEF ReadShare
<1>8. ASSUME NEW p \in Procs, ReadFinal(p) \/ ReadRaises(p) PROVE CallersInv'
  BY <1>8, SliceEndCallers DEF ReadFinal, ReadRaises
<1>9. ASSUME NEW p \in Procs, ReadGarbage(p) \/ ReadEof(p) \/ ReadTimeout(p)
      PROVE  CallersInv'
  BY <1>9, CallShutdownCallers DEF ReadGarbage, ReadEof, ReadTimeout
<1>10. ASSUME NEW c \in Callers, ShutdownDrained(c) PROVE CallersInv'
  <2>1. InShutdown(c)
    BY <1>10 DEF ShutdownDrained, InShutdown
  <2>2. CASE c = "solver"
    <3>1. task["solver"].why \in {"shape", "ready", "io"}
      BY <2>1, <2>2 DEF CallersInv
    <3> QED
      BY <1>10, <2>2, <3>1, SolverShutdown, SliceEndCallers DEF ShutdownDrained
  <2>3. CASE c = "heal"
    <3>1. \/ Goto("heal", Down("wait", "heal", daemon))
          \/ Goto("heal", At("idle"))
      BY <1>10, <2>1, <2>3 DEF ShutdownDrained, CloseAndWait, CallersInv
    <3> QED
      BY <3>1 DEF TypeOK, CallersInv, InShutdown, Goto, At, Down, Callers
  <2> QED
    BY <2>2, <2>3 DEF Callers
<1>11. ASSUME NEW c \in Callers, ShutdownDone(c) PROVE CallersInv'
  BY <1>11, AfterShutdownCallers DEF ShutdownDone, InShutdown
<1>12. ASSUME NEW c \in Callers, ShutdownKill(c) PROVE CallersInv'
  BY <1>12 DEF ShutdownKill, TypeOK, CallersInv, InShutdown, Goto, Down, Callers
<1>13. CASE StderrEof \/ StderrBreaks
  BY <1>13, <1>0 DEF StderrEof, StderrBreaks
<1>14. CASE ForceRestart
  BY <1>14 DEF ForceRestart, BeginShutdown, CloseAndWait, TypeOK, CallersInv,
     InShutdown, Goto, Down, Callers
<1>15. CASE TipPreempt
  BY <1>15, <1>0 DEF TipPreempt
<1>16. CASE LoseSession
  BY <1>16, CancelCallers DEF LoseSession, Callers
<1>17. CASE SolverTaskEnded
  BY <1>17, CancelCallers DEF SolverTaskEnded, Callers
<1>18. CASE HealTaskEnded
  BY <1>18, <1>0 DEF HealTaskEnded
<1>19. CASE Reconnect
  BY <1>19 DEF Reconnect, CallersInv, InShutdown, At, Callers
<1>20. ASSUME NEW p \in Procs, DaemonStep(p) PROVE CallersInv'
  BY <1>20, <1>0 DEF DaemonStep, DaemonReady, DaemonPrints, DaemonAnswer, DaemonDies,
     daemonUnchanged
<1>21. CASE UNCHANGED vars
  BY <1>21, <1>0 DEF vars
<1> QED
  BY <1>1, <1>2, <1>3, <1>4, <1>5, <1>6, <1>7, <1>8, <1>9, <1>10, <1>11, <1>12,
     <1>13, <1>14, <1>15, <1>16, <1>17, <1>18, <1>19, <1>20, <1>21
  DEF Next, SolverStep, ShutdownStep, SessionStep

-----------------------------------------------------------------------------
(***************************************************************************)
(* No daemon process is ever orphaned.                                     *)
(***************************************************************************)

\* What a step that keeps self._daemon may do to the tasks.
Moves ==
  /\ task'["solver"].pc = "spawn" => \A p \in Procs : ~Alive(p)
  /\ \A c \in Callers : task'[c].pc \in {"wait", "kill"} =>
       task'[c] = task[c] \/ (daemon # None /\ task'[c].proc = daemon)

\* Moves of the coroutines that respect ownership keep the ownership invariant.
LEMMA MovesKeep ==
  ASSUME TypeOK, OwnershipInv, Moves, daemon' = daemon,
         \A p \in Procs : Alive(p)' => Alive(p)
  PROVE  OwnershipInv'
<1>1. DaemonAlive' => DaemonAlive
  BY DEF DaemonAlive, TypeOK
<1>2. daemon # None => daemon \in Procs
  BY DEF TypeOK
<1> QED
  BY <1>1, <1>2 DEF OwnershipInv, NoOrphanDaemon, Moves

\* A shutdown that has completed leaves nothing alive.
LEMMA ResetKeeps ==
  ASSUME OwnershipInv, \A p \in Procs : ~Alive(p)', daemon' = None,
         \A c \in Callers : task'[c].pc \in {"wait", "kill"} => task'[c] = task[c]
  PROVE  OwnershipInv'
BY DEF OwnershipInv, NoOrphanDaemon, DaemonAlive

\* Without a living self._daemon no process lives.
LEMMA NoneAlive ==
  ASSUME TypeOK, OwnershipInv, ~DaemonAlive
  PROVE  \A p \in Procs : ~Alive(p)
BY NoneAssumption DEF OwnershipInv, NoOrphanDaemon, DaemonAlive

\* The moves respect it: a single one,
LEMMA GotoMoves ==
  ASSUME TypeOK, OwnershipInv, NEW c \in Callers, NEW t, Goto(c, t),
         t.pc = "spawn" => \A p \in Procs : ~Alive(p),
         t.pc \in {"wait", "kill"} => daemon # None /\ t.proc = daemon
  PROVE  Moves
BY DEF TypeOK, OwnershipInv, Goto, Moves, Callers

\* one to an await outside of any shutdown,
LEMMA AtMoves ==
  ASSUME TypeOK, OwnershipInv, NEW c \in Callers, NEW pc, Goto(c, At(pc)),
         pc \notin {"wait", "kill"},
         pc = "spawn" => \A p \in Procs : ~Alive(p)
  PROVE  Moves
BY GotoMoves DEF At

\* the end of a slice,
LEMMA SliceEndMoves ==
  ASSUME TypeOK, OwnershipInv, NEW out, SliceReturns(out) \/ SliceRaises(out)
  PROVE  Moves
BY AtMoves DEF SliceReturns, SliceRaises, Callers

\* the beginning of a shutdown,
LEMMA BeginShutdownMoves ==
  ASSUME TypeOK, OwnershipInv, NEW c \in Callers, NEW why, NEW drained,
         BeginShutdown(c, why, drained) \/ (daemon # None /\ CloseAndWait(c, why))
  PROVE  Moves
<1>1. /\ Down("drain", why, None).pc = "drain"
      /\ Down("wait", why, daemon).pc = "wait" /\ Down("wait", why, daemon).proc = daemon
  BY DEF Down
<1> QED
  BY <1>1, GotoMoves DEF BeginShutdown, CloseAndWait

\* its end,
LEMMA AfterShutdownMoves ==
  ASSUME TypeOK, OwnershipInv, NEW c \in Callers, NEW why, AfterShutdown(c, why),
         \A p \in Procs : ~Alive(p)
  PROVE  Moves
BY AtMoves, SliceEndMoves DEF AfterShutdown

\* a call of it,
LEMMA CallShutdownMoves ==
  ASSUME TypeOK, OwnershipInv, NEW why, CallShutdown(why)
  PROVE  Moves
<1>1. CASE BeginShutdown("solver", why, stderr_task)
  BY <1>1, BeginShutdownMoves DEF Callers
<1>2. CASE daemon = None /\ AfterShutdown("solver", why)
  <2>1. \A p \in Procs : ~Alive(p)
    BY <1>2, NoneAlive DEF DaemonAlive
  <2> QED
    BY <1>2, <2>1, AfterShutdownMoves DEF Callers
<1> QED
  BY <1>1, <1>2 DEF CallShutdown

\* the write of a job,
LEMMA WriteJobMoves ==
  ASSUME TypeOK, OwnershipInv, NEW drained, WriteJob(drained)
  PROVE  Moves
<1>1. On("read", daemon).pc = "read"
  BY DEF On
<1> QED
  BY <1>1, GotoMoves, BeginShutdownMoves DEF WriteJob, Callers

\* _ensure_daemon,
LEMMA EnsureDaemonMoves ==
  ASSUME TypeOK, OwnershipInv, NEW shape, EnsureDaemon(shape)
  PROVE  Moves
BY BeginShutdownMoves, WriteJobMoves, AtMoves, NoneAlive DEF EnsureDaemon, Callers

\* and a cancellation.
LEMMA CancelMoves ==
  ASSUME TypeOK, OwnershipInv, NEW c \in Callers, Cancel(c)
  PROVE  Moves
<1>1. CASE UNCHANGED task
  BY <1>1 DEF Moves, OwnershipInv
<1>2. CASE Goto(c, At("none"))
  BY <1>2, AtMoves
<1> QED
  BY <1>1, <1>2 DEF Cancel

\* Every step keeps the ownership invariant.
LEMMA OwnershipStep ==
  ASSUME TypeOK, OwnershipInv, [Next]_vars
  PROVE  OwnershipInv'
<1>k. ASSUME Moves, daemon' = daemon, life' = life PROVE OwnershipInv'
  BY <1>k, MovesKeep DEF Alive
<1>0. ASSUME UNCHANGED task PROVE Moves
  BY <1>0 DEF Moves, OwnershipInv
<1>1. ASSUME NEW s \in Shapes, StartSlice(s) PROVE OwnershipInv'
  BY <1>1, <1>k, EnsureDaemonMoves DEF StartSlice, EnsureDaemon, wrapperVars
<1>2. CASE Retry
  BY <1>2, <1>k, EnsureDaemonMoves DEF Retry, EnsureDaemon, wrapperVars
<1>3. ASSUME NEW p \in Procs, Spawned(p) PROVE OwnershipInv'
  <2>1. \A q \in Procs : ~Alive(q)
    BY <1>3 DEF Spawned, OwnershipInv
  <2>2. \A q \in Procs : Alive(q)' => q = p
    BY <1>3, <2>1 DEF Spawned, TypeOK, Alive
  <2>3. task' = [task EXCEPT !["solver"] = On("ready", p)]
    BY <1>3 DEF Spawned, Goto
  <2>4. On("ready", p).pc = "ready"
    BY DEF On
  <2>5. \A c \in Callers : task[c].pc \notin {"wait", "kill"}
    BY <1>3, <2>1 DEF Spawned, Quiet, OwnershipInv
  <2> QED
    BY <1>3, <2>2, <2>3, <2>4, <2>5 DEF Spawned, OwnershipInv, NoOrphanDaemon,
       TypeOK, Callers
<1>4. CASE SpawnFailed \/ ReadyLineRaises
  BY <1>4, <1>k, SliceEndMoves DEF SpawnFailed, ReadyLineRaises, callUnchanged, wrapperVars
<1>5. CASE ReadReadyLine
  BY <1>5, <1>k, SliceEndMoves, WriteJobMoves DEF ReadReadyLine
<1>6. CASE ReadyTimeout
  BY <1>6, <1>k, CallShutdownMoves DEF ReadyTimeout, callUnchanged, wrapperVars
<1>7. ASSUME NEW p \in Procs, ReadShare(p) PROVE OwnershipInv'
  BY <1>7, <1>k, <1>0 DEF ReadShare, procVars, wrapperVars
<1>8. ASSUME NEW p \in Procs, ReadFinal(p) \/ ReadRaises(p) PROVE OwnershipInv'
  BY <1>8, <1>k, SliceEndMoves DEF ReadFinal, ReadRaises, callUnchanged, wrapperVars
<1>9. ASSUME NEW p \in Procs, ReadGarbage(p) \/ ReadEof(p) \/ ReadTimeout(p)
      PROVE  OwnershipInv'
  BY <1>9, <1>k, CallShutdownMoves
  DEF ReadGarbage, ReadEof, ReadTimeout, callUnchanged, wrapperVars
<1>10. ASSUME NEW c \in Callers, ShutdownDrained(c) PROVE OwnershipInv'
  <2>1. Moves
    BY <1>10, BeginShutdownMoves, SliceEndMoves, AtMoves DEF ShutdownDrained
  <2> QED
    BY <1>10, <1>k, <2>1 DEF ShutdownDrained
<1>11. ASSUME NEW c \in Callers, ShutdownDone(c) PROVE OwnershipInv'
  <2>1. ~DaemonAlive
    BY <1>11 DEF ShutdownDone, OwnershipInv, DaemonAlive
  <2>2. \A p \in Procs : ~Alive(p)
    BY <2>1, NoneAlive
  <2>3. Moves
    BY <1>11, <2>2, AfterShutdownMoves DEF ShutdownDone
  <2>4. \A p \in Procs : ~Alive(p)'
    BY <1>11, <2>2 DEF ShutdownDone, Alive
  <2>5. \A d \in Callers : task'[d].pc \in {"wait", "kill"} => task'[d] = task[d]
    <3>1. \A pc : Goto(c, At(pc)) /\ pc \notin {"wait", "kill"} =>
            \A d \in Callers : task'[d].pc \in {"wait", "kill"} => task'[d] = task[d]
      BY DEF TypeOK, Goto, At, Callers
    <3>2. \A pc : Goto("solver", At(pc)) /\ pc \notin {"wait", "kill"} =>
            \A d \in Callers : task'[d].pc \in {"wait", "kill"} => task'[d] = task[d]
      BY DEF TypeOK, Goto, At, Callers
    <3> QED
      BY <1>11, <3>1, <3>2 DEF ShutdownDone, AfterShutdown, SliceReturns, SliceRaises
  <2> QED
    BY <1>11, <2>4, <2>5, ResetKeeps DEF ShutdownDone
<1>12. ASSUME NEW c \in Callers, ShutdownKill(c) PROVE OwnershipInv'
  <2>1. Down("kill", task[c].why, daemon).pc = "kill"
        /\ Down("kill", task[c].why, daemon).proc = daemon
    BY DEF Down
  <2>2. Moves
    BY <1>12, <2>1, GotoMoves DEF ShutdownKill
  <2>3. \A p \in Procs : Alive(p)' => Alive(p)
    BY <1>12 DEF ShutdownKill, TypeOK, Alive
  <2> QED
    BY <1>12, <2>2, <2>3, MovesKeep DEF ShutdownKill, wrapperVars
<1>13. CASE StderrEof \/ StderrBreaks
  BY <1>13, <1>k, <1>0 DEF StderrEof, StderrBreaks, procVars
<1>14. CASE ForceRestart
  BY <1>14, <1>k, BeginShutdownMoves DEF ForceRestart, callUnchanged, wrapperVars, Callers
<1>15. CASE TipPreempt
  <2>1. \A p \in Procs : Alive(p)' => Alive(p)
    BY <1>15 DEF TipPreempt, TypeOK, Alive
  <2> QED
    BY <1>15, <1>0, <2>1, MovesKeep DEF TipPreempt, wrapperVars
<1>16. CASE LoseSession
  BY <1>16, <1>k, CancelMoves DEF LoseSession, procVars, wrapperVars, Callers
<1>17. CASE SolverTaskEnded
  BY <1>17, <1>k, CancelMoves DEF SolverTaskEnded, procVars, wrapperVars, Callers
<1>18. CASE HealTaskEnded
  BY <1>18, <1>k, <1>0 DEF HealTaskEnded, procVars, wrapperVars
<1>19. CASE Reconnect
  <2>1. Moves
    BY <1>19 DEF Reconnect, Moves, At, Callers
  <2> QED
    BY <1>19, <1>k, <2>1 DEF Reconnect, procVars, wrapperVars
<1>20. ASSUME NEW p \in Procs, DaemonStep(p) PROVE OwnershipInv'
  <2>1. daemon' = daemon /\ task' = task
    BY <1>20 DEF DaemonStep, DaemonReady, DaemonPrints, DaemonAnswer, DaemonDies,
       daemonUnchanged, wrapperVars
  <2>2. \A q \in Procs : Alive(q)' => Alive(q)
    BY <1>20 DEF DaemonStep, DaemonReady, DaemonPrints, DaemonAnswer, DaemonDies,
       TypeOK, Alive
  <2> QED
    BY <1>0, <2>1, <2>2, MovesKeep
<1>21. CASE UNCHANGED vars
  BY <1>21, <1>k, <1>0 DEF vars, procVars, wrapperVars
<1> QED
  BY <1>1, <1>2, <1>3, <1>4, <1>5, <1>6, <1>7, <1>8, <1>9, <1>10, <1>11, <1>12,
     <1>13, <1>14, <1>15, <1>16, <1>17, <1>18, <1>19, <1>20, <1>21
  DEF Next, SolverStep, ShutdownStep, SessionStep

\* However force_restart, retries, shape changes, cancelled shutdowns and the
\* daemon's own exits interleave, a living daemon process is self._daemon: at
\* most one runs and none is lost track of.
THEOREM NoOrphan == Spec => []NoOrphanDaemon
<1>1. Init => OwnershipInv
  BY DEF Init, OwnershipInv, NoOrphanDaemon, DaemonAlive, Alive, At
<1>2. TypeOK /\ OwnershipInv /\ [Next]_vars => OwnershipInv'
  BY OwnershipStep
<1>3. OwnershipInv => NoOrphanDaemon
  BY DEF OwnershipInv
<1> QED
  BY <1>1, <1>2, <1>3, TypeCorrect, PTL DEF Spec

-----------------------------------------------------------------------------
(***************************************************************************)
(* The pipes: one copy of the job, and no desync within a session.         *)
(***************************************************************************)
Fewer == \A p \in Procs : Alive(p)' => Alive(p)
Kept == PipesInv' /\ NoNewDesync
SolverFree == \A p \in Procs : ~SolverBusy(p)

\* Nothing is written or read, and the solver loop stays as busy as it was.
LEMMA PipesUnchanged ==
  ASSUME PipesInv, Fewer, inbox' = inbox, stdout' = stdout,
         \A p \in Procs : SolverBusy(p) => SolverBusy(p)'
  PROVE  Kept
BY DEF PipesInv, Fewer, Kept, NoNewDesync, Desynced, HasCurrent, CurrentAnswers

\* Nothing is alive: there is nothing to say.
LEMMA PipesDead ==
  ASSUME \A p \in Procs : ~Alive(p)'
  PROVE  Kept
BY DEF PipesInv, Kept, NoNewDesync

\* After the end of a slice no living pipe holds anything of the slice.
LEMMA PipesLeft ==
  ASSUME TypeOK, NEW out \in [Procs -> Seq(Line)], LeavePipes(out), Fewer
  PROVE  /\ PipesInv'
         /\ \A p \in Procs : Alive(p)' =>
              Len(inbox'[p]) = Len(inbox[p]) /\ Len(stdout'[p]) = Len(out[p])
<1> SUFFICES ASSUME NEW p \in Procs, Alive(p)'
             PROVE  /\ ~HasCurrent(p)'
                    /\ CurrentAnswers(p)' = {}
                    /\ \A i \in 1..Len(inbox'[p]) : inbox'[p][i] # "cur"
                    /\ Len(inbox'[p]) = Len(inbox[p])
                    /\ Len(stdout'[p]) = Len(out[p])
  BY DEF PipesInv
<1>1. inbox'[p] = Disown(inbox[p]) /\ stdout'[p] = DisownLines(out[p])
  BY DEF LeavePipes, Fewer
<1>2. inbox[p] \in Seq(Owner) /\ out[p] \in Seq(Line)
  BY DEF TypeOK
<1> QED
  BY <1>1, <1>2, DisownQueue, DisownPipe DEF HasCurrent, CurrentAnswers

\* The end of a slice that has no job in a daemon disowns nothing.
LEMMA PipesLeftClean ==
  ASSUME TypeOK, PipesInv, LeavePipes(stdout), Fewer, SolverFree
  PROVE  Kept
<1>1. stdout \in [Procs -> Seq(Line)]
  BY DEF TypeOK
<1>2. PipesInv'
  BY <1>1, PipesLeft
<1>3. ASSUME NEW p \in Procs, Alive(p)', Desynced(p)' PROVE Desynced(p)
  <2>1. Len(inbox'[p]) = Len(inbox[p]) /\ Len(stdout'[p]) = Len(stdout[p])
    BY <1>1, <1>3, PipesLeft
  <2>2. ~HasCurrent(p)
    BY <1>3 DEF PipesInv, Fewer, SolverFree
  <2>3. \A i \in 1..Len(inbox[p]) : inbox[p][i] = "old"
    BY <2>2 DEF HasCurrent, TypeOK, Owner
  <2>4. \A i \in 1..Len(stdout[p]) : stdout[p][i].owner = "old"
    <3>1. \A i \in 1..Len(stdout[p]) : stdout[p][i] \in Line
      BY <1>1
    <3> QED
      BY <2>2, <3>1 DEF HasCurrent, Line, Owner
  <2> QED
    BY <1>3, <2>1, <2>3, <2>4 DEF Desynced
<1> QED
  BY <1>2, <1>3 DEF Kept, NoNewDesync

\* A job is written by a solver loop that has none anywhere.
LEMMA PipesWritten ==
  ASSUME TypeOK, PipesInv, SolverFree, daemon # None, NEW drained,
         WriteJob(drained), life' = life, stdout' = stdout
  PROVE  Kept
<1>0. daemon \in Procs /\ Fewer
  BY DEF TypeOK, Fewer, Alive
<1>1. CASE /\ inbox' = [inbox EXCEPT ![daemon] = Append(@, "cur")]
           /\ Goto("solver", On("read", daemon))
  <2>1. \A p \in Procs : p = daemon => SolverBusy(p)'
    BY <1>1 DEF Goto, On, SolverBusy, Reading, TypeOK, Callers
  <2>2. ASSUME NEW p \in Procs, Alive(p)
        PROVE  /\ HasCurrent(p)' => p = daemon
               /\ \A i \in 1..Len(inbox'[p]) : inbox'[p][i] = "cur" => i = Len(inbox'[p])
               /\ CurrentAnswers(p)' = {}
               /\ Desynced(p)' => Desynced(p)
    <3>1. ~HasCurrent(p)
      BY <2>2 DEF PipesInv, SolverFree
    <3>2. inbox[p] \in Seq(Owner)
      BY DEF TypeOK
    <3>3. CurrentAnswers(p)' = {}
      BY <3>1 DEF HasCurrent, CurrentAnswers
    <3>4. CASE p # daemon
      BY <1>1, <3>1, <3>3, <3>4, <1>0 DEF HasCurrent, Desynced, TypeOK
    <3>5. CASE p = daemon
      <4>1. inbox'[p] = Append(inbox[p], "cur")
        BY <1>1, <3>5, <1>0 DEF TypeOK
      <4>2. /\ Len(inbox'[p]) = Len(inbox[p]) + 1
            /\ \A i \in 1..Len(inbox[p]) : inbox'[p][i] = inbox[p][i]
            /\ inbox'[p][Len(inbox[p]) + 1] = "cur"
        BY <3>2, <4>1 DEF Owner
      <4>3. Len(inbox[p]) \in Nat
        BY <3>2
      <4>4. \A i \in 1..Len(inbox'[p]) : inbox'[p][i] = "cur" => i = Len(inbox'[p])
        BY <3>1, <4>2, <4>3 DEF HasCurrent
      <4>5. Desynced(p)' => Desynced(p)
        BY <4>2, <4>3 DEF Desynced
      <4> QED
        BY <3>3, <3>5, <4>4, <4>5
    <3> QED
      BY <3>4, <3>5
  <2> QED
    BY <1>0, <2>1, <2>2 DEF Kept, PipesInv, NoNewDesync, Fewer
<1>2. CASE BeginShutdown("solver", "io", drained) /\ UNCHANGED inbox
  BY <1>0, <1>2, PipesUnchanged DEF SolverFree
<1> QED
  BY <1>1, <1>2 DEF WriteJob

\* _ensure_daemon writes a job only to a daemon without one of this slice.
LEMMA PipesEnsured ==
  ASSUME TypeOK, PipesInv, SolverFree, NEW shape, EnsureDaemon(shape)
  PROVE  Kept
<1>1. stdout' = stdout /\ life' = life /\ Fewer
  BY DEF EnsureDaemon, Fewer, Alive
<1>2. CASE inbox' = inbox
  BY <1>1, <1>2, PipesUnchanged DEF SolverFree
<1>3. CASE DaemonAlive /\ WriteJob(stderr_task)
  BY <1>1, <1>3, PipesWritten DEF DaemonAlive
<1> QED
  BY <1>2, <1>3 DEF EnsureDaemon

\* _shutdown_daemon is entered: busy callers are busy with the shutdown.
LEMMA PipesShutdown ==
  ASSUME TypeOK, PipesInv, OwnershipInv, NEW why, CallShutdown(why), life' = life,
         SolverFree \/ why = "io"
  PROVE  Kept
<1>0. Fewer
  BY DEF Fewer, Alive
<1>1. CASE BeginShutdown("solver", why, stderr_task) /\ UNCHANGED sliceVars
  <2>1. \A p \in Procs : SolverBusy(p) => SolverBusy(p)'
    BY <1>1 DEF SolverFree, BeginShutdown, CloseAndWait, Goto, Down, SolverBusy, InShutdown,
       TypeOK, Callers
  <2> QED
    BY <1>0, <1>1, <2>1, PipesUnchanged DEF sliceVars
<1>2. CASE daemon = None
  <2>1. \A p \in Procs : ~Alive(p)
    BY <1>2, NoneAlive DEF DaemonAlive
  <2> QED
    BY <2>1, PipesDead DEF Alive
<1> QED
  BY <1>1, <1>2 DEF CallShutdown

\* The heal task moves and the solver task does not.
LEMMA HealMoves ==
  ASSUME TypeOK, PipesInv, NEW t, Goto("heal", t), Fewer,
         inbox' = inbox, stdout' = stdout
  PROVE  Kept
<1>1. task'["solver"] = task["solver"]
  BY DEF TypeOK, Goto, Callers
<1> QED
  BY <1>1, PipesUnchanged DEF SolverBusy, Reading, InShutdown

\* The reader takes a share off stdout.
LEMMA PipesReadShare ==
  ASSUME TypeOK, PipesInv, NEW p \in Procs, ReadShare(p)
  PROVE  Kept
<1>1. /\ SolverBusy(p)' /\ task' = task /\ Fewer /\ inbox' = inbox
      /\ stdout' = [stdout EXCEPT ![p] = Tail(@)] /\ stdout[p] # <<>>
      /\ stdout[p][1].kind = "share"
  BY DEF ReadShare, Reading, Popped, SolverBusy, Fewer, Alive, procVars, TypeOK
<1>2. ASSUME NEW q \in Procs, Alive(q)
      PROVE  /\ HasCurrent(q)' => SolverBusy(q)'
             /\ \A i \in CurrentAnswers(q)' : i = Len(stdout'[q]) /\ inbox'[q] = <<>>
             /\ Desynced(q)' => Desynced(q)
  <2>1. CASE q # p
    <3>1. inbox'[q] = inbox[q] /\ stdout'[q] = stdout[q]
      BY <1>1, <2>1 DEF TypeOK
    <3>2. HasCurrent(q) => SolverBusy(q)
      BY <1>2 DEF PipesInv
    <3>3. SolverBusy(q) => SolverBusy(q)'
      BY <1>1 DEF SolverBusy, Reading, InShutdown
    <3> QED
      BY <1>2, <3>1, <3>2, <3>3 DEF PipesInv, HasCurrent, CurrentAnswers, Desynced
  <2>2. CASE q = p
    <3>1. stdout'[p] = Tail(stdout[p]) /\ stdout[p] \in Seq(Line)
      BY <1>1 DEF TypeOK
    <3>2. /\ Len(stdout'[p]) = Len(stdout[p]) - 1
          /\ \A i \in 1..Len(stdout'[p]) : stdout'[p][i] = stdout[p][i+1]
          /\ Len(stdout[p]) \in Nat /\ Len(stdout[p]) > 0
      <4>1. stdout[p] # <<>>
        BY <1>1
      <4> QED
        BY <3>1, <4>1, TailFacts
    <3>3. \A i \in CurrentAnswers(p)' : i + 1 \in CurrentAnswers(p)
      BY <3>2 DEF CurrentAnswers
    <3>4. \A i \in CurrentAnswers(p)' : i \in Nat
      BY <3>2 DEF CurrentAnswers
    <3>5. \A i \in CurrentAnswers(p) : i = Len(stdout[p]) /\ inbox[p] = <<>>
      BY <1>2, <2>2 DEF PipesInv
    <3>6. \A i \in CurrentAnswers(p)' : i = Len(stdout'[p]) /\ inbox'[p] = <<>>
      BY <1>1, <3>2, <3>3, <3>4, <3>5
    <3>7. Desynced(p)' => Desynced(p)
      BY <1>1, <3>2 DEF Desynced
    <3> QED
      BY <1>1, <2>2, <3>6, <3>7
  <2> QED
    BY <2>1, <2>2
<1> QED
  BY <1>1, <1>2 DEF Kept, PipesInv, NoNewDesync, Fewer

\* The reader takes the slice's record: if the pipes were in step, it was the
\* last thing in them.
LEMMA PipesReadFinal ==
  ASSUME TypeOK, PipesInv, NEW p \in Procs, ReadFinal(p)
  PROVE  Kept
<1>1. /\ LeavePipes(Popped(p)) /\ Fewer
      /\ stdout[p] # <<>> /\ stdout[p][1].kind = "final"
  BY DEF ReadFinal, SliceReturns, callUnchanged, Fewer, Alive, TypeOK
<1>2. stdout[p] \in Seq(Line)
  BY DEF TypeOK
<1>3. Popped(p) \in [Procs -> Seq(Line)] /\ Popped(p)[p] = Tail(stdout[p])
  BY <1>1, <1>2, TailFacts DEF Popped, TypeOK
<1>4. /\ PipesInv'
      /\ \A q \in Procs : Alive(q)' =>
           Len(inbox'[q]) = Len(inbox[q]) /\ Len(stdout'[q]) = Len(Popped(p)[q])
  BY <1>1, <1>3, PipesLeft
<1>5. ASSUME NEW q \in Procs, Alive(q)', Desynced(q)', ~Desynced(q) PROVE FALSE
  <2>1. Alive(q)
    BY <1>1, <1>5 DEF Fewer
  <2>2. CASE q = p
    <3>1. Len(stdout[p]) \in Nat /\ Len(stdout[p]) > 0 /\ stdout[p][1] \in Line
      BY <1>1, <1>2, TailFacts
    <3>2. stdout[p][1].owner = "cur"
      BY <1>5, <2>2, <3>1 DEF Desynced, Line, Owner
    <3>3. 1 \in CurrentAnswers(p)
      BY <1>1, <3>1, <3>2 DEF CurrentAnswers
    <3>4. Len(stdout[p]) = 1 /\ inbox[p] = <<>>
      BY <2>1, <2>2, <3>3 DEF PipesInv
    <3>5. Len(Tail(stdout[p])) = 0
      BY <1>1, <1>2, <3>4, TailFacts
    <3>6. Len(inbox'[p]) = 0 /\ Len(stdout'[p]) = 0
      BY <1>3, <1>4, <1>5, <2>2, <3>4, <3>5
    <3> QED
      BY <1>5, <2>2, <3>6 DEF Desynced
  <2>3. CASE q # p
    <3>1. Popped(p)[q] = stdout[q]
      BY <2>3 DEF Popped, TypeOK
    <3>2. Len(inbox'[q]) = Len(inbox[q]) /\ Len(stdout'[q]) = Len(stdout[q])
      BY <1>4, <1>5, <3>1
    <3>3. ~SolverBusy(q)
      BY <2>3 DEF ReadFinal, Reading, SolverBusy, InShutdown
    <3>4. ~HasCurrent(q)
      BY <2>1, <3>3 DEF PipesInv
    <3>5. \A i \in 1..Len(inbox[q]) : inbox[q][i] \in Owner
      BY DEF TypeOK
    <3>6. \A i \in 1..Len(stdout[q]) : stdout[q][i] \in Line
      BY DEF TypeOK
    <3>7. \A i \in 1..Len(inbox[q]) : inbox[q][i] = "old"
      BY <3>4, <3>5 DEF HasCurrent, Owner
    <3>8. \A i \in 1..Len(stdout[q]) : stdout[q][i].owner = "old"
      BY <3>4, <3>6 DEF HasCurrent, Line, Owner
    <3> QED
      BY <1>5, <3>2, <3>7, <3>8 DEF Desynced
  <2> QED
    BY <2>2, <2>3
<1> QED
  BY <1>4, <1>5 DEF Kept, NoNewDesync

\* The daemon prints for what is at the head of its queue: a line on the way, or
\* the last one of that job, which leaves the queue.
LEMMA PipesAnswered ==
  ASSUME TypeOK, PipesInv, NEW p \in Procs, NEW k \in Kind, inbox[p] # <<>>, Fewer,
         stdout' = [stdout EXCEPT ![p] = Append(@, [kind |-> k, owner |-> Head(inbox[p])])],
         \/ k # "final" /\ inbox' = inbox
         \/ inbox' = [inbox EXCEPT ![p] = Tail(@)],
         task' = task
  PROVE  Kept
<1> DEFINE h == Head(inbox[p])
           l == [kind |-> k, owner |-> h]
<1>1. /\ inbox[p] \in Seq(Owner) /\ stdout[p] \in Seq(Line)
      /\ Len(inbox[p]) \in Nat /\ Len(inbox[p]) > 0 /\ h = inbox[p][1] /\ h \in Owner
  BY TailFacts DEF TypeOK
<1>2. \A q \in Procs : SolverBusy(q) => SolverBusy(q)'
  BY DEF SolverBusy, Reading, InShutdown
<1>3. ASSUME NEW q \in Procs, Alive(q)
      PROVE  /\ HasCurrent(q)' => HasCurrent(q)
             /\ \A i \in 1..Len(inbox'[q]) : inbox'[q][i] = "cur" => i = Len(inbox'[q])
             /\ \A i \in CurrentAnswers(q)' : i = Len(stdout'[q]) /\ inbox'[q] = <<>>
             /\ Desynced(q)' => Desynced(q)
  <2>1. CASE q # p
    <3>1. inbox'[q] = inbox[q] /\ stdout'[q] = stdout[q]
      BY <2>1 DEF TypeOK
    <3>2. CurrentAnswers(q)' = CurrentAnswers(q)
      BY <3>1 DEF CurrentAnswers
    <3>3. (HasCurrent(q)' => HasCurrent(q)) /\ (Desynced(q)' => Desynced(q))
      BY <3>1 DEF HasCurrent, Desynced
    <3> QED
      BY <1>3, <3>1, <3>2, <3>3 DEF PipesInv
  <2>2. CASE q = p
    <3>0. \A i \in 1..Len(inbox[p]) : inbox[p][i] = "cur" => i = Len(inbox[p])
      BY <1>3, <2>2 DEF PipesInv
    <3>1. stdout'[p] = Append(stdout[p], l) /\ l \in Line
      BY <1>1 DEF TypeOK, Line
    <3>2. /\ Len(stdout'[p]) = Len(stdout[p]) + 1 /\ Len(stdout[p]) \in Nat
          /\ \A i \in 1..Len(stdout[p]) : stdout'[p][i] = stdout[p][i]
          /\ stdout'[p][Len(stdout[p]) + 1] = l
      <4> HIDE DEF l
      <4> QED
        BY <1>1, <3>1
    <3>3. CurrentAnswers(p) = {}
      BY <1>3, <2>2 DEF PipesInv
    <3>4. \A i \in CurrentAnswers(p)' : i = Len(stdout'[p]) /\ k = "final" /\ h = "cur"
      BY <3>2, <3>3 DEF CurrentAnswers
    <3>5. \/ inbox'[p] = inbox[p] /\ k # "final"
          \/ /\ inbox'[p] = Tail(inbox[p])
             /\ Len(inbox'[p]) = Len(inbox[p]) - 1
             /\ \A i \in 1..Len(inbox'[p]) : inbox'[p][i] = inbox[p][i + 1]
      <4>1. (inbox'[p] = inbox[p] /\ k # "final") \/ inbox'[p] = Tail(inbox[p])
        BY DEF TypeOK
      <4> QED
        BY <1>1, <4>1, TailFacts
    <3>b. \A i \in 1..Len(inbox'[p]) : \E j \in 1..Len(inbox[p]) : inbox'[p][i] = inbox[p][j]
      <4>1. \A i \in 1..Len(inbox[p]) - 1 : i + 1 \in 1..Len(inbox[p])
        BY <1>1
      <4> QED
        BY <1>1, <3>5, <4>1
    <3>6. \A i \in CurrentAnswers(p)' : inbox'[p] = <<>>
      <4>1. h = "cur" => Len(inbox[p]) = 1
        <5>1. 1 \in 1..Len(inbox[p])
          BY <1>1
        <5> QED
          BY <1>1, <3>0, <5>1
      <4>2. k = "final" /\ h = "cur" => Len(inbox'[p]) = 0 /\ inbox'[p] = Tail(inbox[p])
        BY <1>1, <3>5, <4>1
      <4>3. k = "final" /\ h = "cur" => inbox'[p] = <<>>
        <5>1. Tail(inbox[p]) \in Seq(Owner)
          BY <1>1, TailFacts
        <5>2. Len(Tail(inbox[p])) = 0 => Tail(inbox[p]) = <<>>
          BY <5>1, EmptySeq
        <5> QED
          BY <4>2, <5>2
      <4> QED
        BY <3>4, <4>3
    <3>7. \A i \in 1..Len(inbox'[p]) : inbox'[p][i] = "cur" => i = Len(inbox'[p])
      BY <1>1, <3>0, <3>5
    <3>8. HasCurrent(p)' => HasCurrent(p)
      <4>1. (\E i \in 1..Len(inbox'[p]) : inbox'[p][i] = "cur") => HasCurrent(p)
        BY <3>b DEF HasCurrent
      <4>2. l.owner = h /\ (h = "cur" => HasCurrent(p))
        BY <1>1 DEF HasCurrent
      <4>3. (\E i \in 1..Len(stdout'[p]) : stdout'[p][i].owner = "cur") => HasCurrent(p)
        BY <3>2, <4>2 DEF HasCurrent
      <4> QED
        BY <4>1, <4>3 DEF HasCurrent
    <3>9. Desynced(p)' => Desynced(p)
      <4>1. (\E i \in 1..Len(inbox'[p]) : inbox'[p][i] = "old") => Desynced(p)
        BY <3>b DEF Desynced
      <4>2. l.owner = h /\ (h = "old" => Desynced(p))
        BY <1>1 DEF Desynced
      <4>3. (\E i \in 1..Len(stdout'[p]) : stdout'[p][i].owner = "old") => Desynced(p)
        BY <3>2, <4>2 DEF Desynced
      <4> QED
        BY <4>1, <4>3 DEF Desynced
    <3> QED
      BY <2>2, <3>4, <3>6, <3>7, <3>8, <3>9
  <2> QED
    BY <2>1, <2>2
<1> QED
  BY <1>2, <1>3 DEF Kept, PipesInv, NoNewDesync, Fewer

\* Past the end of the solver task nothing brings it back but a reconnect:
\* every step of the solver task starts from one of its awaits.
LEMMA SessionKept ==
  ASSUME TypeOK, CallersInv, SessionInv, [Next]_vars
  PROVE  SessionInv'
<1>0. ASSUME session' = session,
             task["solver"].pc = "none" => task'["solver"].pc = "none"
      PROVE  SessionInv'
  BY <1>0 DEF SessionInv
<1>h. ASSUME NEW t, Goto("heal", t) PROVE task'["solver"] = task["solver"]
  BY <1>h DEF Goto, TypeOK, Callers
<1>1. ASSUME NEW s \in Shapes, StartSlice(s) PROVE SessionInv'
  BY <1>1, <1>0 DEF StartSlice, EnsureDaemon
<1>2. CASE Retry
  BY <1>2, <1>0 DEF Retry, EnsureDaemon
<1>3. ASSUME NEW p \in Procs, Spawned(p) PROVE SessionInv'
  BY <1>3, <1>0 DEF Spawned
<1>4. CASE SpawnFailed \/ ReadyLineRaises
  BY <1>4, <1>0 DEF SpawnFailed, ReadyLineRaises, callUnchanged
<1>5. CASE ReadReadyLine \/ ReadyTimeout
  BY <1>5, <1>0 DEF ReadReadyLine, ReadyTimeout, callUnchanged
<1>6. ASSUME NEW p \in Procs,
             \/ ReadShare(p) \/ ReadFinal(p) \/ ReadGarbage(p)
             \/ ReadRaises(p) \/ ReadEof(p) \/ ReadTimeout(p)
      PROVE  SessionInv'
  BY <1>6, <1>0 DEF ReadShare, ReadFinal, ReadGarbage, ReadRaises, ReadEof, ReadTimeout,
     Reading, callUnchanged
<1>7. ASSUME NEW c \in Callers, ShutdownStep(c) PROVE SessionInv'
  <2>1. session' = session /\ task[c].pc # "none" /\ InShutdown(c)
    BY <1>7 DEF ShutdownStep, ShutdownDrained, ShutdownDone, ShutdownKill, InShutdown
  <2>2. CASE c = "solver"
    BY <1>0, <2>1, <2>2
  <2>3. CASE c = "heal"
    <3>1. task["heal"].why = "heal"
      BY <2>1, <2>3 DEF CallersInv
    <3>2. \E t : Goto("heal", t)
      BY <1>7, <2>3, <3>1 DEF ShutdownStep, ShutdownDrained, ShutdownDone,
         ShutdownKill, AfterShutdown, CloseAndWait
    <3> QED
      BY <1>0, <1>h, <2>1, <3>2
  <2> QED
    BY <2>2, <2>3 DEF Callers
<1>8. CASE StderrEof \/ StderrBreaks \/ TipPreempt
  BY <1>8, <1>0 DEF StderrEof, StderrBreaks, TipPreempt
<1>9. CASE ForceRestart
  <2>1. \E t : Goto("heal", t)
    BY <1>9 DEF ForceRestart, BeginShutdown, CloseAndWait
  <2> QED
    BY <1>9, <1>0, <1>h, <2>1 DEF ForceRestart, callUnchanged
<1>10. CASE LoseSession
  BY <1>10 DEF LoseSession, SessionInv
<1>11. CASE SolverTaskEnded
  <2>1. task'["solver"] = task["solver"]
    BY <1>11, <1>h DEF SolverTaskEnded, Cancel
  <2> QED
    BY <1>11, <2>1 DEF SolverTaskEnded, SessionInv
<1>12. CASE HealTaskEnded \/ Reconnect
  BY <1>12 DEF HealTaskEnded, Reconnect, SessionInv
<1>13. ASSUME NEW p \in Procs, DaemonStep(p) PROVE SessionInv'
  BY <1>13, <1>0 DEF DaemonStep, DaemonReady, DaemonPrints, DaemonAnswer, DaemonDies,
     daemonUnchanged
<1>14. CASE UNCHANGED vars
  BY <1>14, <1>0 DEF vars
<1> QED
  BY <1>1, <1>2, <1>3, <1>4, <1>5, <1>6, <1>7, <1>8, <1>9, <1>10, <1>11, <1>12,
     <1>13, <1>14
  DEF Next, SolverStep, SessionStep

\* Every step but the two that cut a slice short keeps the pipes in step; those
\* disown what the slice left.
LEMMA PipesStep ==
  ASSUME TypeOK, CallersInv, OwnershipInv, PipesInv, SessionInv, [Next]_vars
  PROVE  PipesInv' /\ (CutShort \/ NoNewDesync)
<1>0. ASSUME life' = life PROVE Fewer
  BY <1>0 DEF Fewer, Alive
<1>k. ASSUME Kept PROVE PipesInv' /\ (CutShort \/ NoNewDesync)
  BY <1>k DEF Kept
<1>f. ASSUME task["solver"].pc \in {"none", "idle", "spawn", "ready", "backoff"}
      PROVE  SolverFree
  BY <1>f DEF SolverFree, SolverBusy, Reading, InShutdown
<1>s. ASSUME task' = task, Fewer, inbox' = inbox, stdout' = stdout PROVE Kept
  BY <1>s, PipesUnchanged DEF SolverBusy, Reading, InShutdown
<1>1. ASSUME NEW s \in Shapes, StartSlice(s) PROVE Kept
  BY <1>1, <1>f, PipesEnsured DEF StartSlice
<1>2. CASE Retry
  BY <1>2, <1>f, <1>k, PipesEnsured DEF Retry
<1>3. ASSUME NEW p \in Procs, Spawned(p) PROVE Kept
  <2>1. \A q \in Procs : Alive(q)' => q = p
    BY <1>3 DEF Spawned, OwnershipInv, TypeOK, Alive
  <2>2. inbox'[p] = <<>> /\ stdout'[p] = <<>>
    BY <1>3 DEF Spawned, TypeOK
  <2> QED
    BY <2>1, <2>2 DEF Kept, PipesInv, NoNewDesync, HasCurrent, CurrentAnswers, Desynced
<1>4. CASE SpawnFailed \/ ReadyLineRaises
  <2>1. SolverFree /\ life' = life /\ LeavePipes(stdout)
    BY <1>4, <1>f DEF SpawnFailed, ReadyLineRaises, SliceRaises, callUnchanged
  <2> QED
    BY <1>0, <1>k, <2>1, PipesLeftClean
<1>5. CASE ReadReadyLine
  <2>1. SolverFree /\ life' = life /\ Fewer
    BY <1>5, <1>0, <1>f DEF ReadReadyLine
  <2>2. CASE SliceRaises(stdout)
    BY <2>1, <2>2, <1>k, PipesLeftClean DEF SliceRaises
  <2>3. CASE daemon # None /\ WriteJob(daemon) /\ stdout' = stdout
    BY <2>1, <2>3, <1>k, PipesWritten
  <2> QED
    BY <1>5, <2>2, <2>3 DEF ReadReadyLine
<1>6. CASE ReadyTimeout
  BY <1>6, <1>f, <1>k, PipesShutdown DEF ReadyTimeout, callUnchanged
<1>7. ASSUME NEW p \in Procs, ReadShare(p) PROVE Kept
  BY <1>7, PipesReadShare
<1>8. ASSUME NEW p \in Procs, ReadFinal(p) PROVE Kept
  BY <1>8, PipesReadFinal
<1>9. ASSUME NEW p \in Procs, ReadGarbage(p) \/ ReadEof(p) \/ ReadTimeout(p)
      PROVE  Kept
  BY <1>9, PipesShutdown DEF ReadGarbage, ReadEof, ReadTimeout, callUnchanged
<1>10. ASSUME NEW c \in Callers, ShutdownDrained(c) PROVE Kept
  <2>1. Fewer
    BY <1>10, <1>0 DEF ShutdownDrained
  <2>2. CASE daemon = None
    <3>1. \A p \in Procs : ~Alive(p)
      BY <2>2, NoneAlive DEF DaemonAlive
    <3> QED
      BY <2>1, <3>1, PipesDead DEF Fewer
  <2>3. CASE CloseAndWait(c, task[c].why) /\ UNCHANGED sliceVars
    <3>1. \A p \in Procs : SolverBusy(p) => SolverBusy(p)'
      BY <1>10, <2>3 DEF CloseAndWait, Goto, Down, SolverBusy, Reading, InShutdown,
         ShutdownDrained, TypeOK, Callers
    <3> QED
      BY <2>1, <2>3, <3>1, PipesUnchanged DEF sliceVars
  <2> QED
    BY <1>10, <2>2, <2>3 DEF ShutdownDrained
<1>11. ASSUME NEW c \in Callers, ShutdownDone(c) PROVE Kept
  <2>1. ~DaemonAlive
    BY <1>11 DEF ShutdownDone, OwnershipInv, DaemonAlive
  <2>2. \A p \in Procs : ~Alive(p)
    BY <2>1, NoneAlive
  <2> QED
    BY <1>11, <2>2, PipesDead DEF ShutdownDone, Alive
<1>12. ASSUME NEW c \in Callers, ShutdownKill(c) PROVE Kept
  <2>1. Fewer
    BY <1>12 DEF ShutdownKill, Fewer, Alive, TypeOK
  <2>2. \A p \in Procs : SolverBusy(p) => SolverBusy(p)'
    BY <1>12 DEF ShutdownKill, Goto, Down, SolverBusy, Reading, InShutdown, TypeOK, Callers
  <2> QED
    BY <1>12, <2>1, <2>2, PipesUnchanged DEF ShutdownKill, sliceVars
<1>13. CASE StderrEof \/ StderrBreaks
  BY <1>13, <1>0, <1>s, <1>k DEF StderrEof, StderrBreaks, procVars, sliceVars
<1>14. CASE ForceRestart
  <2>1. \E t : Goto("heal", t)
    BY <1>14 DEF ForceRestart, BeginShutdown, CloseAndWait
  <2> QED
    BY <1>14, <1>0, <1>k, <2>1, HealMoves DEF ForceRestart, callUnchanged, sliceVars
<1>15. CASE TipPreempt
  <2>1. Fewer
    BY <1>15 DEF TipPreempt, Fewer, Alive, TypeOK
  <2> QED
    BY <1>15, <1>s, <1>k, <2>1 DEF TipPreempt, sliceVars
<1>16. CASE LoseSession
  <2>1. Fewer
    BY <1>16, <1>0 DEF LoseSession, procVars
  <2>2. CASE task["solver"].pc = "drain"
    BY <1>16, <2>1, <2>2, <1>s DEF LoseSession, Cancel, Kept
  <2>3. CASE task["solver"].pc # "drain"
    <3>1. LeavePipes(stdout) /\ stdout \in [Procs -> Seq(Line)]
      BY <1>16, <2>3 DEF LoseSession, TypeOK
    <3> QED
      BY <1>16, <2>1, <3>1, PipesLeft DEF CutShort
  <2> QED
    BY <1>16, <2>2, <2>3 DEF CutShort
<1>17. CASE SolverTaskEnded
  <2>1. CASE UNCHANGED task
    BY <1>17, <2>1, <1>0, <1>s, <1>k DEF SolverTaskEnded, procVars, sliceVars
  <2>2. CASE Goto("heal", At("none"))
    BY <1>17, <2>2, <1>0, <1>k, HealMoves DEF SolverTaskEnded, procVars, sliceVars
  <2> QED
    BY <1>17, <2>1, <2>2 DEF SolverTaskEnded, Cancel
<1>18. CASE HealTaskEnded
  BY <1>18, <1>0, <1>s, <1>k DEF HealTaskEnded, procVars, sliceVars
<1>19. CASE Reconnect
  <2>1. SolverFree
    BY <1>19, <1>f DEF Reconnect, SessionInv
  <2> QED
    BY <1>19, <1>0, <1>k, <2>1, PipesUnchanged DEF Reconnect, procVars, sliceVars,
       SolverFree
<1>20. ASSUME NEW p \in Procs, DaemonStep(p) PROVE Kept
  <2>1. task' = task
    BY <1>20 DEF DaemonStep, DaemonReady, DaemonPrints, DaemonAnswer, DaemonDies,
       daemonUnchanged
  <2>2. Fewer
    BY <1>20 DEF DaemonStep, DaemonReady, DaemonPrints, DaemonAnswer, DaemonDies,
       daemonUnchanged, Fewer, Alive, TypeOK
  <2>3. CASE DaemonReady(p)
    BY <2>1, <2>2, <2>3, <1>s DEF DaemonReady
  <2>4. CASE DaemonPrints(p)
    BY <2>1, <2>2, <2>4, PipesAnswered DEF DaemonPrints, PrintsLine, Kind
  <2>5. CASE DaemonAnswer(p)
    BY <2>1, <2>2, <2>5, PipesAnswered DEF DaemonAnswer, PrintsLine, Kind
  <2>6. CASE DaemonDies(p)
    <3>1. \A q \in Procs : ~Alive(q)'
      BY <2>6 DEF DaemonDies, OwnershipInv, NoOrphanDaemon, Alive, TypeOK
    <3> QED
      BY <3>1, PipesDead
  <2> QED
    BY <1>20, <2>3, <2>4, <2>5, <2>6 DEF DaemonStep
<1>21. CASE UNCHANGED vars
  BY <1>21, <1>0, <1>s, <1>k DEF vars, procVars, sliceVars
<1>22. ASSUME NEW p \in Procs, ReadRaises(p) PROVE PipesInv' /\ CutShort
  <2>1. PICK out \in {Popped(p), Torn(p)} : LeavePipes(out)
    BY <1>22 DEF ReadRaises, SliceRaises
  <2>2. out \in [Procs -> Seq(Line)]
    BY <1>22, ReadTyped DEF ReadRaises
  <2>3. Fewer
    BY <1>22, <1>0 DEF ReadRaises, callUnchanged
  <2>4. PipesInv'
    BY <2>1, <2>2, <2>3, PipesLeft
  <2> QED
    BY <1>22, <2>4 DEF CutShort
<1> QED
  BY <1>1, <1>2, <1>3, <1>4, <1>5, <1>6, <1>7, <1>8, <1>9, <1>10, <1>11, <1>12,
     <1>13, <1>14, <1>15, <1>16, <1>17, <1>18, <1>19, <1>20, <1>21, <1>22, <1>k
  DEF Next, SolverStep, ShutdownStep, SessionStep

\* The inductive invariant holds in every reachable state.
LEMMA Inductive == Spec => []IInv
<1>1. Init => IInv
  <2>1. Init => PipesInv
    BY DEF Init, PipesInv, Alive
  <2>2. Init => CallersInv /\ SessionInv /\ OwnershipInv
    BY DEF Init, CallersInv, SessionInv, OwnershipInv, NoOrphanDaemon, DaemonAlive,
       Alive, InShutdown, At, Callers
  <2>3. Init => TypeOK
    BY InitTyped
  <2> QED
    BY <2>1, <2>2, <2>3 DEF IInv
<1>2. IInv /\ [Next]_vars => IInv'
  BY TypeStep, CallersStep, OwnershipStep, PipesStep, SessionKept DEF IInv
<1> QED
  BY <1>1, <1>2, PTL DEF Spec

\* A slice never has two copies of its job in the pipes of a living daemon: a
\* retry goes to a daemon that has never seen the job.
THEOREM OneCopy == Spec => []OneCopyOfTheJob
<1>1. IInv => OneCopyOfTheJob
  <2> SUFFICES ASSUME IInv, NEW p \in Procs, Alive(p)
               PROVE  /\ \A i, j \in CurrentJobs(p) : i = j
                      /\ \A i, j \in CurrentAnswers(p) : i = j
                      /\ CurrentJobs(p) = {} \/ CurrentAnswers(p) = {}
    BY DEF OneCopyOfTheJob
  <2>1. /\ \A i \in CurrentJobs(p) : i = Len(inbox[p])
        /\ \A i \in CurrentAnswers(p) : i = Len(stdout[p]) /\ inbox[p] = <<>>
    BY DEF IInv, PipesInv, CurrentJobs
  <2>2. inbox[p] = <<>> => CurrentJobs(p) = {}
    BY DEF CurrentJobs
  <2> QED
    BY <2>1, <2>2
<1> QED
  BY <1>1, Inductive, PTL

\* No failure of a slice that the retry loop handles, and no force_restart, puts
\* a living daemon out of step: only a cancellation or an exception that escapes
\* the read loop does.
THEOREM Desync == Spec => DesyncOnlyWhenCutShort
<1>1. IInv /\ [Next]_vars => [CutShort \/ NoNewDesync]_vars
  BY PipesStep DEF IInv
<1> QED
  BY <1>1, Inductive, PTL DEF Spec, DesyncOnlyWhenCutShort
=============================================================================
