---------------------------- MODULE GbtSolveHeard ----------------------------
(***************************************************************************)
(* GbtSolveWrapper with a history variable, and the promise it keeps to    *)
(* the solver loop: it implements SolveService.                            *)
(***************************************************************************)
EXTENDS GbtSolveWrapper

VARIABLE heard          \* whose lines the running, or the last, slice was given

hvars == <<vars, heard>>

HInit == Init /\ heard = {}

\* solve_slice is given the line at the head of stdout: a streamed share, for
\* on_stream_share, or the record it returns.
Given(p) ==
  /\ ReadShare(p) \/ ReadFinal(p)
  /\ heard' = heard \cup {Head(stdout[p]).owner}

\* The steps that give the slice nothing.
SilentStep ==
  \/ Retry \/ \E p \in Procs : Spawned(p)
  \/ ReadReadyLine \/ ReadyLineRaises \/ ReadyTimeout
  \/ \E p \in Procs : ReadGarbage(p) \/ ReadRaises(p) \/ ReadEof(p) \/ ReadTimeout(p)
  \/ SpawnFailed
  \/ \E c \in Callers : ShutdownStep(c)
  \/ StderrEof \/ StderrBreaks
  \/ ForceRestart
  \/ TipPreempt
  \/ LoseSession
  \/ SessionStep
  \/ \E p \in Procs : DaemonStep(p)

HNext ==
  \/ \E s \in Shapes : StartSlice(s) /\ heard' = {}
  \/ \E p \in Procs : Given(p)
  \/ SilentStep /\ UNCHANGED heard

HSpec == HInit /\ [][HNext]_hvars

-----------------------------------------------------------------------------
SliceRuns == task["solver"].pc \notin {"idle", "none"}

\* _inflight_parent is cleared by a slice that returns, and by nothing else: it
\* tells the solver loop's states between two slices apart.
SliceState ==
  IF SliceRuns THEN "run"
  ELSE IF task["solver"].pc = "idle" /\ inflight_parent THEN "cut"
  ELSE task["solver"].pc

\* Somebody can still read this process's stdout.
Open(p) == Alive(p) \/ Reading(p)

\* A living daemon, or a dead one that is read to its end, owes an ended slice.
Debt == \E p \in Procs : Open(p) /\ Desynced(p)

\* A slice is given the shares and the record of another slice only if that one
\* was cut short (its session was lost, or it raised), never because a slice
\* that returned had failed, was retried or had its daemon bounced; and once it
\* was given a line of its own it is never given another's: see SolveService.
Service == INSTANCE SolveService
             WITH slice <- SliceState, debt <- Debt
ImplementsService == Service!Spec

-----------------------------------------------------------------------------
(***************************************************************************)
(* The inductive invariant behind ImplementsService (GbtSolveHeard_proofs):*)
(* with IInv, the order of the lines in the pipes.                         *)
(***************************************************************************)

\* The flag of the slice in flight is up while there is one.
FlagInv == SliceRuns => inflight_parent

\* The daemon whose stdout is read is self._daemon, or that was reset.
ReaderInv == \A p \in Procs : Reading(p) => daemon \in {p, None}

\* The lines of ended slices come before those of the running one, and while
\* a line of the running one waits, no job of an ended one does.
OrderInv ==
  \A p \in Procs : Open(p) =>
    \A i \in 1..Len(stdout[p]) : stdout[p][i].owner = "cur" =>
      /\ \A j \in i..Len(stdout[p]) : stdout[p][j].owner = "cur"
      /\ \A j \in 1..Len(inbox[p]) : inbox[p][j] = "cur"

HIInv == IInv /\ heard \subseteq Owner /\ FlagInv /\ ReaderInv /\ OrderInv
=============================================================================
