------------------------------ MODULE NonceScan ------------------------------
(***************************************************************************)
(* client/src/dexbtx_miner/stratum_client.py: how the solver loop          *)
(* (_solver_loop) and the notify handler (_on_notify) of StratumClient     *)
(* share the nonce position of the current job, across template rotations, *)
(* new tips, preempted, failing and unreported slices, and sessions.       *)
(*                                                                         *)
(* One step is what asyncio runs between two awaits, so a notify can come  *)
(* at any time while a slice runs.  solve_slice is one await here; what    *)
(* happens inside it is GbtSolveWrapper's.  Nonces are counted from the    *)
(* nonce64_start that the pool broadcasts to the session.                  *)
(***************************************************************************)
EXTENDS Naturals

CONSTANTS
  Parents,      \* the parent blocks (previousblockhash) the pool builds on
  None,         \* Python's None
  Null,         \* nonce64_start as JSON null, which int() does not take
  SliceLen,     \* cfg.nonces_per_slice
  RangeWidth,   \* nonces per session: extranonce1 << 32 | offset, so 2^32
  MaxNonce      \* bound: the position saturates here

ASSUME NoneAssumption == /\ None \notin Parents /\ None \notin Nat
                         /\ Null \notin Nat /\ Null # None
ASSUME NonceAssumption == SliceLen \in Nat \ {0} /\ MaxNonce \in Nat

VARIABLES
  current,          \* _current_job
  job_changed,      \* the event _job_changed is set
  pc,               \* where the solver loop awaits
  job,              \* the job whose slice the solver loop runs, None if none
  inflight_parent,  \* _inflight_parent
  session,          \* "up" | "down"
  died,             \* history: the solver loop of this session has died of a
                    \* position that cannot be read or written
  preempted,        \* history: preempt() was called during this slice
  scanned           \* history: the nonces scanned on each parent since the
                    \* pool last told the session to start over on it

vars == <<current, job_changed, pc, job, inflight_parent, session, died,
          preempted, scanned>>

\* The matmul object of a notify: with the fields to_solve_challenge insists on,
\* without one of them (or left out altogether), or JSON null.
Matmul == {"full", "partial", "null"}

\* A Job, without what only the pool and the solver read: start is
\* matmul["nonce64_start"], None if it is absent.
Job == {j \in [parent : Parents, start : Nat \cup {None, Null}, matmul : Matmul] :
          j.matmul = "null" => j.start = None}
ASSUME JobAssumption == None \notin Job

Pc == {"top",       \* about to look at _current_job
       "wait",      \* await _job_changed.wait()
       "slice",     \* await solve_slice
       "submit",    \* await _submit_share, for a record without "shares"
       "sleep",     \* await asyncio.sleep(1.0) after a failure
       "none"}      \* no solver task, or it has died of an exception

TypeOK ==
  /\ current \in Job \cup {None}
  /\ job_changed \in BOOLEAN
  /\ pc \in Pc
  /\ IF pc \in {"slice", "submit", "sleep"}
       THEN job \in [parent : Parents, start : Nat] ELSE job = None
  /\ inflight_parent \in Parents \cup {None}
  /\ session \in {"up", "down"}
  /\ session = "down" => pc = "none"
  /\ died \in BOOLEAN
  /\ preempted \in BOOLEAN
  /\ scanned \in [Parents -> SUBSET Nat]

Cap(n) == IF n < MaxNonce THEN n ELSE MaxNonce

\* int(job.matmul.get("nonce64_start", 0)), where it does not raise.
Readable(j) == j.matmul # "null" /\ j.start # Null
StartAbsent(j) == j.start       \* mutant: no default for an absent position
StartOf(j) == IF j.start \in {None, Null} THEN 0 ELSE j.start

Init ==
  /\ current = None
  /\ job_changed = FALSE
  /\ pc = "top"
  /\ job = None
  /\ inflight_parent = None
  /\ session = "up"
  /\ died = FALSE
  /\ preempted = FALSE
  /\ scanned = [p \in Parents |-> {}]

-----------------------------------------------------------------------------
(***************************************************************************)
(* _on_notify.                                                             *)
(***************************************************************************)

\* What the comments say of the pool: clean=False is a new template for the
\* parent it is building on.
PoolSends(parent, clean) == ~clean /\ current # None => parent = current.parent

\* Mutant, the bug of v0.4.1: every notify resets the position.
StartBroadcast(clean, broadcast) == broadcast

\* The previous job's position is asked for, and carried over unless it is None.
Asks(clean) == ~clean /\ current # None
Carries(clean) == Asks(clean) /\ current.start \notin {None, Null}

\* The broadcast position, or on clean=False the one the solver has reached.
NotifiedStart(clean, broadcast) ==
  IF Carries(clean) THEN current.start ELSE broadcast

\* A matmul object that is null has no position to ask for or to set.
CannotCarry(clean, matmul) ==
  \/ Asks(clean) /\ current.matmul = "null"
  \/ Carries(clean) /\ matmul = "null"

\* A slice on another parent is preempted.
Notify(parent, clean, broadcast, matmul) ==
  /\ session = "up"
  /\ PoolSends(parent, clean)
  /\ ~CannotCarry(clean, matmul)
  /\ matmul = "null" => broadcast = None
  /\ current' = [parent |-> parent, start |-> NotifiedStart(clean, broadcast),
                 matmul |-> matmul]
  /\ job_changed' = TRUE
  /\ preempted' = (preempted \/ inflight_parent \notin {None, parent})
  /\ scanned' = IF clean THEN [scanned EXCEPT ![parent] = {}] ELSE scanned
  /\ UNCHANGED <<pc, job, inflight_parent, session, died>>

-----------------------------------------------------------------------------
(***************************************************************************)
(* _solver_loop.                                                           *)
(***************************************************************************)

\* No job: clear the event, wait for it.
AwaitJob ==
  /\ pc = "top" /\ current = None
  /\ job_changed' = FALSE
  /\ pc' = "wait"
  /\ UNCHANGED <<current, job, inflight_parent, session, died,
                 preempted, scanned>>

JobArrives ==
  /\ pc = "wait" /\ job_changed
  /\ pc' = "top"
  /\ UNCHANGED <<current, job_changed, job, inflight_parent, session,
                 died, preempted, scanned>>

\* The position is read outside the try: the solver task ends, the session and
\* its reader go on.
LoopDies ==
  /\ pc = "top" /\ current # None /\ ~Readable(current)
  /\ pc' = "none"
  /\ died' = TRUE
  /\ UNCHANGED <<current, job_changed, job, inflight_parent, session, preempted,
                 scanned>>

\* Mutant: the parent in flight is not recorded.
StartUnrecorded ==
  /\ pc = "top" /\ current # None /\ Readable(current) /\ current.matmul = "full"
  /\ job' = [parent |-> current.parent, start |-> StartOf(current)]
  /\ preempted' = FALSE
  /\ pc' = "slice"
  /\ UNCHANGED <<current, job_changed, inflight_parent, session, died,
                 scanned>>

\* The slice starts where the current job says.
StartSlice ==
  /\ pc = "top" /\ current # None /\ Readable(current) /\ current.matmul = "full"
  /\ job' = [parent |-> current.parent, start |-> StartOf(current)]
  /\ inflight_parent' = current.parent
  /\ preempted' = FALSE
  /\ pc' = "slice"
  /\ UNCHANGED <<current, job_changed, session, died, scanned>>

\* Mutant: the challenge is built outside the try, and the solver task dies.
DieOnJob ==
  /\ pc = "top" /\ current # None /\ Readable(current) /\ current.matmul = "partial"
  /\ pc' = "none"
  /\ UNCHANGED <<current, job_changed, job, inflight_parent, session,
                 died, preempted, scanned>>

\* to_solve_challenge raises ValueError: a failed slice that never started.
RefuseJob ==
  /\ pc = "top" /\ current # None /\ Readable(current) /\ current.matmul = "partial"
  /\ job' = [parent |-> current.parent, start |-> StartOf(current)]
  /\ pc' = "sleep"
  /\ UNCHANGED <<current, job_changed, inflight_parent, session,
                 died, preempted, scanned>>

\* The nonces a slice may have gone through when it ends.
Ends == {job.start + n : n \in 0..SliceLen - 1}
Scan(last) == scanned' = [scanned EXCEPT ![job.parent] = @ \cup job.start..last]

\* Where to go on: past nonce64_end, or a full slice on if it is not known.
NextStart(nonce_end) ==
  Cap(IF nonce_end # None /\ nonce_end > job.start THEN nonce_end + 1
                                                   ELSE job.start + SliceLen)

\* The end of the loop's body: the position goes to whatever job is current
\* now, if it builds on the same parent.  It too is outside the try.
WriteBack(next) ==
  LET same == current # None /\ current.parent = job.parent
      dies == same /\ current.matmul = "null"
  IN  /\ current' = IF same /\ ~dies THEN [current EXCEPT !.start = next] ELSE current
      /\ job' = None
      /\ pc' = IF dies THEN "none" ELSE "top"
      /\ died' = (died \/ dies)

\* solve_slice returns: not found with nonce64_end, or with nonce_end = None
\* (an unpatched solver, a daemon given up on, and every found record).
SliceReturns ==
  /\ pc = "slice"
  /\ \E last \in Ends : \E nonce_end \in {last, None} :
       Scan(last) /\ WriteBack(NextStart(nonce_end))
  /\ inflight_parent' = None
  /\ UNCHANGED <<job_changed, session, preempted>>

\* Found, in a record without the "shares" array, on a parent that is not
\* stale: the share is submitted before the loop goes on.
SliceFinds ==
  /\ pc = "slice"
  /\ current # None => current.parent = job.parent
  /\ \E last \in Ends : Scan(last)
  /\ inflight_parent' = None
  /\ pc' = "submit"
  /\ UNCHANGED <<current, job_changed, job, session, died, preempted>>

SubmitReturns ==
  /\ pc = "submit"
  /\ WriteBack(NextStart(None))
  /\ UNCHANGED <<job_changed, inflight_parent, session, preempted, scanned>>

\* solve_slice raises, whatever the daemon had scanned by then.
SliceRaises ==
  /\ pc = "slice"
  /\ UNCHANGED scanned \/ \E last \in Ends : Scan(last)
  /\ pc' = "sleep"
  /\ UNCHANGED <<current, job_changed, job, inflight_parent, session, died,
                 preempted>>

SleepEnds ==
  /\ pc = "sleep"
  /\ WriteBack(NextStart(None))
  /\ UNCHANGED <<job_changed, inflight_parent, session, preempted, scanned>>

-----------------------------------------------------------------------------
(***************************************************************************)
(* _session_once.                                                          *)
(***************************************************************************)

\* The teardown: the solver task is cancelled, the job forgotten.
Teardown ==
  /\ session = "up"
  /\ session' = "down"
  /\ pc' = "none" /\ job' = None
  /\ current' = None
  /\ job_changed' = TRUE
  /\ UNCHANGED <<inflight_parent, died, preempted, scanned>>

\* The connection is lost.
LoseSession == Teardown

\* _on_notify raises, out of the reader: the session ends.
NotifyRaises(parent, clean, matmul) ==
  /\ PoolSends(parent, clean)
  /\ CannotCarry(clean, matmul)
  /\ Teardown

\* The new session has a nonce64_start of its own.
Reconnect ==
  /\ session = "down"
  /\ session' = "up"
  /\ pc' = "top"
  /\ died' = FALSE
  /\ scanned' = [p \in Parents |-> {}]
  /\ UNCHANGED <<current, job_changed, job, inflight_parent, preempted>>

-----------------------------------------------------------------------------
SolverStep == \/ AwaitJob \/ JobArrives \/ LoopDies \/ StartSlice \/ RefuseJob
              \/ SliceReturns \/ SliceFinds \/ SubmitReturns \/ SliceRaises
              \/ SleepEnds

Next ==
  \/ \E parent \in Parents, clean \in BOOLEAN, matmul \in Matmul :
       \/ \E broadcast \in {0, None, Null} : Notify(parent, clean, broadcast, matmul)
       \/ NotifyRaises(parent, clean, matmul)
  \/ SolverStep
  \/ LoseSession
  \/ Reconnect

Spec == Init /\ [][Next]_vars

(***************************************************************************)
(* Fairness: asyncio runs the solver loop, and its awaits end: the event   *)
(* is waited for, submissions time out after 30 s, and a slice ends unless *)
(* its daemon streams lines without a pause (GbtSolveWrapper's SliceEnds). *)
(* The pool need not send anything, and no session need be lost.           *)
(***************************************************************************)
FairSpec == Spec /\ WF_vars(SolverStep)

-----------------------------------------------------------------------------
(***************************************************************************)
(* Properties.                                                             *)
(***************************************************************************)

\* No hash is wasted: however notifies, failures and slices interleave, a
\* slice never starts at or below a nonce its session has scanned on that
\* parent, unless the pool has said clean_jobs since.
NoRescan ==
  pc = "slice" /\ job.start < MaxNonce =>
    \A n \in scanned[job.parent] : n < job.start

\* A slice that runs on a tip that is no longer the pool's has been preempted,
\* whenever the new tip arrived and however the slices before it ended.
PreemptsDeadTip ==
  pc = "slice" /\ current # None /\ current.parent # job.parent => preempted

\* No wake-up is lost and no failure sticks: whatever jobs were refused and
\* slices failed before, a job that can be worked on gets its slice, unless
\* another parent or an incomplete job replaces it first, or the solver loop of
\* the session has died of a null position (lines 506-507 and 618, outside the
\* try).
Workable(p) ==
  /\ current # None /\ current.parent = p
  /\ current.matmul = "full" /\ Readable(current)
  /\ ~died
TipIsMined ==
  \A p \in Parents :
    Workable(p) ~> (pc = "slice" /\ job.parent = p) \/ ~Workable(p)

(***************************************************************************)
(* What the changelog says.                                                *)
(***************************************************************************)

\* "Solvers that respect that value automatically sweep disjoint nonce
\* ranges": no slice starts beyond the range of its own session.
SweepsOwnRange == pc = "slice" => job.start < RangeWidth

-----------------------------------------------------------------------------
(***************************************************************************)
(* The inductive invariants behind NoRescan and PreemptsDeadTip            *)
(* (NonceScan_proofs).                                                     *)
(***************************************************************************)
Above(n, p) == n < MaxNonce => \A m \in scanned[p] : m < n

\* Before a session's first notify nothing has been scanned.
FirstJob ==
  session = "up" /\ current = None =>
    pc \in {"top", "wait"} /\ \A p \in Parents : scanned[p] = {}

\* The current job never points at or below a scanned nonce, unless a slice
\* on its parent has ended and its position is still to be written back, or it
\* has no place to write it to.
CurrentAbove ==
  (/\ current # None /\ current.matmul # "null"
   /\ pc \in {"submit", "sleep"} => job.parent # current.parent)
    => Above(StartOf(current), current.parent)

\* Neither does the slice, nor the position it will write back.
JobAbove ==
  /\ pc = "slice" => Above(job.start, job.parent)
  /\ pc \in {"submit", "sleep"} => Above(NextStart(None), job.parent)

\* Behind PreemptsDeadTip: the notify handler knows the parent of the slice.
PreemptInv == PreemptsDeadTip /\ (pc = "slice" => inflight_parent = job.parent)

IInv == TypeOK /\ FirstJob /\ CurrentAbove /\ JobAbove
=============================================================================
