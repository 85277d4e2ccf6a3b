--------------------------- MODULE NonceScan_proofs ---------------------------
(***************************************************************************)
(* Proofs about NonceScan: its type invariant and NoRescan, for every set  *)
(* of parents, every slice length and every bound on the nonces.           *)
(***************************************************************************)
EXTENDS NonceScan, TLAPS

USE NoneAssumption, NonceAssumption

\* The position after a slice is a nonce.
LEMMA NextStartTyped ==
  ASSUME job \in [parent : Parents, start : Nat],
         NEW e \in Nat \cup {None}
  PROVE  NextStart(e) \in Nat
  BY DEF NextStart, Cap

\* The end of the loop's body leaves a well-typed job and position.
LEMMA WriteBackTyped ==
  ASSUME TypeOK, job \in [parent : Parents, start : Nat],
         NEW next \in Nat, WriteBack(next)
  PROVE  /\ current' \in Job \cup {None}
         /\ job' = None /\ pc' \in {"top", "none"} /\ died' \in BOOLEAN
  <1>1. CASE current # None /\ current.parent = job.parent /\ current.matmul = "null"
    BY <1>1 DEF WriteBack, TypeOK
  <1>2. CASE ~(current # None /\ current.parent = job.parent /\ current.matmul = "null")
    <2>1. job' = None /\ pc' = "top" /\ died' = (died \/ FALSE)
      BY <1>2 DEF WriteBack
    <2>2. died' \in BOOLEAN
      BY <2>1, Zenon DEF TypeOK
    <2>3. current' \in Job \cup {None}
      BY <1>2 DEF TypeOK, WriteBack, Job
    <2> QED
      BY <2>1, <2>2, <2>3
  <1> QED
    BY <1>1, <1>2

\* What a slice has scanned are nonces of its parent.
LEMMA ScanTyped ==
  ASSUME TypeOK, job \in [parent : Parents, start : Nat],
         NEW last \in Ends, Scan(last)
  PROVE  /\ last \in Nat
         /\ scanned' \in [Parents -> SUBSET Nat]
  <1>1. last \in Nat
    BY DEF Ends
  <1>2. job.start..last \in SUBSET Nat
    BY <1>1
  <1> QED
    BY <1>1, <1>2 DEF TypeOK, Scan

\* What a notify leaves is a job.
LEMMA NotifiedJob ==
  ASSUME TypeOK, NEW parent \in Parents, NEW clean \in BOOLEAN,
         NEW matmul \in Matmul, NEW broadcast \in {0, None, Null},
         Notify(parent, clean, broadcast, matmul)
  PROVE  /\ current' \in Job
         /\ current'.parent = parent /\ current'.matmul = matmul
         /\ current'.start = NotifiedStart(clean, broadcast)
  <1>1. current' = [parent |-> parent, start |-> NotifiedStart(clean, broadcast),
                    matmul |-> matmul]
    BY DEF Notify
  <1>2. NotifiedStart(clean, broadcast) \in Nat \cup {None, Null}
    BY DEF TypeOK, NotifiedStart, Carries, Asks, Job
  <1>3. matmul = "null" => NotifiedStart(clean, broadcast) = None
    BY DEF Notify, NotifiedStart, CannotCarry
  <1> QED
    BY <1>1, <1>2, <1>3 DEF Job

\* Every step keeps the types.
LEMMA TypeStep == TypeOK /\ [Next]_vars => TypeOK'
  <1> SUFFICES ASSUME TypeOK, [Next]_vars PROVE TypeOK'
    OBVIOUS
  <1>1. ASSUME NEW parent \in Parents, NEW clean \in BOOLEAN,
               NEW matmul \in Matmul, NEW broadcast \in {0, None, Null},
               Notify(parent, clean, broadcast, matmul)
        PROVE  TypeOK'
    <2>2. current' \in Job
      BY <1>1, NotifiedJob
    <2>3. scanned' \in [Parents -> SUBSET Nat]
      BY <1>1 DEF Notify, TypeOK
    <2>4. preempted' \in BOOLEAN
      BY <1>1, Zenon DEF Notify, TypeOK
    <2> QED
      BY <1>1, <2>2, <2>3, <2>4 DEF Notify, TypeOK
  <1>2. CASE AwaitJob \/ JobArrives \/ LoopDies
    BY <1>2 DEF AwaitJob, JobArrives, LoopDies, TypeOK, Pc
  <1>3. CASE StartSlice \/ RefuseJob
    <2>1. current \in Job
      BY <1>3 DEF StartSlice, RefuseJob, TypeOK
    <2>2. StartOf(current) \in Nat
      BY <2>1 DEF StartOf, Job
    <2>3. current.parent \in Parents
      BY <2>1 DEF Job
    <2>4. job' \in [parent : Parents, start : Nat]
      BY <1>3, <2>2, <2>3 DEF StartSlice, RefuseJob
    <2>5. CASE StartSlice
      BY <2>3, <2>4, <2>5 DEF StartSlice, TypeOK, Pc
    <2>6. CASE RefuseJob
      BY <2>4, <2>6 DEF RefuseJob, TypeOK, Pc
    <2> QED
      BY <1>3, <2>5, <2>6
  <1>4. CASE SliceReturns
    <2>1. job \in [parent : Parents, start : Nat]
      BY <1>4 DEF SliceReturns, TypeOK
    <2>2. PICK last \in Ends : \E nonce_end \in {last, None} :
                                 Scan(last) /\ WriteBack(NextStart(nonce_end))
      BY <1>4 DEF SliceReturns
    <2>3. PICK nonce_end \in {last, None} :
                 Scan(last) /\ WriteBack(NextStart(nonce_end))
      BY <2>2
    <2>4. last \in Nat /\ scanned' \in [Parents -> SUBSET Nat]
      BY <2>1, <2>3, ScanTyped
    <2>5. NextStart(nonce_end) \in Nat
      BY <2>1, <2>4, NextStartTyped
    <2> QED
      BY <1>4, <2>1, <2>3, <2>4, <2>5, WriteBackTyped DEF SliceReturns, TypeOK, Pc
  <1>5. CASE SliceFinds
    <2>1. job \in [parent : Parents, start : Nat]
      BY <1>5 DEF SliceFinds, TypeOK
    <2>2. scanned' \in [Parents -> SUBSET Nat]
      BY <1>5, <2>1, ScanTyped DEF SliceFinds
    <2> QED
      BY <1>5, <2>2 DEF SliceFinds, TypeOK, Pc
  <1>6. CASE SubmitReturns \/ SleepEnds
    <2>1. job \in [parent : Parents, start : Nat]
      BY <1>6 DEF SubmitReturns, SleepEnds, TypeOK
    <2>2. NextStart(None) \in Nat
      BY <2>1, NextStartTyped
    <2> QED
      BY <1>6, <2>1, <2>2, WriteBackTyped DEF SubmitReturns, SleepEnds, TypeOK, Pc
  <1>7. CASE SliceRaises
    <2>1. job \in [parent : Parents, start : Nat]
      BY <1>7 DEF SliceRaises, TypeOK
    <2>2. scanned' \in [Parents -> SUBSET Nat]
      BY <1>7, <2>1, ScanTyped DEF SliceRaises, TypeOK
    <2> QED
      BY <1>7, <2>2 DEF SliceRaises, TypeOK, Pc
  <1>8. CASE Teardown \/ Reconnect
    BY <1>8 DEF Teardown, Reconnect, TypeOK, Pc
  <1>9. CASE UNCHANGED vars
    BY <1>9 DEF vars, TypeOK
  <1> QED
    BY <1>1, <1>2, <1>3, <1>4, <1>5, <1>6, <1>7, <1>8, <1>9
       DEF Next, SolverStep, LoseSession, NotifyRaises

\* The initial state is well typed.
LEMMA InitTyped == Init => TypeOK
  BY DEF Init, TypeOK, Pc

\* Every variable of the solver loop and the notify handler keeps its type.
THEOREM TypeCorrect == Spec => []TypeOK
  BY InitTyped, TypeStep, PTL DEF Spec

-----------------------------------------------------------------------------
(***************************************************************************)
(* NoRescan.                                                               *)
(***************************************************************************)
JobType == [parent : Parents, start : Nat]

\* A full slice leads past every nonce it can have scanned.
LEMMA NextAbove ==
  ASSUME TypeOK, job \in JobType, NEW last \in Ends, NEW e \in {last, None},
         Above(job.start, job.parent), Scan(last)
  PROVE  LET next == NextStart(e) IN
           next < MaxNonce => \A m \in scanned'[job.parent] : m < next
  <1>1. last \in Nat /\ job.start <= last /\ last < job.start + SliceLen
    BY DEF Ends, JobType
  <1>2. scanned'[job.parent] = scanned[job.parent] \cup job.start..last
    BY DEF Scan, TypeOK, JobType
  <1>3. scanned[job.parent] \subseteq Nat
    BY DEF TypeOK, JobType
  <1> QED
    BY <1>1, <1>2, <1>3 DEF NextStart, Cap, Above, JobType

\* The position that is written back is above what its parent has scanned.
LEMMA WriteBackAbove ==
  ASSUME TypeOK, TypeOK', CurrentAbove, job \in JobType, NEW next \in Nat,
         WriteBack(next),
         \A p \in Parents : p # job.parent => scanned'[p] = scanned[p],
         next < MaxNonce => \A m \in scanned'[job.parent] : m < next
  PROVE  CurrentAbove' /\ JobAbove'
  <1>1. JobAbove'
    BY DEF WriteBack, JobAbove
  <1>2. ASSUME current' # None, current'.matmul # "null"
        PROVE  Above(StartOf(current), current.parent)'
    <2>1. current \in Job /\ current # None
      BY <1>2 DEF WriteBack, TypeOK
    <2>2. CASE current.parent = job.parent
      <3>1. current.matmul # "null"
        BY <1>2, <2>1, <2>2 DEF WriteBack
      <3>2. current'.parent = job.parent /\ current'.start = next
        BY <2>1, <2>2, <3>1 DEF WriteBack, Job
      <3> QED
        BY <3>2 DEF Above, StartOf
    <2>3. CASE current.parent # job.parent
      <3>1. current' = current /\ Above(StartOf(current), current.parent)
        BY <1>2, <2>1, <2>3 DEF WriteBack, CurrentAbove
      <3>2. scanned'[current.parent] = scanned[current.parent]
        BY <2>1, <2>3 DEF Job
      <3> QED
        BY <3>1, <3>2 DEF Above, StartOf
    <2> QED
      BY <2>2, <2>3
  <1> QED
    BY <1>1, <1>2 DEF CurrentAbove

\* A step that starts no slice and scans nothing keeps JobAbove.
LEMMA JobKept ==
  ASSUME TypeOK, JobAbove, job' = job, pc' = pc,
         \A p \in Parents : scanned'[p] \subseteq scanned[p]
  PROVE  JobAbove'
  <1>1. ASSUME pc = "slice"
        PROVE  Above(job.start, job.parent)'
    BY <1>1 DEF JobAbove, Above, TypeOK
  <1>2. ASSUME pc \in {"submit", "sleep"}
        PROVE  Above(NextStart(None), job.parent)'
    <2>1. NextStart(None)' = NextStart(None)
      BY DEF NextStart, Cap
    <2>2. job.parent \in Parents /\ Above(NextStart(None), job.parent)
      BY <1>2 DEF JobAbove, TypeOK
    <2> QED
      BY <2>1, <2>2 DEF Above
  <1> QED
    BY <1>1, <1>2 DEF JobAbove

\* A notify leaves the new job at a position nothing scanned lies above.
LEMMA NotifyStep ==
  ASSUME IInv, TypeOK',
         NEW parent \in Parents, NEW clean \in BOOLEAN, NEW matmul \in Matmul,
         NEW broadcast \in {0, None, Null}, Notify(parent, clean, broadcast, matmul)
  PROVE  FirstJob' /\ CurrentAbove' /\ JobAbove'
  <1> USE DEF IInv
  <1>1. job' = job /\ pc' = pc /\ session = "up"
    BY DEF Notify
  <1>2. \A p \in Parents : scanned'[p] \subseteq scanned[p]
    BY DEF Notify, TypeOK
  <1>3. JobAbove'
    BY <1>1, <1>2, JobKept
  <1>4. /\ current' \in Job /\ current'.parent = parent
        /\ current'.start = NotifiedStart(clean, broadcast)
    BY NotifiedJob
  <1>5. ASSUME pc \in {"submit", "sleep"} => job.parent # parent
        PROVE  Above(StartOf(current), current.parent)'
    <2>1. CASE clean
      BY <1>4, <2>1 DEF Notify, Above, TypeOK
    <2>2. CASE ~clean /\ current = None
      <3>1. scanned'[parent] = {}
        BY <1>1, <2>2 DEF Notify, FirstJob
      <3> QED
        BY <1>4, <3>1 DEF Above
    <2>3. CASE ~clean /\ current # None
      <3>1. parent = current.parent /\ scanned' = scanned
        BY <2>3 DEF Notify, PoolSends
      <3>2. StartOf(current)' = StartOf(current)
        BY <1>4, <2>3 DEF NotifiedStart, Carries, Asks, StartOf
      <3>3. current.matmul # "null"
        BY <2>3 DEF Notify, CannotCarry, Asks
      <3>4. Above(StartOf(current), current.parent)
        BY <1>5, <2>3, <3>1, <3>3 DEF CurrentAbove
      <3> QED
        BY <1>4, <3>1, <3>2, <3>4 DEF Above
    <2> QED
      BY <2>1, <2>2, <2>3
  <1>6. CurrentAbove'
    BY <1>1, <1>4, <1>5 DEF CurrentAbove
  <1>7. FirstJob'
    <2>1. current' # None
      BY <1>4, JobAssumption
    <2> QED
      BY <2>1 DEF FirstJob
  <1> QED
    BY <1>3, <1>6, <1>7

\* A slice runs only in a session that has had a notify.
LEMMA WorkedJob ==
  ASSUME TypeOK, FirstJob, pc \in {"slice", "submit", "sleep"}
  PROVE  current \in Job /\ current # None
  BY DEF TypeOK, FirstJob

\* Every step keeps the inductive invariant.
LEMMA InvStep == IInv /\ [Next]_vars => IInv'
  <1> SUFFICES ASSUME IInv, [Next]_vars PROVE FirstJob' /\ CurrentAbove' /\ JobAbove'
    BY TypeStep DEF IInv
  <1> USE DEF IInv
  <1>t. TypeOK'
    BY TypeStep
  <1>1. ASSUME NEW parent \in Parents, NEW clean \in BOOLEAN,
               NEW matmul \in Matmul, NEW broadcast \in {0, None, Null},
               Notify(parent, clean, broadcast, matmul)
        PROVE  FirstJob' /\ CurrentAbove' /\ JobAbove'
    BY <1>1, <1>t, NotifyStep
  <1>2. CASE AwaitJob \/ JobArrives \/ LoopDies
    BY <1>2 DEF AwaitJob, JobArrives, LoopDies, FirstJob, CurrentAbove, JobAbove, Above,
                StartOf, TypeOK
  <1>3. CASE StartSlice \/ RefuseJob
    <2>1. /\ current # None /\ current \in Job /\ pc = "top"
          /\ current.matmul # "null"
          /\ current' = current /\ scanned' = scanned
          /\ job' = [parent |-> current.parent, start |-> StartOf(current)]
          /\ pc' \in {"slice", "sleep"} /\ session' = session
      BY <1>3 DEF StartSlice, RefuseJob, Readable, TypeOK
    <2>2. Above(StartOf(current), current.parent)
      BY <2>1 DEF CurrentAbove
    <2>3. StartOf(current)' = StartOf(current) /\ StartOf(current) \in Nat
      BY <2>1 DEF StartOf, Job
    <2>4. FirstJob' /\ CurrentAbove'
      BY <2>1, <2>2, <2>3 DEF FirstJob, CurrentAbove, Above
    <2>5. job'.parent = current.parent /\ job'.start = StartOf(current)
      BY <2>1
    <2>6. Above(job.start, job.parent)'
      BY <2>1, <2>2, <2>5 DEF Above
    <2>7. NextStart(None)' = Cap(StartOf(current) + SliceLen)
      BY <2>5 DEF NextStart, Cap
    <2>8. scanned[current.parent] \subseteq Nat
      BY <2>1 DEF TypeOK, Job
    <2>9. Above(Cap(StartOf(current) + SliceLen), current.parent)
      BY <2>2, <2>3, <2>8 DEF Above, Cap
    <2>10. Above(NextStart(None), job.parent)'
      BY <2>1, <2>5, <2>7, <2>9 DEF Above
    <2> QED
      BY <2>4, <2>6, <2>10 DEF JobAbove
  <1>4. CASE SliceReturns
    <2>1. job \in JobType /\ pc = "slice" /\ session = "up" /\ session' = "up"
      BY <1>4 DEF SliceReturns, TypeOK, JobType
    <2>2. PICK last \in Ends : \E nonce_end \in {last, None} :
                                 Scan(last) /\ WriteBack(NextStart(nonce_end))
      BY <1>4 DEF SliceReturns
    <2>3. PICK nonce_end \in {last, None} :
                 Scan(last) /\ WriteBack(NextStart(nonce_end))
      BY <2>2
    <2>4. \A p \in Parents : p # job.parent => scanned'[p] = scanned[p]
      BY <2>3 DEF Scan, TypeOK
    <2>5. last \in Nat
      BY <2>1 DEF Ends, JobType
    <2>6. NextStart(nonce_end) \in Nat
      BY <2>1, <2>5, NextStartTyped DEF JobType
    <2>7. NextStart(nonce_end) < MaxNonce =>
            \A m \in scanned'[job.parent] : m < NextStart(nonce_end)
      BY <2>1, <2>3, NextAbove DEF JobAbove
    <2>8. CurrentAbove' /\ JobAbove'
      BY <1>t, <2>1, <2>3, <2>4, <2>6, <2>7, WriteBackAbove
    <2>9. current' \in Job
      BY <2>1, <2>3, <2>6, WorkedJob DEF WriteBack, Job
    <2> QED
      BY <2>8, <2>9, JobAssumption DEF FirstJob
  <1>5. CASE SliceFinds \/ SliceRaises
    <2>1. /\ job \in JobType /\ pc = "slice" /\ job' = job /\ current' = current
          /\ session = "up" /\ session' = "up" /\ pc' \in {"submit", "sleep"}
      BY <1>5 DEF SliceFinds, SliceRaises, TypeOK, JobType
    <2>2. scanned' = scanned \/ \E last \in Ends : Scan(last)
      BY <1>5 DEF SliceFinds, SliceRaises
    <2>3. Above(NextStart(None), job.parent)'
      <3>1. NextStart(None)' = NextStart(None)
        BY <2>1 DEF NextStart, Cap
      <3>2. Above(job.start, job.parent) /\ scanned[job.parent] \subseteq Nat
        BY <2>1 DEF JobAbove, TypeOK, JobType
      <3>3. CASE scanned' = scanned
        <4>1. Above(NextStart(None), job.parent)
          BY <2>1, <3>2 DEF Above, NextStart, Cap, JobType
        <4> QED
          BY <2>1, <3>1, <3>3, <4>1 DEF Above
      <3>4. CASE \E last \in Ends : Scan(last)
        BY <2>1, <3>1, <3>2, <3>4, NextAbove DEF Above
      <3> QED
        BY <2>2, <3>3, <3>4
    <2>4. \A p \in Parents : p # job.parent => scanned'[p] = scanned[p]
      BY <2>2 DEF Scan, TypeOK
    <2>5. CurrentAbove'
      BY <2>1, <2>4, WorkedJob DEF CurrentAbove, Above, StartOf, Job
    <2> QED
      BY <2>1, <2>3, <2>5, WorkedJob DEF FirstJob, JobAbove
  <1>6. CASE SubmitReturns \/ SleepEnds
    <2>1. /\ job \in JobType /\ pc \in {"submit", "sleep"} /\ scanned' = scanned
          /\ session = "up" /\ session' = "up" /\ WriteBack(NextStart(None))
      BY <1>6 DEF SubmitReturns, SleepEnds, TypeOK, JobType
    <2>2. NextStart(None) \in Nat
      BY <2>1, NextStartTyped DEF JobType
    <2>3. CurrentAbove' /\ JobAbove'
      BY <1>t, <2>1, <2>2, WriteBackAbove DEF JobAbove, Above
    <2>4. current' \in Job
      BY <2>1, <2>2, WorkedJob DEF WriteBack, Job
    <2> QED
      BY <2>3, <2>4, JobAssumption DEF FirstJob
  <1>7. CASE Teardown
    BY <1>7 DEF Teardown, FirstJob, CurrentAbove, JobAbove
  <1>8. CASE Reconnect
    BY <1>8 DEF Reconnect, FirstJob, CurrentAbove, JobAbove, Above, TypeOK, Job
  <1>9. CASE UNCHANGED vars
    BY <1>9, JobKept DEF vars, FirstJob, CurrentAbove, Above, StartOf, TypeOK
  <1> QED
    BY <1>1, <1>2, <1>3, <1>4, <1>5, <1>6, <1>7, <1>8, <1>9
       DEF Next, SolverStep, LoseSession, NotifyRaises

\* The inductive invariant holds in every reachable state.
LEMMA Inductive == Spec => []IInv
  <1>1. Init => IInv
    BY InitTyped DEF Init, IInv, FirstJob, CurrentAbove, JobAbove
  <1> QED
    BY <1>1, InvStep, PTL DEF Spec

\* However notifies, failing slices and sessions interleave in the solver loop
\* and _on_notify, a slice starts above every nonce its session has scanned on
\* that parent since the pool's last clean_jobs.
THEOREM Rescan == Spec => []NoRescan
  <1>1. IInv => NoRescan
    BY DEF IInv, JobAbove, Above, NoRescan
  <1> QED
    BY <1>1, Inductive, PTL

-----------------------------------------------------------------------------
(***************************************************************************)
(* PreemptsDeadTip.                                                        *)
(***************************************************************************)

\* Every step keeps PreemptInv.
LEMMA PreemptStep == TypeOK /\ PreemptInv /\ [Next]_vars => PreemptInv'
  <1> SUFFICES ASSUME TypeOK, PreemptInv, [Next]_vars PROVE PreemptInv'
    OBVIOUS
  <1> USE DEF PreemptInv, PreemptsDeadTip
  <1>1. ASSUME NEW parent \in Parents, NEW clean \in BOOLEAN,
               NEW matmul \in Matmul, NEW broadcast \in {0, None, Null},
               Notify(parent, clean, broadcast, matmul)
        PROVE  PreemptInv'
    <2>1. ASSUME pc = "slice", parent # job.parent
          PROVE  preempted'
      <3>1. inflight_parent = job.parent /\ job.parent \in Parents
        BY <2>1 DEF TypeOK
      <3> QED
        BY <1>1, <2>1, <3>1 DEF Notify
    <2>2. current'.parent = parent
      BY <1>1 DEF Notify
    <2> QED
      BY <1>1, <2>1, <2>2 DEF Notify
  <1>2. CASE StartSlice
    BY <1>2 DEF StartSlice
  <1>3. CASE AwaitJob \/ JobArrives \/ LoopDies \/ RefuseJob \/ SliceReturns
             \/ SliceFinds \/ SubmitReturns \/ SliceRaises \/ SleepEnds \/ Teardown
             \/ Reconnect
    <2>1. pc' # "slice"
      BY <1>3 DEF AwaitJob, JobArrives, LoopDies, RefuseJob, SliceReturns, SliceFinds,
                  SubmitReturns, SliceRaises, SleepEnds, Teardown, Reconnect,
                  WriteBack
    <2> QED
      BY <2>1
  <1>4. CASE UNCHANGED vars
    BY <1>4 DEF vars
  <1> QED
    BY <1>1, <1>2, <1>3, <1>4 DEF Next, SolverStep, LoseSession, NotifyRaises

\* A slice on a parent that is no longer the pool's tip has been preempted by
\* _on_notify, however the slices before it ended.
THEOREM DeadTip == Spec => []PreemptsDeadTip
  <1>1. Init => PreemptInv
    BY DEF Init, PreemptInv, PreemptsDeadTip
  <1>2. PreemptInv => PreemptsDeadTip
    BY DEF PreemptInv
  <1> QED
    BY <1>1, <1>2, TypeCorrect, PreemptStep, PTL DEF Spec
=============================================================================
