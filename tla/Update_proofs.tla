---------------------------- MODULE Update_proofs ----------------------------
(***************************************************************************)
(* Proofs about Update, for any miners, binaries and manifests.            *)
(***************************************************************************)
EXTENDS Update, TLAPS

\* What a process carries at each point of a check.
Carries(p) ==
  /\ p.mark # 0 => p.pc = "wrapper" /\ ~p.mining
  /\ p.pc = "exec" => p.target # 0
  /\ p.pc = "pip" => p.target # 0
  /\ p.pc \in {"idle", "after", "reexec"} => p.mining
  /\ p.disturbed => p.mining /\ p.pc \in Checking \union {"reexec"}
  /\ p.daemon # None => p.mining

\* A process that does not mine yet was re-executed at most once, or has the
\* mark that keeps it from doing so again.
FewRestarts(p) ==
  /\ p.mining => p.execs = 0
  /\ p.execs <= 2
  /\ p.pc \in {"wrapper", "pip", "exec"} /\ p.mark = 0 => p.execs <= 1

\* What a mining process knows of the file, as long as no other one replaces it.
KnowsFile(p, m) ==
  /\ p.daemon # None => binary # None
  /\ p.pc \in {"solver", "download", "install"} /\ p.mining /\ ~p.disturbed
       => p.before = binary
  /\ p.pc \in {"download", "install"} /\ p.mining /\ ~p.disturbed
       => p.sha # binary
  /\ p.pc \in {"download", "install"} => p.sha # None
  /\ p.pc \in {"solver", "download", "install"} /\ p.disturbed => installer # m
  /\ p.pc \notin {"after", "reexec"} /\ installer = m /\ ~p.missed
       => p.daemon \in {None, binary}
  /\ p.pc = "after" /\ installer = m /\ ~p.missed /\ ~p.disturbed
       => \/ p.daemon \in {None, binary}
          \/ p.before # None /\ p.before # binary

Good(p, m) == Carries(p) /\ FewRestarts(p) /\ KnowsFile(p, m)

IInv == TypeOK /\ \A m \in Miners : Good(proc[m], m)

-----------------------------------------------------------------------------
(***************************************************************************)
(* The records that the steps build.                                       *)
(***************************************************************************)

LEMMA ZeroFits ==
  ASSUME UpdateAssumption
  PROVE  0 \in Versions /\ 0 \in 0..3 /\ None \in Sha
BY DEF UpdateAssumption, Versions, Sha

\* A process that is gone keeps nothing.
LEMMA DownIsGood ==
  ASSUME UpdateAssumption, NEW m \in Miners
  PROVE  Down \in Process /\ Good(Down, m)
BY DEF UpdateAssumption, Down, Process, Pc, Versions, Sha, Good, Carries,
       FewRestarts, KnowsFile, Checking

\* A process image starts with the installed package.
LEMMA FreshIsGood ==
  ASSUME UpdateAssumption, TypeOK, NEW m \in Miners,
         NEW k \in Versions, NEW e \in 0..2, k = 0 => e <= 1
  PROVE  Fresh(k, e) \in Process /\ Good(Fresh(k, e), m)
<1> DEFINE q == Fresh(k, e)
<1>1. /\ q.pc = "wrapper" /\ q.mark = k /\ q.execs = e /\ ~q.mining
      /\ q.floor = None /\ q.daemon = None /\ ~q.disturbed
  BY DEF Fresh, Down
<1>2. q \in Process
  <2>1. e \in 0..3 /\ e < 3
    OBVIOUS
  <2> QED  BY <2>1, ZeroFits DEF TypeOK, Fresh, Down, Process, Pc
<1>3. Good(q, m)
  <2> HIDE DEF q
  <2> QED  BY <1>1 DEF Good, Carries, FewRestarts, KnowsFile, Checking
<1> QED  BY <1>2, <1>3

\* A mining process that sleeps, whose daemon runs the file or need not.
LEMMA AsleepIsGood ==
  ASSUME UpdateAssumption, NEW m \in Miners,
         NEW p \in Process, p.mining, p.mark = 0, p.execs = 0,
         p.daemon # None => binary # None,
         installer = m /\ ~p.missed => p.daemon \in {None, binary}
  PROVE  Asleep(p) \in Process /\ Good(Asleep(p), m)
<1> DEFINE q == Asleep(p)
<1>1. /\ q.pc = "idle" /\ q.mark = 0 /\ q.execs = 0 /\ q.mining
      /\ q.floor = None /\ q.daemon = p.daemon /\ ~q.disturbed
      /\ q.missed = p.missed
  BY DEF Asleep, Process
<1>2. q \in Process
  BY DEF UpdateAssumption, Asleep, Process, Pc, Sha
<1>3. Good(q, m)
  <2> HIDE DEF q
  <2> QED  BY <1>1 DEF Good, Carries, FewRestarts, KnowsFile, Checking
<1> QED  BY <1>2, <1>3

\* The wrapper's half of a check hands over.
LEMMA AfterWrapperIsGood ==
  ASSUME UpdateAssumption, TypeOK, NEW m \in Miners,
         NEW p \in Process, Good(p, m), p.pc \in {"wrapper", "pip", "exec"}
  PROVE  AfterWrapper(p) \in Process /\ Good(AfterWrapper(p), m)
<1>1. CASE p.stopping
  BY <1>1, DownIsGood DEF AfterWrapper
<1>2. CASE ~p.stopping
  <2> DEFINE q == AfterWrapper(p)
  <2>1. /\ q.pc = "solver" /\ q.mark = 0 /\ q.execs = p.execs
        /\ q.mining = p.mining /\ q.floor = p.floor /\ q.daemon = p.daemon
        /\ q.disturbed = p.disturbed /\ q.missed = p.missed
        /\ p.mining => q.before = binary
    BY <1>2 DEF AfterWrapper, Process
  <2>2. q \in Process
    BY <1>2, ZeroFits DEF TypeOK, AfterWrapper, Process, Pc
  <2>3. Good(q, m)
    <3> HIDE DEF q
    <3> QED  BY <2>1 DEF Good, Carries, FewRestarts, KnowsFile, Checking
  <2> QED  BY <2>2, <2>3
<1> QED  BY <1>1, <1>2 DEF Process

\* The solver's half of a check hands over, with the file as it was.
LEMMA AfterSolverIsGood ==
  ASSUME UpdateAssumption, NEW m \in Miners, NEW p \in Process, Good(p, m),
         p.pc \in {"solver", "download", "install"}
  PROVE  AfterSolver(p) \in Process /\ Good(AfterSolver(p), m)
<1> DEFINE q == AfterSolver(p)
<1>1. CASE p.stopping
  BY <1>1, DownIsGood DEF AfterSolver
<1>2. CASE ~p.stopping /\ p.mining
  <2>1. /\ q.pc = "after" /\ q.mark = p.mark /\ q.execs = p.execs /\ q.mining
        /\ q.floor = None /\ q.daemon = p.daemon
        /\ q.disturbed = p.disturbed /\ q.missed = p.missed
    BY <1>2 DEF AfterSolver, Process
  <2>2. q \in Process
    BY <1>2 DEF UpdateAssumption, AfterSolver, Process, Pc, Sha
  <2>3. Good(q, m)
    <3> HIDE DEF q
    <3> QED  BY <1>2, <2>1 DEF Good, Carries, FewRestarts, KnowsFile, Checking
  <2> QED  BY <2>2, <2>3
<1>3. CASE ~p.stopping /\ ~p.mining
  <2>1. /\ q.pc = "idle" /\ q.mark = p.mark /\ q.execs = 0 /\ q.mining
        /\ q.floor = None /\ q.daemon = p.daemon /\ ~q.disturbed
    BY <1>3 DEF AfterSolver, Asleep, Process
  <2>2. q \in Process
    BY <1>3, ZeroFits DEF AfterSolver, Asleep, Process, Pc
  <2>3. Good(q, m)
    <3> HIDE DEF q
    <3> QED  BY <1>3, <2>1 DEF Good, Carries, FewRestarts, KnowsFile, Checking
  <2> QED  BY <2>2, <2>3
<1> QED  BY <1>1, <1>2, <1>3 DEF Process

\* An exception ends a start, and puts a watcher back to sleep.
LEMMA ThrownIsGood ==
  ASSUME UpdateAssumption, NEW m \in Miners, NEW p \in Process, Good(p, m),
         p.pc \in {"wrapper", "solver", "download"}
  PROVE  Thrown(p) \in Process /\ Good(Thrown(p), m)
<1> DEFINE q == Thrown(p)
<1>1. CASE ~(p.mining /\ ~p.stopping)
  BY <1>1, DownIsGood DEF Thrown
<1>2. CASE p.mining /\ ~p.stopping
  <2>1. /\ q.pc = "idle" /\ q.mark = p.mark /\ q.execs = p.execs /\ q.mining
        /\ q.floor = None /\ q.daemon = p.daemon /\ ~q.disturbed
        /\ q.missed = p.missed
    BY <1>2 DEF Thrown, Asleep, Process
  <2>2. q \in Process
    BY <1>2, ZeroFits DEF Thrown, Asleep, Process, Pc
  <2>3. Good(q, m)
    <3> HIDE DEF q
    <3> QED  BY <1>2, <2>1 DEF Good, Carries, FewRestarts, KnowsFile, Checking
  <2> QED  BY <2>2, <2>3
<1> QED  BY <1>1, <1>2

-----------------------------------------------------------------------------
(***************************************************************************)
(* The invariant is inductive.                                             *)
(***************************************************************************)

LEMMA InitIInv ==
  ASSUME UpdateAssumption, Init
  PROVE  IInv
<1>1. TypeOK
  BY DownIsGood, ZeroFits DEF Init, TypeOK
<1> QED  BY <1>1, DownIsGood DEF Init, IInv

\* One process changes, the file does not.
LEMMA BecomesGood ==
  ASSUME IInv, NEW m \in Miners, NEW q \in Process, Good(q, m), Becomes(m, q),
         UNCHANGED <<channel, binary, installer>>, package' \in Versions
  PROVE  IInv'
<1>1. TypeOK'
  BY DEF IInv, TypeOK, Becomes
<1>2. ASSUME NEW n \in Miners PROVE Good(proc[n], n)'
  <2>1. proc'[n] = IF n = m THEN q ELSE proc[n]
    BY DEF IInv, TypeOK, Becomes
  <2>2. Good(proc'[n], n)
    BY <2>1 DEF IInv
  <2> QED  BY <2>2 DEF Good, Carries, FewRestarts, KnowsFile
<1> QED  BY <1>1, <1>2 DEF IInv

LEMMA WrapperStepIInv ==
  ASSUME UpdateAssumption, IInv, NEW m \in Miners, WrapperStep(m)
  PROVE  IInv'
<1> DEFINE p == proc[m]
<1>0. TypeOK /\ p \in Process /\ Good(p, m)
  BY DEF IInv, TypeOK
<1>1. CASE PopMark(m) \/ NoNewerWrapper(m) \/ PipFails(m) \/ ExecFails(m)
  <2>1. p.pc \in {"wrapper", "pip", "exec"} /\ Becomes(m, AfterWrapper(p))
    BY <1>1 DEF PopMark, NoNewerWrapper, PipFails, ExecFails
  <2>2. UNCHANGED <<channel, Host>>
    BY <1>1 DEF PopMark, NoNewerWrapper, PipFails, ExecFails
  <2>3. AfterWrapper(p) \in Process /\ Good(AfterWrapper(p), m)
    BY <1>0, <2>1, AfterWrapperIsGood
  <2> QED  BY <1>0, <2>1, <2>2, <2>3, BecomesGood DEF Host, TypeOK
<1>2. CASE NewerWrapper(m)
  <2> DEFINE q == [p EXCEPT !.pc = "pip", !.target = channel.version]
  <2>1. channel.version \in Versions /\ channel.version # 0
    BY <1>0, <1>2 DEF NewerWrapper, TypeOK, UpdateAssumption, Process, Versions
  <2>2. /\ q.pc = "pip" /\ q.target # 0 /\ q.mark = 0 /\ q.execs = p.execs
        /\ q.mining = p.mining /\ q.floor = p.floor /\ q.daemon = p.daemon
        /\ q.disturbed = p.disturbed /\ q.missed = p.missed /\ p.pc = "wrapper"
    BY <1>0, <1>2, <2>1 DEF NewerWrapper, Process
  <2>3. q \in Process
    BY <1>0, <2>1 DEF Process, Pc
  <2>4. Good(q, m)
    <3> HIDE DEF q
    <3> QED  BY <1>0, <1>2, <2>2 DEF NewerWrapper, Good, Carries, FewRestarts, KnowsFile,
                Checking
  <2> QED  BY <1>0, <1>2, <2>3, <2>4, BecomesGood DEF NewerWrapper, Host, TypeOK
<1>3. CASE PipInstalls(m)
  <2> DEFINE q == [p EXCEPT !.pc = "exec"]
  <2>1. /\ q.pc = "exec" /\ q.target = p.target /\ q.mark = p.mark
        /\ q.execs = p.execs /\ q.mining = p.mining /\ q.floor = p.floor
        /\ q.daemon = p.daemon /\ q.disturbed = p.disturbed
        /\ q.missed = p.missed /\ p.pc = "pip"
    BY <1>0, <1>3 DEF PipInstalls, Process
  <2>2. q \in Process
    BY <1>0 DEF Process, Pc
  <2>3. Good(q, m)
    <3> HIDE DEF q
    <3> QED  BY <1>0, <2>1 DEF Good, Carries, FewRestarts, KnowsFile, Checking
  <2>4. package' \in Versions
    BY <1>0, <1>3 DEF PipInstalls, Says, Process, UpdateAssumption, Versions
  <2> QED  BY <1>3, <2>2, <2>3, <2>4, BecomesGood DEF PipInstalls
<1>4. CASE Exec(m)
  <2>1. p.target \in Versions /\ p.target # 0 /\ p.execs \in 0..1
    BY <1>0, <1>4 DEF Exec, Good, Carries, FewRestarts, Process
  <2>2. Fresh(p.target, p.execs + 1) \in Process
          /\ Good(Fresh(p.target, p.execs + 1), m)
    BY <1>0, <2>1, FreshIsGood
  <2> QED  BY <1>0, <1>4, <2>2, BecomesGood DEF Exec, Host, TypeOK
<1> QED  BY <1>1, <1>2, <1>3, <1>4 DEF WrapperStep

LEMMA InstallsIInv ==
  ASSUME UpdateAssumption, IInv, NEW m \in Miners, Installs(m)
  PROVE  IInv'
<1> DEFINE p == proc[m]
<1>0. TypeOK /\ p \in Process /\ Good(p, m)
  BY DEF IInv, TypeOK
<1>1. binary' = p.sha /\ p.sha \in Sha \ {None} /\ installer' = m /\ p.pc = "install"
  BY <1>0 DEF Installs, Process, Good, KnowsFile
<1>2. AfterSolver(p) \in Process
  BY <1>0, <1>1, AfterSolverIsGood
<1>3. ASSUME NEW n \in Miners, n # m
      PROVE  proc'[n] \in Process /\ Good(proc[n], n)'
  <2> DEFINE r == proc[n]
             q == [r EXCEPT !.disturbed = r.mining /\ r.pc \in Checking]
  <2>1. proc'[n] = q
    BY <1>3 DEF Installs
  <2>2. r \in Process /\ Good(r, n)
    BY <1>3 DEF IInv, TypeOK
  <2>3. q \in Process
    <3>1. (r.mining /\ r.pc \in Checking) \in BOOLEAN
      OBVIOUS
    <3> QED  BY <2>2, <3>1 DEF Process
  <2>4. /\ q.pc = r.pc /\ q.mark = r.mark /\ q.target = r.target
        /\ q.execs = r.execs /\ q.mining = r.mining /\ q.floor = r.floor
        /\ q.daemon = r.daemon /\ q.missed = r.missed /\ q.sha = r.sha
        /\ q.disturbed <=> r.mining /\ r.pc \in Checking
    BY <2>2 DEF Process
  <2>5. Carries(q) /\ FewRestarts(q)
    <3> HIDE DEF q
    <3> QED  BY <2>2, <2>4 DEF Good, Carries, FewRestarts, Checking
  <2>6. KnowsFile(proc[n], n)'
    <3> HIDE DEF q
    <3> QED  BY <1>1, <1>3, <2>1, <2>2, <2>4 DEF Good, KnowsFile, Checking
  <2> QED  BY <2>1, <2>3, <2>5, <2>6 DEF Good, Carries, FewRestarts
<1>4. proc'[m] = AfterSolver(p)
  BY DEF Installs
<1>5. Good(proc[m], m)'
  <2> DEFINE q == AfterSolver(p)
  <2>0. proc'[m] = q
    BY <1>4
  <2>1. Carries(q) /\ FewRestarts(q)
    BY <1>0, <1>1, AfterSolverIsGood DEF Good
  <2>2. CASE p.stopping
    <3>1. q = Down
      BY <2>2 DEF AfterSolver
    <3>2. q.pc = "down" /\ q.daemon = None /\ ~q.disturbed
      BY <3>1 DEF Down
    <3>3. KnowsFile(proc[m], m)'
      <4> HIDE DEF q
      <4> QED  BY <1>1, <2>0, <3>2 DEF KnowsFile
    <3> QED  BY <1>4, <2>1, <3>3 DEF Good, Carries, FewRestarts
  <2>3. CASE ~p.stopping /\ p.mining
    <3>1. /\ q.pc = "after" /\ q.before = p.before /\ q.daemon = p.daemon
          /\ q.disturbed = p.disturbed /\ q.missed = p.missed
      BY <1>0, <2>3 DEF AfterSolver, Process
    <3>2. ~p.disturbed => p.before = binary /\ p.sha # binary
      BY <1>0, <1>1, <2>3 DEF Good, KnowsFile
    <3>3. p.daemon # None => binary # None
      BY <1>0 DEF Good, KnowsFile
    <3>4. KnowsFile(proc[m], m)'
      <4> HIDE DEF q
      <4> QED  BY <1>1, <2>0, <3>1, <3>2, <3>3 DEF KnowsFile
    <3> QED  BY <1>4, <2>1, <3>4 DEF Good, Carries, FewRestarts
  <2>4. CASE ~p.stopping /\ ~p.mining
    <3>1. q.pc = "idle" /\ q.daemon = p.daemon
      BY <1>0, <2>4 DEF AfterSolver, Asleep, Process
    <3>2. p.daemon = None
      BY <1>0, <2>4 DEF Good, Carries
    <3>3. KnowsFile(proc[m], m)'
      <4> HIDE DEF q
      <4> QED  BY <1>1, <2>0, <3>1, <3>2 DEF KnowsFile
    <3> QED  BY <1>4, <2>1, <3>3 DEF Good, Carries, FewRestarts
  <2> QED  BY <1>0, <2>2, <2>3, <2>4 DEF Process
<1>6. TypeOK'
  <2>1. proc' \in [Miners -> Process]
    <3>1. \A n \in Miners : proc'[n] \in Process
      BY <1>2, <1>3, <1>4
    <3> QED  BY <3>1 DEF Installs
  <2> QED  BY <1>0, <1>1, <2>1 DEF TypeOK, Installs
<1> QED  BY <1>3, <1>5, <1>6 DEF IInv

LEMMA SolverStepIInv ==
  ASSUME UpdateAssumption, IInv, NEW m \in Miners, SolverStep(m)
  PROVE  IInv'
<1> DEFINE p == proc[m]
<1>0. TypeOK /\ p \in Process /\ Good(p, m)
  BY DEF IInv, TypeOK
<1>1. CASE NewerSolver(m)
  <2> DEFINE q == [p EXCEPT !.pc = "download", !.sha = channel.sha,
                            !.floor = channel.floor, !.current = binary]
  <2>1. /\ channel.sha \in Sha /\ channel.floor \in Sha /\ binary \in Sha
        /\ channel.sha # None /\ channel.sha # binary
    BY <1>0, <1>1 DEF NewerSolver, TypeOK, UpdateAssumption
  <2>2. /\ q.pc = "download" /\ q.mark = p.mark /\ q.execs = p.execs
        /\ q.mining = p.mining /\ q.daemon = p.daemon /\ q.before = p.before
        /\ q.disturbed = p.disturbed /\ q.missed = p.missed
        /\ q.sha = channel.sha /\ p.pc = "solver"
    BY <1>0, <1>1 DEF NewerSolver, Process
  <2>3. q \in Process
    BY <1>0, <2>1 DEF Process, Pc
  <2>4. Good(q, m)
    <3> HIDE DEF q
    <3> QED  BY <1>0, <2>1, <2>2 DEF Good, Carries, FewRestarts, KnowsFile,
                Checking
  <2> QED  BY <1>0, <1>1, <2>3, <2>4, BecomesGood DEF NewerSolver, Host, TypeOK
<1>2. CASE Downloads(m)
  <2> DEFINE q == [p EXCEPT !.pc = "install"]
  <2>1. /\ q.pc = "install" /\ q.mark = p.mark /\ q.execs = p.execs
        /\ q.mining = p.mining /\ q.daemon = p.daemon /\ q.before = p.before
        /\ q.disturbed = p.disturbed /\ q.missed = p.missed
        /\ q.sha = p.sha /\ p.pc = "download"
    BY <1>0, <1>2 DEF Downloads, Process
  <2>2. q \in Process
    BY <1>0 DEF Process, Pc
  <2>3. Good(q, m)
    <3> HIDE DEF q
    <3> QED  BY <1>0, <2>1 DEF Good, Carries, FewRestarts, KnowsFile, Checking
  <2> QED  BY <1>0, <1>2, <2>2, <2>3, BecomesGood DEF Downloads, Host, TypeOK
<1>3. CASE NoNewerSolver(m) \/ InstallFails(m)
           \/ (DownloadFails(m) /\ ~(p.floor \notin {None, p.current}))
  <2>1. p.pc \in {"solver", "download", "install"} /\ Becomes(m, AfterSolver(p))
    BY <1>3 DEF NoNewerSolver, InstallFails, DownloadFails
  <2>2. UNCHANGED <<channel, Host>>
    BY <1>3 DEF NoNewerSolver, InstallFails, DownloadFails
  <2>3. AfterSolver(p) \in Process /\ Good(AfterSolver(p), m)
    BY <1>0, <2>1, AfterSolverIsGood
  <2> QED  BY <1>0, <2>1, <2>2, <2>3, BecomesGood DEF Host, TypeOK
<1>4. CASE DownloadFails(m) /\ p.floor \notin {None, p.current}
  <2>1. p.pc = "download" /\ Becomes(m, Thrown(p)) /\ UNCHANGED <<channel, Host>>
    BY <1>4 DEF DownloadFails
  <2>2. Thrown(p) \in Process /\ Good(Thrown(p), m)
    BY <1>0, <2>1, ThrownIsGood
  <2> QED  BY <1>0, <2>1, <2>2, BecomesGood DEF Host, TypeOK
<1>5. CASE Installs(m)
  BY <1>5, InstallsIInv
<1> QED  BY <1>1, <1>2, <1>3, <1>4, <1>5 DEF SolverStep

LEMMA RestIInv ==
  ASSUME UpdateAssumption, IInv, NEW m \in Miners,
         \/ Raises(m) \/ Compare(m) \/ Reexec(m) \/ Wake(m) \/ Launch(m)
         \/ Stop(m) \/ Crash(m) \/ Respawn(m)
  PROVE  IInv'
<1> DEFINE p == proc[m]
<1>0. TypeOK /\ p \in Process /\ Good(p, m)
  BY DEF IInv, TypeOK
<1> SUFFICES \E q \in Process :
                Good(q, m) /\ Becomes(m, q) /\ UNCHANGED <<channel, Host>>
  BY <1>0, BecomesGood DEF Host, TypeOK
<1>1. CASE Raises(m)
  <2>1. Thrown(p) \in Process /\ Good(Thrown(p), m)
    BY <1>0, <1>1, ThrownIsGood DEF Raises
  <2> QED  BY <1>1, <2>1 DEF Raises
<1>2. CASE Compare(m)
  <2>1. CASE Replaced(p)
    <3> DEFINE q == [p EXCEPT !.pc = "reexec"]
    <3>1. /\ q.pc = "reexec" /\ q.mark = p.mark /\ q.execs = p.execs
          /\ q.mining = p.mining /\ q.daemon = p.daemon /\ q.floor = p.floor
          /\ q.disturbed = p.disturbed /\ p.pc = "after"
      BY <1>0, <1>2 DEF Compare, Process
    <3>2. q \in Process
      BY <1>0 DEF Process, Pc
    <3>3. Good(q, m)
      <4> HIDE DEF q
      <4> QED  BY <1>0, <3>1 DEF Good, Carries, FewRestarts, KnowsFile, Checking
    <3> QED  BY <1>2, <2>1, <3>2, <3>3 DEF Compare
  <2>2. CASE ~Replaced(p)
    <3> DEFINE r == [p EXCEPT !.missed = @ \/ p.disturbed]
               q == [Asleep(p) EXCEPT !.missed = @ \/ p.disturbed]
    <3>1. (p.missed \/ p.disturbed) \in BOOLEAN
      OBVIOUS
    <3>2. /\ r \in Process /\ r.mining = p.mining /\ r.mark = p.mark
          /\ r.execs = p.execs /\ r.daemon = p.daemon
          /\ r.missed <=> p.missed \/ p.disturbed
      BY <1>0, <3>1 DEF Process
    <3>3. p.mining /\ p.mark = 0 /\ p.execs = 0 /\ (p.daemon # None => binary # None)
      BY <1>0, <1>2 DEF Compare, Good, Carries, FewRestarts, KnowsFile
    <3>4. installer = m /\ ~r.missed => p.daemon \in {None, binary}
      BY <1>0, <1>2, <2>2, <3>2 DEF Compare, Replaced, Good, KnowsFile
    <3>5. Asleep(r) \in Process /\ Good(Asleep(r), m)
      <4> HIDE DEF r
      <4> QED  BY <3>2, <3>3, <3>4, AsleepIsGood
    <3>6. q = Asleep(r)
      BY <1>0 DEF Asleep, Process
    <3> QED  BY <1>2, <2>2, <3>5, <3>6 DEF Compare
  <2> QED  BY <2>1, <2>2
<1>3. CASE Reexec(m)
  <2>1. p.mining /\ p.mark = 0 /\ p.execs = 0 /\ (p.daemon # None => binary # None)
    BY <1>0, <1>3 DEF Reexec, Good, Carries, FewRestarts, KnowsFile
  <2>2. CASE Becomes(m, Fresh(p.mark, p.execs + 1))
    <3>1. Fresh(0, 1) \in Process /\ Good(Fresh(0, 1), m)
      BY <1>0, FreshIsGood, ZeroFits
    <3>2. p.execs + 1 = 1
      BY <2>1
    <3> QED  BY <1>3, <2>1, <2>2, <3>1, <3>2 DEF Reexec
  <2>3. CASE Becomes(m, [Asleep(p) EXCEPT !.missed = TRUE])
    <3> DEFINE r == [p EXCEPT !.missed = TRUE]
    <3>1. /\ r \in Process /\ r.mining = p.mining /\ r.mark = p.mark
          /\ r.execs = p.execs /\ r.daemon = p.daemon /\ r.missed
      BY <1>0 DEF Process
    <3>2. Asleep(r) \in Process /\ Good(Asleep(r), m)
      <4> HIDE DEF r
      <4> QED  BY <2>1, <3>1, AsleepIsGood
    <3>3. [Asleep(p) EXCEPT !.missed = TRUE] = Asleep(r)
      BY <1>0 DEF Asleep, Process
    <3> QED  BY <1>3, <2>3, <3>2, <3>3 DEF Reexec
  <2> QED  BY <1>3, <2>2, <2>3 DEF Reexec
<1>4. CASE Wake(m)
  <2> DEFINE q == [p EXCEPT !.pc = "wrapper"]
  <2>1. /\ q.pc = "wrapper" /\ q.mark = p.mark /\ q.execs = p.execs
        /\ q.mining = p.mining /\ q.floor = p.floor /\ q.daemon = p.daemon
        /\ q.disturbed = p.disturbed /\ q.missed = p.missed /\ p.pc = "idle"
    BY <1>0, <1>4 DEF Wake, Process
  <2>2. q \in Process
    BY <1>0 DEF Process, Pc
  <2>3. Good(q, m)
    <3> HIDE DEF q
    <3> QED  BY <1>0, <2>1 DEF Good, Carries, FewRestarts, KnowsFile, Checking
  <2> QED  BY <1>4, <2>2, <2>3 DEF Wake
<1>5. CASE Launch(m)
  <2>1. Fresh(0, 0) \in Process /\ Good(Fresh(0, 0), m)
    BY <1>0, FreshIsGood, ZeroFits
  <2> QED  BY <1>5, <2>1 DEF Launch
<1>6. CASE Stop(m)
  <2>1. CASE p.mining /\ p.pc \in InThread
    <3> DEFINE q == [p EXCEPT !.stopping = TRUE, !.daemon = None]
    <3>1. /\ q.pc = p.pc /\ q.mark = p.mark /\ q.execs = p.execs
          /\ q.mining = p.mining /\ q.floor = p.floor /\ q.daemon = None
          /\ q.disturbed = p.disturbed /\ q.missed = p.missed
          /\ q.before = p.before /\ q.sha = p.sha /\ q.target = p.target
      BY <1>0 DEF Process
    <3>2. q \in Process
      BY <1>0, ZeroFits DEF Process
    <3>3. Good(q, m)
      <4> HIDE DEF q
      <4> QED  BY <1>0, <3>1 DEF Good, Carries, FewRestarts, KnowsFile, Checking
    <3> QED  BY <1>6, <2>1, <3>2, <3>3 DEF Stop
  <2>2. CASE ~(p.mining /\ p.pc \in InThread)
    BY <1>6, <2>2, DownIsGood DEF Stop
  <2> QED  BY <2>1, <2>2
<1>7. CASE Crash(m)
  BY <1>7, DownIsGood DEF Crash
<1>8. CASE Respawn(m)
  <2>1. PICK b \in {None, binary} : Becomes(m, [p EXCEPT !.daemon = b])
    BY <1>8 DEF Respawn
  <2> DEFINE q == [p EXCEPT !.daemon = b]
  <2>2. /\ q.pc = p.pc /\ q.mark = p.mark /\ q.execs = p.execs
        /\ q.mining = p.mining /\ q.floor = p.floor /\ q.daemon = b
        /\ q.disturbed = p.disturbed /\ q.missed = p.missed
        /\ q.before = p.before /\ q.sha = p.sha /\ q.target = p.target /\ p.mining
    BY <1>0, <1>8 DEF Respawn, Process
  <2>3. q \in Process
    BY <1>0, ZeroFits DEF Process, TypeOK
  <2>4. Good(q, m)
    <3> HIDE DEF q
    <3> QED  BY <1>0, <2>2 DEF Good, Carries, FewRestarts, KnowsFile, Checking
  <2> QED  BY <1>8, <2>1, <2>3, <2>4 DEF Respawn
<1> QED  BY <1>1, <1>2, <1>3, <1>4, <1>5, <1>6, <1>7, <1>8

LEMMA NextIInv ==
  ASSUME UpdateAssumption, IInv, [Next]_vars
  PROVE  IInv'
<1>1. CASE UNCHANGED vars
  BY <1>1 DEF vars, IInv, TypeOK, Good, Carries, FewRestarts, KnowsFile
<1>2. CASE Publish
  <2>1. TypeOK'
    BY <1>2 DEF IInv, TypeOK, Publish, Host
  <2> QED  BY <1>2, <2>1 DEF Publish, Host, IInv, Good, Carries, FewRestarts, KnowsFile
<1>3. ASSUME NEW m \in Miners, CheckStep(m) \/ Wake(m) \/ Launch(m) \/ Stop(m)
                                 \/ Crash(m) \/ Respawn(m)
      PROVE  IInv'
  BY <1>3, WrapperStepIInv, SolverStepIInv, RestIInv DEF CheckStep
<1> QED  BY <1>1, <1>2, <1>3 DEF Next

LEMMA Invariant == UpdateAssumption => (Spec => []IInv)
<1> SUFFICES ASSUME UpdateAssumption PROVE Spec => []IInv
  OBVIOUS
<1> QED  BY InitIInv, NextIInv, PTL DEF Spec

-----------------------------------------------------------------------------
(***************************************************************************)
(* Theorems.                                                               *)
(***************************************************************************)

\* Type correctness of the updaters and of the host they share.
THEOREM TypeCorrect == Spec => []TypeOK
<1>1. IInv => TypeOK
  BY DEF IInv
<1> QED  BY <1>1, UpdateAssumption, Invariant, PTL

\* No run of re-execs without mining in between is longer than two, whichever
\* releases are broken and however many miners update the host.
THEOREM Bounded == Spec => []BoundedRestarts
<1>1. IInv => BoundedRestarts
  BY DEF IInv, Good, FewRestarts, BoundedRestarts
<1> QED  BY <1>1, UpdateAssumption, Invariant, PTL

\* A miner whose own check replaced the file runs it, unless it was kept from
\* re-executing itself.
THEOREM OwnInstall == Spec => []OwnInstallRuns
<1>1. IInv => OwnInstallRuns
  BY DEF IInv, Good, KnowsFile, OwnInstallRuns
<1> QED  BY <1>1, UpdateAssumption, Invariant, PTL
=============================================================================
