----------------------------- MODULE Ember_proofs -----------------------------
(***************************************************************************)
(* Proofs about Ember, for any candidates, rates, powers and log length.   *)
(***************************************************************************)
EXTENDS Ember, TLAPS

Leq(p, q) ==
  p.accepted <= q.accepted /\ p.rejected <= q.rejected /\ p.blocks <= q.blocks

\* The counters before line i of the log.
Before(i) == IF i = 1 THEN shown ELSE pipe[i - 1].n

\* The log counts up from what is shown to what it has said.
LogInv ==
  /\ counted.blocks <= counted.accepted
  /\ Leq(shown, Said)
  /\ \A i \in 1..Len(pipe) : Leq(shown, pipe[i].n) /\ Leq(pipe[i].n, Said)
  /\ \A i, j \in 1..Len(pipe) : i <= j => Leq(pipe[i].n, pipe[j].n)
  /\ pump # "broken" =>
       /\ \A i \in 1..Len(pipe) :
            pipe[i].kind = "REJECTED" => pipe[i].n.blocks = Before(i).blocks
       /\ \A i \in 1..Len(pipe) : pipe[i].kind = "RAISED" => pipe[i].n = Before(i)
       /\ IF pipe = << >> THEN shown = Said ELSE pipe[Len(pipe)].n = Said

\* Nothing is left of a dashboard that has ended.
OffInv ==
  gui_pc = "off" => pump = "off" /\ pipe = << >> /\ counted = Zero /\ raised = 0
                      /\ shown = Zero
                      /\ miner_alive

\* The best scored what it did, and nothing that was compared scored more; before
\* the first comparison the score is one that any trial beats.
BestInv ==
  \/ best_score = <<-1, 1>> /\ \A c \in DOMAIN results : Unjudged(c)
  \/ /\ best \in DOMAIN results
     /\ best_score = Score(results[best])
     /\ \A c \in DOMAIN results : Unjudged(c) \/ ~Above(Score(results[c]), best_score)

\* A trial that runs is one of the sweep's, and a new one; only an interrupt
\* ends the sweep early.
SweepInv ==
  /\ tune_pc \in {"measure", "reap"}
       => trial < Trials /\ ConfigOf(trial) \notin DOMAIN results
  /\ tune_pc \in {"save", "write"} => interrupted \/ trial = Trials

IInv ==
  SweepInv /\ TypeOK /\ LogInv /\ OffInv /\ BestInv /\ MinerStopsWithParent

-----------------------------------------------------------------------------
(***************************************************************************)
(* The operators that the sweep is built from.                             *)
(***************************************************************************)

\* A configuration that is tried is one of the candidates.
LEMMA ConfigTyped ==
  ASSUME TuneAssumption, best \in Configs, trial \in 0..Trials, trial < Trials
  PROVE  ConfigOf(trial) \in Configs
<1> DEFINE B == BatchCandidates  W == WorkerCandidates
<1>1. B \in Seq(Range(B)) /\ W \in Seq(Range(W))
  BY DEF TuneAssumption
<1>2. Len(B) \in Nat /\ Len(W) \in Nat
  BY <1>1
<1>3. CASE trial < Len(B)
  <2>1. trial + 1 \in 1..Len(B)
    BY <1>2, <1>3
  <2>2. B[trial + 1] \in Range(B)
    BY <1>1, <2>1
  <2> QED  BY <1>3, <2>2 DEF ConfigOf, Configs
<1>4. CASE ~(trial < Len(B))
  <2>1. trial + 1 - Len(B) \in 1..Len(W)
    BY <1>2, <1>4 DEF Trials
  <2>2. W[trial + 1 - Len(B)] \in Range(W)
    BY <1>1, <2>1
  <2>3. best[1] \in Range(B) \union {DefaultBatch}
    BY DEF Configs
  <2> QED  BY <1>4, <2>2, <2>3 DEF ConfigOf, Configs
<1> QED  BY <1>3, <1>4

\* A score is a fraction, and not below 0.
LEMMA ScoreTyped ==
  ASSUME TuneAssumption, NEW r \in Results
  PROVE  Score(r) \in Nat \X (Nat \ {0})
<1>1. r.nps \in Nat /\ (r.watts # None => r.watts \in Nat \ {0})
  BY DEF TuneAssumption, Results
<1>2. CASE Objective = "efficiency" /\ r.watts # None
  BY <1>1, <1>2 DEF Score
<1>3. CASE ~(Objective = "efficiency" /\ r.watts # None)
  BY <1>1, <1>3 DEF Score
<1> QED  BY <1>2, <1>3

\* What does not exceed the second best does not exceed the best.
LEMMA AboveTransitive ==
  ASSUME NEW s \in Nat \X (Nat \ {0}), NEW t \in Nat \X (Nat \ {0}),
         NEW u \in Nat \X (Nat \ {0}), ~Above(s, t), Above(u, t)
  PROVE  ~Above(s, u)
<1> DEFINE a == s[1]  b == s[2]  c == t[1]  d == t[2]  e == u[1]  f == u[2]
<1>1. /\ a \in Nat /\ b \in Nat /\ c \in Nat /\ d \in Nat /\ e \in Nat /\ f \in Nat
      /\ b > 0 /\ d > 0 /\ f > 0
  OBVIOUS
<1>2. a * d <= c * b /\ e * d > c * f
  BY <1>1 DEF Above
<1> HIDE DEF a, b, c, d, e, f
<1>3. (a * d) * f <= (c * b) * f
  BY <1>1, <1>2
<1>4. (c * f) * b < (e * d) * b
  BY <1>1, <1>2
<1>5. (a * f) * d < (e * b) * d
  BY <1>1, <1>3, <1>4
<1>6. a * f <= e * b
  BY <1>1, <1>5
<1> QED  BY <1>1, <1>6 DEF Above, a, b, e, f

-----------------------------------------------------------------------------
(***************************************************************************)
(* Type correctness, action by action.                                     *)
(***************************************************************************)

\* What a step of the miner's group, or of its parent with it, may make of them.
LEMMA GroupTyped ==
  ASSUME GroupTypeOK
  PROVE  /\ Terminated(miner) \in Group
         /\ NoMiner \in Group
         /\ [leader |-> "run", solver |-> "none"] \in Group
         /\ [leader |-> "dead", solver |-> "none"] \in Group
         /\ Left(miner) \subseteq {"miner", "solver"}
BY DEF GroupTypeOK, Terminated, NoMiner, Group, Left

\* The judgement of a trial.
LEMMA JudgeTyped ==
  ASSUME TuneAssumption, TuneTypeOK, trial < Trials,
         NEW c \in Configs, NEW r \in Results, Judge(c, r)
  PROVE  best' \in Configs /\ best_score' \in Int \X (Nat \ {0}) /\ trial' \in 0..Trials
<1>1. Score(r) \in Int \X (Nat \ {0})
  BY ScoreTyped
<1>2. Trials \in Nat
  BY DEF TuneAssumption, Trials
<1> QED  BY <1>1, <1>2 DEF TuneTypeOK, Judge

\* The tuner that has ended.
LEMMA DoneTyped ==
  ASSUME TuneAssumption, TuneDone, (profile \in {None, Torn} \union (Configs \X Results))'
  PROVE  TuneTypeOK'
<1>1. DOMAIN results' = {}
  BY DEF TuneDone
<1>2. best' \in Configs
  BY DEF TuneDone, Default, Configs
<1>3. best_score' \in Int \X (Nat \ {0})
  BY DEF TuneDone
<1>4. trial' \in 0..Trials
  BY DEF TuneDone, TuneAssumption, Trials
<1> QED  BY <1>1, <1>2, <1>3, <1>4 DEF TuneDone, TuneTypeOK

LEMMA TuneTyped ==
  ASSUME TuneAssumption, TypeOK, SweepInv, TuneStep, UNCHANGED <<guiVars, settings>>
  PROVE  TypeOK'
<1> USE DEF TypeOK, groupVars, tuneVars, guiVars
<1>1. GuiTypeOK' /\ (settings \in Configs \union {None})'
  <2>1. program' = "gui" <=> program = "gui"
    BY DEF TuneStep, SweepStep, Compare, BeginTrial, EndWindow, Measured, Reaped,
       KillTrial, SweepEnds, BeginWrite, EndWrite, Interrupt, TuneKilled, TuneDone,
       TuneTypeOK, Forget
  <2> QED  BY <2>1 DEF GuiTypeOK
<1>2. program' = "gui" <=> program = "gui"
  BY DEF TuneStep, SweepStep, Compare, BeginTrial, EndWindow, Measured, Reaped,
     KillTrial, SweepEnds, BeginWrite, EndWrite, Interrupt, TuneKilled, TuneDone,
     TuneTypeOK, Forget
<1>3. GroupTypeOK'
  <2>1. program' \in {program, "none"}
    BY DEF TuneStep, SweepStep, Compare, BeginTrial, EndWindow, Measured, Reaped,
       KillTrial, SweepEnds, BeginWrite, EndWrite, Interrupt, TuneKilled, TuneDone
  <2>2. miner' \in {miner, NoMiner, Terminated(miner), [leader |-> "run", solver |-> "none"],
                    [leader |-> "dead", solver |-> "none"]}
    BY DEF TuneStep, SweepStep, Compare, BeginTrial, EndWindow, Measured, Reaped,
       KillTrial, SweepEnds, BeginWrite, EndWrite, Interrupt, TuneKilled, StartMiner,
       StopTrial, Forget
  <2>3. stray' \in {stray, stray \union Left(miner)}
    BY DEF TuneStep, SweepStep, Compare, BeginTrial, EndWindow, Measured, Reaped,
       KillTrial, SweepEnds, BeginWrite, EndWrite, Interrupt, TuneKilled, Forget
  <2>4. abandoned' \in {abandoned, abandoned \/ Runs(miner)}
    BY DEF TuneStep, SweepStep, Compare, BeginTrial, EndWindow, Measured, Reaped,
       KillTrial, SweepEnds, BeginWrite, EndWrite, Interrupt, TuneKilled
  <2>5. miner' \in Group
    BY <2>2, GroupTyped DEF GroupTypeOK
  <2>6. stray' \subseteq {"miner", "solver"}
    BY <2>3, GroupTyped DEF GroupTypeOK
  <2>7. abandoned' \in BOOLEAN
    BY <2>4 DEF GroupTypeOK, Runs
  <2> QED  BY <2>1, <2>5, <2>6, <2>7 DEF GroupTypeOK
<1>4. TuneTypeOK'
  <2>0. NoResult \in Results
    BY DEF TuneAssumption, NoResult, Results
  <2>1. CASE Compare
    <3>1. ConfigOf(trial) \in Configs /\ results[ConfigOf(trial)] \in Results
      BY <2>1 DEF Compare, TuneTypeOK
    <3> QED  BY <2>1, <3>1, JudgeTyped DEF Compare, TuneTypeOK
  <2>2. CASE BeginTrial
    BY <2>2 DEF BeginTrial, TuneTypeOK
  <2>3. CASE EndWindow
    BY <2>3 DEF EndWindow, StopTrial, TuneTypeOK
  <2>4. CASE Measured
    <3>1. PICK r \in [nps : Rates, watts : IF Objective = "efficiency" THEN Powers ELSE {None}] :
            LET c == ConfigOf(trial) IN
            results' = [x \in DOMAIN results \union {c} |-> IF x = c THEN r ELSE results[x]]
      BY <2>4 DEF Measured
    <3> DEFINE c == ConfigOf(trial)
    <3>2. r \in Results
      BY DEF Results
    <3>3. trial < Trials
      BY <2>4 DEF Measured, SweepInv
    <3>4. c \in Configs
      BY <3>3, ConfigTyped DEF TuneTypeOK
    <3>5. DOMAIN results' = DOMAIN results \union {c}
      BY <3>1
    <3>6. \A x \in DOMAIN results' : results'[x] = IF x = c THEN r ELSE results[x]
      BY <3>1, <3>5
    <3>7. DOMAIN results' \subseteq Configs /\ \A x \in DOMAIN results' : results'[x] \in Results
      BY <3>2, <3>4, <3>5, <3>6 DEF TuneTypeOK
    <3> QED  BY <2>4, <3>7 DEF Measured, Forget, TuneTypeOK
  <2>5. CASE Reaped
    BY <2>5 DEF Reaped, TuneTypeOK
  <2>6. CASE KillTrial \/ SweepEnds
    BY <2>6 DEF KillTrial, SweepEnds, TuneTypeOK
  <2>7. CASE Interrupt
    BY <2>7 DEF Interrupt, StopTrial, TuneTypeOK
  <2>8. CASE BeginWrite
    BY <2>8 DEF BeginWrite, TuneTypeOK
  <2>9. CASE EndWrite
    <3>1. profile' \in Configs \X Results
      BY <2>0, <2>9 DEF EndWrite, TuneTypeOK
    <3> QED  BY <2>9, <3>1, DoneTyped DEF EndWrite
  <2>10. CASE TuneKilled
    BY <2>10, DoneTyped DEF TuneKilled, TuneTypeOK
  <2> QED
    BY <2>1, <2>2, <2>3, <2>4, <2>5, <2>6, <2>7, <2>8, <2>9, <2>10
    DEF TuneStep, SweepStep
<1> QED  BY <1>1, <1>2, <1>3, <1>4

\* What the log has said is no more than what was counted.
LEMMA SaidTyped ==
  ASSUME DashAssumption, GuiTypeOK
  PROVE  /\ Said \in Counters
         /\ Said.accepted = counted.accepted /\ Said.blocks = counted.blocks
         /\ Said.rejected + raised = counted.rejected
         /\ Leq(Said, counted)
BY DEF DashAssumption, GuiTypeOK, Said, Counters, Leq

LEMMA GuiTyped ==
  ASSUME TuneAssumption, DashAssumption, NoneAssumption, TypeOK, OffInv, LogInv,
         GuiMoves(GuiStep)
  PROVE  TypeOK'
<1> USE DEF TypeOK, groupVars, tuneVars
<1>1. /\ program = "gui" /\ program' \in {"gui", "none"}
      /\ program' = "gui" <=> gui_pc' # "off"
  <2>1. program = "gui"
    BY DEF GuiMoves, GuiStep, MinerLogs, PumpStep, PumpLine, PumpEnds, PumpBreaks, MainStep,
       SetHandlers, ShutdownKills, MinerGone, Shutdown, GuiKilled, GuiTypeOK, OffInv
  <2>2. \/ program' = program /\ gui_pc' \in {gui_pc, "wait", "handler"}
        \/ program' = "none" /\ gui_pc' = "off"
    BY DEF GuiMoves, GuiStep, MinerLogs, PumpStep, PumpLine, PumpEnds, PumpBreaks, MainStep,
       SetHandlers, ShutdownKills, MinerGone, Shutdown, GuiKilled, GuiExits
  <2> QED  BY <2>1, <2>2 DEF GuiTypeOK
<1>2. TuneTypeOK'
  BY <1>1 DEF GuiMoves, TuneTypeOK
<1>3. (settings \in Configs \union {None})' /\ (settings # None <=> program = "gui")'
  BY <1>1 DEF GuiMoves
<1>4. GroupTypeOK'
  <2>1. miner' \in {miner, NoMiner, Terminated(miner)}
    BY DEF GuiMoves, GuiStep, MinerLogs, PumpStep, PumpLine, PumpEnds, PumpBreaks,
       MainStep, SetHandlers, ShutdownKills, MinerGone, Shutdown, GuiKilled, Forget
  <2>2. stray' \in {stray, stray \union Left(miner)}
    BY DEF GuiMoves, GuiStep, MinerLogs, PumpStep, PumpLine, PumpEnds, PumpBreaks,
       MainStep, SetHandlers, ShutdownKills, MinerGone, Shutdown, GuiKilled, Forget
  <2>3. abandoned' \in {abandoned, abandoned \/ Runs(miner)}
    BY DEF GuiMoves, GuiStep, MinerLogs, PumpStep, PumpLine, PumpEnds, PumpBreaks,
       MainStep, SetHandlers, ShutdownKills, MinerGone, Shutdown, GuiKilled
  <2>4. miner' \in Group
    BY <2>1, GroupTyped DEF GroupTypeOK
  <2>5. stray' \subseteq {"miner", "solver"}
    BY <2>2, GroupTyped DEF GroupTypeOK
  <2>6. abandoned' \in BOOLEAN
    BY <2>3 DEF GroupTypeOK, Runs
  <2> QED  BY <1>1, <2>4, <2>5, <2>6 DEF GroupTypeOK
<1>5. GuiTypeOK'
  <2>1. CASE MinerLogs
    <3> DEFINE a == counted.accepted  r == counted.rejected  k == counted.blocks
    <3>1. /\ a \in 0..MaxShares /\ r \in 0..MaxShares /\ k \in 0..MaxShares
          /\ a + r < MaxShares /\ k <= a /\ MaxShares \in Nat /\ raised \in 0..r
          /\ counted = [accepted |-> a, rejected |-> r, blocks |-> k]
      BY <2>1 DEF MinerLogs, GuiTypeOK, Counters, LogInv, DashAssumption
    <3>2. /\ counted' \in Counters /\ raised' \in 0..counted'.rejected
          /\ \E x \in Line : pipe' = Append(pipe, x)
      <4>1. CASE SubmitRaises
        <5>1. Said \in Counters
          BY SaidTyped
        <5> HIDE DEF a, r, k
        <5>2. counted' = [accepted |-> a, rejected |-> r + 1, blocks |-> k]
                /\ raised' = raised + 1
          BY <3>1, <4>1 DEF SubmitRaises
        <5>3. [kind |-> "RAISED", n |-> Said] \in Line
          BY <5>1 DEF Line
        <5> QED  BY <3>1, <4>1, <5>2, <5>3 DEF SubmitRaises, Counters
      <4>2. CASE Verdict
        <5> HIDE DEF a, r, k
        <5>1. PICK j \in {"OK", "REJECTED"}, c \in Counters :
                /\ counted' = c /\ raised' = 0
                /\ pipe' = Append(pipe, [kind |-> j, n |-> c])
          <6>1. ASSUME NEW b \in {0, 1},
                       counted' = [counted EXCEPT !.accepted = @ + 1, !.blocks = @ + b]
                PROVE  counted' \in Counters
            <7>1. counted' = [accepted |-> a + 1, rejected |-> r, blocks |-> k + b]
              BY <3>1, <6>1
            <7> QED  BY <3>1, <7>1 DEF Counters
          <6>2. ASSUME counted' = [counted EXCEPT !.rejected = @ + 1]
                PROVE  counted' \in Counters
            <7>1. counted' = [accepted |-> a, rejected |-> r + 1, blocks |-> k]
              BY <3>1, <6>2
            <7> QED  BY <3>1, <7>1 DEF Counters
          <6> QED  BY <4>2, <6>1, <6>2 DEF Verdict
        <5>2. [kind |-> j, n |-> c] \in Line
          BY DEF Line
        <5>3. raised' \in 0..counted'.rejected
          BY <5>1, <3>1 DEF Counters
        <5> QED  BY <5>1, <5>2, <5>3
      <4> QED  BY <2>1, <4>1, <4>2 DEF MinerLogs
    <3> HIDE DEF a, r, k
    <3>5. pipe' \in Seq(Line) /\ Len(pipe') = Len(pipe) + 1
      BY <3>2 DEF GuiTypeOK
    <3> QED  BY <1>1, <2>1, <3>2, <3>5 DEF MinerLogs, GuiTypeOK, DashAssumption
  <2>2. CASE PumpLine \/ PumpBreaks
    <3>1. pipe # << >> /\ pipe' = Tail(pipe)
      BY <2>2 DEF PumpLine, PumpBreaks
    <3>2. Head(pipe) \in Line /\ pipe' \in Seq(Line) /\ Len(pipe') = Len(pipe) - 1
      BY <3>1 DEF GuiTypeOK
    <3>3. shown' \in Counters
      BY <2>2, <3>2 DEF PumpLine, PumpBreaks, FeedLine, GuiTypeOK, Line, Counters
    <3> QED  BY <1>1, <2>2, <3>2, <3>3 DEF PumpLine, PumpBreaks, GuiTypeOK, DashAssumption
  <2>3. CASE PumpEnds \/ SetHandlers \/ Shutdown
    BY <1>1, <2>3 DEF PumpEnds, SetHandlers, Shutdown, GuiTypeOK
  <2>4. CASE ShutdownKills \/ MinerGone \/ GuiKilled
    <3>1. GuiExits
      BY <2>4 DEF ShutdownKills, MinerGone, GuiKilled
    <3>2. /\ Zero \in Counters /\ << >> \in Seq(Line) /\ Len(<< >>) = 0
          /\ 0 \in 0..Zero.rejected
      BY DEF Zero, Counters, DashAssumption
    <3> QED  BY <1>1, <3>1, <3>2 DEF GuiExits, GuiTypeOK, DashAssumption
  <2> QED
    BY <2>1, <2>2, <2>3, <2>4 DEF GuiMoves, GuiStep, PumpStep, MainStep
<1> QED  BY <1>1, <1>2, <1>3, <1>4, <1>5

LEMMA LauncherTyped ==
  ASSUME TuneAssumption, DashAssumption, NoneAssumption, TypeOK,
         LaunchTune \/ LaunchGui \/ Processes
  PROVE  TypeOK'
<1> USE DEF TypeOK, groupVars, tuneVars, guiVars
<1>1. CASE LaunchTune
  BY <1>1 DEF LaunchTune, GroupTypeOK, TuneTypeOK, GuiTypeOK
<1>2. CASE LaunchGui
  <2>1. settings' \in Configs /\ settings' # None
    BY <1>2 DEF LaunchGui, Profiled, TuneTypeOK, Default, Configs, NoneAssumption
  <2>2. GroupTypeOK'
    BY <1>2, GroupTyped DEF LaunchGui, StartMiner, GroupTypeOK
  <2>3. TuneTypeOK' /\ GuiTypeOK'
    BY <1>2 DEF LaunchGui, TuneTypeOK, GuiTypeOK
  <2> QED  BY <1>2, <2>1, <2>2, <2>3 DEF LaunchGui
<1>3. CASE Processes
  <2>1. GroupTypeOK'
    <3>1. miner' \in Group
      BY <1>3 DEF Processes, GroupMoves, StrayMoves, SolverRuns, LeaderDies, SolverFollows,
         GroupTypeOK, Group
    <3>2. stray' \subseteq {"miner", "solver"}
      BY <1>3 DEF Processes, GroupMoves, StrayMoves, GroupTypeOK
    <3> QED  BY <1>3, <3>1, <3>2 DEF Processes, GroupMoves, StrayMoves, GroupTypeOK
  <2>2. TuneTypeOK' /\ GuiTypeOK'
    BY <1>3 DEF Processes, GroupMoves, StrayMoves, TuneTypeOK, GuiTypeOK
  <2> QED  BY <1>3, <2>1, <2>2 DEF Processes, GroupMoves, StrayMoves
<1> QED  BY <1>1, <1>2, <1>3

-----------------------------------------------------------------------------
(***************************************************************************)
(* The log.                                                                *)
(***************************************************************************)

\* Whatever leaves the dashboard's own variables alone keeps its invariants.
LEMMA DashboardKept ==
  ASSUME UNCHANGED guiVars, LogInv, OffInv
  PROVE  LogInv' /\ OffInv'
BY DEF guiVars, LogInv, OffInv, Leq, Before, Said

\* A dashboard that ends leaves no log.
LEMMA ExitKeeps ==
  ASSUME GuiExits
  PROVE  LogInv' /\ OffInv'
<1>1. Len(<< >>) = 0
  OBVIOUS
<1> QED  BY <1>1 DEF GuiExits, LogInv, OffInv, Leq, Before, Said, Zero

\* Counters that follow one another.
LEMMA LeqTransitive ==
  ASSUME DashAssumption, NEW p \in Counters, NEW q \in Counters, NEW r \in Counters,
         Leq(p, q), Leq(q, r)
  PROVE  Leq(p, r)
BY DEF DashAssumption, Counters, Leq

LEMMA LeqReflexive ==
  ASSUME DashAssumption, NEW p \in Counters
  PROVE  Leq(p, p)
BY DEF DashAssumption, Counters, Leq

\* The counters in the log are counters.
LEMMA LogTyped ==
  ASSUME GuiTypeOK
  PROVE  /\ pipe \in Seq(Line) /\ Len(pipe) \in Nat
         /\ \A i \in 1..Len(pipe) : pipe[i] \in Line /\ pipe[i].n \in Counters
<1>1. pipe \in Seq(Line)
  BY DEF GuiTypeOK
<1>2. \A x \in Line : x.n \in Counters
  BY DEF Line
<1> QED  BY <1>1, <1>2

\* A verdict or a submission that raised, as a line of what is said after it.
LEMMA MinerSays ==
  ASSUME DashAssumption, GuiTypeOK, GuiTypeOK', LogInv, MinerLogs
  PROVE  \E k \in {"OK", "REJECTED", "RAISED"} :
           /\ pipe' = Append(pipe, [kind |-> k, n |-> Said'])
           /\ k = "REJECTED" => Said'.blocks = Said.blocks
           /\ k = "RAISED" => Said' = Said
           /\ Leq(Said, Said') /\ counted'.blocks <= counted'.accepted
<1> DEFINE a == counted.accepted  r == counted.rejected  k == counted.blocks
<1>1. /\ a \in Nat /\ r \in Nat /\ k \in Nat /\ raised \in 0..r /\ k <= a
      /\ counted = [accepted |-> a, rejected |-> r, blocks |-> k]
  BY DEF GuiTypeOK, Counters, LogInv, DashAssumption
<1>2. Said = [accepted |-> a, rejected |-> r - raised, blocks |-> k]
  BY <1>1 DEF Said
<1>3. ASSUME NEW b \in {0, 1}, raised' = 0,
             counted' = [counted EXCEPT !.accepted = @ + 1, !.blocks = @ + b],
             pipe' = Append(pipe, [kind |-> "OK", n |-> counted'])
      PROVE  /\ pipe' = Append(pipe, [kind |-> "OK", n |-> Said'])
             /\ Leq(Said, Said') /\ counted'.blocks <= counted'.accepted
  <2>1. /\ counted' = [accepted |-> a + 1, rejected |-> r, blocks |-> k + b]
        /\ raised' = 0 /\ b \in {0, 1}
    BY <1>1, <1>3
  <2> HIDE DEF a, r, k
  <2>2. Said' = counted'
    BY <1>1, <2>1 DEF Said
  <2>3. Leq(Said, Said') /\ counted'.blocks <= counted'.accepted
    BY <1>1, <1>2, <2>1, <2>2 DEF Leq
  <2> QED  BY <1>3, <2>2, <2>3
<1>4. ASSUME raised' = 0, counted' = [counted EXCEPT !.rejected = @ + 1],
             pipe' = Append(pipe, [kind |-> "REJECTED", n |-> counted'])
      PROVE  /\ pipe' = Append(pipe, [kind |-> "REJECTED", n |-> Said'])
             /\ Said'.blocks = Said.blocks
             /\ Leq(Said, Said') /\ counted'.blocks <= counted'.accepted
  <2> HIDE DEF a, r, k
  <2>1. counted' = [accepted |-> a, rejected |-> r + 1, blocks |-> k]
    BY <1>1, <1>4
  <2>2. Said' = counted'
    BY <1>1, <1>4, <2>1 DEF Said
  <2> QED  BY <1>1, <1>2, <1>4, <2>1, <2>2 DEF Leq
<1>5. CASE SubmitRaises
  <2> HIDE DEF a, r, k
  <2>1. /\ counted' = [accepted |-> a, rejected |-> r + 1, blocks |-> k]
        /\ raised' = raised + 1
    BY <1>1, <1>5 DEF SubmitRaises
  <2>2. Said' = Said
    BY <1>1, <1>2, <2>1 DEF Said
  <2> QED  BY <1>1, <1>2, <1>5, <2>1, <2>2 DEF SubmitRaises, Leq
<1> QED  BY <1>3, <1>4, <1>5 DEF MinerLogs, Verdict

LEMMA MinerLogsKeeps ==
  ASSUME DashAssumption, GuiTypeOK, GuiTypeOK', LogInv, MinerLogs
  PROVE  LogInv'
<1> DEFINE L == Len(pipe)
<1>1. PICK k \in {"OK", "REJECTED", "RAISED"} :
        /\ pipe' = Append(pipe, [kind |-> k, n |-> Said'])
        /\ k = "REJECTED" => Said'.blocks = Said.blocks
        /\ k = "RAISED" => Said' = Said
        /\ Leq(Said, Said') /\ counted'.blocks <= counted'.accepted
  BY MinerSays
<1>2. L \in Nat /\ \A i \in 1..L : pipe[i] \in Line /\ pipe[i].n \in Counters
  BY LogTyped
<1>3. /\ Len(pipe') = L + 1 /\ pipe' # << >>
      /\ pipe'[L + 1] = [kind |-> k, n |-> Said']
      /\ \A i \in 1..L : pipe'[i] = pipe[i]
  BY <1>1, LogTyped
<1>4. Said \in Counters /\ Said' \in Counters /\ shown \in Counters
  <2>1. /\ counted'.accepted \in 0..MaxShares /\ counted'.blocks \in 0..MaxShares
        /\ counted'.rejected \in 0..MaxShares /\ raised' \in 0..counted'.rejected
    BY DEF GuiTypeOK, Counters
  <2>2. counted'.rejected - raised' \in 0..MaxShares
    BY <2>1 DEF DashAssumption
  <2>3. Said' \in Counters
    BY <2>1, <2>2 DEF Said, Counters
  <2> QED  BY <2>3, SaidTyped DEF GuiTypeOK
<1>6. shown' = shown /\ pump' = pump
  BY DEF MinerLogs
<1>7. Leq(shown, Said') /\ \A i \in 1..L : Leq(pipe[i].n, Said')
  BY <1>1, <1>2, <1>4, LeqTransitive DEF LogInv
<1>8. \A i \in 1..Len(pipe') : Leq(shown', pipe'[i].n) /\ Leq(pipe'[i].n, Said')
  BY <1>2, <1>3, <1>4, <1>6, <1>7, LeqReflexive DEF LogInv
<1>9. \A i, j \in 1..Len(pipe') : i <= j => Leq(pipe'[i].n, pipe'[j].n)
  BY <1>2, <1>3, <1>4, <1>7, LeqReflexive DEF LogInv
<1>10. ASSUME pump' # "broken", NEW i \in 1..Len(pipe')
       PROVE  /\ pipe'[i].kind = "REJECTED" => pipe'[i].n.blocks = Before(i)'.blocks
              /\ pipe'[i].kind = "RAISED" => pipe'[i].n = Before(i)'
  <2>1. CASE i <= L
    <3>1. pipe'[i] = pipe[i] /\ Before(i)' = Before(i)
      BY <1>2, <1>3, <1>6, <1>10, <2>1 DEF Before
    <3> QED  BY <1>2, <1>3, <1>6, <1>10, <2>1, <3>1 DEF LogInv
  <2>2. CASE i = L + 1
    <3>1. pipe'[i].kind = k /\ pipe'[i].n = Said'
      BY <1>3, <2>2
    <3>2. Before(i)' = Said
      BY <1>2, <1>3, <1>6, <1>10, <2>2, LogTyped DEF LogInv, Before
    <3> QED  BY <1>1, <3>1, <3>2
  <2> QED  BY <1>2, <1>3, <2>1, <2>2
<1> QED  BY <1>1, <1>2, <1>3, <1>7, <1>6, <1>8, <1>9, <1>10 DEF LogInv

LEMMA PumpKeeps ==
  ASSUME DashAssumption, GuiTypeOK, LogInv, PumpLine \/ PumpBreaks
  PROVE  LogInv'
<1> DEFINE L == Len(pipe)
<1>1. L \in Nat /\ \A i \in 1..L : pipe[i] \in Line /\ pipe[i].n \in Counters
  BY LogTyped
<1>2. /\ L > 0 /\ Len(pipe') = L - 1 /\ Head(pipe) = pipe[1]
      /\ \A i \in 1..(L - 1) : pipe'[i] = pipe[i + 1]
  BY LogTyped DEF PumpLine, PumpBreaks
<1>3. counted' = counted /\ Said' = Said /\ shown \in Counters
  BY DEF PumpLine, PumpBreaks, GuiTypeOK, Said
<1>4. CASE PumpBreaks
  BY <1>1, <1>2, <1>3, <1>4 DEF PumpBreaks, LogInv
<1>5. CASE PumpLine
  <2>1. pump = "run" /\ pump' = "run"
    BY <1>5 DEF PumpLine
  <2>2. shown' = pipe[1].n
    <3>1. CASE pipe[1].kind = "OK"
      BY <1>2, <1>5, <3>1 DEF PumpLine, FeedLine
    <3>2. CASE pipe[1].kind = "REJECTED"
      <4>1. pipe[1].n.blocks = shown.blocks
        BY <1>1, <1>2, <2>1, <3>2 DEF LogInv, Before
      <4>2. shown' = [shown EXCEPT !.accepted = pipe[1].n.accepted,
                                   !.rejected = pipe[1].n.rejected]
        BY <1>2, <1>5, <3>2 DEF PumpLine, FeedLine
      <4>3. pipe[1].n \in Counters
        BY <1>1, <1>2
      <4> QED  BY <1>3, <4>1, <4>2, <4>3 DEF Counters
    <3>3. CASE pipe[1].kind = "RAISED"
      <4>1. pipe[1].n = shown
        BY <1>1, <1>2, <2>1, <3>3 DEF LogInv, Before
      <4> QED  BY <1>2, <1>5, <3>3, <4>1 DEF PumpLine, FeedLine
    <3> QED  BY <1>1, <1>2, <3>1, <3>2, <3>3 DEF Line
  <2>3. Leq(shown', Said') /\ \A i \in 1..(L - 1) : Leq(shown', pipe[i + 1].n)
    BY <1>1, <1>2, <1>3, <2>2 DEF LogInv
  <2>4. ASSUME NEW i \in 1..(L - 1)
        PROVE  /\ pipe'[i].kind = "REJECTED" => pipe'[i].n.blocks = Before(i)'.blocks
               /\ pipe'[i].kind = "RAISED" => pipe'[i].n = Before(i)'
    <3>1. i + 1 \in 1..L /\ pipe'[i] = pipe[i + 1]
      BY <1>1, <1>2, <2>4
    <3>2. Before(i + 1) = pipe[i].n
      BY <1>1 DEF Before
    <3>3. Before(i)' = pipe[i].n
      <4>1. CASE i = 1
        BY <2>2, <4>1 DEF Before
      <4>2. CASE i # 1
        <5>1. i - 1 \in 1..(L - 1)
          BY <1>1, <4>2
        <5>2. pipe'[i - 1] = pipe[i]
          BY <1>1, <1>2, <5>1
        <5> QED  BY <4>2, <5>2 DEF Before
      <4> QED  BY <4>1, <4>2
    <3> QED  BY <2>1, <3>1, <3>2, <3>3 DEF LogInv
  <2>5. IF pipe' = << >> THEN shown' = Said' ELSE pipe'[Len(pipe')].n = Said'
    <3>1. pipe[L].n = Said
      BY <1>1, <1>2, <2>1 DEF LogInv
    <3>2. pipe' = << >> => L = 1
      BY <1>1, <1>2
    <3>3. pipe' # << >> => L - 1 \in 1..(L - 1)
      BY <1>1, <1>2, <1>5, LogTyped DEF PumpLine
    <3> QED  BY <1>1, <1>2, <1>3, <2>2, <3>1, <3>2, <3>3
  <2>6. \A i \in 1..Len(pipe') : Leq(shown', pipe'[i].n) /\ Leq(pipe'[i].n, Said')
    <3>1. ASSUME NEW i \in 1..(L - 1)
          PROVE  Leq(shown', pipe[i + 1].n) /\ Leq(pipe[i + 1].n, Said)
      <4>1. i + 1 \in 1..L
        BY <1>1
      <4> QED  BY <2>3, <4>1 DEF LogInv
    <3> QED  BY <1>1, <1>2, <1>3, <3>1
  <2>7. \A i, j \in 1..Len(pipe') : i <= j => Leq(pipe'[i].n, pipe'[j].n)
    <3>1. ASSUME NEW i \in 1..(L - 1), NEW j \in 1..(L - 1), i <= j
          PROVE  Leq(pipe[i + 1].n, pipe[j + 1].n)
      <4>1. i + 1 \in 1..L /\ j + 1 \in 1..L /\ i + 1 <= j + 1
        BY <1>1, <3>1
      <4> QED  BY <4>1 DEF LogInv
    <3> QED  BY <1>1, <1>2, <3>1
  <2>8. counted'.blocks <= counted'.accepted
    BY <1>3 DEF LogInv
  <2> QED  BY <1>2, <2>3, <2>4, <2>5, <2>6, <2>7, <2>8 DEF LogInv
<1> QED  BY <1>4, <1>5

\* Steps that are not the dashboard's: they leave its variables alone, or start
\* it, with a miner, from nothing.
LEMMA OthersKeep ==
  ASSUME TypeOK, LogInv, OffInv,
         \/ LaunchTune \/ LaunchGui \/ Processes
         \/ TuneStep /\ UNCHANGED <<guiVars, settings>>
         \/ UNCHANGED vars
  PROVE  LogInv' /\ OffInv'
<1>1. CASE LaunchGui
  <2>1. /\ gui_pc = "off" /\ gui_pc' = "boot" /\ pump' = "run"
        /\ UNCHANGED <<pipe, counted, raised, shown>>
    BY <1>1 DEF LaunchGui, TypeOK, GuiTypeOK
  <2>2. pump # "broken"
    BY <2>1 DEF OffInv
  <2>3. LogInv'
    BY <2>1, <2>2 DEF LogInv, Leq, Before, Said
  <2> QED  BY <2>1, <2>3 DEF OffInv
<1>2. CASE ~LaunchGui
  <2>1. UNCHANGED guiVars
    BY <1>2 DEF LaunchTune, Processes, vars
  <2> QED  BY <2>1, DashboardKept
<1> QED  BY <1>1, <1>2

LEMMA GuiKeeps ==
  ASSUME DashAssumption, TypeOK, TypeOK', LogInv, OffInv, GuiMoves(GuiStep)
  PROVE  LogInv' /\ OffInv'
<1> USE DEF TypeOK
<1>1. CASE MinerLogs
  BY <1>1, MinerLogsKeeps DEF MinerLogs, OffInv, GuiTypeOK
<1>2. CASE PumpLine \/ PumpBreaks
  <2>1. pump = "run" /\ gui_pc' = gui_pc
    BY <1>2 DEF PumpLine, PumpBreaks
  <2> QED  BY <1>2, <2>1, PumpKeeps DEF OffInv
<1>3. CASE PumpEnds
  <2>1. /\ pump = "run" /\ gui_pc' = gui_pc /\ pump' = "ended"
        /\ UNCHANGED <<pipe, counted, raised, shown>>
    BY <1>3 DEF PumpEnds
  <2>2. LogInv'
    BY <2>1 DEF LogInv, Leq, Before, Said
  <2> QED  BY <2>1, <2>2 DEF OffInv
<1>4. CASE SetHandlers \/ Shutdown
  <2>1. gui_pc' # "off" /\ UNCHANGED <<pump, pipe, counted, raised, shown>>
    BY <1>4 DEF SetHandlers, Shutdown
  <2>2. LogInv'
    BY <2>1 DEF LogInv, Leq, Before, Said
  <2> QED  BY <2>1, <2>2 DEF OffInv
<1>5. CASE ShutdownKills \/ MinerGone \/ GuiKilled
  BY <1>5, ExitKeeps DEF ShutdownKills, MinerGone, GuiKilled
<1> QED
  BY <1>1, <1>2, <1>3, <1>4, <1>5 DEF GuiMoves, GuiStep, PumpStep, MainStep

-----------------------------------------------------------------------------
(***************************************************************************)
(* The miner and what is left of it.                                       *)
(***************************************************************************)

\* A miner that is gone leaves no miner behind.
LEMMA DeadLeavesNone ==
  ASSUME MinerStopsWithParent, Forget, miner.leader = "dead", UNCHANGED abandoned
  PROVE  MinerStopsWithParent'
BY DEF MinerStopsWithParent, Forget, Left, Runs

\* Who is gone too early is known for it.
LEMMA AbandonedIsKnown ==
  ASSUME GroupTypeOK, MinerStopsWithParent, Forget, abandoned' = (abandoned \/ Runs(miner))
  PROVE  MinerStopsWithParent'
BY DEF GroupTypeOK, MinerStopsWithParent, Forget, Left

LEMMA MinerKept ==
  ASSUME TypeOK, MinerStopsWithParent, [Next]_vars
  PROVE  MinerStopsWithParent'
<1> USE DEF TypeOK, groupVars, guiVars
<1>1. CASE UNCHANGED <<stray, abandoned>>
  BY <1>1 DEF MinerStopsWithParent
<1>2. CASE Measured \/ Reaped \/ MinerGone
  BY <1>2, DeadLeavesNone DEF Measured, Reaped, MinerGone
<1>3. CASE TuneKilled \/ GuiKilled
  BY <1>3, AbandonedIsKnown DEF TuneKilled, GuiKilled
<1>4. CASE Interrupt
  <2>1. \/ UNCHANGED <<stray, abandoned>>
        \/ Forget /\ abandoned' = (abandoned \/ Runs(miner))
    BY <1>4 DEF Interrupt
  <2> QED  BY <1>1, <2>1, AbandonedIsKnown
<1>5. CASE StrayMoves
  BY <1>5 DEF StrayMoves, MinerStopsWithParent, GroupTypeOK
<1>6. \/ UNCHANGED <<stray, abandoned>>
      \/ Measured \/ Reaped \/ MinerGone \/ TuneKilled \/ GuiKilled \/ Interrupt \/ StrayMoves
  BY DEF Next, LaunchTune, LaunchGui, Processes, GroupMoves, TuneStep, SweepStep,
     Compare, BeginTrial, EndWindow, KillTrial, SweepEnds, BeginWrite, EndWrite,
     GuiMoves, GuiStep, MinerLogs, PumpStep, PumpLine, PumpEnds, PumpBreaks, MainStep,
     SetHandlers, ShutdownKills, Shutdown, vars
<1> QED  BY <1>1, <1>2, <1>3, <1>4, <1>5, <1>6

-----------------------------------------------------------------------------
(***************************************************************************)
(* The sweep.                                                              *)
(***************************************************************************)

\* Nothing was tried.
LEMMA DoneKeeps ==
  ASSUME TuneDone
  PROVE  BestInv' /\ SweepInv'
<1>1. DOMAIN results' = {}
  BY DEF TuneDone
<1> QED  BY <1>1 DEF TuneDone, BestInv, SweepInv

\* A trial is compared, be it new or remembered.
LEMMA CompareKeeps ==
  ASSUME TuneAssumption, TuneTypeOK, BestInv, Compare
  PROVE  BestInv'
<1> DEFINE c == ConfigOf(trial)  r == results[c]
<1>1. c \in DOMAIN results /\ Judge(c, r) /\ results' = results
  BY DEF Compare
<1>2. \A x \in DOMAIN results : Score(results[x]) \in Nat \X (Nat \ {0})
  BY ScoreTyped DEF TuneTypeOK
<1>3. ~Above(Score(r), Score(r))
  BY <1>1, <1>2 DEF Above
<1>4. \A x \in DOMAIN results : Unjudged(x) => x = c
  BY DEF Unjudged
<1> HIDE DEF c, r
<1>5. CASE best_score = <<-1, 1>> /\ \A x \in DOMAIN results : Unjudged(x)
  <2>1. Above(Score(r), best_score)
    <3>1. PICK a \in Nat, b \in Nat \ {0} : Score(r) = <<a, b>>
      BY <1>1, <1>2 DEF r
    <3> QED  BY <1>5, <3>1 DEF Above
  <2>2. best' = c /\ best_score' = Score(r) /\ \A x \in DOMAIN results : x = c
    BY <1>1, <1>4, <1>5, <2>1 DEF Judge
  <2> QED  BY <1>1, <1>3, <2>2 DEF BestInv, Score, Above, r
<1>6. CASE /\ best \in DOMAIN results /\ best_score = Score(results[best])
           /\ \A x \in DOMAIN results : Unjudged(x) \/ ~Above(Score(results[x]), best_score)
  <2>1. CASE Above(Score(r), best_score)
    <3>1. best' = c /\ best_score' = Score(r)
      BY <1>1, <2>1 DEF Judge
    <3>2. \A x \in DOMAIN results : ~Above(Score(results[x]), Score(r))
      <4> SUFFICES ASSUME NEW x \in DOMAIN results
                   PROVE  ~Above(Score(results[x]), Score(r))
        OBVIOUS
      <4>1. CASE x = c
        BY <1>3, <4>1 DEF r
      <4>2. CASE x # c
        <5>1. ~Above(Score(results[x]), best_score)
          BY <1>4, <1>6, <4>2
        <5>2. /\ Score(results[x]) \in Nat \X (Nat \ {0}) /\ Score(r) \in Nat \X (Nat \ {0})
              /\ best_score \in Nat \X (Nat \ {0})
          BY <1>1, <1>2, <1>6 DEF r
        <5> QED  BY <2>1, <5>1, <5>2, AboveTransitive
      <4> QED  BY <4>1, <4>2
    <3> QED  BY <1>1, <3>1, <3>2 DEF BestInv, Score, Above, r
  <2>2. CASE ~Above(Score(r), best_score)
    <3>1. best' = best /\ best_score' = best_score
      BY <1>1, <2>2 DEF Judge
    <3>2. \A x \in DOMAIN results : ~Above(Score(results[x]), best_score)
      BY <1>4, <1>6, <2>2 DEF r
    <3> QED  BY <1>1, <1>6, <3>1, <3>2 DEF BestInv, Score, Above
  <2> QED  BY <2>1, <2>2
<1> QED  BY <1>5, <1>6 DEF BestInv

\* A trial is recorded: it is the one that was not compared.
LEMMA RecordKeeps ==
  ASSUME TuneTypeOK, BestInv, SweepInv, Measured
  PROVE  BestInv'
<1> DEFINE c == ConfigOf(trial)
<1>1. PICK r \in [nps : Rates, watts : IF Objective = "efficiency" THEN Powers ELSE {None}] :
        results' = [x \in DOMAIN results \union {c} |-> IF x = c THEN r ELSE results[x]]
  BY DEF Measured
<1>2. trial < Trials /\ c \notin DOMAIN results
  BY DEF Measured, SweepInv
<1>3. UNCHANGED <<best, best_score, trial>>
  BY DEF Measured
<1>4. DOMAIN results' = DOMAIN results \union {c}
        /\ \A x \in DOMAIN results : results'[x] = results[x]
  BY <1>1, <1>2
<1>5. trial' < Trials /\ ConfigOf(trial)' = c
  BY <1>2, <1>3 DEF ConfigOf
<1> HIDE DEF c
<1>6. CASE best_score = <<-1, 1>> /\ \A x \in DOMAIN results : Unjudged(x)
  <2>1. \A x \in DOMAIN results' : x = c
    BY <1>4, <1>6 DEF Unjudged, c
  <2> QED  BY <1>3, <1>5, <1>6, <2>1 DEF BestInv, Unjudged
<1>7. CASE /\ best \in DOMAIN results /\ best_score = Score(results[best])
           /\ \A x \in DOMAIN results : Unjudged(x) \/ ~Above(Score(results[x]), best_score)
  <2>1. \A x \in DOMAIN results' : x = c \/ ~Above(Score(results'[x]), best_score)
    BY <1>4, <1>7 DEF Unjudged, c
  <2>2. best \in DOMAIN results' /\ best_score = Score(results'[best])
    BY <1>4, <1>7
  <2> QED  BY <1>3, <1>5, <2>1, <2>2 DEF BestInv, Unjudged, Score, Above
<1> QED  BY <1>6, <1>7 DEF BestInv

LEMMA SweepKeeps ==
  ASSUME TuneAssumption, TypeOK, BestInv, SweepInv, [Next]_vars
  PROVE  BestInv' /\ SweepInv'
<1> USE DEF TypeOK, tuneVars
<1>1. CASE UNCHANGED tuneVars
  BY <1>1 DEF BestInv, SweepInv, Score, Above, ConfigOf, Unjudged
<1>2. CASE Compare
  BY <1>2, CompareKeeps DEF Compare, SweepInv
<1>3. CASE Measured
  BY <1>3, RecordKeeps DEF Measured, SweepInv
<1>4. CASE EndWrite \/ TuneKilled
  BY <1>4, DoneKeeps DEF EndWrite, TuneKilled
<1>5. CASE TuneStep /\ ~Compare /\ ~Measured /\ ~EndWrite /\ ~TuneKilled
  <2>1. UNCHANGED <<results, best, best_score, trial>>
    BY <1>5 DEF TuneStep, SweepStep, BeginTrial, EndWindow, Reaped, KillTrial, SweepEnds,
       BeginWrite, Interrupt
  <2>2. /\ tune_pc' \in {"measure", "reap"}
             => trial < Trials /\ ConfigOf(trial) \notin DOMAIN results
        /\ tune_pc' \in {"save", "write"} => interrupted' \/ trial = Trials
    BY <1>5 DEF TuneStep, SweepStep, BeginTrial, EndWindow, Reaped, KillTrial, SweepEnds,
       BeginWrite, Interrupt, StopTrial, SweepInv
  <2> QED  BY <2>1, <2>2 DEF BestInv, SweepInv, Score, Above, ConfigOf, Unjudged
<1>6. CASE LaunchTune
  BY <1>6 DEF LaunchTune, BestInv, SweepInv, Score, Above, ConfigOf, Unjudged
<1> QED
  BY <1>1, <1>2, <1>3, <1>4, <1>5, <1>6 DEF Next, LaunchGui, Processes, GuiMoves, vars

-----------------------------------------------------------------------------
(***************************************************************************)
(* Theorems.                                                               *)
(***************************************************************************)

LEMMA Initially ==
  ASSUME TuneAssumption, DashAssumption, NoneAssumption, Init
  PROVE  IInv
<1> USE DEF Init, GroupInit, TuneInit, TuneOff, GuiInit
<1>1. DOMAIN results = {} /\ Len(<< >>) = 0 /\ << >> \in Seq(Line)
  OBVIOUS
<1>2. GroupTypeOK
  BY DEF GroupTypeOK, Group, NoMiner
<1>3. TuneTypeOK
  <2>1. best \in Configs /\ best_score \in Int \X (Nat \ {0}) /\ trial \in 0..Trials
    BY DEF Default, Configs, TuneAssumption, Trials
  <2> QED  BY <1>1, <2>1 DEF TuneTypeOK
<1>4. GuiTypeOK /\ LogInv /\ OffInv
  BY <1>1 DEF GuiTypeOK, LogInv, OffInv, Leq, Before, Said, Zero, Counters, DashAssumption
<1>5. BestInv /\ SweepInv
  BY <1>1 DEF BestInv, SweepInv
<1> QED  BY <1>2, <1>3, <1>4, <1>5
         DEF IInv, TypeOK, MinerStopsWithParent

LEMMA Inductive ==
  ASSUME TuneAssumption, DashAssumption, NoneAssumption, IInv, [Next]_vars
  PROVE  IInv'
<1> USE DEF IInv
<1>1. TypeOK'
  <2>1. CASE UNCHANGED vars
    BY <2>1 DEF vars, groupVars, tuneVars, guiVars, TypeOK, GroupTypeOK, TuneTypeOK, GuiTypeOK
  <2> QED  BY <2>1, TuneTyped, GuiTyped, LauncherTyped DEF Next
<1>2. LogInv' /\ OffInv'
  BY <1>1, OthersKeep, GuiKeeps DEF Next
<1>3. BestInv' /\ SweepInv'
  BY SweepKeeps
<1>4. MinerStopsWithParent'
  BY MinerKept
<1> QED  BY <1>1, <1>2, <1>3, <1>4

THEOREM Invariant == Spec => []IInv
<1>1. Init => IInv
  BY Initially, TuneAssumption, DashAssumption, NoneAssumption
<1>2. IInv /\ [Next]_vars => IInv'
  BY Inductive, TuneAssumption, DashAssumption, NoneAssumption
<1> QED  BY <1>1, <1>2, PTL DEF Spec

\* Type correctness of the launcher and of what it starts.
THEOREM TypeCorrect == Spec => []TypeOK
<1>1. IInv => TypeOK
  BY DEF IInv
<1> QED  BY <1>1, Invariant, PTL

\* The dashboard shows what the miner counted, but for the submissions that have
\* raised since its last verdict, however long the log and the pipe
\* (_submit_share, State.feed_line).
THEOREM Shown == Spec => []ShownIsCounted
<1>1. ASSUME IInv PROVE ShownIsCounted
  <2> USE DEF IInv, TypeOK
  <2>1. shown \in Counters /\ counted \in Counters
    BY <1>1 DEF GuiTypeOK
  <2>2. Leq(shown, counted)
    BY <1>1, <2>1, SaidTyped, LeqTransitive, DashAssumption DEF LogInv
  <2>3. pipe = << >> /\ pump # "broken" => shown = Said
    BY <1>1 DEF LogInv
  <2> QED  BY <1>1, <2>2, <2>3, SaidTyped, DashAssumption DEF Leq, ShownIsCounted
<1> QED  BY <1>1, Invariant, PTL

\* Only a parent that was cut off leaves a miner running (_terminate_group, measure).
THEOREM StopsWithParent == Spec => []MinerStopsWithParent
<1>1. IInv => MinerStopsWithParent
  BY DEF IInv
<1> QED  BY <1>1, Invariant, PTL

\* The profile that is saved is the best of the trials, for any candidates and
\* any rates (the sweep in ember_tune.main).
THEOREM Best == Spec => BestIsSaved
<1>1. ASSUME IInv, [Next]_vars
      PROVE  [EndWrite => \A c \in DOMAIN results :
                LET s == profile'[2] IN
                Comparable(results[c], s)
                  => (interrupted /\ Unjudged(c))
                       \/ ~Above(Score(results[c]), Score(s))]_profile
  <2> SUFFICES ASSUME EndWrite, NEW c \in DOMAIN results, ~(interrupted /\ Unjudged(c))
               PROVE  ~Above(Score(results[c]), Score(profile'[2]))
    OBVIOUS
  <2>1. ~Unjudged(c)
    <3>1. trial = Trials => ~(trial < Trials)
      <4>1. Trials \in Nat
        BY TuneAssumption DEF TuneAssumption, Trials
      <4> QED  BY <4>1
    <3> QED  BY <1>1, <3>1 DEF IInv, SweepInv, EndWrite, Unjudged
  <2>2. best \in DOMAIN results /\ ~Above(Score(results[c]), Score(results[best]))
    BY <1>1, <2>1 DEF IInv, BestInv
  <2>3. profile'[2] = results[best]
    BY <2>2 DEF EndWrite
  <2> QED  BY <2>2, <2>3
<1> QED  BY <1>1, Invariant, PTL DEF Spec, BestIsSaved


\* What a dashboard shows never goes back: a line says no less than what is
\* shown, because the log counts up, and what it leaves out stays.
THEOREM Grows == Spec => ShownGrows
<1> DEFINE OneRun == program = "gui" /\ program' = "gui"
           NotLess == \A k \in DOMAIN shown : shown[k] <= shown'[k]
<1>1. IInv /\ [Next]_vars => [OneRun => NotLess]_<<groupVars, guiVars>>
  <2> SUFFICES ASSUME IInv, [Next]_vars, OneRun
               PROVE  NotLess
    OBVIOUS
  <2> USE DEF IInv, TypeOK
  <2>1. shown \in Counters /\ DOMAIN shown = {"accepted", "rejected", "blocks"}
    BY DEF GuiTypeOK, Counters
  <2>2. CASE UNCHANGED shown
    BY <2>1, <2>2, DashAssumption DEF Counters
  <2>3. CASE PumpLine
    <3> DEFINE line == pipe[1]
    <3>1. line \in Line /\ Leq(shown, line.n) /\ FeedLine(line)
      BY <2>3, LogTyped DEF PumpLine, LogInv
    <3>2. line.n \in Counters
      BY <3>1 DEF Line
    <3> HIDE DEF line
    <3>3. /\ shown'.accepted \in {line.n.accepted, shown.accepted}
          /\ shown'.rejected \in {line.n.rejected, shown.rejected}
          /\ shown'.blocks \in {line.n.blocks, shown.blocks}
      <4>1. CASE line.kind = "OK" \/ line.kind = "RAISED"
        BY <3>1, <4>1 DEF FeedLine
      <4>2. CASE line.kind = "REJECTED"
        BY <2>1, <3>1, <3>2, <4>2 DEF FeedLine, Counters
      <4> QED  BY <3>1, <4>1, <4>2 DEF Line
    <3> QED  BY <2>1, <3>1, <3>2, <3>3, DashAssumption DEF Leq, Counters, DashAssumption
  <2>4. UNCHANGED shown \/ PumpLine
    BY DEF Next, LaunchTune, LaunchGui, Processes, GroupMoves, StrayMoves, GuiMoves,
       GuiStep, MinerLogs, PumpStep, PumpEnds, PumpBreaks, MainStep, SetHandlers,
       ShutdownKills, MinerGone, Shutdown, GuiKilled, GuiExits, vars, guiVars
  <2> QED  BY <2>2, <2>3, <2>4
<1> QED  BY <1>1, Invariant, PTL DEF ShownGrows, Spec
=============================================================================
