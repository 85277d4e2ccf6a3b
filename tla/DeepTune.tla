------------------------------- MODULE DeepTune -------------------------------
(***************************************************************************)
(* gui/ember_tune.py: the sweep over batch sizes, then over worker counts, *)
(* one trial of the miner each, and the profile that it saves, whether it  *)
(* comes to its end or is interrupted.                                     *)
(*                                                                         *)
(* A trial's median rate and mean power are small numbers; which lines of  *)
(* the miner's log make them up is left open.                              *)
(***************************************************************************)
EXTENDS MinerGroup, Functions

CONSTANTS
  BatchCandidates, WorkerCandidates,   \* sequences
  DefaultBatch, DefaultWorkers,
  Objective,                           \* "throughput" or "efficiency"
  Rates,                               \* the rates a trial may measure
  Powers,                              \* the powers; None if none was read
  Torn                                 \* a profile that is not valid JSON

ASSUME TuneAssumption ==
  /\ BatchCandidates \in Seq(Range(BatchCandidates))
  /\ WorkerCandidates \in Seq(Range(WorkerCandidates))
  /\ Rates \subseteq Nat /\ 0 \in Rates
  /\ Powers \subseteq (Nat \ {0}) \union {None} /\ None \notin Nat
  /\ Objective \in {"throughput", "efficiency"}

VARIABLES
  tune_pc,       \* where main() is
  trial,         \* how many trials of the sweep have been judged
  results,       \* the trials that were run
  best,          \* the configuration that scored best
  best_score,
  interrupted,   \* Ctrl-C came: save what there is
  profile        \* ~/.ember/tune-<gfx>.json: None, Torn or a result

tuneVars == <<tune_pc, trial, results, best, best_score, interrupted>>

Trials == Len(BatchCandidates) + Len(WorkerCandidates)
Default == <<DefaultBatch, DefaultWorkers>>
Configs == (Range(BatchCandidates) \union {DefaultBatch})
             \X (Range(WorkerCandidates) \union {DefaultWorkers})
Results == [nps : Rates, watts : Powers \union {None}]
NoResult == [nps |-> 0, watts |-> None]

TuneTypeOK ==
  /\ tune_pc \in {"off", "next", "measure", "reap", "save", "write"}
  /\ tune_pc = "off" <=> program # "tune"
  /\ trial \in 0..Trials
  /\ DOMAIN results \subseteq Configs
  /\ \A c \in DOMAIN results : results[c] \in Results
  /\ best \in Configs
  /\ best_score \in Int \X (Nat \ {0})
  /\ interrupted \in BOOLEAN
  /\ profile \in {None, Torn} \union (Configs \X Results)

\* Scores are fractions.
TuneOff ==
  /\ tune_pc = "off" /\ trial = 0 /\ results = << >> /\ best = Default
  /\ best_score = <<-1, 1>> /\ interrupted = FALSE

TuneInit == TuneOff /\ profile = None

-----------------------------------------------------------------------------
\* The efficiency is in N/s per watt if power was read, in N/s if not.
Score(r) ==
  IF Objective = "efficiency" /\ r.watts # None
  THEN <<r.nps, r.watts>> ELSE <<r.nps, 1>>

Above(s, t) == s[1] * t[2] > t[1] * s[2]

\* Phase 1 at the default worker count, phase 2 at the batch size that won.
ConfigOf(n) ==
  IF n < Len(BatchCandidates) THEN <<BatchCandidates[n + 1], DefaultWorkers>>
  ELSE <<best[1], WorkerCandidates[n + 1 - Len(BatchCandidates)]>>

\* Mutant: the last trial wins.
JudgeLast(c, r) ==
  /\ best' = c /\ best_score' = Score(r)
  /\ trial' = trial + 1

\* `if sc > best_score`, after a trial.
Judge(c, r) ==
  /\ IF Above(Score(r), best_score)
     THEN best' = c /\ best_score' = Score(r)
     ELSE UNCHANGED <<best, best_score>>
  /\ trial' = trial + 1

\* The trial that was just recorded, or was remembered, is compared.
Compare ==
  LET c == ConfigOf(trial) IN
  /\ tune_pc = "next" /\ trial < Trials /\ c \in DOMAIN results
  /\ Judge(c, results[c])
  /\ UNCHANGED <<tune_pc, results, interrupted, profile, groupVars>>

BeginTrial ==
  /\ tune_pc = "next" /\ trial < Trials /\ ConfigOf(trial) \notin DOMAIN results
  /\ tune_pc' = "measure"
  /\ StartMiner
  /\ UNCHANGED <<trial, results, best, best_score, interrupted, profile, program,
                 stray, abandoned>>

\* The finally block of measure(): the group is signalled unless poll() finds
\* that its leader has exited.
StopTrial ==
  /\ tune_pc' = "reap"
  /\ miner' = Terminated(miner)

\* A line comes when the window is over, or the log ends.
EndWindow ==
  /\ tune_pc = "measure"
  /\ StopTrial
  /\ UNCHANGED <<trial, results, best, best_score, interrupted, profile, program,
                 stray, abandoned>>

\* measure() returns, once the leader is gone, and its trial is recorded.
Measured ==
  /\ tune_pc = "reap" /\ miner.leader = "dead" /\ ~interrupted
  /\ \E r \in [nps : Rates, watts : IF Objective = "efficiency" THEN Powers ELSE {None}] :
       LET c == ConfigOf(trial) IN
       results' = [x \in DOMAIN results \union {c} |-> IF x = c THEN r ELSE results[x]]
  /\ tune_pc' = "next"
  /\ Forget
  /\ UNCHANGED <<trial, best, best_score, interrupted, profile, program, abandoned>>

Reaped ==
  /\ tune_pc = "reap" /\ miner.leader = "dead" /\ interrupted
  /\ tune_pc' = "save"
  /\ Forget
  /\ UNCHANGED <<trial, results, best, best_score, interrupted, profile, program,
                 abandoned>>

\* Mutant: the miner is given up, not killed.
NeverKill ==
  /\ FALSE /\ UNCHANGED <<groupVars, tuneVars, profile>>

\* wait(8) times out: killpg(SIGKILL).
KillTrial ==
  /\ tune_pc = "reap" /\ miner.leader = "term"
  /\ miner' = [leader |-> "dead", solver |-> "none"]
  /\ UNCHANGED <<tuneVars, profile, program, stray, abandoned>>

\* Ctrl-C, which the miner's session does not get.
Interrupt ==
  \/ /\ tune_pc = "next" /\ tune_pc' = "save" /\ interrupted' = TRUE
     /\ UNCHANGED <<trial, results, best, best_score, profile, groupVars>>
  \/ /\ tune_pc = "measure" /\ StopTrial /\ interrupted' = TRUE
     /\ UNCHANGED <<trial, results, best, best_score, profile, program, stray,
                    abandoned>>
  \* In the wait for the leader: nobody waits for it, or kills it, any more.
  \/ /\ tune_pc = "reap" /\ tune_pc' = "save" /\ interrupted' = TRUE
     /\ Forget /\ abandoned' = (abandoned \/ Runs(miner))
     /\ UNCHANGED <<trial, results, best, best_score, profile, program>>

SweepEnds ==
  /\ tune_pc = "next" /\ trial = Trials
  /\ tune_pc' = "save"
  /\ UNCHANGED <<trial, results, best, best_score, interrupted, profile, groupVars>>

\* write_text: the file is emptied, then written.
BeginWrite ==
  /\ tune_pc = "save"
  /\ tune_pc' = "write" /\ profile' = Torn
  /\ UNCHANGED <<trial, results, best, best_score, interrupted, groupVars>>

TuneDone ==
  /\ program' = "none"
  /\ tune_pc' = "off" /\ trial' = 0 /\ results' = << >> /\ best' = Default
  /\ best_score' = <<-1, 1>> /\ interrupted' = FALSE

EndWrite ==
  /\ tune_pc = "write"
  /\ profile' = <<best, IF best \in DOMAIN results THEN results[best] ELSE NoResult>>
  /\ TuneDone
  /\ UNCHANGED <<miner, stray, abandoned>>

\* The terminal is closed, SIGTERM or SIGKILL; or Ctrl-C while it saves.
TuneKilled ==
  /\ program = "tune"
  /\ TuneDone
  /\ Forget
  /\ abandoned' = (abandoned \/ Runs(miner))
  /\ UNCHANGED profile

SweepStep ==
  \/ Compare \/ BeginTrial \/ EndWindow \/ Measured \/ Reaped \/ KillTrial
  \/ SweepEnds \/ BeginWrite \/ EndWrite

TuneStep == SweepStep \/ Interrupt \/ TuneKilled

-----------------------------------------------------------------------------
\* The trial that Ctrl-C may keep from being compared, when it is recorded.
Unjudged(c) == trial < Trials /\ c = ConfigOf(trial)

\* The best is kept, at the end and on Ctrl-C: no trial that was recorded, but
\* for one that Ctrl-C came right after, beats the configuration that is saved,
\* in the objective's own unit.  A trial without a power reading has no score in
\* N/s per watt, and is compared all the same.
Comparable(r, s) ==
  Objective = "efficiency" => r.watts # None /\ s.watts # None

BestIsSaved ==
  [][EndWrite => \A c \in DOMAIN results :
        LET s == profile'[2] IN
        Comparable(results[c], s)
          => (interrupted /\ Unjudged(c)) \/ ~Above(Score(results[c]), Score(s))]_profile

\* Tuning ends, if the miner goes on writing log lines or exits.
TuneEnds == program = "tune" ~> program # "tune"
=============================================================================
