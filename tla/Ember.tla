--------------------------------- MODULE Ember ---------------------------------
(***************************************************************************)
(* The `ember` launcher, run again and again on one rig: it becomes the    *)
(* tuner or the dashboard, one at a time.  They share the GPU, which a     *)
(* miner that was left behind still uses, and the tuning profile.          *)
(***************************************************************************)
EXTENDS DeepTune, Dashboard

VARIABLE settings   \* --batch-size and --prepare-workers of the dashboard's miner, or None

ASSUME NoneAssumption == None \notin Configs

vars == <<groupVars, tuneVars, profile, guiVars, settings>>

TypeOK ==
  /\ GroupTypeOK /\ TuneTypeOK /\ GuiTypeOK
  /\ settings \in Configs \union {None}
  /\ settings # None <=> program = "gui"

Init == GroupInit /\ TuneInit /\ GuiInit /\ settings = None

\* The launcher reads the profile; one that it cannot read is none.
Profiled == IF profile \in {None, Torn} THEN Default ELSE profile[1]

LaunchTune ==
  /\ program = "none"
  /\ program' = "tune" /\ tune_pc' = "next"
  /\ UNCHANGED <<miner, stray, abandoned, trial, results, best, best_score,
                 interrupted, profile, guiVars, settings>>

\* With --gui: the dashboard starts the miner and then its threads.
LaunchGui ==
  /\ program = "none"
  /\ program' = "gui" /\ gui_pc' = "boot" /\ pump' = "run"
  /\ settings' = Profiled
  /\ StartMiner
  /\ UNCHANGED <<stray, abandoned, tuneVars, profile, pipe, counted, raised,
                 shown, miner_alive>>

Processes ==
  /\ GroupMoves \/ StrayMoves
  /\ UNCHANGED <<tuneVars, profile, guiVars, settings>>

GuiMoves(Step) ==
  /\ Step
  /\ settings' = IF program' = "gui" THEN settings ELSE None
  /\ UNCHANGED <<tuneVars, profile>>

Next ==
  \/ LaunchTune \/ LaunchGui
  \/ TuneStep /\ UNCHANGED <<guiVars, settings>>
  \/ GuiMoves(GuiStep)
  \/ Processes

Spec == Init /\ [][Next]_vars

(***************************************************************************)
(* Fairness: the programs go on with what they are at, and a solver that   *)
(* is not deaf follows its miner.  EndWindow's is the miner's: measure()   *)
(* looks at the clock only when a line arrives.                            *)
(***************************************************************************)
FairSpec ==
  /\ Spec
  /\ WF_vars(SweepStep /\ UNCHANGED <<guiVars, settings>>)
  /\ WF_vars(GuiMoves(MainStep))

-----------------------------------------------------------------------------
\* The group is stopped with its parent: a miner that runs on without one was
\* left by a parent that was killed, or interrupted while it waited.
MinerStopsWithParent == "miner" \in stray => abandoned
=============================================================================
