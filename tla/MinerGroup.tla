------------------------------ MODULE MinerGroup ------------------------------
(***************************************************************************)
(* The miner as a child of gui/ember_tune.py or gui/ember_gui.py: a        *)
(* session of its own with the solver daemon in it, which the parent must  *)
(* stop as a group, because nothing else will.  DeepTune and Dashboard are *)
(* the two parents, Ember runs one after the other.                        *)
(***************************************************************************)
EXTENDS Integers, Sequences, FiniteSets

CONSTANT None

VARIABLES
  program,     \* the program the `ember` launcher has become
  miner,       \* the miner it has started
  stray,       \* what earlier miners have left running
  abandoned    \* history: a parent was gone before it could stop its miner

groupVars == <<program, miner, stray, abandoned>>

\* A solver is deaf when it hangs in the driver: the end of its stdin and
\* SIGTERM do not end it, SIGKILL does.
Group == [leader : {"none", "run", "term", "dead"},
          solver : {"none", "run", "deaf"}]
NoMiner == [leader |-> "none", solver |-> "none"]
Runs(g) == g.leader \in {"run", "term"}
Left(g) == (IF Runs(g) THEN {"miner"} ELSE {})
             \union (IF g.solver # "none" THEN {"solver"} ELSE {})

GroupTypeOK ==
  /\ program \in {"none", "tune", "gui"}
  /\ miner \in Group
  /\ stray \subseteq {"miner", "solver"}
  /\ abandoned \in BOOLEAN

GroupInit ==
  program = "none" /\ miner = NoMiner /\ stray = {} /\ abandoned = FALSE

\* Popen(start_new_session=True).
StartMiner == miner' = [leader |-> "run", solver |-> "none"]

\* killpg(SIGTERM): to the leader and, for what it does to it, to the solver.
Terminated(g) == IF g.leader = "run" THEN [g EXCEPT !.leader = "term"] ELSE g

\* Its parent has done with the group, or is gone.
Forget ==
  /\ stray' = stray \union Left(miner)
  /\ miner' = NoMiner

-----------------------------------------------------------------------------
(***************************************************************************)
(* The processes of a group (external).                                    *)
(***************************************************************************)

\* The miner spawns a daemon, which may hang.
SolverRuns ==
  \/ miner.leader = "run" /\ miner.solver = "none" /\ miner' = [miner EXCEPT !.solver = "run"]
  \/ miner.solver = "run" /\ miner' = [miner EXCEPT !.solver = "deaf"]

\* The miner exits, by itself or on SIGTERM, which it does not handle.
LeaderDies == Runs(miner) /\ miner' = [miner EXCEPT !.leader = "dead"]

\* A daemon whose stdin has ended, or that got the signal, exits.
SolverFollows ==
  /\ miner.leader \in {"term", "dead"} /\ miner.solver = "run"
  /\ miner' = [miner EXCEPT !.solver = "none"]

GroupMoves ==
  /\ SolverRuns \/ LeaderDies \/ SolverFollows
  /\ UNCHANGED <<program, stray, abandoned>>

\* What was left behind mines on, until it exits or is killed by hand.
StrayMoves ==
  /\ \/ stray # {} /\ stray' \in SUBSET stray
     \/ "miner" \in stray /\ stray' = stray \union {"solver"}
  /\ UNCHANGED <<program, miner, abandoned>>
=============================================================================
