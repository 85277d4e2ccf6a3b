------------------------------ MODULE Dashboard ------------------------------
(***************************************************************************)
(* gui/ember_gui.py: main(), the thread that pumps the miner's log to the  *)
(* terminal and into State, and the signal handler that stops the miner.   *)
(* Of State, the share counters and the end of the miner; the other fields *)
(* of a line, the GPU poller and the HTTP threads only display.            *)
(***************************************************************************)
EXTENDS MinerGroup

CONSTANTS
  MaxShares,   \* bound: the shares that a miner counts
  PipeSize     \* how many lines the miner's stdout takes

ASSUME DashAssumption == MaxShares \in Nat /\ PipeSize \in Nat \ {0}

VARIABLES
  gui_pc,      \* main(): before the handlers are set, in proc.wait(), or in one
  pump,        \* the thread that reads the log
  pipe,        \* lines it has not read
  counted,     \* the miner's own counters
  raised,      \* history: submissions that raised since the last verdict
  shown,       \* State.accepted, .rejected and .blocks
  miner_alive  \* State.miner_alive

guiVars == <<gui_pc, pump, pipe, counted, raised, shown, miner_alive>>

Counters == [accepted : 0..MaxShares, rejected : 0..MaxShares, blocks : 0..MaxShares]
Zero == [accepted |-> 0, rejected |-> 0, blocks |-> 0]

\* n are the numbers of the last verdict in the log; a line RAISED has none of
\* its own.  (A miner logs its totals only on SIGINT, which nothing here sends.)
Line == [kind : {"OK", "REJECTED", "RAISED"}, n : Counters]

\* What the log has said of the counters.
Said == [accepted |-> counted.accepted, blocks |-> counted.blocks,
         rejected |-> counted.rejected - raised]

GuiTypeOK ==
  /\ gui_pc \in {"off", "boot", "wait", "handler"}
  /\ gui_pc = "off" <=> program # "gui"
  /\ pump \in {"off", "run", "broken", "ended"}
  /\ pipe \in Seq(Line) /\ Len(pipe) <= PipeSize
  /\ counted \in Counters /\ shown \in Counters
  /\ raised \in 0..counted.rejected
  /\ miner_alive \in BOOLEAN

GuiInit ==
  /\ gui_pc = "off" /\ pump = "off" /\ pipe = << >>
  /\ counted = Zero /\ raised = 0 /\ shown = Zero /\ miner_alive = TRUE

\* A verdict is counted and logged with the counters.
Verdict ==
  /\ raised' = 0
  /\ \/ \E b \in {0, 1} :
          /\ counted' = [counted EXCEPT !.accepted = @ + 1, !.blocks = @ + b]
          /\ pipe' = Append(pipe, [kind |-> "OK", n |-> counted'])
     \/ /\ counted' = [counted EXCEPT !.rejected = @ + 1]
        /\ pipe' = Append(pipe, [kind |-> "REJECTED", n |-> counted'])

\* A submission raised or timed out: counted as rejected, logged without them.
SubmitRaises ==
  /\ raised' = raised + 1
  /\ counted' = [counted EXCEPT !.rejected = @ + 1]
  /\ pipe' = Append(pipe, [kind |-> "RAISED", n |-> Said])

\* The end of _submit_share; the miner waits when its pipe is full.
MinerLogs ==
  /\ program = "gui" /\ Runs(miner)
  /\ Len(pipe) < PipeSize
  /\ counted.accepted + counted.rejected < MaxShares
  /\ Verdict \/ SubmitRaises
  /\ UNCHANGED <<gui_pc, pump, shown, miner_alive, groupVars>>

\* Mutant: the numbers of a line are added to those that are shown.
FeedAdds(line) ==
  shown' = IF line.kind = "RAISED" THEN shown
           ELSE [k \in DOMAIN shown |-> shown[k] + line.n[k]]

\* Mutant: a rejection leaves the counters alone.
FeedAccepts(line) ==
  shown' = IF line.kind = "OK" THEN line.n ELSE shown

\* Mutant: what a line does not say is taken for 0.
FeedWhole(line) ==
  shown' = CASE line.kind = "OK" -> line.n
             [] line.kind = "REJECTED" -> [line.n EXCEPT !.blocks = 0]
             [] OTHER -> shown

\* State.feed_line: the line of a rejection says nothing of blocks, that of a
\* submission that raised nothing of any counter.
FeedLine(line) ==
  shown' = CASE line.kind = "OK" -> line.n
             [] line.kind = "REJECTED" -> [shown EXCEPT !.accepted = line.n.accepted,
                                                        !.rejected = line.n.rejected]
             [] OTHER -> shown

\* One turn of the pump's loop.
PumpLine ==
  /\ pump = "run" /\ pipe # << >>
  /\ FeedLine(Head(pipe)) /\ pipe' = Tail(pipe)
  /\ UNCHANGED <<gui_pc, pump, counted, raised, miner_alive, groupVars>>

\* The terminal does not take the line: the thread dies, the miner's pipe stays.
PumpBreaks ==
  /\ pump = "run" /\ pipe # << >>
  /\ pump' = "broken" /\ pipe' = Tail(pipe)
  /\ UNCHANGED <<gui_pc, counted, raised, shown, miner_alive, groupVars>>

\* The log ends; proc.wait(), which must not find the main thread in its handler.
PumpEnds ==
  /\ pump = "run" /\ pipe = << >>
  /\ miner.leader = "dead" /\ gui_pc # "handler"
  /\ pump' = "ended" /\ miner_alive' = FALSE
  /\ UNCHANGED <<gui_pc, pipe, counted, raised, shown, groupVars>>

SetHandlers ==
  /\ gui_pc = "boot" /\ gui_pc' = "wait"
  /\ UNCHANGED <<pump, pipe, counted, raised, shown, miner_alive, groupVars>>

\* SIGINT or SIGTERM in proc.wait(): poll() cannot tell, so the group is signalled.
Shutdown ==
  /\ gui_pc = "wait"
  /\ gui_pc' = "handler"
  /\ miner' = Terminated(miner)
  /\ UNCHANGED <<pump, pipe, counted, raised, shown, miner_alive, program, stray, abandoned>>

GuiExits ==
  /\ program' = "none"
  /\ gui_pc' = "off" /\ pump' = "off" /\ pipe' = << >>
  /\ counted' = Zero /\ raised' = 0 /\ shown' = Zero /\ miner_alive' = TRUE

\* Mutant: SIGTERM is all the group gets.
ShutdownGivesUp ==
  /\ gui_pc = "handler"
  /\ GuiExits /\ Forget
  /\ UNCHANGED abandoned

\* wait(8) cannot succeed in the handler: killpg(SIGKILL), then sys.exit.
ShutdownKills ==
  /\ gui_pc = "handler"
  /\ GuiExits
  /\ miner' = NoMiner
  /\ UNCHANGED <<stray, abandoned>>

\* Mutant: main() waits for the pump as well.
MinerGoneJoins ==
  /\ gui_pc = "wait" /\ miner.leader = "dead" /\ pump = "ended"
  /\ GuiExits /\ Forget
  /\ UNCHANGED abandoned

\* The miner has exited on its own: so does main(), without a signal.
MinerGone ==
  /\ gui_pc = "wait" /\ miner.leader = "dead"
  /\ GuiExits /\ Forget
  /\ UNCHANGED abandoned

\* A signal that has no handler: SIGHUP, SIGKILL; any one before they are set.
GuiKilled ==
  /\ program = "gui"
  /\ GuiExits /\ Forget
  /\ abandoned' = (abandoned \/ Runs(miner))

PumpStep == PumpLine \/ PumpEnds
MainStep == SetHandlers \/ ShutdownKills \/ MinerGone
GuiStep == MinerLogs \/ PumpStep \/ PumpBreaks \/ MainStep \/ Shutdown \/ GuiKilled

-----------------------------------------------------------------------------
\* What the dashboard shows is what the miner has counted, as soon as the log
\* is read, whichever lines say what, but for the submissions that have raised
\* since the last verdict, which no line counts; and it is never more.
ShownIsCounted ==
  /\ pipe = << >> /\ pump # "broken" =>
       /\ shown.accepted = counted.accepted /\ shown.blocks = counted.blocks
       /\ shown.rejected + raised = counted.rejected
  /\ shown.accepted <= counted.accepted /\ shown.rejected <= counted.rejected
  /\ shown.blocks <= counted.blocks

\* What a dashboard shows of a miner never goes back, whichever lines come, and
\* when the terminal fails in the middle of them as well.
ShownGrows ==
  [][program = "gui" /\ program' = "gui"
       => \A k \in DOMAIN shown : shown[k] <= shown'[k]]_<<groupVars, guiVars>>

\* The dashboard comes to its end after its miner, or after a signal.
GuiEnds ==
  program = "gui" /\ (miner.leader = "dead" \/ gui_pc = "handler")
    ~> program # "gui"
=============================================================================
