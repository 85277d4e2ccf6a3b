----------------------------- MODULE HealWatchdog -----------------------------
(***************************************************************************)
(* client/src/dexbtx_miner/stratum_client.py: _heal_loop, the watchdog     *)
(* that bounces the solver daemon when it wedges, with its clock: trigger  *)
(* A (no solver result for too long), trigger B (a streak of rejects), the *)
(* escalating cooldown, and the windows that a session, a slice, an accept *)
(* or a bounce restart.  What a bounce does inside the wrapper is          *)
(* GbtSolveWrapper's, where a share's verdict comes from StratumSession's. *)
(*                                                                         *)
(* Timestamps are kept as ages (now - timestamp).  The ages stop at a      *)
(* horizon beyond every limit they are compared with.  Timers fire on      *)
(* time: Tick waits for what is due.                                       *)
(***************************************************************************)
EXTENDS Naturals

CONSTANTS
  Check,          \* heal_check_interval_secs
  Stall,          \* heal_solver_stall_secs
  Grace,          \* heal_first_slice_grace_secs
  Cooldown,       \* heal_cooldown_secs
  Escalation,     \* 5: the cooldown grows to 1 + Escalation times its base
  RejectLimit,    \* heal_consec_rejects
  MaxBounce,      \* force_restart takes no longer than this
  SliceMax,       \* a slice of a healthy solver takes no longer than this
  GiveUp,         \* two read timeouts: solve_slice gives a hung daemon up
  ShortHorizon,   \* bound: where the ages of results, slices and sessions stop
  LongHorizon     \* bound: where the ages of bounces stop

MaxCooldown == Cooldown * (1 + Escalation)

ASSUME LimitsAssumption ==
  /\ Check \in Nat \ {0} /\ RejectLimit \in Nat \ {0}
  /\ Stall \in Nat /\ Grace \in Nat /\ Cooldown \in Nat /\ Escalation \in Nat
  /\ MaxBounce \in Nat /\ SliceMax \in Nat /\ GiveUp \in Nat

\* The defaults: a slice of 30 s, and a bounce of some 6 s, against a stall limit
\* of 90 s; 90 s and a check interval against the 121 s of two reads.
ASSUME DefaultsAssumption ==
  /\ SliceMax <= Stall /\ MaxBounce <= Stall
  /\ Stall + Check < GiveUp

ASSUME HorizonAssumption ==
  /\ ShortHorizon \in Nat /\ LongHorizon \in Nat
  /\ ShortHorizon > Stall + Check /\ ShortHorizon > Grace + Check
  /\ ShortHorizon >= GiveUp
  /\ LongHorizon > MaxCooldown + Check /\ LongHorizon >= MaxBounce

VARIABLES
  phase,            \* no session, a session, or a teardown that waits for ever
  pc,               \* at which await _heal_loop is
  waited,           \* for how long
  heal_age,         \* now - _last_heal_at
  result_age,       \* now - _last_solver_result_at
  session_age,      \* now - _session_started_at
  consec_rejects,   \* _consec_rejects, as far as the watchdog can tell
  heals,            \* _heals_without_accept, as far as it can tell
  \* the solver loop and the daemon (external)
  solver,           \* what has become of the daemon
  job,              \* the solver loop has a job
  slice_age,        \* how long it has been in solve_slice
  retrying,         \* a bounce hit this slice: it may end any time
  \* history
  bounce_age,       \* since the last bounce began
  cut,              \* that bounce was cancelled by its session's end
  fruitless,        \* bounces since the last accept
  fine_age,         \* for how long a healthy solver has had a job
  streak_age        \* for how long consec_rejects has been at its limit

loopVars == <<pc, waited>>
windowVars == <<heal_age, result_age, session_age, consec_rejects, heals>>
solverVars == <<solver, job, slice_age, retrying>>
historyVars == <<bounce_age, cut, fruitless, fine_age, streak_age>>
vars == <<phase, loopVars, windowVars, solverVars, historyVars>>

Solver == {"ok",        \* slices return in time
           "hung",      \* no line comes: the wrapper gives each slice up
           "wrong",     \* slices return, their shares are rejected
           "failing"}   \* each job ends with an error record or a dead daemon

TypeOK ==
  /\ phase \in {"down", "up", "stuck"}
  /\ pc \in {"none", "asleep", "bouncing"}
  /\ pc = "none" <=> phase = "down"
  /\ waited \in Nat
  /\ waited <= (IF pc = "asleep" THEN Check ELSE MaxBounce)
  /\ heal_age \in 0..LongHorizon /\ bounce_age \in 0..LongHorizon
  /\ result_age \in 0..ShortHorizon /\ session_age \in 0..ShortHorizon
  /\ slice_age \in 0..ShortHorizon /\ fine_age \in 0..ShortHorizon
  /\ consec_rejects \in 0..RejectLimit /\ streak_age \in 0..Check + 1
  /\ heals \in 0..Escalation /\ fruitless \in 0..Escalation
  /\ solver \in Solver
  /\ job \in BOOLEAN /\ retrying \in BOOLEAN /\ cut \in BOOLEAN

\* _last_heal_at starts at 0.0, so its age is what the host's clock shows.
Init ==
  /\ phase = "down" /\ pc = "none" /\ waited = 0
  /\ heal_age \in 0..LongHorizon
  /\ result_age = 0 /\ session_age = 0 /\ consec_rejects = 0 /\ heals = 0
  /\ solver = "ok" /\ job = FALSE /\ slice_age = 0 /\ retrying = FALSE
  /\ bounce_age = LongHorizon /\ cut = FALSE /\ fruitless = 0 /\ fine_age = 0
  /\ streak_age = 0

-----------------------------------------------------------------------------
(***************************************************************************)
(* _heal_loop.                                                             *)
(***************************************************************************)

\* Mutant: the cooldown doubles.
DoublingCooldown == Cooldown * 2^heals

\* Base times one more than the heals since the last accept, capped.
CooldownNow == Cooldown * (1 + heals)

\* Mutant: the grace counts on top of the stall limit.
HangDueLate == result_age > Stall + Grace /\ session_age > Grace

\* Trigger A and trigger B.
HangDue == result_age > Stall /\ session_age > Grace
RejectsDue == consec_rejects >= RejectLimit

AtCheck == pc = "asleep" /\ waited = Check

\* Mutant: trigger B is never looked at.
FiresOnHang == heal_age >= CooldownNow /\ HangDue

Fires == heal_age >= CooldownNow /\ (RejectsDue \/ HangDue)

\* A check that finds nothing to do, or comes within the cooldown.
SleepOn ==
  /\ AtCheck /\ ~Fires
  /\ waited' = 0
  /\ UNCHANGED <<phase, pc, windowVars, solverVars, historyVars>>

\* The check sends the daemon away: await force_restart().
BeginBounce ==
  /\ AtCheck /\ Fires
  /\ pc' = "bouncing" /\ waited' = 0
  /\ bounce_age' = 0 /\ cut' = FALSE
  /\ UNCHANGED <<phase, windowVars, solverVars, fruitless, fine_age, streak_age>>

\* Mutant: the escalation has no end.
OneMoreStill(n) == n + 1

\* The escalation goes as far as it counts.
OneMore(n) == IF n < Escalation THEN n + 1 ELSE n

\* The daemon is gone, for good or ill; the next slice spawns a new one.
Bounced ==
  /\ solver' \in {"ok", solver}
  /\ slice_age' = 0 /\ retrying' = TRUE /\ fine_age' = 0
  /\ UNCHANGED job

\* Mutant: a bounce is recorded only if it helped.
EndBounceUnrecorded ==
  /\ pc = "bouncing"
  /\ pc' = "asleep" /\ waited' = 0
  /\ Bounced
  /\ heal_age' = IF solver' = "ok" THEN waited ELSE heal_age
  /\ result_age' = waited /\ consec_rejects' = 0 /\ heals' = OneMore(heals)
  /\ streak_age' = 0
  /\ fruitless' = OneMore(fruitless)
  /\ UNCHANGED <<phase, session_age, bounce_age, cut>>

\* force_restart has returned or failed: the windows restart at `now`, which
\* was read when the bounce began.
EndBounce ==
  /\ pc = "bouncing"
  /\ pc' = "asleep" /\ waited' = 0
  /\ Bounced
  /\ heal_age' = waited /\ result_age' = waited
  /\ consec_rejects' = 0 /\ heals' = OneMore(heals)
  /\ fruitless' = OneMore(fruitless) /\ streak_age' = 0
  /\ UNCHANGED <<phase, session_age, bounce_age, cut>>

-----------------------------------------------------------------------------
(***************************************************************************)
(* What restarts the windows: sessions, slices, verdicts.                  *)
(***************************************************************************)

\* _session_once, after the handshake.
SessionUp ==
  /\ phase = "down"
  /\ phase' = "up" /\ pc' = "asleep" /\ waited' = 0
  /\ session_age' = 0 /\ result_age' = 0 /\ consec_rejects' = 0 /\ streak_age' = 0
  /\ job' = FALSE /\ slice_age' = 0 /\ retrying' = FALSE
  /\ UNCHANGED <<heal_age, heals, solver, bounce_age, cut, fruitless, fine_age>>

\* The session's tasks are cancelled, in the middle of a bounce as well: that
\* one is not recorded.
SessionDown ==
  /\ phase = "up"
  /\ phase' = "down" /\ pc' = "none" /\ waited' = 0
  /\ cut' = (cut \/ pc = "bouncing")
  /\ job' = FALSE /\ slice_age' = 0 /\ retrying' = FALSE
  /\ UNCHANGED <<windowVars, solver, bounce_age, fruitless, fine_age, streak_age>>

\* _shutdown_daemon swallows the cancellation: the watchdog goes on, and the
\* teardown waits for it.
SessionStuck ==
  /\ phase = "up" /\ pc = "bouncing"
  /\ phase' = "stuck"
  /\ job' = FALSE /\ slice_age' = 0 /\ retrying' = FALSE
  /\ UNCHANGED <<loopVars, windowVars, solver, historyVars>>

\* The first notify of the session: the solver loop starts its first slice.
JobArrives ==
  /\ phase = "up" /\ ~job
  /\ job' = TRUE /\ slice_age' = 0 /\ fine_age' = 0
  /\ UNCHANGED <<phase, loopVars, windowVars, solver, retrying, bounce_age, cut,
                 fruitless, streak_age>>

\* Mutant: only a slice that found something counts as a result.
SliceReturnsFound ==
  /\ job
  /\ solver = "hung" => retrying \/ slice_age >= GiveUp
  /\ result_age' \in {0, result_age}
  /\ slice_age' = 0 /\ retrying' = FALSE
  /\ UNCHANGED <<phase, loopVars, heal_age, session_age, consec_rejects, heals,
                 solver, job, historyVars>>

\* solve_slice returns: a result of the daemon, or None after two attempts.
SliceReturns ==
  /\ job
  /\ solver = "hung" => retrying \/ slice_age >= GiveUp
  /\ result_age' = 0
  /\ slice_age' = 0 /\ retrying' = FALSE
  /\ UNCHANGED <<phase, loopVars, heal_age, session_age, consec_rejects, heals,
                 solver, job, historyVars>>

\* solve_slice raises (no daemon_ready, no binary): that is no result.
SliceRaises ==
  /\ job /\ solver # "ok"
  /\ slice_age' = 0 /\ retrying' = FALSE
  /\ UNCHANGED <<phase, loopVars, windowVars, solver, job, historyVars>>

\* _submit_share: an accept, in whatever session its task is resumed, ends the
\* streak and the escalation.
Accept ==
  /\ consec_rejects' = 0 /\ heals' = 0
  /\ fruitless' = 0 /\ streak_age' = 0
  /\ UNCHANGED <<phase, loopVars, heal_age, result_age, session_age, solverVars,
                 bounce_age, cut, fine_age>>

\* A rejection, or a submission that failed or timed out, in whatever session.
Reject ==
  /\ consec_rejects < RejectLimit
  /\ consec_rejects' = consec_rejects + 1
  /\ UNCHANGED <<phase, loopVars, heal_age, result_age, session_age, heals,
                 solverVars, historyVars>>

\* The daemon latches a bad state (external).
Wedge ==
  /\ solver = "ok"
  /\ solver' \in Solver \ {"ok"}
  /\ UNCHANGED <<phase, loopVars, windowVars, job, slice_age, retrying, historyVars>>

\* solve_slice gives its first read up, or finds its daemon dead, and its second
\* attempt spawns a new one, which may do better.
WrapperRespawns ==
  /\ job /\ solver \in {"hung", "failing"}
  /\ solver' = "ok" /\ slice_age' = 0 /\ fine_age' = 0
  /\ UNCHANGED <<phase, loopVars, windowVars, job, retrying, bounce_age, cut,
                 fruitless, streak_age>>

-----------------------------------------------------------------------------
Older(age, horizon) == IF age < horizon THEN age + 1 ELSE age

\* Time passes, but not past the end of a sleep, a bounce or a healthy slice.
Tick ==
  /\ pc = "asleep" => waited < Check
  /\ pc = "bouncing" => waited < MaxBounce
  /\ solver = "ok" /\ job => slice_age < SliceMax
  /\ waited' = IF pc = "none" THEN waited ELSE waited + 1
  /\ heal_age' = Older(heal_age, LongHorizon)
  /\ bounce_age' = Older(bounce_age, LongHorizon)
  /\ result_age' = Older(result_age, ShortHorizon)
  /\ session_age' = Older(session_age, ShortHorizon)
  /\ slice_age' = IF job THEN Older(slice_age, ShortHorizon) ELSE slice_age
  /\ fine_age' = IF job /\ solver = "ok" THEN Older(fine_age, ShortHorizon) ELSE 0
  /\ streak_age' = IF RejectsDue THEN Older(streak_age, Check + 1) ELSE 0
  /\ UNCHANGED <<phase, pc, consec_rejects, heals, solver, job, retrying, cut,
                 fruitless>>

HealStep == SleepOn \/ BeginBounce \/ EndBounce

Next ==
  \/ HealStep
  \/ SessionUp \/ SessionDown \/ SessionStuck
  \/ JobArrives \/ SliceReturns \/ SliceRaises
  \/ Accept \/ Reject
  \/ Wedge \/ WrapperRespawns
  \/ Tick

Spec == Init /\ [][Next]_vars

(***************************************************************************)
(* Fairness: time passes, and what is due happens.  A healthy solver       *)
(* answers; nothing else need ever happen.                                 *)
(***************************************************************************)
FairSpec ==
  /\ Spec
  /\ WF_vars(Tick)
  /\ WF_vars(HealStep)
  /\ WF_vars(SliceReturns /\ solver = "ok")

-----------------------------------------------------------------------------
(***************************************************************************)
(* Properties.                                                             *)
(***************************************************************************)

\* "Cooldown escalates while heals don't yield an accept, preventing a restart
\* loop": a bounce begins no sooner after the last one than its cooldown, over
\* lost sessions, reconnects and bounces that fail - unless the last one was
\* cancelled by the end of its session, which leaves no trace of it.
CooldownKept ==
  [][BeginBounce => cut \/ bounce_age >= Cooldown * (1 + fruitless)]_vars

\* Bounded detection: while the watchdog sleeps, no condition that calls for a
\* bounce is older than the longest cooldown and one check - however often the
\* wrapper gives a hung daemon's slices up in between.
NoticedInTime ==
  pc = "asleep" =>
    \/ result_age <= Stall + Check
    \/ session_age <= Grace + Check
    \/ heal_age < MaxCooldown + Check

\* Bounded reaction: while the watchdog sleeps, a streak of rejects has been at
\* its limit for no longer than one check, unless the longest cooldown holds the
\* bounce back - though shares are judged at any moment of the sleep, and in a
\* teardown that never ends as well.
StreakNoticed ==
  pc = "asleep" /\ consec_rejects >= RejectLimit =>
    \/ streak_age <= Check
    \/ heal_age < MaxCooldown + Check

\* No false alarm: trigger A never bounces a solver that has been healthy, and
\* has had a job, for longer than one slice.
HealthyLeftAlone ==
  [][BeginBounce /\ consec_rejects < RejectLimit /\ solver = "ok"
       => ~job \/ fine_age <= SliceMax]_vars

\* A hung solver is bounced if its session lasts, although solve_slice gives up
\* again and again and each time counts as a result.
HungIsBounced ==
  phase = "up" /\ job /\ solver = "hung"
    ~> pc = "bouncing" \/ phase # "up" \/ solver # "hung"

\* A streak of rejects is acted on if the session lasts and nothing is accepted.
StreakIsBounced ==
  phase = "up" /\ consec_rejects >= RejectLimit
    ~> pc = "bouncing" \/ phase # "up" \/ consec_rejects < RejectLimit
=============================================================================
