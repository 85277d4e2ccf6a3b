------------------------- MODULE HealWatchdog_proofs -------------------------
(***************************************************************************)
(* Proofs about HealWatchdog, for any limits that its assumptions admit.   *)
(***************************************************************************)
EXTENDS HealWatchdog, TLAPS

\* NoticedInTime at every moment of the sleep.
Noticed ==
  pc = "asleep" =>
    \/ result_age <= Stall + waited
    \/ session_age <= Grace + waited
    \/ heal_age < MaxCooldown + waited

\* StreakNoticed at every moment of the sleep: a streak that is older than the
\* sleep was there at the check before it, and the cooldown held the bounce back.
Streak ==
  /\ consec_rejects < RejectLimit => streak_age = 0
  /\ pc = "asleep" /\ RejectsDue =>
       streak_age <= waited \/ heal_age < MaxCooldown + waited

\* A healthy solver's slice is short, and began with a result or with the health.
Healthy ==
  job /\ solver = "ok" =>
    /\ slice_age <= SliceMax
    /\ fine_age <= slice_age \/ result_age <= slice_age

\* What the watchdog knows of its last bounce, unless that was cut.
Recorded ==
  /\ heals = fruitless
  /\ pc = "bouncing" => bounce_age >= waited
  /\ pc # "bouncing" /\ ~cut => bounce_age >= heal_age

IInv == TypeOK /\ Noticed /\ Streak /\ Healthy /\ Recorded

Limits == LimitsAssumption /\ DefaultsAssumption /\ HorizonAssumption

-----------------------------------------------------------------------------
LEMMA TimesMonotone ==
  ASSUME NEW a \in Nat, NEW b \in Nat, NEW c \in Nat, b <= c
  PROVE  a * b <= a * c /\ a * b \in Nat /\ a * c \in Nat
<1>1. c - b \in Nat /\ a * (c - b) \in Nat /\ a * c = a * b + a * (c - b)
  OBVIOUS
<1> QED  BY <1>1

\* No cooldown is longer than the longest.
LEMMA CooldownBounded ==
  ASSUME Limits, TypeOK
  PROVE  CooldownNow \in Nat /\ CooldownNow <= MaxCooldown /\ MaxCooldown \in Nat
<1>1. 1 + heals \in Nat /\ 1 + Escalation \in Nat /\ 1 + heals <= 1 + Escalation
  BY DEF Limits, LimitsAssumption, TypeOK
<1>2. Cooldown \in Nat
  BY DEF Limits, LimitsAssumption
<1>3. /\ Cooldown * (1 + heals) <= Cooldown * (1 + Escalation)
      /\ Cooldown * (1 + heals) \in Nat /\ Cooldown * (1 + Escalation) \in Nat
  <2> DEFINE b == 1 + heals
             c == 1 + Escalation
  <2>1. b \in Nat /\ c \in Nat /\ b <= c
    BY <1>1
  <2> HIDE DEF b, c
  <2>2. Cooldown * b <= Cooldown * c /\ Cooldown * b \in Nat /\ Cooldown * c \in Nat
    BY <1>2, <2>1, TimesMonotone
  <2> QED  BY <2>2 DEF b, c
<1> QED  BY <1>3 DEF CooldownNow, MaxCooldown

LEMMA OlderBounded ==
  ASSUME NEW h \in Nat, NEW a \in 0..h
  PROVE  /\ Older(a, h) \in 0..h /\ Older(a, h) <= a + 1 /\ Older(a, h) >= a
         /\ a < h => Older(a, h) = a + 1
BY DEF Older

\* A later age stays the later one.
LEMMA OlderMonotone ==
  ASSUME NEW h \in Nat, NEW a \in 0..h, NEW b \in 0..h, a <= b
  PROVE  Older(a, h) <= Older(b, h)
BY DEF Older

-----------------------------------------------------------------------------
LEMMA InitIInv ==
  ASSUME Limits, Init
  PROVE  IInv
<1> USE DEF Limits, LimitsAssumption, HorizonAssumption
<1>1. TypeOK
  <2>1. job \in BOOLEAN /\ retrying \in BOOLEAN /\ cut \in BOOLEAN
    BY DEF Init
  <2>2. pc = "none" /\ phase = "down" /\ waited = 0
    BY DEF Init
  <2>3. /\ result_age \in 0..ShortHorizon /\ session_age \in 0..ShortHorizon
        /\ slice_age \in 0..ShortHorizon /\ fine_age \in 0..ShortHorizon
        /\ heal_age \in 0..LongHorizon /\ bounce_age \in 0..LongHorizon
    BY DEF Init
  <2>4. /\ consec_rejects \in 0..RejectLimit /\ streak_age \in 0..Check + 1
        /\ heals \in 0..Escalation /\ fruitless \in 0..Escalation
    BY DEF Init
  <2>5. solver \in Solver
    BY DEF Init, Solver
  <2> QED  BY <2>1, <2>2, <2>3, <2>4, <2>5 DEF TypeOK
<1>2. Noticed /\ Streak /\ Healthy
  BY DEF Init, Noticed, Streak, Healthy
<1>3. Recorded
  BY DEF Init, Recorded
<1> QED  BY <1>1, <1>2, <1>3 DEF IInv

LEMMA HealStepIInv ==
  ASSUME Limits, IInv, HealStep
  PROVE  IInv'
<1> USE DEF Limits, LimitsAssumption, DefaultsAssumption, HorizonAssumption,
            windowVars, solverVars, historyVars
<1>0. CooldownNow \in Nat /\ CooldownNow <= MaxCooldown /\ MaxCooldown \in Nat
  BY CooldownBounded DEF IInv
<1>1. CASE SleepOn
  <2>1. TypeOK' /\ Healthy' /\ Recorded'
    BY <1>1 DEF SleepOn, AtCheck, IInv, TypeOK, Healthy, Recorded
  <2>2. Noticed'
    BY <1>0, <1>1 DEF SleepOn, AtCheck, Fires, HangDue, IInv, TypeOK, Noticed
  <2>3. Streak'
    BY <1>0, <1>1 DEF SleepOn, AtCheck, Fires, RejectsDue, IInv, TypeOK, Streak
  <2> QED  BY <2>1, <2>2, <2>3 DEF IInv
<1>2. CASE BeginBounce
  <2>1. TypeOK'
    <3>1. /\ phase' \in {"down", "up", "stuck"}
          /\ pc' \in {"none", "asleep", "bouncing"}
          /\ pc' = "none" <=> phase' = "down"
      BY <1>2 DEF BeginBounce, AtCheck, IInv, TypeOK
    <3>2. waited' \in Nat /\ waited' <= (IF pc' = "asleep" THEN Check ELSE MaxBounce)
      BY <1>2 DEF BeginBounce, AtCheck, IInv, TypeOK
    <3>3. job' \in BOOLEAN /\ retrying' \in BOOLEAN /\ cut' \in BOOLEAN
      BY <1>2 DEF BeginBounce, AtCheck, IInv, TypeOK
    <3>4. /\ result_age' \in 0..ShortHorizon /\ session_age' \in 0..ShortHorizon
          /\ slice_age' \in 0..ShortHorizon /\ fine_age' \in 0..ShortHorizon
          /\ heal_age' \in 0..LongHorizon /\ bounce_age' \in 0..LongHorizon
          /\ consec_rejects' \in 0..RejectLimit /\ streak_age' \in 0..Check + 1
          /\ solver' \in Solver
          /\ heals' \in 0..Escalation /\ fruitless' \in 0..Escalation
      BY <1>2 DEF BeginBounce, AtCheck, IInv, TypeOK
    <3> QED  BY <3>1, <3>2, <3>3, <3>4 DEF TypeOK
  <2>2. Noticed' /\ Streak' /\ Healthy'
    BY <1>2 DEF BeginBounce, AtCheck, IInv, Noticed, Streak, Healthy
  <2>3. Recorded'
    BY <1>2 DEF BeginBounce, AtCheck, IInv, TypeOK, Recorded
  <2> QED  BY <2>1, <2>2, <2>3 DEF IInv
<1>3. CASE EndBounce
  <2>1. waited \in 0..MaxBounce /\ waited <= Stall
    BY <1>3 DEF EndBounce, IInv, TypeOK
  <2>2. TypeOK'
    BY <1>3, <2>1 DEF EndBounce, Bounced, OneMore, IInv, TypeOK, Solver
  <2>3. Noticed' /\ Streak' /\ Healthy' /\ Recorded'
    BY <1>3, <2>1 DEF EndBounce, Bounced, OneMore, IInv, TypeOK, Noticed, Streak,
       RejectsDue, Healthy, Recorded
  <2> QED  BY <2>2, <2>3 DEF IInv
<1> QED  BY <1>1, <1>2, <1>3 DEF HealStep

LEMMA TickIInv ==
  ASSUME Limits, IInv, Tick
  PROVE  IInv'
<1> USE DEF Limits, LimitsAssumption, DefaultsAssumption, HorizonAssumption
<1>1. /\ heal_age' \in 0..LongHorizon /\ heal_age' <= heal_age + 1
      /\ bounce_age' \in 0..LongHorizon /\ bounce_age' >= bounce_age
      /\ bounce_age < LongHorizon => bounce_age' = bounce_age + 1
      /\ heal_age <= bounce_age => heal_age' <= bounce_age'
  BY OlderBounded, OlderMonotone DEF Tick, IInv, TypeOK
<1>2. /\ result_age' \in 0..ShortHorizon /\ result_age' <= result_age + 1
      /\ session_age' \in 0..ShortHorizon /\ session_age' <= session_age + 1
  BY OlderBounded DEF Tick, IInv, TypeOK
<1>3. /\ slice_age' \in 0..ShortHorizon
      /\ job /\ slice_age < ShortHorizon => slice_age' = slice_age + 1
      /\ ~job => slice_age' = slice_age
  BY OlderBounded DEF Tick, IInv, TypeOK
<1>4. fine_age' \in 0..ShortHorizon
      /\ (job /\ solver = "ok" => fine_age' <= fine_age + 1)
  BY OlderBounded DEF Tick, IInv, TypeOK
<1>5. /\ streak_age' \in 0..Check + 1 /\ streak_age' <= streak_age + 1
      /\ ~RejectsDue => streak_age' = 0
  <2>1. Check + 1 \in Nat /\ streak_age \in 0..Check + 1
    BY DEF IInv, TypeOK
  <2>2. /\ Older(streak_age, Check + 1) \in 0..Check + 1
        /\ Older(streak_age, Check + 1) <= streak_age + 1
    BY <2>1, OlderBounded
  <2> QED  BY <2>1, <2>2 DEF Tick
<1>6. TypeOK'
  BY <1>1, <1>2, <1>3, <1>4, <1>5 DEF Tick, IInv, TypeOK
<1>7. Noticed'
  BY <1>1, <1>2, CooldownBounded DEF Tick, IInv, TypeOK, Noticed
<1>8. Healthy'
  BY <1>2, <1>3, <1>4 DEF Tick, IInv, TypeOK, Healthy
<1>9. Recorded'
  <2>1. pc = "bouncing" => waited < MaxBounce /\ waited' = waited + 1
    BY DEF Tick
  <2> QED  BY <1>1, <2>1 DEF Tick, IInv, TypeOK, Recorded
<1>10. Streak'
  BY <1>1, <1>5, CooldownBounded DEF Tick, RejectsDue, IInv, TypeOK, Streak
<1> QED  BY <1>6, <1>7, <1>8, <1>9, <1>10 DEF IInv

LEMMA NextIInv ==
  ASSUME Limits, IInv, [Next]_vars
  PROVE  IInv'
<1> USE DEF Limits, LimitsAssumption, HorizonAssumption, loopVars, windowVars,
            solverVars, historyVars
<1>1. CASE UNCHANGED vars
  BY <1>1 DEF vars, IInv, TypeOK, Noticed, Streak, RejectsDue, Healthy, Recorded
<1>2. CASE SessionUp \/ SessionDown \/ SessionStuck
  <2>1. TypeOK'
    <3>1. /\ phase' \in {"down", "up", "stuck"}
          /\ pc' \in {"none", "asleep", "bouncing"}
          /\ pc' = "none" <=> phase' = "down"
      BY <1>2 DEF SessionUp, SessionDown, SessionStuck, IInv, TypeOK
    <3>2. waited' \in Nat /\ waited' <= (IF pc' = "asleep" THEN Check ELSE MaxBounce)
      BY <1>2 DEF SessionUp, SessionDown, SessionStuck, IInv, TypeOK
    <3>3. job' \in BOOLEAN /\ retrying' \in BOOLEAN /\ cut' \in BOOLEAN
      BY <1>2 DEF SessionUp, SessionDown, SessionStuck, IInv, TypeOK
    <3>4. /\ result_age' \in 0..ShortHorizon /\ session_age' \in 0..ShortHorizon
          /\ slice_age' \in 0..ShortHorizon /\ fine_age' \in 0..ShortHorizon
          /\ heal_age' \in 0..LongHorizon /\ bounce_age' \in 0..LongHorizon
          /\ consec_rejects' \in 0..RejectLimit /\ streak_age' \in 0..Check + 1
          /\ solver' \in Solver
          /\ heals' \in 0..Escalation /\ fruitless' \in 0..Escalation
      BY <1>2 DEF SessionUp, SessionDown, SessionStuck, IInv, TypeOK
    <3> QED  BY <3>1, <3>2, <3>3, <3>4 DEF TypeOK
  <2>2. Noticed'
    BY <1>2 DEF SessionUp, SessionDown, SessionStuck, IInv, TypeOK, Noticed
  <2>3. Healthy'
    BY <1>2 DEF SessionUp, SessionDown, SessionStuck, IInv, TypeOK, Healthy
  <2>4. Recorded'
    BY <1>2 DEF SessionUp, SessionDown, SessionStuck, IInv, TypeOK, Recorded
  <2>5. Streak'
    BY <1>2 DEF SessionUp, SessionDown, SessionStuck, RejectsDue, IInv, TypeOK, Streak
  <2> QED  BY <2>1, <2>2, <2>3, <2>4, <2>5 DEF IInv
<1>3. CASE JobArrives \/ SliceReturns \/ SliceRaises
  <2>1. TypeOK'
    <3>1. /\ phase' \in {"down", "up", "stuck"}
          /\ pc' \in {"none", "asleep", "bouncing"}
          /\ pc' = "none" <=> phase' = "down"
      BY <1>3 DEF JobArrives, SliceReturns, SliceRaises, IInv, TypeOK
    <3>2. waited' \in Nat /\ waited' <= (IF pc' = "asleep" THEN Check ELSE MaxBounce)
      BY <1>3 DEF JobArrives, SliceReturns, SliceRaises, IInv, TypeOK
    <3>3. job' \in BOOLEAN /\ retrying' \in BOOLEAN /\ cut' \in BOOLEAN
      BY <1>3 DEF JobArrives, SliceReturns, SliceRaises, IInv, TypeOK
    <3>4. /\ result_age' \in 0..ShortHorizon /\ session_age' \in 0..ShortHorizon
          /\ slice_age' \in 0..ShortHorizon /\ fine_age' \in 0..ShortHorizon
          /\ heal_age' \in 0..LongHorizon /\ bounce_age' \in 0..LongHorizon
          /\ consec_rejects' \in 0..RejectLimit /\ streak_age' \in 0..Check + 1
          /\ solver' \in Solver
          /\ heals' \in 0..Escalation /\ fruitless' \in 0..Escalation
      BY <1>3 DEF JobArrives, SliceReturns, SliceRaises, IInv, TypeOK
    <3> QED  BY <3>1, <3>2, <3>3, <3>4 DEF TypeOK
  <2>2. Noticed'
    BY <1>3 DEF JobArrives, SliceReturns, SliceRaises, IInv, TypeOK, Noticed
  <2>3. Healthy'
    <3>1. CASE JobArrives
      BY <3>1 DEF JobArrives, Healthy
    <3>2. CASE SliceReturns
      BY <3>2 DEF SliceReturns, Healthy, IInv, TypeOK
    <3>3. CASE SliceRaises
      BY <3>3 DEF SliceRaises, Healthy
    <3> QED  BY <1>3, <3>1, <3>2, <3>3
  <2>4. Recorded'
    BY <1>3 DEF JobArrives, SliceReturns, SliceRaises, IInv, TypeOK, Recorded
  <2>5. Streak'
    BY <1>3 DEF JobArrives, SliceReturns, SliceRaises, RejectsDue, IInv, TypeOK, Streak
  <2> QED  BY <2>1, <2>2, <2>3, <2>4, <2>5 DEF IInv
<1>4. CASE Accept \/ Reject
  <2>1. TypeOK' /\ Noticed' /\ Healthy' /\ Recorded'
    BY <1>4 DEF Accept, Reject, IInv, TypeOK, Noticed, Healthy, Recorded
  <2>2. Streak'
    BY <1>4 DEF Accept, Reject, RejectsDue, IInv, TypeOK, Streak
  <2> QED  BY <2>1, <2>2 DEF IInv
<1>5. CASE Wedge \/ WrapperRespawns
  BY <1>5 DEF Wedge, WrapperRespawns, Solver, IInv, TypeOK, Noticed, Streak,
     RejectsDue, Healthy, Recorded
<1> QED  BY <1>1, <1>2, <1>3, <1>4, <1>5, HealStepIInv, TickIInv DEF Next

LEMMA Invariant == Limits => (Spec => []IInv)
<1> SUFFICES ASSUME Limits PROVE Spec => []IInv
  OBVIOUS
<1> QED  BY InitIInv, NextIInv, PTL DEF Spec

LEMMA LimitsHold == Limits
BY LimitsAssumption, DefaultsAssumption, HorizonAssumption DEF Limits

-----------------------------------------------------------------------------
(***************************************************************************)
(* Theorems.                                                               *)
(***************************************************************************)

\* Type correctness of the watchdog and its clock.
THEOREM TypeCorrect == Spec => []TypeOK
<1>1. IInv => TypeOK
  BY DEF IInv
<1> QED  BY <1>1, LimitsHold, Invariant, PTL

\* No condition that calls for a bounce outlives the longest cooldown and one
\* check, whatever the limits.
THEOREM InTime == Spec => []NoticedInTime
<1>1. IInv => NoticedInTime
  BY LimitsHold, CooldownBounded
     DEF IInv, TypeOK, Noticed, NoticedInTime, Limits, LimitsAssumption
<1> QED  BY <1>1, LimitsHold, Invariant, PTL

\* No streak of rejects outlives one check, but for the longest cooldown,
\* whatever the limits.
THEOREM StreakInTime == Spec => []StreakNoticed
<1>1. IInv => StreakNoticed
  BY LimitsHold, CooldownBounded
     DEF IInv, TypeOK, Streak, RejectsDue, StreakNoticed, Limits, LimitsAssumption
<1> QED  BY <1>1, LimitsHold, Invariant, PTL

\* The escalating cooldown lies between any two bounces, but for a cut one.
THEOREM Cooled == Spec => CooldownKept
<1>1. IInv => [BeginBounce => cut \/ bounce_age >= Cooldown * (1 + fruitless)]_vars
  <2> SUFFICES ASSUME IInv, BeginBounce, ~cut
               PROVE  bounce_age >= Cooldown * (1 + fruitless)
    OBVIOUS
  <2>1. heals = fruitless /\ bounce_age >= heal_age /\ heal_age >= CooldownNow
    BY DEF BeginBounce, AtCheck, Fires, IInv, Recorded
  <2>2. CooldownNow \in Nat /\ bounce_age \in Nat /\ heal_age \in Nat
    BY LimitsHold, CooldownBounded DEF IInv, TypeOK, Limits, HorizonAssumption
  <2> QED  BY <2>1, <2>2 DEF CooldownNow
<1> QED  BY <1>1, LimitsHold, Invariant, PTL DEF CooldownKept

\* Trigger A spares a healthy solver as long as a slice fits the stall limit.
THEOREM Spared == Spec => HealthyLeftAlone
<1>1. IInv => [BeginBounce /\ consec_rejects < RejectLimit /\ solver = "ok"
                 => ~job \/ fine_age <= SliceMax]_vars
  BY LimitsHold DEF BeginBounce, AtCheck, Fires, RejectsDue, HangDue, IInv, TypeOK,
     Healthy, Limits, LimitsAssumption, DefaultsAssumption, HorizonAssumption
<1> QED  BY <1>1, LimitsHold, Invariant, PTL DEF HealthyLeftAlone
=============================================================================
