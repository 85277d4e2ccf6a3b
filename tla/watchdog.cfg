SPECIFICATION FairSpec
CONSTANTS
  Check = 1
  Stall = 3
  Grace = 4
  Cooldown = 3
  Escalation = 2
  RejectLimit = 2
  MaxBounce = 1
  SliceMax = 2
  GiveUp = 5
  ShortHorizon = 6
  LongHorizon = 11
INVARIANTS TypeOK NoticedInTime StreakNoticed
PROPERTIES CooldownKept HealthyLeftAlone HungIsBounced StreakIsBounced
