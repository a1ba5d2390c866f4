SPECIFICATION FairSpec
CONSTANTS
  NSessions = 2
  Credentials = {c1}
  Targets = {t1}
  Statuses = {v1, v2}
  NExchanges = 2
  MaxAsked = 4
  MaxTime = 4
  Sampling = 1
  WaitLimit = 2
  MaxWaiters = 2
  MaxSessionWaiters = 2
  MaxTargets = 1
  MaxSessions = 1
  MaxPerCredential = 1
  SessionIdle = 1
  OpenIdle = 2
  Grace = 1
  Drain = 1
  Lifetime = 2
  MaxCloses = 1
INVARIANTS
  SlotsHeld
  ClosedInTime
  WaitersServed
PROPERTIES
  DrainHonoured
  EverySlotReturns
\* Time and the numbers of sessions, calls and waits are bounded.
CHECK_DEADLOCK FALSE
