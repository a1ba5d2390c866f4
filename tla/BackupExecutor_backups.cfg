SPECIFICATION FairSpec
CONSTANTS
  NBackups = 2
  QueueLimit = 2
  PendingLimit = 2
  AttemptLimit = 1
  PassLimit = 2
  RetainCount = 1
  Recent = 0
  Transports = {TRUE, FALSE}
  MaxEvents = 2
INVARIANTS
  KeptWhileNeeded
  ConfirmedIsStored
  BudgetKept
PROPERTIES
  EveryBackupEnds
  EveryTransferSettles
\* The numbers of backups and events are bounded: the executor then rests.
CHECK_DEADLOCK FALSE
