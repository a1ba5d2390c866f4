SPECIFICATION FairSpec
CONSTANTS
  NOps = 2
  Absent = Absent
  Keys = {k1, k2, offline}
  OfflineKeys = {offline}
  NoKey = NoKey
  LeftBehind = {{}, {1, 2, 5}, {1, 2, 3, 4, 5}}
  MaxCrashes = 2
INVARIANTS
  PreviousKept
  WholeGeneration
  FencedBeforeService
  TruthfulOutcome
PROPERTIES
  OutcomeReached
  ReplacesAtomically
