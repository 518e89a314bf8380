CONSTANTS
  Sizes <- MCSizes
  Times <- MCTimes
  MaxLogs = 3
SPECIFICATION Spec
INVARIANT TypeOK
