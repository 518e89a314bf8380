CONSTANTS
  UParam <- MCUParam
  VParam <- MCVParam
  WParam <- MCWParam
  OtherParams <- MCOtherParams
  Steps <- MCSteps
  Levels <- MCLevelsOne
  Payloads <- MCPayloads
  MaxArrivals = 5
SPECIFICATION Spec
INVARIANT MissingValuesAnnounced
CHECK_DEADLOCK FALSE
