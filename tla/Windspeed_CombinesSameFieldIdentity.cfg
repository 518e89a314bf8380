CONSTANTS
  UParam <- MCUParam
  VParam <- MCVParam
  WParam <- MCWParam
  OtherParams <- MCOtherParams
  Steps <- MCSteps
  Levels <- MCLevelsTwo
  Payloads <- MCPayloads
  MaxArrivals = 5
SPECIFICATION Spec
INVARIANT CombinesSameFieldIdentity
CHECK_DEADLOCK FALSE
