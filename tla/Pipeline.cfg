CONSTANTS
  ParamIs <- MCParamIs
  MapToParam <- MCUParam
  UParam <- MCUParam
  VParam <- MCVParam
  WParam <- MCWParam
  OtherParams <- MCOtherParams
  Steps = {1, 2}
  Levels = {1}
  Payloads <- MCPayloads
  MaxArrivals = 4
SPECIFICATION Spec
INVARIANT TypeOK
INVARIANT EveryMessageForwarded
INVARIANT PipelineAccountsForEveryInput
INVARIANT CombinesUAndVOfSameStep
INVARIANT NoCombinationAcrossFlush
CHECK_DEADLOCK FALSE
