CONSTANTS
  ParamIs <- MCParamIs
  MapToParam <- MCMapToParam
  OtherParams <- MCOtherParams
  Payloads <- MCPayloads
  MaxArrivals = 3
SPECIFICATION Spec
CHECK_DEADLOCK FALSE
INVARIANT MissingMasked
