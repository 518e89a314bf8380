CONSTANTS
  FieldSizes <- MCFieldSizes
  ClientCounts <- MCClientCounts
SPECIFICATION Spec
INVARIANT TypeOK
INVARIANT MapIsResidueClass
