CONSTANTS
  t1 = t1
  t2 = t2
  hA = hA
  hB = hB
  Threads <- MCThreads
  Handlers <- MCHandlers
  Exceptions <- MCExceptions
  ByteSizes <- MCByteSizes
  ChunkArgs <- MCChunkArgs
  MaxCalls = 5
SPECIFICATION Spec
SYMMETRY Symm
INVARIANT OwnErrorString
