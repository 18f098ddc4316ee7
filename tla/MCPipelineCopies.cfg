SPECIFICATION Spec
CONSTANTS
  r1 = r1
  r2 = r2
  NoInput = NoInput
  NoRecord = NoRecord
  Request = {r1, r2}
  Token = {"bound", "unbound"}
  Config <- StrictConfig
  Input <- CopyInputs
  ChunkSizes = {1}
  BOUND_BODY_MAX = 1
  RetryBufferMax = 1
  bindingOf <- MCbindingOf
SYMMETRY RequestSymmetry
INVARIANTS
  TokenDeliveredOnce
