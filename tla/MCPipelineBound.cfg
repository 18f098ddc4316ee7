SPECIFICATION Spec
CONSTANTS
  r1 = r1
  r2 = r2
  NoInput = NoInput
  NoRecord = NoRecord
  Request = {r1}
  Token = {"bound", "unbound"}
  Config <- AllConfigs
  Input <- AllInputs
  ChunkSizes = {1, 2}
  BOUND_BODY_MAX = 3
  RetryBufferMax = 3
  bindingOf <- MCbindingOf
INVARIANT BoundMeansHashVerified
