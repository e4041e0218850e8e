SPECIFICATION Spec
CONSTANTS
  Endpoints <- MCEndpoints
  InEps = {"in1", "in2"}
  Halts = {"in1"}
  Requests = {"r1", "r2"}
  Large = {"r2"}
  MaxQueues = 3
INVARIANTS
  HeldOnce
  BytesKept
  NothingStranded
  CallbacksDrained
  ClosedLast
