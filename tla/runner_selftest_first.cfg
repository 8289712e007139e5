\* A fault-injected CLI that corrupts its first reply only.
SPECIFICATION Spec
CONSTANTS
  N = 2
  NB = 1
  MaxVoters = 16
  PipeCap = 1
  MaxFaulty = 0
  SyscallsFail = FALSE
  BufCap <- FlushPerLine
  Supports <- NoExt
  Inject <- InjectFirst
  DrawnKinds <- SelfTestKinds
  Mortal <- NoBackend
  Stuck <- NoBackend
  Chatty <- NoBackend
INVARIANTS SelfTestFires
