\* Two vectors and two backends, any one implementation wrong, the second CLI fault-injected.
SPECIFICATION Spec
CONSTANTS
  N = 2
  NB = 2
  MaxVoters = 16
  PipeCap = 1
  MaxFaulty = 1
  SyscallsFail = TRUE
  BufCap <- OneBuffered
  Supports <- OnlyFirstHasAll
  Inject <- InjectSecond
  DrawnKinds <- AllKinds
  Mortal <- AllBackends
  Stuck <- NoBackend
  Chatty <- NoBackend
INVARIANTS Lockstep LedgerBalances SelfTestFires
PROPERTIES Implements
