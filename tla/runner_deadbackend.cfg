\* A backend that never starts or dies.
SPECIFICATION Spec
CONSTANTS
  N = 2
  NB = 2
  MaxVoters = 16
  PipeCap = 1
  MaxFaulty = 0
  SyscallsFail = FALSE
  BufCap <- OneBuffered
  Supports <- Everything
  Inject <- NoInjection
  DrawnKinds <- ComputeOnly
  Mortal <- AllBackends
  Stuck <- NoBackend
  Chatty <- NoBackend
INVARIANTS ZeroMeansAllAnswered
