\* One child next to the runner: pipes, buffers, deaths, hangs, failing calls.
SPECIFICATION FairSpec
CONSTANTS
  N = 3
  NB = 2
  MaxVoters = 16
  PipeCap = 1
  MaxFaulty = 0
  SyscallsFail = TRUE
  BufCap <- OneBuffered
  Supports <- Everything
  Inject <- NoInjection
  DrawnKinds <- ComputeOnly
  Mortal <- AllBackends
  Stuck <- AllBackends
  Chatty <- AllBackends
INVARIANTS TypeOK CompleteUnlessDied NoChildLeftBehind
PROPERTIES Terminates
CHECK_DEADLOCK FALSE
