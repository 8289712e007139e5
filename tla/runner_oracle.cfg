\* Four backends that may die, up to three wrong implementations, every kind of vector.
SPECIFICATION Spec
CONSTANTS
  N = 1
  NB = 4
  MaxVoters = 16
  PipeCap = 1
  MaxFaulty = 3
  SyscallsFail = FALSE
  BufCap <- FlushPerLine
  Supports <- Graded
  Inject <- NoInjection
  DrawnKinds <- AllKinds
  Mortal <- AllBackends
  Stuck <- NoBackend
  Chatty <- NoBackend
INVARIANTS ExitTellsDifference OutliersAreTheWrongOnes VerifyVerdictsJudged
