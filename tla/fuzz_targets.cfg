SPECIFICATION Spec
CONSTANTS
  Builds <- MCBuilds
  Failing <- MCFailing
INVARIANTS
  TypeOK
  NoFalseAlarm
  DefectCaught
  RightOracle
  FaultFires
  ContractKept
  KeysOfThisInput
  OraclesReached
