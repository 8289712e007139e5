\* At most one library errs, either may fail; a KEM and a signature scheme,
\* two iterations of pqc_diff and three vectors of pqc_kat.
SPECIFICATION Spec
CONSTANTS
  Schemes <- KemThenSig
  DiffIters = 2
  KatIters = 3
  Draws <- SameDraws
  MayErr <- Both
  MayFail <- Both
INVARIANTS TypeOK NoFalseAlarm WrongCaught HonestThenTampered Replayable SummaryUnlessFailed
