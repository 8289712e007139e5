\* Every request the runner can send and some it cannot, read by all ten CLIs.
SPECIFICATION Spec
CONSTANTS
  Base = 2
  KEYLEN = 1
  NONCELEN = 1
  X25519LEN = 2
  MaxAad = 2
  MaxMsg = 2
  MaxPub = 2
  MaxSig = 2
  DrawnOps <- AllOps
  CliOrder <- AllClis
  AnyOps <- OnePerFamily
  AnyBlob <- ShortAndLong
INVARIANTS TypeOK SameArguments SameTriple SomebodyAnswers
