\* ML-KEM-768: its ciphertext does not fit the buffer.
SPECIFICATION Spec
CONSTANTS
  Builds <- PostQuantumHpke
  Failing <- NoCall
INVARIANTS OraclesReached
