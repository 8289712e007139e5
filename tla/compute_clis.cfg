\* Every function of the six CLIs, one request after another.
SPECIFICATION Spec
CONSTANTS
  Clis = {"boringssl", "aws_lc", "wolfssl", "botan", "libgcrypt", "nettle"}
INVARIANTS TypeOK ReleasedOnce ReplyIsFresh AcceptsOnlyVerified
