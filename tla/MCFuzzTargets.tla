--------------------------- MODULE MCFuzzTargets ---------------------------
(* Every build whose ciphertext fits comp_hpke's buffer, and the one whose *)
(* does not.                                                               *)
EXTENDS FuzzTargets

MCBuilds == {x \in TargetBuilds : x.h # "hpke_mlkem"}
PostQuantumHpke == {x \in TargetBuilds : x.h = "hpke_mlkem"}
NoCall == {}
MCFailing == {"keypair", "encaps", "decaps", "sign", "verify", "seal", "open",
              "hkdf", "compute", "rand", "digest", "hmac", "pub", "homomorphic"}
=============================================================================
