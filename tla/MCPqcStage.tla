----------------------------- MODULE MCPqcStage -----------------------------
(* Constants for the run of PqcStage.                                      *)
EXTENDS PqcStage

KemThenSig == <<"kem", "sig">>
Both == {"liboqs", "pqclean"}

(* Key generation draws once or twice, depending on the scheme; the other  *)
(* call once; both libraries draw alike.                                   *)
SameDraws ==
  [l \in Both |-> [c \in {"keypair", "use"} |->
                     IF c = "keypair" THEN <<32, 32>> ELSE <<32>>]]
=============================================================================
