---------------------------- MODULE MCDiffRunner ----------------------------
(* Constants for the runs of DiffRunner.                                   *)
EXTENDS DiffRunner

NoBackend == {}
AllBackends == 0 .. NB - 1

AllKinds == Kinds
ComputeOnly == {"digest"}
SelfTestKinds == {"digest", "ext"}

(* Stdio buffers: backend 0 flushes every line (C, Java, Python), backend  *)
(* 1 holds two lines (Go, Rust).                                           *)
FlushPerLine == [x \in Backends |-> 1]
OneBuffered  == [x \in Backends |-> IF x = 1 THEN 2 ELSE 1]

(* Every backend implements everything; or only backend 0 does; or no two  *)
(* of four implement the same, which with OpenSSL gives five voters on a   *)
(* digest, four on X25519, three on a later operation and on a verify.     *)
Everything == [x \in Backends |-> Kinds]
OnlyFirstHasAll == [x \in Backends |-> IF x = 0 THEN Kinds ELSE {"digest", "x25519"}]
Graded == [x \in Backends |->
  CASE x = 0 -> Kinds
    [] x = 1 -> {"digest", "x25519", "verify"}
    [] x = 2 -> {"digest", "x25519", "ext"}
    [] OTHER -> {"digest"}]
NoExt == [x \in Backends |-> Kinds \ {"ext"}]

NoInjection == [x \in Backends |-> "off"]
InjectSecond == [x \in Backends |-> IF x = 1 THEN "every" ELSE "off"]
InjectFirst == [x \in Backends |-> "first"]
=============================================================================
