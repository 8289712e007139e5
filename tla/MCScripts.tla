------------------------------ MODULE MCScripts -----------------------------
(* Constants for the runs of Scripts.                                      *)
EXTENDS Scripts

(* A libFuzzer target that says so before the end of its help, one that    *)
(* does in its last line, and a program that never does.                   *)
FuzzerAndDriver == <<2, 0>>
TwoFuzzers      == <<2, 0, 3>>

(* The first two names differ in a "/" only.                               *)
TwoShareAFile   == <<1, 1, 2>>

(* A traditional or KEM operation, and a lattice scheme.                   *)
Operations == {<<"pool", "ct">>, <<"sign", "vartime">>}

(* Two neighbours and one far away.                                        *)
NearAndFar == {1, 2, 9}
=============================================================================
