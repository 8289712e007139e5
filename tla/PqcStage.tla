------------------------------ MODULE PqcStage ------------------------------
(***************************************************************************)
(* The two programs that set liboqs against PQClean, one after the other   *)
(* on the same build of both libraries: pqc_diff (PqcInterop), then        *)
(* pqc_kat (KatDrbg).  The variables the two modules have in common belong *)
(* to the program that runs.                                               *)
(***************************************************************************)
EXTENDS Integers, Sequences

CONSTANTS
  Schemes,               \* the tables KEMS and SIGS of both programs
  DiffIters, KatIters,   \* their argv[1]
  Draws,                 \* as in KatDrbg
  MayErr, MayFail        \* libraries that may compute wrong things, or fail

ASSUME PqcConstantsOK ==
  /\ Schemes \in Seq({"kem", "sig"})
  /\ DiffIters \in Nat \ {0} /\ KatIters \in Nat \ {0}
  /\ Draws \in [{"liboqs", "pqclean"} -> [{"keypair", "use"} -> Seq(Nat)]]
  /\ MayErr \cup MayFail \subseteq {"liboqs", "pqclean"}

VARIABLES
  program,                                          \* "diff" or "kat"
  flawed, pc, scheme, it, ran, broken, wrong, claimed,
  dir, tamper, pk, sk, ct, ss1, ss2, sig, msg, compared,   \* pqc_diff
  lib, drbg, seed, keys, out, identical                    \* pqc_kat

diffvars == <<dir, tamper, pk, sk, ct, ss1, ss2, sig, msg, compared>>
katvars  == <<lib, drbg, seed, keys, out, identical>>
vars     == <<program, flawed, pc, scheme, it, ran, broken, wrong, claimed,
              diffvars, katvars>>

I == INSTANCE PqcInterop WITH Iters <- DiffIters
K == INSTANCE KatDrbg WITH Iters <- KatIters, Kinds <- Schemes

Ended == pc \in {"abort", "exit0", "exit1"}

Init == program = "diff" /\ I!Init /\ K!Init

Diff == program = "diff" /\ I!Next /\ UNCHANGED <<program, katvars>>
Kat  == program = "kat" /\ K!Next /\ UNCHANGED <<program, diffvars>>

(* A new process: nothing of the first is left.                            *)
Handover ==
  /\ program = "diff" /\ Ended
  /\ program' = "kat" /\ pc' = "new" /\ scheme' = 1 /\ it' = 0 /\ ran' = 0
  /\ broken' = {} /\ wrong' = {} /\ claimed' = {} /\ compared' = {}
  /\ dir' = "A" /\ tamper' = 0
  /\ pk' = I!Junk /\ sk' = I!Junk /\ ct' = I!Junk /\ ss1' = I!Junk
  /\ ss2' = I!Junk /\ sig' = I!Junk /\ msg' = I!Junk
  /\ UNCHANGED <<flawed, katvars>>

Done == program = "kat" /\ Ended /\ UNCHANGED vars

Next == Diff \/ Handover \/ Kat \/ Done

Spec == Init /\ [][Next]_vars

-----------------------------------------------------------------------------
(* The loops of both programs stay within their tables and argv[1].        *)
TypeOK == (program = "diff" => I!TypeOK) /\ (program = "kat" => K!TypeOK)

(* Both programs report a violation only when a library succeeded with a   *)
(* wrong result: neither what a failed call left in the shared buffers nor *)
(* how much it drew from the shared generator is ever taken for one.       *)
NoFalseAlarm ==
  (program = "diff" => I!NoFalseAlarm) /\ (program = "kat" => K!NoFalseAlarm)

(* A wrong key pair, ciphertext or secret of a KEM does not get past the   *)
(* comparison of its direction in pqc_diff, nor a wrong byte past the cmp  *)
(* of its vector in pqc_kat.                                               *)
WrongCaught ==
  (program = "diff" => I!WrongCaught) /\ (program = "kat" => K!WrongCaught)

(* The verdicts pqc_diff compares are an acceptance of the honest message  *)
(* and a refusal of the tampered one, in both directions.                  *)
HonestThenTampered == program = "diff" => I!HonestThenTampered

(* What pqc_kat compares for vector i was made from the bytes of vector i  *)
(* alone, by each library, whatever was drawn or failed before.            *)
Replayable == program = "kat" => K!Replayable

(* What the summaries claim holds of the iterations in which no call       *)
(* failed: both directions compared, and all bytes found identical.        *)
SummaryUnlessFailed ==
  /\ program = "diff" => I!ComparedUnlessFailed
  /\ program = "kat" => K!IdenticalUnlessFailed
=============================================================================
