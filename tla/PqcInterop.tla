----------------------------- MODULE PqcInterop -----------------------------
(***************************************************************************)
(* pqc_diff_harness.c: liboqs and PQClean make keys, ciphertexts and       *)
(* signatures for each other, in both directions, a given number of times  *)
(* for every scheme.  All calls share one set of buffers; a call that      *)
(* fails leaves the iteration with `continue`; a difference aborts the     *)
(* process.                                                                *)
(*                                                                         *)
(* Keys, ciphertexts, secrets and signatures are terms that name the call  *)
(* which made them, so that a value left over from an earlier direction is *)
(* told from the one that should be there.                                 *)
(***************************************************************************)
EXTENDS Integers, Sequences

CONSTANTS
  Schemes,   \* sequence of "kem" and "sig": the tables KEMS and SIGS
  Iters,     \* iterations per scheme (argv[1])
  MayErr,    \* libraries of which one may succeed with wrong results
  MayFail    \* libraries whose calls may fail

Libs == {"liboqs", "pqclean"}
Dirs == {"A", "B"}

VARIABLES
  flawed,    \* the library that may err, or "none"
  pc,        \* the call about to be made
  scheme, it, dir, tamper,          \* loop counters
  pk, sk, ct, ss1, ss2, sig, msg,   \* the buffers
  ran,       \* schemes run
  compared,  \* <<scheme, it, dir>> whose values have been compared
  broken,    \* <<scheme, it>> in which a call failed
  wrong,     \* <<scheme, it, dir>> in which a library erred, in silence
  claimed    \* schemes whose summary line has been printed

loop    == <<scheme, it, dir, tamper>>
keys    == <<pk, sk>>
secrets == <<ct, ss1, ss2>>
signed  == <<sig, msg>>
ghosts  == <<compared, broken, wrong, claimed>>
ivars   == <<flawed, pc, loop, keys, secrets, signed, ran, ghosts>>

Junk == [at |-> "junk"]        \* uninitialised, or half written
Here == [scheme |-> scheme, it |-> it, dir |-> dir]

Other(lib) == CHOOSE l \in Libs : l # lib

(* Who makes the key pair, and opens; the other library encapsulates.      *)
Owner == IF dir = "A" THEN "liboqs" ELSE "pqclean"

Spoil(lib) == lib = flawed
Err == wrong' = wrong \cup {Here}

(* What a failing call leaves in a buffer.                                 *)
Left(old) == {old, Junk}

-----------------------------------------------------------------------------
Init ==
  /\ flawed \in MayErr \cup {"none"}
  /\ pc = "new" /\ scheme = 1 /\ it = 0 /\ dir = "A" /\ tamper = 0
  /\ pk = Junk /\ sk = Junk /\ ct = Junk /\ ss1 = Junk /\ ss2 = Junk
  /\ sig = Junk /\ msg = Junk
  /\ ran = 0
  /\ compared = {} /\ broken = {} /\ wrong = {} /\ claimed = {}

FirstCall(kind) == IF kind = "kem" THEN "keypair" ELSE "fill"

(* OQS_KEM_new, OQS_SIG_new; a scheme liboqs was built without is skipped. *)
New ==
  /\ pc = "new" /\ scheme <= Len(Schemes)
  /\ \/ /\ pc' = FirstCall(Schemes[scheme])
        /\ it' = 0 /\ dir' = "A" /\ ran' = ran + 1
        /\ pk' = Junk /\ sk' = Junk /\ ct' = Junk /\ ss1' = Junk /\ ss2' = Junk
        /\ sig' = Junk /\ msg' = Junk
        /\ UNCHANGED <<scheme, tamper>>
     \/ /\ scheme' = scheme + 1
        /\ UNCHANGED <<pc, it, dir, tamper, keys, secrets, signed, ran>>
  /\ UNCHANGED ghosts

(* main after the loops: "no PQC schemes" or the closing line.             *)
Finish ==
  /\ pc = "new" /\ scheme > Len(Schemes)
  /\ pc' = IF ran = 0 THEN "exit1" ELSE "exit0"
  /\ UNCHANGED <<loop, keys, secrets, signed, ran, ghosts>>

(* Mutation: the loop runs once more.                                      *)
NextIteration_OneMore ==
  /\ dir' = "A"
  /\ IF it < Iters
     THEN /\ it' = it + 1 /\ pc' = FirstCall(Schemes[scheme])
          /\ UNCHANGED <<scheme, claimed>>
     ELSE /\ pc' = "new" /\ scheme' = scheme + 1
          /\ claimed' = claimed \cup {scheme}
          /\ UNCHANGED it

(* The end of an iteration, regular or by `continue`; after the last one   *)
(* the summary line.                                                       *)
NextIteration ==
  /\ dir' = "A"
  /\ IF it + 1 < Iters
     THEN /\ it' = it + 1 /\ pc' = FirstCall(Schemes[scheme])
          /\ UNCHANGED <<scheme, claimed>>
     ELSE /\ pc' = "new" /\ scheme' = scheme + 1
          /\ claimed' = claimed \cup {scheme}
          /\ UNCHANGED it

(* A call of lib that fails.                                               *)
Continue(lib) ==
  /\ lib \in MayFail
  /\ NextIteration
  /\ broken' = broken \cup {<<scheme, it>>}
  /\ UNCHANGED <<tamper, ran, compared, wrong>>

(* A call of lib that succeeds, after which `next` is called.              *)
Proceed(next) ==
  /\ pc' = next
  /\ UNCHANGED <<loop, ran, compared, broken, claimed>>

AfterKeypair == IF Schemes[scheme] = "kem" THEN "encaps" ELSE "sign"

(* Mutation: the status of keypair is not looked at.                       *)
Keypair_Unchecked ==
  /\ pc = "keypair"
  /\ \/ /\ pk' = Here /\ sk' = Here
        /\ UNCHANGED wrong
     \/ /\ Spoil(Owner) /\ pk' = Here /\ sk' = Junk /\ Err
     \/ /\ Owner \in MayFail /\ pk' \in Left(pk) /\ sk' \in Left(sk)
        /\ UNCHANGED wrong
  /\ Proceed(AfterKeypair)
  /\ UNCHANGED <<secrets, signed>>

(* keypair(pk, sk); a wrong pair does not belong together.                 *)
Keypair ==
  /\ pc = "keypair"
  /\ \/ /\ pk' = Here /\ sk' = Here
        /\ Proceed(AfterKeypair) /\ UNCHANGED wrong
     \/ /\ Spoil(Owner) /\ pk' = Here /\ sk' = Junk /\ Err
        /\ Proceed(AfterKeypair)
     \/ /\ pk' \in Left(pk) /\ sk' \in Left(sk)
        /\ Continue(Owner)
  /\ UNCHANGED <<secrets, signed>>

-----------------------------------------------------------------------------
(* KEM.  A ciphertext names the call that made it and the public key; the  *)
(* secret of a ciphertext under a key that does not fit is another one     *)
(* (implicit rejection).                                                   *)
Cipher(p) == [at |-> Here, to |-> p]
Secret(c, how) == [at |-> Here, of |-> c, how |-> how]
Opened(c, s) ==
  Secret(c, IF c # Junk /\ c.to = s THEN "shared" ELSE "implicit")

(* Mutation: the status of encaps is not looked at.                        *)
Encaps_Unchecked ==
  /\ pc = "encaps"
  /\ \/ /\ ct' = Cipher(pk) /\ ss1' = Secret(ct', "shared")
        /\ UNCHANGED wrong
     \/ /\ Spoil(Other(Owner)) /\ ct' = Cipher(pk) /\ ss1' = Secret(ct', "wrong") /\ Err
     \/ /\ Other(Owner) \in MayFail /\ ct' \in Left(ct) /\ ss1' \in Left(ss1)
        /\ UNCHANGED wrong
  /\ Proceed("decaps")
  /\ UNCHANGED <<keys, ss2, signed>>

(* enc(ct, ss1, pk)                                                        *)
Encaps ==
  /\ pc = "encaps"
  /\ \/ /\ ct' = Cipher(pk) /\ ss1' = Secret(ct', "shared")
        /\ Proceed("decaps") /\ UNCHANGED wrong
     \/ /\ Spoil(Other(Owner)) /\ ct' = Cipher(pk) /\ ss1' = Secret(ct', "wrong") /\ Err
        /\ Proceed("decaps")
     \/ /\ ct' \in Left(ct) /\ ss1' \in Left(ss1)
        /\ Continue(Other(Owner))
  /\ UNCHANGED <<keys, ss2, signed>>

(* dec(ss2, ct, sk)                                                        *)
Decaps ==
  /\ pc = "decaps"
  /\ \/ /\ ss2' = Opened(ct, sk)
        /\ Proceed("memcmp") /\ UNCHANGED wrong
     \/ /\ Spoil(Owner) /\ ss2' = Secret(ct, "garbled") /\ Err
        /\ Proceed("memcmp")
     \/ /\ ss2' \in Left(ss2)
        /\ Continue(Owner)
  /\ UNCHANGED <<keys, ct, ss1, signed>>

(* What follows a comparison without a difference, which was the last of   *)
(* its direction.                                                          *)
OtherDirection(first) ==
  IF dir = "A"
  THEN /\ dir' = "B" /\ pc' = first
       /\ UNCHANGED <<scheme, it, claimed>>
  ELSE NextIteration

(* Mutation: a buffer is compared with itself.                             *)
CompareSecrets_Self ==
  /\ pc = "memcmp"
  /\ compared' = compared \cup {<<scheme, it, dir>>}
  /\ OtherDirection("keypair")
  /\ UNCHANGED <<tamper, keys, secrets, signed, ran, broken, wrong>>

(* Mutation: the end of direction A is taken for the end of the iteration. *)
CompareSecrets_OneDirection ==
  /\ pc = "memcmp"
  /\ compared' = compared \cup {<<scheme, it, dir>>}
  /\ IF ss1 # ss2
     THEN pc' = "abort" /\ UNCHANGED <<scheme, it, dir, claimed>>
     ELSE NextIteration
  /\ UNCHANGED <<tamper, keys, secrets, signed, ran, broken, wrong>>

(* memcmp(ss1, ss2)                                                        *)
CompareSecrets ==
  /\ pc = "memcmp"
  /\ compared' = compared \cup {<<scheme, it, dir>>}
  /\ IF ss1 # ss2
     THEN pc' = "abort" /\ UNCHANGED <<scheme, it, dir, claimed>>
     ELSE OtherDirection("keypair")
  /\ UNCHANGED <<tamper, keys, secrets, signed, ran, broken, wrong>>

-----------------------------------------------------------------------------
(* Signatures.                                                             *)

(* fill_random(msg), at the head of both directions.                       *)
Fill ==
  /\ pc = "fill"
  /\ msg' = [at |-> Here, flipped |-> FALSE]
  /\ Proceed("keypair")
  /\ UNCHANGED <<keys, secrets, sig, wrong>>

(* sign(sig, msg, sk)                                                      *)
Sign ==
  /\ pc = "sign"
  /\ \/ /\ sig' = [at |-> Here, key |-> sk, over |-> msg]
        /\ UNCHANGED wrong
        /\ pc' = "verify" /\ tamper' = 0
        /\ UNCHANGED <<scheme, it, dir, ran, compared, broken, claimed>>
     \/ /\ Spoil(Owner)
        /\ sig' = [at |-> Here, key |-> Junk, over |-> msg] /\ Err
        /\ pc' = "verify" /\ tamper' = 0
        /\ UNCHANGED <<scheme, it, dir, ran, compared, broken, claimed>>
     \/ /\ sig' \in Left(sig)
        /\ Continue(Owner)
  /\ UNCHANGED <<keys, secrets, msg>>

Valid == sig # Junk /\ sig.key # Junk /\ sig.key = pk /\ sig.over = msg

(* One turn of the tamper loop up to the comparison: both libraries'       *)
(* verdicts on the message as it stands.                                   *)
Verify ==
  /\ pc = "verify"
  /\ \E oqs, pqc \in BOOLEAN :
       /\ oqs = Valid \/ Spoil("liboqs")
       /\ pqc = Valid \/ Spoil("pqclean")
       /\ IF oqs = Valid /\ pqc = Valid THEN UNCHANGED wrong ELSE Err
       /\ compared' = IF tamper = 1 THEN compared \cup {<<scheme, it, dir>>}
                                     ELSE compared
       /\ \/ /\ oqs # pqc
             /\ pc' = "abort"
             /\ UNCHANGED <<loop, msg, claimed>>
          \/ /\ oqs = pqc /\ tamper = 0
             /\ tamper' = 1
             /\ msg' = [msg EXCEPT !.flipped = ~ @]
             /\ UNCHANGED <<pc, scheme, it, dir, claimed>>
          \/ /\ oqs = pqc /\ tamper = 1
             /\ OtherDirection("fill")
             /\ UNCHANGED <<tamper, msg>>
  /\ UNCHANGED <<keys, secrets, sig, ran, broken>>

-----------------------------------------------------------------------------
Next ==
  /\ \/ New \/ Finish
     \/ Keypair
     \/ Encaps \/ Decaps \/ CompareSecrets
     \/ Fill \/ Sign \/ Verify
  /\ UNCHANGED flawed

Stop == pc \in {"abort", "exit0", "exit1"} /\ UNCHANGED ivars

Spec == Init /\ [][Next \/ Stop]_ivars

-----------------------------------------------------------------------------
TypeOK ==
  /\ pc \in {"new", "keypair", "encaps", "decaps", "memcmp", "fill", "sign",
             "verify", "abort", "exit0", "exit1"}
  /\ scheme \in 1 .. Len(Schemes) + 1
  /\ it \in 0 .. Iters - 1 /\ dir \in Dirs /\ tamper \in {0, 1}
  /\ ran \in 0 .. Len(Schemes)

(* A violation is reported only when a library succeeded with a wrong      *)
(* result: values that a failed call left in the shared buffers are never  *)
(* compared with fresh ones.                                               *)
NoFalseAlarm == pc = "abort" => wrong # {}

(* With one library that errs, a wrong key pair, ciphertext or secret of a *)
(* KEM does not get past the comparison of its direction, whatever the     *)
(* calls before it left in the buffers.                                    *)
WrongCaught ==
  pc # "abort" =>
    \A w \in wrong :
      Schemes[w.scheme] = "kem" => <<w.scheme, w.it, w.dir>> \notin compared

(* The verdicts compared are an acceptance of the honest message and a     *)
(* refusal of the tampered one, in both directions and although buffers    *)
(* survive failed calls: the comparison is never of two refusals of the    *)
(* same stale signature.                                                   *)
HonestThenTampered ==
  pc = "verify" /\ wrong = {} => (Valid <=> tamper = 0)

(* What the summary of a scheme claims holds of the iterations in which no *)
(* call failed: both directions have been compared.                        *)
ComparedUnlessFailed ==
  \A s \in claimed, i \in 0 .. Iters - 1 :
    <<s, i>> \notin broken => \A d \in Dirs : <<s, i, d>> \in compared
=============================================================================
