-------------------------- MODULE SequenceHarness --------------------------
(***************************************************************************)
(* The L3 targets: sequences of calls against a usage contract.            *)
(*   seq_aead      seq_aead_harness.c (OpenSSL: nonces from a counter)     *)
(*   seq_oneshot   subproc/seq_{boringssl,aws_lc,wolfssl,botan}_harness:   *)
(*                 nonces are drawn, every call's status is looked at      *)
(*   seq_ecdsa     seq_ecdsa_harness.c                                     *)
(*   seq_evp       seq_evp_harness.c                                       *)
(*   seq_pqc       seq_pqc_harness.c                                       *)
(* "log" is the contract's view: which nonce each encryption under a key   *)
(* used, which plaintexts were handed on, whether a freed context was used.*)
(***************************************************************************)
EXTENDS FuzzTarget

AeadSeq == {"seq_aead", "seq_oneshot"}

AeadDefects == {"aead_rejects", "aead_no_tag", "aead_wrong"}
EcdsaDefects == {"sig_rejects"}
PqcDefects == {"kem_wrong", "kem_any_key"}

Sealing(nth, key, nonce) ==
  [what |-> "sealed", nth |-> nth, key |-> key, nonce |-> nonce]
Handed(box) == [what |-> "handed on", box |-> box]
Touched == [what |-> "freed context used"]

Log(e) == log' = log \cup {e}

-----------------------------------------------------------------------------
(* mode & 1 chooses the half of the target; a fault build has only one.    *)
Chosen(b, fault1, fault2) ==
  CASE build.fault = fault1 -> 1
    [] build.fault = fault2 -> 2
    [] OTHER -> IF "odd" \in b THEN 2 ELSE 1

(* "tiny": no message is left (or, for a nonce test, fewer than 2 bytes).  *)
AeadBegin ==
  /\ build.h \in AeadSeq
  /\ \E b \in SUBSET {"odd", "tamper", "tiny"} :
       Begin(b, IF Chosen(b, "NONCE", "RELEASE") = 1 THEN "nonce" ELSE "release",
             {"k", "n1", "n2", "c1", "c2", "ct"})

(* nonce_source: a counter for OpenSSL, random for the others.             *)
NonceSource(nth, at) ==
  IF build.fault = "NONCE" THEN Constant
  ELSE IF build.h = "seq_aead" THEN [kind |-> "counter", at |-> nth]
  ELSE Random(at)

NonceDraws ==
  IF build.h = "seq_oneshot" /\ build.fault # "NONCE" THEN 1 ELSE 0

(* A seal of the OpenSSL target is never seen to fail, and what it leaves  *)
(* does not change the nonces, which is all its oracle looks at.           *)
SealFails == build.h = "seq_oneshot" /\ Fails("seal")

NonceKey ==
  /\ pc = "nonce"
  /\ IF build.h = "seq_oneshot" /\ "tiny" \in bits THEN Goto("return")
     ELSE Goto("seal1")
  /\ Set("k", Random(draws))
  /\ Drawn(IF build.h = "seq_aead" THEN 3 ELSE 1)     \* and m1, m2
  /\ UNCHANGED <<failed, log>>

(* Two different messages, m1 and m2, under one key.                       *)
SealFirst ==
  /\ pc = "seal1"
  /\ LET nonce == NonceSource(1, draws) IN
       \/ /\ Works
          /\ mem' = [mem EXCEPT !.n1 = nonce,
                                !.c1 = Sealed(mem.k, nonce, Message(1))]
          /\ Log(Sealing(1, mem.k, nonce))
          /\ Goto("seal2")
       \/ /\ SealFails /\ Set("n1", nonce) /\ UNCHANGED log
          /\ Goto("seal2") \/ Goto("return")           \* Botan's returns
  /\ Drawn(NonceDraws)

SealSecond ==
  /\ pc = "seal2"
  /\ LET nonce == NonceSource(2, draws) IN
       \/ /\ Works
          /\ mem' = [mem EXCEPT !.n2 = nonce,
                                !.c2 = Sealed(mem.k, nonce, Message(2))]
          /\ Log(Sealing(2, mem.k, nonce))
          /\ Goto(IF "seal" \in failed THEN "return" ELSE "reuse")
       \/ SealFails /\ Set("n2", nonce) /\ Goto("return") /\ UNCHANGED log
  /\ Drawn(NonceDraws)

(* ct1 ^ ct2 = m1 ^ m2: the same key stream was used.                      *)
Leaks(c1, c2) == c1.key = c2.key /\ c1.nonce = c2.nonce

(* Mutation: the nonces of the two calls are compared with themselves.     *)
NonceReuse_Self ==
  /\ pc = "reuse"
  /\ IF build.h = "seq_aead"
     THEN Assert(mem.n1 = mem.n1, "O6-nonce-uniqueness", "return")
     ELSE Goto("return")
  /\ UNCHANGED <<mem, draws, failed, log>>

NonceReuse ==
  /\ pc = "reuse"
  /\ IF build.h = "seq_aead"
     THEN Assert(mem.n1 # mem.n2, "O6-nonce-uniqueness", "return")
     ELSE Assert(~ (mem.n1 = mem.n2 /\ Leaks(mem.c1, mem.c2)),
                 "O6-nonce-uniqueness", "return")
  /\ UNCHANGED <<mem, draws, failed, log>>

(* Key and nonce, the seal, and perhaps a bit of ct flipped.  A seal of    *)
(* the OpenSSL target that fails unseen may have written no bytes, and the *)
(* position of the bit is then taken modulo 0.                             *)
ReleaseSeal ==
  /\ pc = "release"
  /\ IF "tiny" \in bits
     THEN Goto("return") /\ UNCHANGED <<mem, failed>>
     ELSE LET box == Sealed(Random(0), Random(1), Message(1)) IN
          \/ /\ \/ Works /\ Goto("deliver")
                \/ /\ build.h = "seq_aead" /\ Fails("seal")
                   /\ \/ Goto("deliver")
                      \/ "tamper" \in bits /\ Goto("terminated")
             /\ mem' = [mem EXCEPT !.k = Random(0), !.n1 = Random(1),
                          !.ct = IF "tamper" \in bits THEN Flip(box) ELSE box]
          \/ SealFails /\ Goto("return") /\ UNCHANGED mem
  /\ Drawn(IF build.h = "seq_aead" /\ "tamper" \in bits /\ "tiny" \notin bits
           THEN 3 ELSE 2)                             \* and which byte
  /\ UNCHANGED log

(* Opening; the plaintext is delivered if it succeeds, or by the fault.    *)
ReleaseDeliver ==
  /\ pc = "deliver"
  /\ \E ok \in BOOLEAN :
       /\ IF "tamper" \in bits \/ build.h = "seq_oneshot"
          THEN Reopened(ok, Opens(defect, mem.ct, mem.k, mem.n1))
          ELSE Opened(ok, Opens(defect, mem.ct, mem.k, mem.n1))
       /\ LET deliver == ok \/ build.fault = "RELEASE"
          IN \E pt \in IF ok /\ "seal" \notin failed THEN {Plaintext(defect, mem.ct)}
                       ELSE {Garbage, mem.ct.msg} :
             /\ IF deliver THEN Log(Handed(mem.ct)) ELSE UNCHANGED log
             /\ Assert(/\ ~ (deliver /\ "tamper" \in bits)
                       /\ deliver /\ "tamper" \notin bits => pt = mem.ct.msg,
                       "O6-release-before-verify", "return")
  /\ UNCHANGED <<mem, draws>>

AeadExercises(d) ==
  CASE d = "aead_rejects" -> FALSE        \* nothing is delivered: see README
    [] d = "aead_no_tag"  -> pc = "return" /\ mem.ct # Garbage /\ "tamper" \in bits
    [] d = "aead_wrong"   -> pc = "return" /\ mem.ct # Garbage /\ "tamper" \notin bits

-----------------------------------------------------------------------------
(* ECDSA with the caller's k; OpenSSL's own generator draws d and k.       *)
EcdsaBegin ==
  /\ build.h = "seq_ecdsa"
  /\ Begin({}, "ecdsa1", {"r1", "s1", "r2", "s2"})

NonceK(nth) ==
  IF build.fault = "KREUSE" THEN Constant ELSE [kind |-> "fresh", at |-> nth]

One == [kind |-> "one"]

(* ecdsa_sign: r names k.  Whether BN_rand_range failed is not looked at,  *)
(* and k is then 1.  R = kG is, and a signature that fails there, or comes *)
(* out 0, ends the input; what fails behind R leaves a wrong s.            *)
EcdsaSign(nth, r, s, next) ==
  \/ \E k \in {NonceK(nth), One},
        made \in {Signature(Pair(0), Message(nth)), Garbage} :
       /\ \/ Works /\ k = NonceK(nth) /\ made # Garbage
          \/ build.fault # "KREUSE" /\ Fails("rand") /\ k = One /\ made # Garbage
          \/ Fails("sign") /\ k = NonceK(nth) /\ made = Garbage
       /\ mem' = [mem EXCEPT ![r] = k, ![s] = made]
       /\ Log(Sealing(nth, Pair(0), k)) /\ Goto(next)
  \/ Fails("sign") /\ Goto("return") /\ UNCHANGED <<mem, log>>

(* The two messages are drawn before the first.                            *)
EcdsaFirst == pc = "ecdsa1" /\ EcdsaSign(1, "r1", "s1", "ecdsa2") /\ Drawn(2)
EcdsaSecond ==
  pc = "ecdsa2" /\ EcdsaSign(2, "r2", "s2", "ecdsa_verify") /\ UNCHANGED draws

(* The first signature is verified, the second is not.  No status is       *)
(* looked at: the public key may be wrong, or the point that is compared.  *)
EcdsaVerify ==
  /\ pc = "ecdsa_verify"
  /\ \E ok \in BOOLEAN :
       /\ Verify(ok, mem.s1, Message(1), Pair(0))
       /\ Assert(ok, "O6-sign-verify", "ecdsa_reuse")
  /\ UNCHANGED <<mem, draws, log>>

EcdsaReuse ==
  /\ pc = "ecdsa_reuse"
  /\ Assert(mem.r1 # mem.r2, "O6-ecdsa-k-uniqueness", "return")
  /\ UNCHANGED <<mem, draws, failed, log>>

-----------------------------------------------------------------------------
(* CBC with an IV per message, and the life of a cipher context.           *)
EvpBegin ==
  /\ build.h = "seq_evp"
  /\ \E b \in SUBSET {"odd", "tiny"} :
       Begin(b, IF Chosen(b, "IV", "UAF") = 1 THEN "iv" ELSE "context",
             {"c1", "c2", "ctx"})

IvSource(at) == IF build.fault = "IV" THEN Constant ELSE Random(at)

NoBytes == [kind |-> "no bytes"]
Sealings(c1, c2) ==
  (IF c1 = NoBytes THEN {} ELSE {Sealing(1, c1.key, c1.nonce)}) \cup
  (IF c2 = NoBytes THEN {} ELSE {Sealing(2, c2.key, c2.nonce)})

(* The same plaintext twice; the key was drawn first.  cbc_enc looks at no *)
(* status, and when the cipher fails it has written no bytes.              *)
EvpEncrypt ==
  /\ pc = "iv"
  /\ IF "tiny" \in bits
     THEN Goto("return") /\ Drawn(1) /\ UNCHANGED <<mem, failed, log>>
     ELSE LET box(i) == Sealed(Random(0), IvSource(i), Message(1)) IN
          /\ Drawn(IF build.fault = "IV" THEN 1 ELSE 3) /\ Goto("iv_reuse")
          /\ \E c1 \in {box(1), NoBytes}, c2 \in {box(2), NoBytes} :
               /\ IF NoBytes \in {c1, c2} THEN Fails("seal") ELSE Works
               /\ mem' = [mem EXCEPT !.c1 = c1, !.c2 = c2]
               /\ log' = log \cup Sealings(c1, c2)

EvpReuse ==
  /\ pc = "iv_reuse"
  /\ Assert(mem.c1 # mem.c2, "O6-iv-unpredictability", "return")
  /\ UNCHANGED <<mem, draws, failed, log>>

(* new, init, update, free, whose outcome nobody looks at; the fault build *)
(* updates once more, which is undefined: the process may be killed there. *)
EvpContext ==
  /\ pc = "context"
  /\ Drawn(2)
  /\ IF build.fault = "UAF" /\ "tiny" \notin bits
     THEN /\ Log(Touched) /\ pc' = "abort"
          /\ report' \in {"O6-ctx-use-after-free", "sanitizer"}
     ELSE Goto("return") /\ UNCHANGED log
  /\ UNCHANGED <<mem, failed>>

-----------------------------------------------------------------------------
(* KEM session with two parties; liboqs draws from its own generator.      *)
PqcBegin ==
  /\ build.h = "seq_pqc"
  /\ Begin({}, "pqc_keys", {"pairA", "pairB", "ct", "ss_enc"})

PqcKeys ==
  /\ pc = "pqc_keys"
  /\ \/ /\ Works /\ Goto("pqc_honest")
        /\ LET ct == Cipher(Pair(1), 3) IN
             mem' = [mem EXCEPT !.pairA = Pair(1), !.pairB = Pair(2),
                                !.ct = ct, !.ss_enc = Secret(ct)]
     \/ (Fails("keypair") \/ Fails("encaps")) /\ Goto("return") /\ UNCHANGED mem
  /\ UNCHANGED <<draws, log>>

PqcHonest ==
  /\ pc = "pqc_honest"
  /\ \/ /\ Works
        /\ \E s \in Decapsulations(defect, mem.ct, mem.pairA) :
             Assert(s = mem.ss_enc, "O6-kem-roundtrip", "pqc_misuse")
     \/ Fails("decaps") /\ Goto("pqc_misuse")
  /\ UNCHANGED <<mem, draws, log>>

(* decaps with the wrong party's key; the fault aliases the results.       *)
PqcMisuse ==
  /\ pc = "pqc_misuse"
  /\ \/ /\ Works
        /\ \E s \in Decapsulations(defect, mem.ct, mem.pairB) :
             Assert(s # mem.ss_enc /\ build.fault # "KEMSWAP",
                    "O6-kem-key-confusion", "return")
     \/ Fails("decaps") /\ Goto("return")
  /\ UNCHANGED <<mem, draws, log>>

-----------------------------------------------------------------------------
SequenceOracles(d) ==
  CASE d \in AeadDefects     -> {"O6-release-before-verify"}
    [] d = "sig_rejects"     -> {"O6-sign-verify"}
    [] d = "kem_wrong"       -> {"O6-kem-roundtrip"}
    [] d = "kem_any_key"     -> {"O6-kem-key-confusion"}

SequenceExercises(d) ==
  CASE d \in AeadDefects -> AeadExercises(d)
    [] OTHER             -> TRUE

SequenceBegin == AeadBegin \/ EcdsaBegin \/ EvpBegin \/ PqcBegin

SequenceStep ==
  /\ \/ NonceKey \/ SealFirst \/ SealSecond \/ NonceReuse
     \/ ReleaseSeal \/ ReleaseDeliver
     \/ EcdsaFirst \/ EcdsaSecond \/ EcdsaVerify \/ EcdsaReuse
     \/ EvpEncrypt \/ EvpReuse \/ EvpContext
     \/ PqcKeys \/ PqcHonest \/ PqcMisuse
  /\ UNCHANGED bits
=============================================================================
