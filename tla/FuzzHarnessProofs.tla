-------------------------- MODULE FuzzHarnessProofs --------------------------
(***************************************************************************)
(* What each libFuzzer target keeps true while it works on an input: the   *)
(* locations it can be at, what its variables hold there, which defects    *)
(* and faults the oracles behind it exclude, and what may have made it     *)
(* report.  FuzzTargetsProofs puts them together.                          *)
(***************************************************************************)
EXTENDS FuzzTargets, TLAPS

(* Where a process of a harness can be: outside an input, or at one of the *)
(* locations of its family.                                                *)
Outside == {"idle", "return", "abort"}

KemPlaces == {"kem_keypair", "kem_encaps", "kem_MR1", "kem_MR4", "kem_MR2",
              "kem_MR3", "kem_MR3b", "kem_MEM"}
SigPlaces == {"sig_keypair", "sig_sign", "sig_MR1", "sig_fault", "sig_MR2",
              "sig_MR3", "sig_MR4", "sig_MR4b", "sig_MEM"}
AeadPlaces == {"nonce", "seal1", "seal2", "reuse", "release", "deliver"}
EcdsaPlaces == {"ecdsa1", "ecdsa2", "ecdsa_verify", "ecdsa_reuse"}
EvpPlaces == {"iv", "iv_reuse", "context"}
PqcPlaces == {"pqc_keys", "pqc_honest", "pqc_misuse"}
AkPlaces == {"ak_keys", "ak_sign", "ak_verify", "ak_record", "ak_tamper"}
KdfPlaces == {"kdf_chain", "kdf_seal", "kdf_open", "kdf_separate"}
EtmPlaces == {"etm_seal", "etm_open", "etm_tamper"}
RecPlaces == {"rec_seal", "rec_open", "rec_seq", "rec_tamper"}
HpkePlaces == {"hpke_setup", "hpke_encaps", "hpke_seal", "hpke_open", "hpke_bind",
               "hpke_tamper", "hpke_end"}
MetaPlaces == {"digest", "chunks", "hmac", "aead", "aead_open", "aead_tamper",
               "aead_key"}
MultiPlaces == {"ask", "agree"}

-----------------------------------------------------------------------------
(* The primitives.                                                         *)

(* Values of different kinds, or made from different things, are different. *)
LEMMA PairsApart == ASSUME NEW i, NEW j, Pair(i) = Pair(j) PROVE i = j
<1>1. Pair(i).at = i /\ Pair(j).at = j BY DEF Pair
<1> QED BY <1>1

LEMMA RandomsApart == ASSUME NEW i, NEW j, Random(i) = Random(j) PROVE i = j
<1>1. Random(i).at = i /\ Random(j).at = j BY DEF Random
<1> QED BY <1>1

LEMMA MessagesApart == ASSUME NEW i, NEW j, Message(i) = Message(j) PROVE i = j
<1>1. Message(i).at = i /\ Message(j).at = j BY DEF Message
<1> QED BY <1>1

LEMMA SecretsApart == ASSUME NEW c, NEW e, Secret(c) = Secret(e) PROVE c = e
<1>1. Secret(c).of = c /\ Secret(e).of = e BY DEF Secret
<1> QED BY <1>1

LEMMA RejectedApart == ASSUME NEW c, NEW e, NEW p PROVE Secret(c) # Rejected(e, p)
<1>1. Secret(c).kind = "secret" BY DEF Secret
<1>2. Rejected(e, p).kind = "rejected" BY DEF Rejected
<1> QED BY <1>1, <1>2

LEMMA GarbageApart ==
  ASSUME NEW x, NEW i, NEW p, NEW m, NEW n, NEW k
  PROVE  /\ Garbage # Secret(x) /\ Garbage # Random(i) /\ Garbage # Message(i)
         /\ Garbage # Sealed(k, n, m) /\ Garbage # Constant
         /\ Garbage.kind # "signature"
<1>1. Garbage.kind = "garbage" BY DEF Garbage
<1>2. /\ Secret(x).kind = "secret" /\ Random(i).kind = "random"
      /\ Message(i).kind = "message" /\ Sealed(k, n, m).kind = "sealed"
      /\ Constant.kind = "constant"
  BY DEF Secret, Random, Message, Sealed, Constant
<1> QED BY <1>1, <1>2

LEMMA CipherParts ==
  ASSUME NEW p, NEW i
  PROVE  /\ Cipher(p, i).to = p /\ Cipher(p, i).flipped = FALSE
         /\ Flip(Cipher(p, i)).to = p /\ Flip(Cipher(p, i)).flipped = TRUE
         /\ Flip(Cipher(p, i)) # Cipher(p, i)
         /\ [Cipher(p, i) EXCEPT !.flipped = FALSE] = Cipher(p, i)
         /\ [Flip(Cipher(p, i)) EXCEPT !.flipped = FALSE] = Cipher(p, i)
<1> DEFINE Bit(b) == [kind |-> "cipher", to |-> p, at |-> i, flipped |-> b]
<1>1. ASSUME NEW b \in BOOLEAN
      PROVE  /\ Flip(Bit(b)) = Bit(~ b)
             /\ Bit(b).to = p /\ Bit(b).flipped = b
  BY DEF Flip
<1>2. ASSUME NEW b \in BOOLEAN, NEW e \in BOOLEAN
      PROVE  [Bit(b) EXCEPT !.flipped = e] = Bit(e)
  OBVIOUS
<1>3. Cipher(p, i) = Bit(FALSE) BY DEF Cipher
<1> HIDE DEF Bit
<1>4. Flip(Bit(FALSE)) = Bit(TRUE) BY <1>1
<1>5. [Bit(FALSE) EXCEPT !.flipped = FALSE] = Bit(FALSE) BY <1>2
<1>6. [Bit(TRUE) EXCEPT !.flipped = FALSE] = Bit(FALSE) BY <1>2
<1>7. Bit(TRUE) # Bit(FALSE) BY <1>1
<1> QED BY <1>1, <1>3, <1>4, <1>5, <1>6, <1>7, Zenon

(* Decapsulation by the addressee, of a changed ciphertext, by another.    *)
LEMMA DecapsulatesOwn ==
  ASSUME NEW d, NEW p, NEW i, NEW s \in Decapsulations(d, Cipher(p, i), p)
  PROVE  /\ s \in {Secret(Cipher(p, i)), Rejected(Cipher(p, i), p)}
         /\ s = Secret(Cipher(p, i)) \/ d \in {"kem_wrong", "kem_unstable"}
         /\ d = "kem_wrong" => s # Secret(Cipher(p, i))
<1> DEFINE c == Cipher(p, i)
<1>1. c.to = p /\ [c EXCEPT !.flipped = FALSE] = c BY CipherParts
<1>2. Secret(c) # Rejected(c, p) BY RejectedApart
<1> HIDE DEF c
<1>3. CASE d = "kem_wrong" BY <1>1, <1>2, <1>3 DEF Decapsulations, c
<1>4. CASE d = "kem_unstable" BY <1>1, <1>2, <1>4 DEF Decapsulations, c
<1>5. CASE d = "kem_malleable" BY <1>1, <1>2, <1>5 DEF Decapsulations, c
<1>6. CASE d \notin {"kem_wrong", "kem_unstable", "kem_malleable"}
  BY <1>1, <1>2, <1>6 DEF Decapsulations, c
<1> QED BY <1>3, <1>4, <1>5, <1>6

LEMMA DecapsulatesFlipped ==
  ASSUME NEW d, NEW p, NEW i, NEW s \in Decapsulations(d, Flip(Cipher(p, i)), p)
  PROVE  s = Secret(Cipher(p, i)) <=> d = "kem_malleable"
<1> DEFINE c == Cipher(p, i)
           f == Flip(c)
<1>1. f.to = p /\ [f EXCEPT !.flipped = FALSE] = c /\ f # c BY CipherParts
<1>2. Secret(f) # Secret(c) BY <1>1, SecretsApart
<1>3. Rejected(f, p) # Secret(c) BY RejectedApart
<1> HIDE DEF c, f
<1>4. s \in Decapsulations(d, f, p) BY DEF c, f
<1>5. CASE d = "kem_wrong" BY <1>1, <1>3, <1>4, <1>5 DEF Decapsulations, c
<1>6. CASE d = "kem_unstable" BY <1>1, <1>2, <1>3, <1>4, <1>6 DEF Decapsulations, c
<1>7. CASE d = "kem_malleable" BY <1>1, <1>4, <1>7 DEF Decapsulations, c
<1>8. CASE d \notin {"kem_wrong", "kem_unstable", "kem_malleable"}
  BY <1>1, <1>2, <1>4, <1>8 DEF Decapsulations, c
<1> QED BY <1>5, <1>6, <1>7, <1>8

LEMMA DecapsulatesOther ==
  ASSUME NEW d, NEW p, NEW q, p # q,
         NEW i, NEW s \in Decapsulations(d, Cipher(p, i), q)
  PROVE  s = Secret(Cipher(p, i)) <=> d = "kem_any_key"
<1> DEFINE c == Cipher(p, i)
<1>1. c.to = p BY CipherParts
<1>2. Rejected(c, q) # Secret(c) BY RejectedApart
<1> HIDE DEF c
<1>3. s \in Decapsulations(d, c, q) BY DEF c
<1>4. CASE d = "kem_any_key" BY <1>1, <1>3, <1>4 DEF Decapsulations, c
<1>5. CASE d # "kem_any_key" BY <1>1, <1>2, <1>3, <1>5 DEF Decapsulations, c
<1> QED BY <1>4, <1>5

LEMMA DecapsulatesSomething ==
  ASSUME NEW d, NEW c, NEW q PROVE Decapsulations(d, c, q) # {}
  BY DEF Decapsulations

-----------------------------------------------------------------------------
(* What an input finds when it begins.                                     *)
LEMMA FreshLocals ==
  ASSUME NEW L
  PROVE  /\ DOMAIN Fresh(L) = L
         /\ \A x \in L \ Globals : Fresh(L)[x] = Garbage
<1>1. DOMAIN Fresh(L) = L BY DEF Fresh
<1>2. ASSUME NEW x \in L \ Globals PROVE Fresh(L)[x] = Garbage
  BY <1>2 DEF Fresh
<1> QED BY <1>1, <1>2

LEMMA Beginning ==
  ASSUME NEW b, NEW entry, NEW L, Begin(b, entry, L)
  PROVE  /\ pc' = entry /\ bits' = b /\ draws' = 0 /\ failed' = {} /\ log' = {}
         /\ report' = report /\ DOMAIN mem' = L
         /\ \A x \in L \ Globals : mem'[x] = Garbage
  BY FreshLocals DEF Begin

(* What a signature verifies as: with its own key and message; flipped;    *)
(* over another message; under another key; and when there is none.        *)
LEMMA Signatures ==
  ASSUME NEW d, NEW p, NEW m
  PROVE  /\ Verifies(d, Signature(p, m), m, p) <=> d # "sig_rejects"
         /\ Verifies(d, Flip(Signature(p, m)), m, p) <=> d = "sig_malleable"
         /\ \A n : n # m => (Verifies(d, Signature(p, m), n, p) <=> d = "sig_any_msg")
         /\ \A q : q # p => (Verifies(d, Signature(p, m), m, q) <=> d = "sig_any_key")
         /\ ~ Verifies(d, Garbage, m, p)
<1> DEFINE Bit(b) == [kind |-> "signature", by |-> p, msg |-> m, flipped |-> b]
<1>1. ASSUME NEW b \in BOOLEAN
      PROVE  /\ Flip(Bit(b)) = Bit(~ b)
             /\ Bit(b).kind = "signature" /\ Bit(b).by = p /\ Bit(b).msg = m
             /\ Bit(b).flipped = b
  BY DEF Flip
<1>2. Signature(p, m) = Bit(FALSE) BY DEF Signature
<1> HIDE DEF Bit
<1>3. Flip(Signature(p, m)) = Bit(TRUE) BY <1>1, <1>2
<1>4. Verifies(d, Bit(FALSE), m, p) <=> d # "sig_rejects"
  BY <1>1 DEF Verifies
<1>5. Verifies(d, Bit(TRUE), m, p) <=> d = "sig_malleable"
  BY <1>1 DEF Verifies
<1>6. \A n : n # m => (Verifies(d, Bit(FALSE), n, p) <=> d = "sig_any_msg")
  BY <1>1 DEF Verifies
<1>7. \A q : q # p => (Verifies(d, Bit(FALSE), m, q) <=> d = "sig_any_key")
  BY <1>1 DEF Verifies
<1>8. ~ Verifies(d, Garbage, m, p) BY GarbageApart DEF Verifies
<1> QED BY <1>2, <1>3, <1>4, <1>5, <1>6, <1>7, <1>8

LEMMA SignaturesOverOther ==
  ASSUME NEW d, NEW p, NEW m, NEW n, n # m
  PROVE  Verifies(d, Signature(p, m), n, p) <=> d = "sig_any_msg"
  BY Signatures, Zenon

LEMMA SignaturesByOther ==
  ASSUME NEW d, NEW p, NEW m, NEW q, q # p
  PROVE  Verifies(d, Signature(p, m), m, q) <=> d = "sig_any_key"
  BY Signatures, Zenon

(* A record made by AEAD: what opens it, and what differs.                 *)
LEMMA BoxParts ==
  ASSUME NEW k, NEW n, NEW m
  PROVE  /\ Sealed(k, n, m).kind = "sealed" /\ Sealed(k, n, m).key = k
         /\ Sealed(k, n, m).nonce = n /\ Sealed(k, n, m).msg = m
         /\ ~ Sealed(k, n, m).flipped
  BY DEF Sealed

LEMMA FlippedBox ==
  ASSUME NEW k, NEW n, NEW m
  PROVE  /\ Flip(Sealed(k, n, m)).kind = "sealed" /\ Flip(Sealed(k, n, m)).key = k
         /\ Flip(Sealed(k, n, m)).nonce = n /\ Flip(Sealed(k, n, m)).msg = m
         /\ Flip(Sealed(k, n, m)).flipped
<1> DEFINE Bit(b) == [kind |-> "sealed", key |-> k, nonce |-> n, msg |-> m, flipped |-> b]
<1>1. ASSUME NEW b \in BOOLEAN
      PROVE  /\ Flip(Bit(b)) = Bit(~ b)
             /\ Bit(b).kind = "sealed" /\ Bit(b).key = k /\ Bit(b).nonce = n
             /\ Bit(b).msg = m /\ Bit(b).flipped = b
  BY DEF Flip
<1>2. Sealed(k, n, m) = Bit(FALSE) BY DEF Sealed
<1> HIDE DEF Bit
<1>3. Flip(Sealed(k, n, m)) = Bit(TRUE) BY <1>1, <1>2
<1> QED BY <1>1, <1>3

LEMMA BoxOpens ==
  ASSUME NEW d, NEW k, NEW n, NEW m
  PROVE  /\ Opens(d, Sealed(k, n, m), k, n) <=> d # "aead_rejects"
         /\ Opens(d, Flip(Sealed(k, n, m)), k, n) <=> d = "aead_no_tag"
         /\ Plaintext(d, Sealed(k, n, m)) = (IF d = "aead_wrong" THEN Garbage ELSE m)
<1> DEFINE box == Sealed(k, n, m)
           flip == Flip(box)
<1>1. box.key = k /\ box.nonce = n /\ box.msg = m /\ ~ box.flipped
  BY BoxParts
<1>2. flip.key = k /\ flip.nonce = n /\ flip.flipped
  BY FlippedBox
<1> HIDE DEF box, flip
<1>3. Opens(d, box, k, n) <=> d # "aead_rejects" BY <1>1 DEF Opens
<1>4. Opens(d, flip, k, n) <=> d = "aead_no_tag" BY <1>2 DEF Opens
<1>5. Plaintext(d, box) = IF d = "aead_wrong" THEN Garbage ELSE m
  BY <1>1 DEF Plaintext
<1> QED BY <1>3, <1>4, <1>5 DEF box, flip

LEMMA BoxOtherKey ==
  ASSUME NEW d, NEW k, NEW n, NEW m, NEW j, j # k
  PROVE  Opens(d, Sealed(k, n, m), j, n) <=> d = "aead_any_key"
<1> DEFINE box == Sealed(k, n, m)
<1>1. box.key = k /\ box.nonce = n /\ ~ box.flipped BY BoxParts
<1> HIDE DEF box
<1>2. Opens(d, box, j, n) <=> d = "aead_any_key" BY <1>1 DEF Opens
<1> QED BY <1>2 DEF box

LEMMA BoxOtherNonce ==
  ASSUME NEW d, NEW k, NEW n, NEW m, NEW j, j # n
  PROVE  Opens(d, Sealed(k, n, m), k, j) <=> d = "aead_any_nonce"
<1> DEFINE box == Sealed(k, n, m)
<1>1. box.key = k /\ box.nonce = n /\ ~ box.flipped BY BoxParts
<1> HIDE DEF box
<1>2. Opens(d, box, k, j) <=> d = "aead_any_nonce" BY <1>1 DEF Opens
<1> QED BY <1>2 DEF box

(* What an opening says, after any of the calls it rests on has failed.    *)
LEMMA OpenedAs ==
  ASSUME NEW ok, NEW right, Opened(ok, right)
  PROVE  /\ failed \subseteq failed'
         /\ ok = right \/ "seal" \in failed \/ ("open" \in failed' /\ ok = FALSE)
         /\ failed' = {} => ok = right
  BY DEF Opened, Works, Fails

LEMMA ReopenedAs ==
  ASSUME NEW ok, NEW opens, Reopened(ok, opens)
  PROVE  /\ failed \subseteq failed'
         /\ ok = opens \/ ("open" \in failed' /\ ok = FALSE)
         /\ failed' = {} => ok = opens
  BY DEF Reopened, Works, Fails

(* Entries of the log of an API sequence.                                  *)
LEMMA SealingEntry ==
  ASSUME NEW nth, NEW k, NEW n
  PROVE  /\ Sealing(nth, k, n).what = "sealed" /\ Sealing(nth, k, n).nth = nth
         /\ Sealing(nth, k, n).key = k /\ Sealing(nth, k, n).nonce = n
         /\ Sealing(nth, k, n) # Touched
<1>1. Touched.what = "freed context used" BY DEF Touched
<1>2. /\ Sealing(nth, k, n).what = "sealed" /\ Sealing(nth, k, n).nth = nth
      /\ Sealing(nth, k, n).key = k /\ Sealing(nth, k, n).nonce = n
  BY DEF Sealing
<1> QED BY <1>1, <1>2

LEMMA HandedEntry ==
  ASSUME NEW box
  PROVE  /\ Handed(box).what = "handed on" /\ Handed(box).box = box
         /\ Handed(box) # Touched
<1>1. Touched.what = "freed context used" BY DEF Touched
<1>2. Handed(box).what = "handed on" /\ Handed(box).box = box BY DEF Handed
<1> QED BY <1>1, <1>2

-----------------------------------------------------------------------------
(* What no input of a target that returns may have done.                   *)
ContractAt(entries) ==
  \A e \in entries :
      /\ e # Touched
      /\ e.what = "handed on" => ~ e.box.flipped
      /\ e.what = "sealed" =>
           \A f \in entries : f.what = "sealed" /\ f.nth # e.nth =>
                            <<e.key, e.nonce>> # <<f.key, f.nonce>>

(* Nothing; one seal; two under different keys or nonces; an intact box.   *)
LEMMA ContractOfNothing == ContractAt({})
  BY DEF ContractAt

LEMMA ContractOfOne ==
  ASSUME NEW nth, NEW k, NEW n PROVE ContractAt({Sealing(nth, k, n)})
<1> DEFINE e == Sealing(nth, k, n)
<1>1. e.what = "sealed" /\ e # Touched BY SealingEntry
<1> HIDE DEF e
<1>2. ContractAt({e}) BY <1>1 DEF ContractAt
<1> QED BY <1>2 DEF e

LEMMA ContractOfTwo ==
  ASSUME NEW k, NEW m, NEW n, m # n
  PROVE  ContractAt({Sealing(1, k, m), Sealing(2, k, n)})
<1> DEFINE e == Sealing(1, k, m)
           f == Sealing(2, k, n)
<1>1. e.what = "sealed" /\ e # Touched /\ e.nth = 1 /\ e.key = k /\ e.nonce = m
  BY SealingEntry
<1>2. f.what = "sealed" /\ f # Touched /\ f.nth = 2 /\ f.key = k /\ f.nonce = n
  BY SealingEntry
<1> HIDE DEF e, f
<1>3. <<e.key, e.nonce>> # <<f.key, f.nonce>> BY <1>1, <1>2
<1>4. ContractAt({e, f}) BY <1>1, <1>2, <1>3 DEF ContractAt
<1> QED BY <1>4 DEF e, f

LEMMA ContractOfHanded ==
  ASSUME NEW box, ~ box.flipped PROVE ContractAt({Handed(box)})
<1> DEFINE e == Handed(box)
<1>1. e.what = "handed on" /\ e # Touched /\ e.box = box BY HandedEntry
<1> HIDE DEF e
<1>2. ContractAt({e}) BY <1>1 DEF ContractAt
<1> QED BY <1>2 DEF e

-----------------------------------------------------------------------------
(* liboqs_kem_harness.c                                                    *)
KemLocals == {"pair", "pair2", "ct", "ss_e", "ss_d", "ss_d2"}
KemCt == Cipher(Pair(0), 1)
KemRight == /\ DOMAIN mem = KemLocals
            /\ mem.pair = Pair(0) /\ mem.ct = KemCt /\ mem.ss_e = Secret(KemCt)
(* The relations behind a location have found nothing.                     *)
KemPastMR1 == /\ KemRight /\ mem.ss_d = Secret(KemCt)
              /\ defect # "kem_wrong" /\ build.fault # "MR1"
KemPastMR2 == failed = {} /\ "MR2" \in bits => defect # "kem_malleable"
KemPastMR3 == failed = {} /\ "MR3" \in bits => defect # "kem_any_key"

KemAt ==
  /\ pc \in KemPlaces \cup Outside
  /\ pc = "kem_keypair" => DOMAIN mem = KemLocals /\ draws = 0
  /\ pc = "kem_encaps"  => DOMAIN mem = KemLocals /\ draws = 1 /\ mem.pair = Pair(0)
  /\ pc = "kem_MR1"     => KemRight /\ draws = 2
  /\ pc = "kem_MR4"     => KemPastMR1 /\ draws = 2
  /\ pc = "kem_MR2"     => KemPastMR1 /\ draws = 2
  /\ pc = "kem_MR3"     => KemPastMR1 /\ draws = 2 /\ KemPastMR2
  /\ pc = "kem_MR3b"    => /\ KemPastMR1 /\ draws = 3 /\ KemPastMR2
                           /\ mem.pair2 = Pair(2)
  /\ pc = "kem_MEM"     => /\ KemPastMR1 /\ draws \in 2 .. 3
                           /\ KemPastMR2 /\ KemPastMR3
  /\ pc = "return" =>
       /\ draws \in 0 .. 3
       /\ failed = {} =>
            /\ defect # "kem_wrong" /\ build.fault # "MR1"
            /\ KemPastMR2 /\ KemPastMR3
            /\ "MEM" \in bits => defect # "kem_memory"
  /\ pc = "abort" =>
       /\ draws \in 0 .. 3
       /\ \/ report = "MR1_decaps_status" /\ "decaps" \in failed
          \/ /\ report = "MR1_correctness"
             /\ defect \in {"kem_wrong", "kem_unstable"} \/ build.fault = "MR1"
          \/ report = "MR4_determinism" /\ defect = "kem_unstable"
          \/ report = "MR2_malleability" /\ defect = "kem_malleable"
          \/ report = "MR3_wrong_key" /\ defect = "kem_any_key"
          \/ report = "sanitizer" /\ defect = "kem_memory"



LEMMA KemBegins == ASSUME KemBegin, build' = build, defect' = defect PROVE KemAt'
<1>1. PICK b \in SUBSET {"MR2", "MR3", "MEM"} : Begin(b, "kem_keypair", KemLocals)
  BY DEF KemBegin, KemLocals
<1>2. pc' = "kem_keypair" /\ DOMAIN mem' = KemLocals /\ draws' = 0
  BY <1>1, Beginning
<1> QED BY <1>2 DEF KemAt, KemPlaces

LEMMA KemSteps ==
  ASSUME KemAt, KemStep, build' = build, defect' = defect, bits' = bits
  PROVE  KemAt'
<1> USE DEF KemPlaces, Outside, KemLocals
<1>1. CASE KemKeypair
  BY <1>1 DEF KemKeypair, KemAt, Goto, Set, Drawn, Works, Fails
<1>2. CASE KemEncaps
  <2>1. /\ pc = "kem_encaps" /\ DOMAIN mem = KemLocals
        /\ draws = 1 /\ mem.pair = Pair(0)
    BY <1>2 DEF KemEncaps, KemAt
  <2>2. CASE Works /\ pc' = "kem_MR1"
    <3>1. mem' = [mem EXCEPT !.ct = KemCt, !.ss_e = Secret(KemCt)] /\ draws' = 2
      BY <1>2, <2>1, <2>2 DEF KemEncaps, Goto, Drawn, KemCt
    <3> QED BY <2>1, <2>2, <3>1 DEF KemAt, KemRight
  <2>3. CASE Fails("encaps") /\ pc' = "return" /\ UNCHANGED draws
    BY <2>1, <2>3 DEF KemAt, Fails
  <2> QED BY <1>2, <2>2, <2>3 DEF KemEncaps, Goto
<1>3. CASE KemMR1
  BY <1>3, DecapsulatesOwn, GarbageApart
     DEF KemMR1, KemAt, Goto, Assert, Set, Works, Fails, KemRight, KemCt, KemPastMR1
<1>4. CASE KemMR4
  BY <1>4, DecapsulatesOwn
     DEF KemMR4, DecapsInto, KemAt, Goto, Assert, Set, Works, Fails, KemRight, KemCt,
         KemPastMR1
<1>5. CASE KemMR2
  BY <1>5, DecapsulatesFlipped
     DEF KemMR2, DecapsInto, KemAt, Goto, Assert, Set, Works, Fails, KemRight, KemCt,
         KemPastMR1, KemPastMR2
<1>6. CASE KemMR3Keypair
  BY <1>6 DEF KemMR3Keypair, KemAt, Goto, Set, Drawn, Works, Fails, KemRight, KemCt,
     KemPastMR1, KemPastMR2, KemPastMR3
<1>7. CASE KemMR3
  BY <1>7, DecapsulatesOther, PairsApart
     DEF KemMR3, DecapsInto, KemAt, Goto, Assert, Set, Works, Fails, KemRight, KemCt,
         KemPastMR1, KemPastMR2, KemPastMR3
<1>8. CASE KemMEM
  BY <1>8
  DEF KemMEM, KemAt, Goto, Assert, KemRight, KemCt, KemPastMR1, KemPastMR2, KemPastMR3
<1> QED BY <1>1, <1>2, <1>3, <1>4, <1>5, <1>6, <1>7, <1>8 DEF KemStep

(* liboqs_sig_harness.c                                                    *)
SigLocals == {"pair", "pair2", "msg", "sig"}
SigSigned == /\ DOMAIN mem = SigLocals
             /\ mem.pair = Pair(0) /\ mem.msg = Message(1)
             /\ mem.sig = Signature(Pair(0), Message(1))
SigPastMR1 == SigSigned /\ defect # "sig_rejects"
SigPastFault == SigPastMR1 /\ (build.fault = "MR3" => failed # {})
SigPastMR2 ==
  failed = {} /\ "MR2" \in bits /\ "one" \notin bits => defect # "sig_any_msg"
SigPastMR3 == failed = {} /\ "MR3" \in bits => defect # "sig_malleable"
SigPastMR4 == failed = {} /\ "MR4" \in bits => defect # "sig_any_key"

SigAt ==
  /\ pc \in SigPlaces \cup Outside
  /\ pc = "sig_keypair" => DOMAIN mem = SigLocals /\ draws = 0
  /\ pc = "sig_sign"    => /\ DOMAIN mem = SigLocals /\ draws = 1
                           /\ mem.pair = Pair(0) /\ mem.msg = Message(1)
  /\ pc = "sig_MR1"     => SigSigned /\ draws = 2
  /\ pc = "sig_fault"   => SigPastMR1 /\ draws = 2
  /\ pc = "sig_MR2"     => SigPastFault /\ draws = 2
  /\ pc = "sig_MR3"     => SigPastFault /\ draws = 2 /\ SigPastMR2
  /\ pc = "sig_MR4"     => SigPastFault /\ draws = 2 /\ SigPastMR2 /\ SigPastMR3
  /\ pc = "sig_MR4b"    => /\ SigPastFault /\ draws = 3 /\ SigPastMR2 /\ SigPastMR3
                           /\ mem.pair2 = Pair(2)
  /\ pc = "sig_MEM"     => /\ SigPastFault /\ draws \in 2 .. 3
                           /\ SigPastMR2 /\ SigPastMR3 /\ SigPastMR4
  /\ pc = "return" =>
       /\ draws \in 0 .. 3
       /\ failed = {} =>
            /\ defect # "sig_rejects" /\ build.fault # "MR3"
            /\ SigPastMR2 /\ SigPastMR3 /\ SigPastMR4
            /\ "MEM" \in bits => defect # "sig_memory"
  /\ pc = "abort" =>
       /\ draws \in 0 .. 3
       /\ \/ /\ report = "MR1_correctness"
             /\ defect = "sig_rejects" \/ "verify" \in failed
          \/ /\ report = "MR3_strong_unforgeability"
             /\ defect = "sig_malleable" \/ build.fault = "MR3"
          \/ report = "MR2_message_binding" /\ defect = "sig_any_msg"
          \/ report = "MR4_wrong_key" /\ defect = "sig_any_key"
          \/ report = "sanitizer" /\ defect = "sig_memory"



LEMMA SigBegins == ASSUME SigBegin, build' = build, defect' = defect PROVE SigAt'
<1>1. PICK b \in SUBSET {"MR2", "MR3", "MR4", "MEM", "one"} :
        Begin(b, "sig_keypair", SigLocals)
  BY DEF SigBegin, SigLocals
<1>2. pc' = "sig_keypair" /\ DOMAIN mem' = SigLocals /\ draws' = 0
  BY <1>1, Beginning
<1> QED BY <1>2 DEF SigAt, SigPlaces

LEMMA SigSteps ==
  ASSUME SigAt, SigStep, build' = build, defect' = defect, bits' = bits
  PROVE  SigAt'
<1> USE DEF SigPlaces, Outside, SigLocals
<1>1. CASE SigKeypair
  <2>1. pc = "sig_keypair" /\ DOMAIN mem = SigLocals /\ draws = 0
    BY <1>1 DEF SigKeypair, SigAt
  <2>2. CASE Works /\ pc' = "sig_sign"
    <3>1. mem' = [mem EXCEPT !.pair = Pair(0), !.msg = Message(1)] /\ draws' = 1
      BY <1>1, <2>1, <2>2 DEF SigKeypair, Goto, Drawn
    <3> QED BY <2>1, <2>2, <3>1 DEF SigAt
  <2>3. CASE Fails("keypair") /\ pc' = "return" /\ UNCHANGED draws
    BY <2>1, <2>3 DEF SigAt, Fails
  <2> QED BY <1>1, <2>2, <2>3 DEF SigKeypair, Goto
<1>2. CASE SigSign
  BY <1>2 DEF SigSign, SigAt, Goto, Set, Drawn, Works, Fails, SigSigned
<1>3. CASE SigMR1
  BY <1>3, Signatures
     DEF SigMR1, SigAt, Goto, Assert, Verify, Works, Fails, SigSigned, SigPastMR1
<1>4. CASE SigFault
  BY <1>4, Signatures
     DEF SigFault, SigAt, Goto, Assert, Verify, Works, Fails, SigSigned, SigPastMR1,
         SigPastFault
<1>5. CASE SigMR2
  <2>1. pc = "sig_MR2" /\ SigPastFault /\ draws = 2 /\ UNCHANGED <<mem, draws>>
    BY <1>5 DEF SigMR2, SigAt
  <2>2. Message(2) # Message(1) BY MessagesApart
  <2>3. Verifies(defect, mem.sig, Message(2), mem.pair) <=> defect = "sig_any_msg"
    <3>1. mem.sig = Signature(Pair(0), Message(1)) /\ mem.pair = Pair(0)
      BY <2>1 DEF SigPastFault, SigPastMR1, SigSigned
    <3> QED BY <2>1, <2>2, <3>1, SignaturesOverOther, Zenon
  <2>4. CASE pc' = "sig_MR3" /\ failed \subseteq failed'
             /\ (failed' = {} /\ "MR2" \in bits /\ "one" \notin bits => defect # "sig_any_msg")
    BY <2>1, <2>4 DEF SigAt, SigPastFault, SigPastMR1, SigSigned, SigPastMR2
  <2>5. CASE pc' = "abort" /\ report' = "MR2_message_binding" /\ defect = "sig_any_msg"
    BY <2>1, <2>5 DEF SigAt
  <2> QED BY <1>5, <2>3, <2>4, <2>5
          DEF SigMR2, Refuses, Goto, Assert, Verify, Works, Fails
<1>6. CASE SigMR3
  BY <1>6, Signatures
     DEF SigMR3, Refuses, SigAt, Goto, Assert, Verify, Works, Fails, SigSigned,
         SigPastMR1, SigPastFault, SigPastMR2, SigPastMR3
<1>7. CASE SigMR4Keypair
  BY <1>7
     DEF SigMR4Keypair, SigAt, Goto, Set, Drawn, Works, Fails, SigSigned, SigPastMR1,
         SigPastFault, SigPastMR2, SigPastMR3, SigPastMR4
<1>8. CASE SigMR4
  <2>1. /\ pc = "sig_MR4b" /\ SigPastFault /\ draws = 3 /\ SigPastMR2 /\ SigPastMR3
        /\ mem.pair2 = Pair(2) /\ UNCHANGED <<mem, draws>>
    BY <1>8 DEF SigMR4, SigAt
  <2>2. Pair(2) # Pair(0) BY PairsApart
  <2>3. Verifies(defect, mem.sig, mem.msg, mem.pair2) <=> defect = "sig_any_key"
    <3>1. mem.sig = Signature(Pair(0), Message(1)) /\ mem.msg = Message(1)
      BY <2>1 DEF SigPastFault, SigPastMR1, SigSigned
    <3> QED BY <2>1, <2>2, <3>1, SignaturesByOther, Zenon
  <2>4. CASE pc' = "sig_MEM" /\ failed \subseteq failed'
             /\ (failed' = {} => defect # "sig_any_key")
    BY <2>1, <2>4
       DEF SigAt, SigPastFault, SigPastMR1, SigSigned, SigPastMR2, SigPastMR3,
           SigPastMR4
  <2>5. CASE pc' = "abort" /\ report' = "MR4_wrong_key" /\ defect = "sig_any_key"
    BY <2>1, <2>5 DEF SigAt
  <2> QED BY <1>8, <2>3, <2>4, <2>5
          DEF SigMR4, Refuses, Goto, Assert, Verify, Works, Fails
<1>9. CASE SigMEM
  BY <1>9
     DEF SigMEM, SigAt, Goto, Assert, SigSigned, SigPastMR1, SigPastFault, SigPastMR2,
         SigPastMR3, SigPastMR4
<1> QED BY <1>1, <1>2, <1>3, <1>4, <1>5, <1>6, <1>7, <1>8, <1>9 DEF SigStep

-----------------------------------------------------------------------------
(* seq_aead_harness.c, seq_{boringssl,aws_lc,wolfssl,botan}_harness        *)
AeadLocals == {"k", "n1", "n2", "c1", "c2", "ct"}
FirstNonce == NonceSource(1, 1)
SecondNonce == NonceSource(2, 2)
FirstSeal == Sealing(1, Random(0), FirstNonce)
SecondSeal == Sealing(2, Random(0), SecondNonce)
(* The half of the target about nonces, or about release, and what it      *)
(* leaves of the other half's buffers.                                     *)
NonceHalf == /\ DOMAIN mem = AeadLocals /\ mem.ct = Garbage
             /\ build.fault # "RELEASE"
NonceDrawn == IF build.h = "seq_aead" THEN 3 ELSE 1
NonceGoes == build.h = "seq_oneshot" => "tiny" \notin bits
Boxed == LET box == Sealed(Random(0), Random(1), Message(1))
         IN IF "tamper" \in bits THEN Flip(box) ELSE box
AeadAt ==
  /\ pc \in AeadPlaces \cup {"terminated"} \cup Outside
  /\ pc = "nonce" => NonceHalf /\ draws = 0 /\ failed = {} /\ log = {}
  /\ pc = "seal1" =>
       /\ NonceHalf /\ NonceGoes /\ draws = NonceDrawn
       /\ mem.k = Random(0) /\ failed = {} /\ log = {}
  /\ pc = "seal2" =>
       /\ NonceHalf /\ NonceGoes /\ draws = NonceDrawn + NonceDraws
       /\ mem.k = Random(0) /\ mem.n1 = FirstNonce
       /\ \/ /\ failed = {} /\ log = {FirstSeal}
             /\ mem.c1 = Sealed(Random(0), FirstNonce, Message(1))
          \/ failed = {"seal"} /\ log = {}
  /\ pc = "reuse" =>
       /\ NonceHalf /\ NonceGoes /\ draws = NonceDrawn + 2 * NonceDraws
       /\ mem.n1 = FirstNonce /\ mem.n2 = SecondNonce
       /\ mem.c1 = Sealed(Random(0), FirstNonce, Message(1))
       /\ mem.c2 = Sealed(Random(0), SecondNonce, Message(2))
       /\ failed = {} /\ log = {FirstSeal, SecondSeal}
  /\ pc = "release" =>
       /\ DOMAIN mem = AeadLocals /\ mem.ct = Garbage /\ build.fault # "NONCE"
       /\ draws = 0 /\ failed = {} /\ log = {}
  /\ pc = "deliver" =>
       /\ DOMAIN mem = AeadLocals /\ build.fault # "NONCE" /\ "tiny" \notin bits
       /\ mem.k = Random(0) /\ mem.n1 = Random(1) /\ mem.ct = Boxed
       /\ draws \in 2 .. 3 /\ log = {}
       /\ failed # {} => build.h = "seq_aead" /\ "seal" \in failed
  /\ pc = "terminated" => draws \in 0 .. 3
  /\ pc = "return" =>
       /\ draws \in 0 .. 3 /\ ContractAt(log)
       /\ failed = {} =>
            /\ mem.ct # Garbage /\ "tamper" \in bits => defect # "aead_no_tag"
            /\ mem.ct # Garbage /\ "tamper" \notin bits => defect # "aead_wrong"
            /\ build.fault = "NONCE" => build.h = "seq_oneshot" /\ "tiny" \in bits
            /\ build.fault = "RELEASE" => "tamper" \notin bits \/ "tiny" \in bits
  /\ pc = "abort" =>
       /\ draws \in 0 .. 3
       /\ \/ report = "O6-nonce-uniqueness" /\ build.fault = "NONCE"
          \/ /\ report = "O6-release-before-verify"
             /\ \/ defect \in {"aead_no_tag", "aead_wrong"} \/ build.fault = "RELEASE"
                \/ build.h = "seq_aead" /\ "seal" \in failed



LEMMA AeadBegins == ASSUME AeadBegin, build' = build, defect' = defect PROVE AeadAt'
<1>1. PICK b : Begin(b, IF Chosen(b, "NONCE", "RELEASE") = 1 THEN "nonce" ELSE "release",
                     AeadLocals)
  BY DEF AeadBegin, AeadLocals
<1>2. /\ DOMAIN mem' = AeadLocals /\ draws' = 0 /\ failed' = {} /\ log' = {}
      /\ pc' = IF Chosen(b, "NONCE", "RELEASE") = 1 THEN "nonce" ELSE "release"
  BY <1>1, Beginning
<1>3. mem'["ct"] = Garbage
  BY <1>1, Beginning DEF AeadLocals, Globals
<1>4. CASE pc' = "nonce"
  <2>1. build.fault # "RELEASE" BY <1>2, <1>4 DEF Chosen
  <2> QED BY <1>2, <1>3, <1>4, <2>1 DEF AeadAt, AeadPlaces, NonceHalf
<1>5. CASE pc' = "release"
  <2>1. build.fault # "NONCE" BY <1>2, <1>5 DEF Chosen
  <2> QED BY <1>2, <1>3, <1>5, <2>1 DEF AeadAt, AeadPlaces
<1> QED BY <1>2, <1>4, <1>5

LEMMA NoncesDiffer ==
  ASSUME build.fault # "NONCE" PROVE FirstNonce # SecondNonce
<1>1. [kind |-> "counter", at |-> 1].at = 1 /\ [kind |-> "counter", at |-> 2].at = 2
  OBVIOUS
<1>2. Random(1) # Random(2) BY RandomsApart
<1> QED BY <1>1, <1>2 DEF FirstNonce, SecondNonce, NonceSource

LEMMA NoncesSame ==
  ASSUME build.fault = "NONCE" PROVE FirstNonce = SecondNonce
  BY DEF FirstNonce, SecondNonce, NonceSource

(* A seal draws its nonce before it.                                       *)
LEMMA NoncesDrawn ==
  ASSUME build.h \in AeadSeq
  PROVE
  /\ NonceDrawn \in 1 .. 3 /\ NonceDraws \in 0 .. 1 /\ NonceDrawn + 2 * NonceDraws \in 0 .. 3
  /\ NonceSource(1, NonceDrawn) = FirstNonce
  /\ NonceSource(2, NonceDrawn + NonceDraws) = SecondNonce
<1>1. CASE build.h = "seq_aead"
  BY <1>1 DEF NonceDrawn, NonceDraws, NonceSource, FirstNonce, SecondNonce
<1>2. CASE build.h = "seq_oneshot"
  BY <1>2 DEF NonceDrawn, NonceDraws, NonceSource, FirstNonce, SecondNonce
<1> QED BY <1>1, <1>2 DEF AeadSeq

LEMMA AeadSteps ==
  ASSUME AeadAt, build.h \in AeadSeq, build' = build, defect' = defect, bits' = bits,
         NonceKey \/ SealFirst \/ SealSecond \/ NonceReuse \/ ReleaseSeal \/ ReleaseDeliver
  PROVE  AeadAt'
<1> USE DEF AeadPlaces, Outside, AeadLocals
<1>0. /\ FirstNonce' = FirstNonce /\ SecondNonce' = SecondNonce
      /\ NonceDrawn' = NonceDrawn /\ NonceDraws' = NonceDraws
      /\ NonceGoes' <=> NonceGoes
  BY DEF FirstNonce, SecondNonce, NonceSource, NonceDrawn, NonceDraws, NonceGoes
<1>1. CASE NonceKey
  <2>1. /\ pc = "nonce" /\ NonceHalf /\ draws = 0 /\ failed = {} /\ log = {}
        /\ failed' = {} /\ log' = {}
    BY <1>1 DEF NonceKey, AeadAt
  <2>2. mem' = [mem EXCEPT !["k"] = Random(0)] BY <1>1, <2>1 DEF NonceKey, Set
  <2>3. NonceHalf' /\ mem'.k = Random(0) BY <2>1, <2>2, GarbageApart DEF NonceHalf
  <2>4. draws' = NonceDrawn BY <1>1, <2>1 DEF NonceKey, Drawn, NonceDrawn
  <2>5. draws' \in 0 .. 3 BY <2>4, NoncesDrawn
  <2>6. CASE pc' = "return" /\ build.h = "seq_oneshot" /\ "tiny" \in bits
    <3>1. ContractAt(log') BY <2>1, ContractOfNothing
    <3> QED BY <2>1, <2>3, <2>5, <2>6, <3>1 DEF AeadAt, NonceHalf
  <2>7. CASE pc' = "seal1" /\ NonceGoes
    BY <1>0, <2>1, <2>3, <2>4, <2>7 DEF AeadAt
  <2> QED BY <1>1, <2>6, <2>7 DEF NonceKey, Goto, NonceGoes
<1>2. CASE SealFirst
  <2>1. /\ pc = "seal1" /\ NonceHalf /\ NonceGoes /\ draws = NonceDrawn
        /\ mem.k = Random(0) /\ failed = {} /\ log = {}
    BY <1>2 DEF SealFirst, AeadAt
  <2>2. draws' = NonceDrawn + NonceDraws BY <1>2, <2>1 DEF SealFirst, Drawn
  <2>3. NonceSource(1, draws) = FirstNonce BY <2>1, NoncesDrawn
  <2>4. draws' \in 0 .. 3 BY <2>2, NoncesDrawn
  <2>5. CASE /\ failed' = {} /\ pc' = "seal2" /\ log' = {FirstSeal}
             /\ mem' = [mem EXCEPT !.n1 = FirstNonce, !.c1 = Sealed(mem.k, FirstNonce, Message(1))]
    <3>1. NonceHalf' /\ mem'.k = Random(0) /\ mem'.n1 = FirstNonce
          /\ mem'.c1 = Sealed(Random(0), FirstNonce, Message(1))
      BY <2>1, <2>5 DEF NonceHalf
    <3>2. FirstSeal' = FirstSeal BY <1>0 DEF FirstSeal
    <3> QED BY <1>0, <2>1, <2>2, <2>5, <3>1, <3>2 DEF AeadAt
  <2>6. CASE /\ failed' = {"seal"} /\ log' = {} /\ mem' = [mem EXCEPT !["n1"] = FirstNonce]
             /\ pc' \in {"seal2", "return"}
    <3>1. NonceHalf' /\ mem'.k = Random(0) /\ mem'.n1 = FirstNonce
      BY <2>1, <2>6 DEF NonceHalf
    <3>2. ContractAt(log') BY <2>6, ContractOfNothing
    <3> QED BY <1>0, <2>1, <2>2, <2>4, <2>6, <3>1, <3>2 DEF AeadAt
  <2> QED BY <1>2, <2>1, <2>3, <2>5, <2>6
          DEF SealFirst, SealFails, Works, Fails, Goto, Log, Set, FirstSeal
<1>3. CASE SealSecond
  <2>1. /\ pc = "seal2" /\ NonceHalf /\ NonceGoes /\ draws = NonceDrawn + NonceDraws
        /\ mem.k = Random(0) /\ mem.n1 = FirstNonce
    BY <1>3 DEF SealSecond, AeadAt
  <2>2. \/ /\ failed = {} /\ log = {FirstSeal}
           /\ mem.c1 = Sealed(Random(0), FirstNonce, Message(1))
        \/ failed = {"seal"} /\ log = {}
    BY <1>3 DEF SealSecond, AeadAt
  <2>3. draws' = NonceDrawn + 2 * NonceDraws
    BY <1>3, <2>1, NoncesDrawn DEF SealSecond, Drawn
  <2>4. NonceSource(2, draws) = SecondNonce BY <2>1, NoncesDrawn
  <2>5. draws' \in 0 .. 3 BY <2>3, NoncesDrawn
  <2>6. CASE /\ failed' = failed /\ log' = log \cup {SecondSeal}
             /\ mem' = [mem EXCEPT !.n2 = SecondNonce, !.c2 = Sealed(mem.k, SecondNonce, Message(2))]
             /\ pc' = IF "seal" \in failed THEN "return" ELSE "reuse"
    <3>1. NonceHalf' /\ mem'.n1 = FirstNonce /\ mem'.n2 = SecondNonce
          /\ mem'.c2 = Sealed(Random(0), SecondNonce, Message(2))
          /\ mem'.c1 = mem.c1
      BY <2>1, <2>6 DEF NonceHalf
    <3>2. FirstSeal' = FirstSeal /\ SecondSeal' = SecondSeal
      BY <1>0 DEF FirstSeal, SecondSeal
    <3>3. CASE failed = {}
      <4>1. log' = {FirstSeal, SecondSeal} BY <2>2, <2>6, <3>3
      <4> QED BY <1>0, <2>1, <2>2, <2>3, <2>6, <3>1, <3>2, <3>3, <4>1 DEF AeadAt
    <3>4. CASE failed = {"seal"}
      <4>1. log' = {SecondSeal} BY <2>2, <2>6, <3>4
      <4>2. ContractAt(log') BY <4>1, ContractOfOne DEF SecondSeal
      <4> QED BY <2>5, <2>6, <3>4, <4>2 DEF AeadAt
    <3> QED BY <2>2, <3>3, <3>4
  <2>7. CASE failed' # {} /\ log' = log /\ pc' = "return"
    <3>1. ContractAt(log')
      BY <2>2, <2>7, ContractOfNothing, ContractOfOne DEF FirstSeal
    <3> QED BY <2>5, <2>7, <3>1 DEF AeadAt
  <2> QED BY <1>3, <2>1, <2>4, <2>6, <2>7
          DEF SealSecond, SealFails, Works, Fails, Goto, Log, Set, SecondSeal
<1>4. CASE NonceReuse
  <2>1. /\ pc = "reuse" /\ NonceHalf /\ NonceGoes /\ draws = NonceDrawn + 2 * NonceDraws
        /\ mem.n1 = FirstNonce /\ mem.n2 = SecondNonce
        /\ mem.c1 = Sealed(Random(0), FirstNonce, Message(1))
        /\ mem.c2 = Sealed(Random(0), SecondNonce, Message(2))
        /\ failed = {} /\ log = {FirstSeal, SecondSeal}
        /\ UNCHANGED <<mem, draws, failed, log>>
    BY <1>4 DEF NonceReuse, AeadAt
  <2>2. draws' \in 0 .. 3 BY <2>1, NoncesDrawn
  <2>3. Leaks(mem.c1, mem.c2) <=> FirstNonce = SecondNonce
    BY <2>1, BoxParts DEF Leaks
  <2>4. IF FirstNonce = SecondNonce
        THEN pc' = "abort" /\ report' = "O6-nonce-uniqueness" ELSE pc' = "return"
    BY <1>4, <2>1, <2>3 DEF NonceReuse, Assert, Goto
  <2>5. CASE FirstNonce = SecondNonce
    BY <2>2, <2>4, <2>5, NoncesDiffer DEF AeadAt
  <2>6. CASE FirstNonce # SecondNonce
    <3>1. ContractAt(log')
      BY <2>1, <2>6, ContractOfTwo DEF FirstSeal, SecondSeal
    <3>2. build.fault # "NONCE" BY <2>6, NoncesSame
    <3> QED BY <2>1, <2>2, <2>4, <2>6, <3>1, <3>2 DEF AeadAt, NonceHalf
  <2> QED BY <2>5, <2>6
<1>5. CASE ReleaseSeal
  <2>1. /\ pc = "release" /\ DOMAIN mem = AeadLocals /\ mem.ct = Garbage
        /\ build.fault # "NONCE" /\ draws = 0 /\ failed = {} /\ log = {} /\ log' = {}
        /\ draws' \in 2 .. 3
    BY <1>5 DEF ReleaseSeal, AeadAt, Drawn
  <2>2. ContractAt(log') BY <2>1, ContractOfNothing
  <2>3. CASE "tiny" \in bits /\ pc' = "return" /\ UNCHANGED <<mem, failed>>
    BY <2>1, <2>2, <2>3 DEF AeadAt
  <2>4. CASE "tiny" \notin bits /\ pc' = "return" /\ failed' # {}
    BY <2>1, <2>2, <2>4 DEF AeadAt
  <2>5. CASE /\ "tiny" \notin bits /\ pc' \in {"deliver", "terminated"}
             /\ failed' # {} => build.h = "seq_aead" /\ "seal" \in failed'
             /\ mem' = [mem EXCEPT !.k = Random(0), !.n1 = Random(1), !.ct = Boxed]
    <3>1. Boxed' = Boxed BY DEF Boxed
    <3> QED BY <2>1, <2>5, <3>1 DEF AeadAt
  <2>6. CASE "tiny" \in bits BY <1>5, <2>3, <2>6 DEF ReleaseSeal, Goto
  <2>7. CASE "tiny" \notin bits
    <3>1. CASE SealFails /\ Goto("return")
      BY <2>4, <2>7, <3>1 DEF SealFails, Fails, Goto
    <3>2. CASE /\ \/ Works /\ Goto("deliver")
                  \/ /\ build.h = "seq_aead" /\ Fails("seal")
                     /\ \/ Goto("deliver")
                        \/ "tamper" \in bits /\ Goto("terminated")
               /\ mem' = [mem EXCEPT !.k = Random(0), !.n1 = Random(1), !.ct = Boxed]
      <4>1. failed' # {} => build.h = "seq_aead" /\ "seal" \in failed'
        BY <2>1, <3>2 DEF Works, Fails
      <4>2. pc' \in {"deliver", "terminated"} BY <3>2 DEF Goto
      <4> QED BY <2>5, <2>7, <3>2, <4>1, <4>2
    <3> QED BY <1>5, <2>7, <3>1, <3>2 DEF ReleaseSeal, Boxed
  <2> QED BY <2>6, <2>7
<1>6. CASE ReleaseDeliver
  <2>1. /\ pc = "deliver" /\ DOMAIN mem = AeadLocals /\ build.fault # "NONCE"
        /\ "tiny" \notin bits
        /\ mem.k = Random(0) /\ mem.n1 = Random(1) /\ mem.ct = Boxed
        /\ draws \in 2 .. 3 /\ log = {} /\ UNCHANGED <<mem, draws>>
        /\ failed # {} => build.h = "seq_aead" /\ "seal" \in failed
    BY <1>6 DEF ReleaseDeliver, AeadAt
  <2> DEFINE Answer(ok) == IF "tamper" \in bits \/ build.h = "seq_oneshot"
                           THEN Reopened(ok, Opens(defect, mem.ct, mem.k, mem.n1))
                           ELSE Opened(ok, Opens(defect, mem.ct, mem.k, mem.n1))
             Delivers(ok, pt) ==
               /\ IF ok \/ build.fault = "RELEASE" THEN Log(Handed(mem.ct))
                                                  ELSE UNCHANGED log
               /\ Assert(/\ ~ ((ok \/ build.fault = "RELEASE") /\ "tamper" \in bits)
                         /\ (ok \/ build.fault = "RELEASE") /\ "tamper" \notin bits
                              => pt = mem.ct.msg,
                         "O6-release-before-verify", "return")
             Texts(ok) == IF ok /\ "seal" \notin failed THEN {Plaintext(defect, mem.ct)}
                                ELSE {Garbage, mem.ct.msg}
  <2>a. PICK ok \in BOOLEAN : Answer(ok) /\ \E pt \in Texts(ok) : Delivers(ok, pt)
    BY <1>6, Zenon DEF ReleaseDeliver
  <2>b. PICK pt \in Texts(ok) : Delivers(ok, pt) BY <2>a
  <2>2. /\ Answer(ok) /\ pt \in Texts(ok) /\ Delivers(ok, pt) BY <2>a, <2>b
  <2> DEFINE opens == Opens(defect, mem.ct, mem.k, mem.n1)
  <2>c. /\ failed \subseteq failed'
        /\ ok = opens \/ ("tamper" \notin bits /\ "seal" \in failed)
                      \/ ("open" \in failed' /\ ok = FALSE)
        /\ failed' = {} => ok = opens
    BY <2>2, OpenedAs, ReopenedAs, Zenon
  <2> DEFINE box == Sealed(Random(0), Random(1), Message(1))
             deliver == ok \/ build.fault = "RELEASE"
  <2>3. /\ "tamper" \in bits => mem.ct = Flip(box)
        /\ "tamper" \notin bits => mem.ct = box
    BY <2>1 DEF Boxed
  <2>4. /\ Opens(defect, box, Random(0), Random(1)) <=> defect # "aead_rejects"
        /\ Opens(defect, Flip(box), Random(0), Random(1)) <=> defect = "aead_no_tag"
        /\ Plaintext(defect, box) = IF defect = "aead_wrong" THEN Garbage ELSE Message(1)
        /\ box.msg = Message(1) /\ ~ box.flipped /\ Garbage # Message(1)
    BY BoxOpens, BoxParts, GarbageApart
  <2> HIDE DEF box, Answer
  <2>5. CASE "tamper" \in bits
    <3>1. CASE deliver
      <4>1. pc' = "abort" /\ report' = "O6-release-before-verify"
        BY <2>2, <2>5, <3>1 DEF Assert
      <4>2. defect = "aead_no_tag" \/ build.fault = "RELEASE"
        BY <2>1, <2>c, <2>3, <2>4, <2>5, <3>1
      <4> QED BY <2>1, <4>1, <4>2 DEF AeadAt
    <3>2. CASE ~ deliver
      <4>1. pc' = "return" /\ log' = {} /\ build.fault # "RELEASE"
        BY <2>1, <2>2, <2>5, <3>2 DEF Assert, Goto
      <4>2. failed' = {} => defect # "aead_no_tag"
        BY <2>1, <2>c, <2>3, <2>4, <2>5, <3>2
      <4>3. ContractAt(log') BY <4>1, ContractOfNothing
      <4> QED BY <2>1, <2>5, <4>1, <4>2, <4>3 DEF AeadAt
    <3> QED BY <3>1, <3>2
  <2>6. CASE "tamper" \notin bits
    <3>1. CASE deliver /\ pt # mem.ct.msg
      <4>1. pc' = "abort" /\ report' = "O6-release-before-verify"
        BY <2>2, <2>6, <3>1 DEF Assert
      <4>2. \/ defect = "aead_wrong" \/ build.fault = "RELEASE"
            \/ build.h = "seq_aead" /\ "seal" \in failed'
        BY <2>1, <2>2, <2>c, <2>3, <2>4, <2>6, <3>1
      <4> QED BY <2>1, <4>1, <4>2 DEF AeadAt
    <3>2. CASE ~ (deliver /\ pt # mem.ct.msg)
      <4>1. pc' = "return" /\ log' \in {{}, {Handed(mem.ct)}}
        BY <2>1, <2>2, <2>6, <3>2 DEF Assert, Goto, Log
      <4>2. failed' = {} => defect # "aead_wrong"
        BY <2>1, <2>2, <2>c, <2>3, <2>4, <2>6, <3>2
      <4>3. ContractAt(log')
        BY <2>3, <2>4, <2>6, <4>1, ContractOfNothing, ContractOfHanded
      <4> QED BY <2>1, <2>6, <4>1, <4>2, <4>3 DEF AeadAt
    <3> QED BY <3>1, <3>2
  <2> QED BY <2>5, <2>6
<1> QED BY <1>1, <1>2, <1>3, <1>4, <1>5, <1>6

(* seq_ecdsa_harness.c                                                     *)
EcdsaLocals == {"r1", "s1", "r2", "s2"}
KOf(nth, k) ==
  \/ k = NonceK(nth)
  \/ k = One /\ "rand" \in failed /\ build.fault # "KREUSE"
EcdsaSigned(log0) ==
  /\ DOMAIN mem = EcdsaLocals /\ draws = 2 /\ log = log0
  /\ KOf(1, mem.r1)
  /\ "sign" \in failed \/ mem.s1 = Signature(Pair(0), Message(1))
EcdsaBoth ==
  /\ EcdsaSigned({Sealing(1, Pair(0), mem.r1), Sealing(2, Pair(0), mem.r2)})
  /\ KOf(2, mem.r2)

EcdsaAt ==
  /\ pc \in EcdsaPlaces \cup Outside
  /\ pc = "ecdsa1" => DOMAIN mem = EcdsaLocals /\ draws = 0 /\ log = {}
  /\ pc = "ecdsa2" => EcdsaSigned({Sealing(1, Pair(0), mem.r1)})
  /\ pc = "ecdsa_verify" => EcdsaBoth
  /\ pc = "ecdsa_reuse" =>
       EcdsaBoth /\ (failed = {} => defect # "sig_rejects")
  /\ pc = "return" =>
       /\ draws \in 0 .. 2 /\ ContractAt(log)
       /\ failed = {} => defect # "sig_rejects" /\ build.fault # "KREUSE"
  /\ pc = "abort" =>
       /\ draws \in 0 .. 2
       /\ \/ /\ report = "O6-sign-verify"
             /\ defect = "sig_rejects" \/ failed \cap {"sign", "verify"} # {}
          \/ /\ report = "O6-ecdsa-k-uniqueness"
             /\ failed = {} => defect # "sig_rejects"
             /\ build.fault = "KREUSE" \/ "rand" \in failed



LEMMA EcdsaBegins == ASSUME EcdsaBegin, build' = build, defect' = defect PROVE EcdsaAt'
<1>1. Begin({}, "ecdsa1", EcdsaLocals) BY DEF EcdsaBegin, EcdsaLocals
<1>2. pc' = "ecdsa1" /\ DOMAIN mem' = EcdsaLocals /\ draws' = 0 /\ log' = {}
  BY <1>1, Beginning
<1> QED BY <1>2 DEF EcdsaAt, EcdsaPlaces

LEMMA NonceKsApart ==
  /\ NonceK(1) = NonceK(2) <=> build.fault = "KREUSE"
  /\ NonceK(1) # One /\ NonceK(2) # One
<1>1. [kind |-> "fresh", at |-> 1] # [kind |-> "fresh", at |-> 2] OBVIOUS
<1>2. \A i : [kind |-> "fresh", at |-> i].kind = "fresh" OBVIOUS
<1>3. Constant.kind = "constant" /\ One.kind = "one" BY DEF Constant, One
<1> QED BY <1>1, <1>2, <1>3 DEF NonceK

LEMMA EcdsaSteps ==
  ASSUME EcdsaAt, build' = build, defect' = defect, bits' = bits,
         EcdsaFirst \/ EcdsaSecond \/ EcdsaVerify \/ EcdsaReuse
  PROVE  EcdsaAt'
<1> USE DEF EcdsaPlaces, Outside, EcdsaLocals
<1>0. \A nth : NonceK(nth)' = NonceK(nth) BY DEF NonceK
<1>1. CASE EcdsaFirst
  <2>1. pc = "ecdsa1" /\ DOMAIN mem = EcdsaLocals /\ draws = 0 /\ log = {} /\ draws' = 2
    BY <1>1 DEF EcdsaFirst, EcdsaAt, Drawn
  <2> DEFINE Signs(k, made) ==
        /\ KOf(1, k)' /\ mem' = [mem EXCEPT !["r1"] = k, !["s1"] = made]
        /\ "sign" \in failed' \/ made = Signature(Pair(0), Message(1))
        /\ Log(Sealing(1, Pair(0), k)) /\ pc' = "ecdsa2"
  <2>2. CASE \E k, made : Signs(k, made)
    <3>1. PICK k, made : Signs(k, made) BY <2>2
    <3>2. mem'.r1 = k /\ mem'.s1 = made /\ DOMAIN mem' = EcdsaLocals BY <2>1, <3>1
    <3>3. log' = {Sealing(1, Pair(0), mem'.r1)} BY <2>1, <3>1, <3>2 DEF Log
    <3>4. KOf(1, mem.r1)' BY <3>1, <3>2 DEF KOf
    <3>5. EcdsaSigned({Sealing(1, Pair(0), mem.r1)})'
      BY <2>1, <3>1, <3>2, <3>3, <3>4 DEF EcdsaSigned
    <3> QED BY <3>1, <3>5 DEF EcdsaAt
  <2>3. CASE failed' # {} /\ pc' = "return" /\ UNCHANGED log
    BY <2>1, <2>3, ContractOfNothing DEF EcdsaAt
  <2> QED BY <1>0, <1>1, <2>2, <2>3 DEF EcdsaFirst, EcdsaSign, KOf, Works, Fails, Goto
<1>2. CASE EcdsaSecond
  <2>1. /\ pc = "ecdsa2" /\ DOMAIN mem = EcdsaLocals /\ draws = 2 /\ draws' = 2
        /\ log = {Sealing(1, Pair(0), mem.r1)} /\ KOf(1, mem.r1)
        /\ "sign" \in failed \/ mem.s1 = Signature(Pair(0), Message(1))
    BY <1>2 DEF EcdsaSecond, EcdsaAt, EcdsaSigned
  <2> DEFINE Signs(k, made) ==
        /\ KOf(2, k)' /\ failed \subseteq failed'
        /\ mem' = [mem EXCEPT !["r2"] = k, !["s2"] = made]
        /\ Log(Sealing(2, Pair(0), k)) /\ pc' = "ecdsa_verify"
  <2>2. CASE \E k, made : Signs(k, made)
    <3>1. PICK k, made : Signs(k, made) BY <2>2
    <3>2. /\ mem'.r1 = mem.r1 /\ mem'.s1 = mem.s1 /\ mem'.r2 = k
          /\ DOMAIN mem' = EcdsaLocals
      BY <2>1, <3>1
    <3>3. log' = {Sealing(1, Pair(0), mem'.r1), Sealing(2, Pair(0), mem'.r2)}
      BY <2>1, <3>1, <3>2 DEF Log
    <3>4. KOf(1, mem.r1)' BY <1>0, <2>1, <3>1, <3>2 DEF KOf
    <3>5. KOf(2, mem.r2)' BY <3>1, <3>2 DEF KOf
    <3>6. EcdsaBoth'
      BY <2>1, <3>1, <3>2, <3>3, <3>4, <3>5 DEF EcdsaBoth, EcdsaSigned
    <3> QED BY <3>1, <3>6 DEF EcdsaAt
  <2>3. CASE failed' # {} /\ pc' = "return" /\ UNCHANGED log
    <3>1. ContractAt(log') BY <2>1, <2>3, ContractOfOne
    <3> QED BY <2>1, <2>3, <3>1 DEF EcdsaAt
  <2> QED BY <1>0, <1>2, <2>2, <2>3 DEF EcdsaSecond, EcdsaSign, KOf, Works, Fails, Goto
<1>3. CASE EcdsaVerify
  <2>1. pc = "ecdsa_verify" /\ EcdsaBoth /\ UNCHANGED <<mem, draws, log>>
    BY <1>3 DEF EcdsaVerify, EcdsaAt
  <2>2. PICK ok \in BOOLEAN : /\ Verify(ok, mem.s1, Message(1), Pair(0))
                             /\ Assert(ok, "O6-sign-verify", "ecdsa_reuse")
    BY <1>3 DEF EcdsaVerify
  <2>3. failed \subseteq failed' BY <2>2 DEF Verify, Works, Fails
  <2>4. EcdsaBoth' /\ draws' = 2
    BY <1>0, <2>1, <2>3 DEF EcdsaBoth, EcdsaSigned, KOf
  <2>5. \/ ok /\ (failed' = {} => defect # "sig_rejects")
        \/ ~ ok /\ (defect = "sig_rejects" \/ failed' \cap {"sign", "verify"} # {})
    <3>1. CASE Works /\ ok = Verifies(defect, mem.s1, Message(1), Pair(0))
      <4>1. CASE "sign" \in failed BY <2>3, <4>1
      <4>2. CASE mem.s1 = Signature(Pair(0), Message(1))
        <5>1. Verifies(defect, mem.s1, Message(1), Pair(0)) <=> defect # "sig_rejects"
          BY <4>2, Signatures
        <5> QED BY <3>1, <5>1
      <4> QED BY <2>1, <4>1, <4>2 DEF EcdsaBoth, EcdsaSigned
    <3>2. CASE Fails("verify") BY <3>2 DEF Fails
    <3> QED BY <2>2, <3>1, <3>2 DEF Verify
  <2>6. CASE ok
    <3>1. pc' = "ecdsa_reuse" BY <2>2, <2>6 DEF Assert, Goto
    <3> QED BY <2>4, <2>5, <2>6, <3>1 DEF EcdsaAt
  <2>7. CASE ~ ok
    <3>1. pc' = "abort" /\ report' = "O6-sign-verify" BY <2>2, <2>7 DEF Assert
    <3> QED BY <2>4, <2>5, <2>7, <3>1 DEF EcdsaAt
  <2> QED BY <2>6, <2>7
<1>4. CASE EcdsaReuse
  <2>1. /\ pc = "ecdsa_reuse" /\ EcdsaBoth /\ (failed = {} => defect # "sig_rejects")
        /\ UNCHANGED <<mem, draws, failed, log>>
    BY <1>4 DEF EcdsaReuse, EcdsaAt
  <2>2. draws' = 2 /\ KOf(1, mem.r1) /\ KOf(2, mem.r2)
        /\ log' = {Sealing(1, Pair(0), mem.r1), Sealing(2, Pair(0), mem.r2)}
    BY <2>1 DEF EcdsaBoth, EcdsaSigned
  <2>3. CASE mem.r1 = mem.r2
    <3>1. pc' = "abort" /\ report' = "O6-ecdsa-k-uniqueness"
      BY <1>4, <2>3 DEF EcdsaReuse, Assert
    <3>2. build.fault = "KREUSE" \/ "rand" \in failed
      BY <2>2, <2>3, NonceKsApart DEF KOf
    <3> QED BY <2>1, <2>2, <3>1, <3>2 DEF EcdsaAt
  <2>4. CASE mem.r1 # mem.r2
    <3>1. pc' = "return" BY <1>4, <2>4 DEF EcdsaReuse, Assert, Goto
    <3>2. ContractAt(log') BY <2>2, <2>4, ContractOfTwo
    <3>3. build.fault # "KREUSE" BY <2>2, <2>4, NonceKsApart DEF KOf
    <3> QED BY <2>1, <2>2, <3>1, <3>2, <3>3 DEF EcdsaAt
  <2> QED BY <2>3, <2>4
<1> QED BY <1>1, <1>2, <1>3, <1>4

(* seq_evp_harness.c                                                       *)
EvpLocals == {"c1", "c2", "ctx"}
IvBox(i) == Sealed(Random(0), IvSource(i), Message(1))
EvpAt ==
  /\ pc \in EvpPlaces \cup Outside
  /\ pc = "iv" => /\ DOMAIN mem = EvpLocals /\ draws = 0 /\ log = {}
                  /\ build.fault # "UAF"
  /\ pc = "iv_reuse" =>
       /\ draws \in 0 .. 3 /\ build.fault # "UAF" /\ "tiny" \notin bits
       /\ mem.c1 \in {IvBox(1), NoBytes} /\ mem.c2 \in {IvBox(2), NoBytes}
       /\ NoBytes \in {mem.c1, mem.c2} => "seal" \in failed
       /\ log = Sealings(mem.c1, mem.c2)
  /\ pc = "context" => draws = 0 /\ log = {} /\ build.fault # "IV"
  /\ pc = "return" =>
       /\ draws \in 0 .. 3 /\ ContractAt(log)
       /\ build.fault \in {"IV", "UAF"} /\ failed = {} => "tiny" \in bits
  /\ pc = "abort" =>
       /\ draws \in 0 .. 3
       /\ \/ /\ report = "O6-iv-unpredictability"
             /\ build.fault = "IV" \/ "seal" \in failed
          \/ report \in {"O6-ctx-use-after-free", "sanitizer"} /\ build.fault = "UAF"



LEMMA EvpBegins == ASSUME EvpBegin, build' = build, defect' = defect PROVE EvpAt'
<1>1. PICK b : Begin(b, IF Chosen(b, "IV", "UAF") = 1 THEN "iv" ELSE "context", EvpLocals)
  BY DEF EvpBegin, EvpLocals
<1>2. /\ DOMAIN mem' = EvpLocals /\ draws' = 0 /\ log' = {}
      /\ pc' = IF Chosen(b, "IV", "UAF") = 1 THEN "iv" ELSE "context"
  BY <1>1, Beginning
<1>3. CASE pc' = "iv"
  <2>1. build.fault # "UAF" BY <1>2, <1>3 DEF Chosen
  <2> QED BY <1>2, <1>3, <2>1 DEF EvpAt, EvpPlaces
<1>4. CASE pc' = "context"
  <2>1. build.fault # "IV" BY <1>2, <1>4 DEF Chosen
  <2> QED BY <1>2, <1>4, <2>1 DEF EvpAt, EvpPlaces
<1> QED BY <1>2, <1>3, <1>4

LEMMA EvpSteps ==
  ASSUME EvpAt, build' = build, defect' = defect, bits' = bits,
         EvpEncrypt \/ EvpReuse \/ EvpContext
  PROVE  EvpAt'
<1> USE DEF EvpPlaces, Outside, EvpLocals
<1>0. \A at : IvSource(at)' = IvSource(at) BY DEF IvSource
<1>1. CASE EvpEncrypt
  <2>1. /\ pc = "iv" /\ DOMAIN mem = EvpLocals /\ draws = 0 /\ log = {}
        /\ build.fault # "UAF" /\ draws' \in 0 .. 3
    BY <1>1 DEF EvpEncrypt, EvpAt, Drawn
  <2>2. CASE "tiny" \in bits /\ pc' = "return" /\ UNCHANGED log
    BY <2>1, <2>2, ContractOfNothing DEF EvpAt
  <2>3. CASE "tiny" \notin bits
    <3>1. PICK c1 \in {IvBox(1), NoBytes}, c2 \in {IvBox(2), NoBytes} :
            /\ IF NoBytes \in {c1, c2} THEN Fails("seal") ELSE Works
            /\ mem' = [mem EXCEPT !.c1 = c1, !.c2 = c2]
            /\ log' = log \cup Sealings(c1, c2)
      BY <1>1, <2>3 DEF EvpEncrypt, IvBox
    <3>2. mem'.c1 = c1 /\ mem'.c2 = c2 BY <2>1, <3>1
    <3>3. IvBox(1)' = IvBox(1) /\ IvBox(2)' = IvBox(2) BY <1>0 DEF IvBox
    <3>4. log' = Sealings(mem.c1, mem.c2)' BY <2>1, <3>1, <3>2 DEF Sealings
    <3>5. NoBytes \in {c1, c2} => "seal" \in failed' BY <3>1 DEF Fails
    <3>6. pc' = "iv_reuse" BY <1>1, <2>3 DEF EvpEncrypt, Goto
    <3> QED BY <2>1, <2>3, <3>1, <3>2, <3>3, <3>4, <3>5, <3>6 DEF EvpAt
  <2> QED BY <1>1, <2>1, <2>2, <2>3 DEF EvpEncrypt, Goto
<1>2. CASE EvpReuse
  <2>1. /\ pc = "iv_reuse" /\ draws \in 0 .. 3 /\ build.fault # "UAF" /\ "tiny" \notin bits
        /\ mem.c1 \in {IvBox(1), NoBytes} /\ mem.c2 \in {IvBox(2), NoBytes}
        /\ NoBytes \in {mem.c1, mem.c2} => "seal" \in failed
        /\ log = Sealings(mem.c1, mem.c2)
        /\ UNCHANGED <<mem, draws, failed, log>>
    BY <1>2 DEF EvpReuse, EvpAt
  <2>2. /\ IvBox(1).key = Random(0) /\ IvBox(1).nonce = IvSource(1)
        /\ IvBox(2).key = Random(0) /\ IvBox(2).nonce = IvSource(2)
        /\ IvBox(1) # NoBytes /\ IvBox(2) # NoBytes
    <3>1. IvBox(1).kind = "sealed" /\ IvBox(2).kind = "sealed" /\ NoBytes.kind = "no bytes"
      BY BoxParts DEF IvBox, NoBytes
    <3>2. IvBox(1) # NoBytes /\ IvBox(2) # NoBytes BY <3>1
    <3>3. /\ IvBox(1).key = Random(0) /\ IvBox(1).nonce = IvSource(1)
          /\ IvBox(2).key = Random(0) /\ IvBox(2).nonce = IvSource(2)
      BY BoxParts DEF IvBox
    <3> QED BY <3>2, <3>3
  <2>3. IvSource(1) = IvSource(2) <=> build.fault = "IV"
    BY RandomsApart DEF IvSource
  <2>4. CASE mem.c1 = mem.c2
    <3>1. pc' = "abort" /\ report' = "O6-iv-unpredictability"
      BY <1>2, <2>4 DEF EvpReuse, Assert
    <3>2. build.fault = "IV" \/ "seal" \in failed BY <2>1, <2>2, <2>3, <2>4
    <3> QED BY <2>1, <3>1, <3>2 DEF EvpAt
  <2>5. CASE mem.c1 # mem.c2
    <3>1. pc' = "return" BY <1>2, <2>5 DEF EvpReuse, Assert, Goto
    <3>2. CASE mem.c1 = IvBox(1) /\ mem.c2 = IvBox(2)
      <4>1. IvSource(1) # IvSource(2) BY <2>5, <3>2 DEF IvBox
      <4>2. log = {Sealing(1, Random(0), IvSource(1)), Sealing(2, Random(0), IvSource(2))}
        BY <2>1, <2>2, <3>2 DEF Sealings
      <4>3. ContractAt(log') BY <2>1, <4>1, <4>2, ContractOfTwo
      <4> QED BY <2>1, <2>3, <3>1, <4>1, <4>3 DEF EvpAt
    <3>3. CASE mem.c1 = IvBox(1) /\ mem.c2 = NoBytes
      <4>1. log = {Sealing(1, Random(0), IvSource(1))} BY <2>1, <2>2, <3>3 DEF Sealings
      <4>2. ContractAt(log') BY <2>1, <4>1, ContractOfOne
      <4> QED BY <2>1, <3>1, <3>3, <4>2 DEF EvpAt
    <3>4. CASE mem.c1 = NoBytes /\ mem.c2 = IvBox(2)
      <4>1. log = {Sealing(2, Random(0), IvSource(2))} BY <2>1, <2>2, <3>4 DEF Sealings
      <4>2. ContractAt(log') BY <2>1, <4>1, ContractOfOne
      <4> QED BY <2>1, <3>1, <3>4, <4>2 DEF EvpAt
    <3> QED BY <2>1, <2>5, <3>2, <3>3, <3>4
  <2> QED BY <2>4, <2>5
<1>3. CASE EvpContext
  <2>1. /\ pc = "context" /\ draws' = 2 /\ log = {} /\ build.fault # "IV"
    BY <1>3 DEF EvpContext, EvpAt, Drawn
  <2>2. CASE /\ build.fault = "UAF" /\ pc' = "abort"
             /\ report' \in {"O6-ctx-use-after-free", "sanitizer"}
    BY <2>1, <2>2 DEF EvpAt
  <2>3. CASE /\ ~ (build.fault = "UAF" /\ "tiny" \notin bits) /\ pc' = "return" /\ log' = {}
    BY <2>1, <2>3, ContractOfNothing DEF EvpAt
  <2> QED BY <1>3, <2>1, <2>2, <2>3 DEF EvpContext, Goto
<1> QED BY <1>1, <1>2, <1>3

(* seq_pqc_harness.c                                                       *)
PqcLocals == {"pairA", "pairB", "ct", "ss_enc"}
PqcCt == Cipher(Pair(1), 3)
PqcMade == /\ DOMAIN mem = PqcLocals /\ mem.pairA = Pair(1) /\ mem.pairB = Pair(2)
           /\ mem.ct = PqcCt /\ mem.ss_enc = Secret(PqcCt)
PqcAt ==
  /\ pc \in PqcPlaces \cup Outside
  /\ pc = "pqc_keys" => DOMAIN mem = PqcLocals
  /\ pc = "pqc_honest" => PqcMade
  /\ pc = "pqc_misuse" => PqcMade /\ (failed = {} => defect # "kem_wrong")
  /\ pc # "idle" => draws = 0 /\ log = {}
  /\ pc = "return" /\ failed = {} =>
       defect \notin {"kem_wrong", "kem_any_key"} /\ build.fault # "KEMSWAP"
  /\ pc = "abort" =>
       \/ report = "O6-kem-roundtrip" /\ defect = "kem_wrong"
       \/ /\ report = "O6-kem-key-confusion"
          /\ defect = "kem_any_key" \/ build.fault = "KEMSWAP"


LEMMA PqcBegins == ASSUME PqcBegin, build' = build, defect' = defect PROVE PqcAt'
<1>1. Begin({}, "pqc_keys", PqcLocals) BY DEF PqcBegin, PqcLocals
<1>2. pc' = "pqc_keys" /\ DOMAIN mem' = PqcLocals /\ draws' = 0 /\ log' = {}
  BY <1>1, Beginning
<1> QED BY <1>2 DEF PqcAt, PqcPlaces

LEMMA PqcSteps ==
  ASSUME PqcAt, defect \in {"none"} \cup PqcDefects, build' = build, defect' = defect, bits' = bits,
         PqcKeys \/ PqcHonest \/ PqcMisuse
  PROVE  PqcAt'
<1> USE DEF PqcPlaces, Outside, PqcLocals
<1>1. CASE PqcKeys
  BY <1>1 DEF PqcKeys, PqcAt, Works, Fails, Goto, PqcMade, PqcCt
<1>2. CASE PqcHonest
  <2>1. /\ pc = "pqc_honest" /\ PqcMade /\ draws = 0 /\ log = {}
        /\ UNCHANGED <<mem, draws, log>>
    BY <1>2 DEF PqcHonest, PqcAt
  <2>2. CASE pc' = "pqc_misuse" /\ (failed' = {} => defect # "kem_wrong")
    BY <2>1, <2>2 DEF PqcAt, PqcMade
  <2>3. CASE pc' = "abort" /\ report' = "O6-kem-roundtrip" /\ defect = "kem_wrong"
    BY <2>1, <2>3 DEF PqcAt
  <2>4. ASSUME NEW s \in Decapsulations(defect, mem.ct, mem.pairA)
        PROVE  /\ s = mem.ss_enc => defect # "kem_wrong"
               /\ s # mem.ss_enc => defect \in {"kem_wrong", "kem_unstable"}
    BY <2>1, <2>4, DecapsulatesOwn DEF PqcMade, PqcCt
  <2>5. defect # "kem_unstable" BY DEF PqcDefects
  <2> QED BY <1>2, <2>2, <2>3, <2>4, <2>5 DEF PqcHonest, Works, Fails, Assert, Goto
<1>3. CASE PqcMisuse
  BY <1>3, DecapsulatesOther, PairsApart
     DEF PqcMisuse, PqcAt, Works, Fails, Assert, Goto, PqcMade, PqcCt
<1> QED BY <1>1, <1>2, <1>3

(* comp_authkem_harness.c                                                  *)
AkLocals == {"skR", "skS", "enc", "ss_s", "sig"}
AkEnc == Cipher(Pair(1), 3)
AkMade == /\ DOMAIN mem = AkLocals
          /\ mem.skR = Pair(1) /\ mem.skS = Pair(2)
          /\ mem.enc = AkEnc
          /\ mem.ss_s = Secret(AkEnc) \/ "pub" \in failed
AkSigned == mem.sig = Signature(Pair(2), Transcript(AkEnc))
AkCauses == {"pub", "sign", "verify", "hkdf", "seal", "open"}
AkPastRecord ==
  failed = {} =>
    /\ defect \notin {"kem_wrong", "aead_rejects"}
    /\ "empty" \notin bits => defect # "aead_wrong"

AkAt ==
  /\ pc \in AkPlaces \cup Outside
  /\ pc = "ak_keys" => DOMAIN mem = AkLocals /\ mem.sig = Garbage
  /\ pc = "ak_sign" => AkMade /\ mem.sig = Garbage
  /\ pc = "ak_verify" =>
       /\ AkMade
       /\ AkSigned \/ (mem.sig = Garbage /\ "sign" \in failed)
  /\ pc = "ak_record" =>
       AkMade /\ AkSigned /\ defect # "sig_rejects"
  /\ pc = "ak_tamper" =>
       AkMade /\ AkSigned /\ defect # "sig_rejects" /\ AkPastRecord
  /\ pc # "idle" => draws = 0 /\ log = {}
  /\ pc = "return" =>
       /\ AkPastRecord
       /\ failed = {} =>
            defect \notin {"sig_rejects", "sig_any_msg"} /\ build.fault # "AK"
  /\ pc = "abort" =>
       \/ /\ report = "O5-roundtrip"
          /\ \/ failed \cap AkCauses # {}
             \/ defect \in {"sig_rejects", "kem_wrong", "aead_rejects", "aead_wrong"}
       \/ /\ report = "O5-transcript-binding"
          /\ defect = "sig_any_msg" \/ build.fault = "AK"


LEMMA AkBegins == ASSUME AkBegin, build' = build, defect' = defect PROVE AkAt'
<1>1. PICK b \in SUBSET {"empty"} : Begin(b, "ak_keys", AkLocals)
  BY DEF AkBegin, AkLocals
<1>2. pc' = "ak_keys" /\ DOMAIN mem' = AkLocals /\ draws' = 0 /\ log' = {}
  BY <1>1, Beginning
<1>3. mem'["sig"] = Garbage BY <1>1, Beginning DEF AkLocals, Globals
<1> QED BY <1>2, <1>3 DEF AkAt, AkPlaces

LEMMA TranscriptsApart ==
  /\ build.fault # "AK" => Transcript(Flip(AkEnc)) # Transcript(AkEnc)
  /\ build.fault = "AK" => Transcript(Flip(AkEnc)) = Transcript(AkEnc)
<1>1. Flip(AkEnc) # AkEnc BY CipherParts DEF AkEnc
<1>2. CASE build.fault = "AK" BY <1>2 DEF Transcript
<1>3. CASE build.fault # "AK" BY <1>1, <1>3 DEF Transcript
<1> QED BY <1>2, <1>3

(* The record opens unless the secrets, or the library, are wrong.         *)
LEMMA AkRecordOpens ==
  ASSUME NEW ss_r \in Decapsulations(defect, AkEnc, Pair(1)),
         NEW box, box = Sealed(Derived(defect, Secret(AkEnc)), Constant, Message(1)),
         NEW good, good = (/\ Opens(defect, box, Derived(defect, ss_r), Constant)
                           /\ SameText(box, Message(1)))
  PROVE  /\ good =>
              /\ defect \notin {"kem_wrong", "aead_rejects"}
              /\ "empty" \notin bits => defect # "aead_wrong"
         /\ ~ good => defect \in {"kem_wrong", "kem_unstable", "aead_rejects", "aead_wrong"}
<1> DEFINE s == Secret(AkEnc)
<1>1. /\ s = ss_r \/ defect \in {"kem_wrong", "kem_unstable"}
      /\ defect = "kem_wrong" => s # ss_r
      /\ s.kind = "secret" /\ s.of = AkEnc
  BY DecapsulatesOwn DEF AkEnc, Secret
<1>2. Derived(defect, s) = Derived(defect, ss_r) => s = ss_r
  <2>1. \A x : [kind |-> "derived", from |-> x].from = x OBVIOUS
  <2> HIDE DEF s
  <2> QED BY <2>1 DEF Derived
<1>3. Garbage # Message(1) BY GarbageApart
<1>4. box.msg = Message(1) /\ box.key = Derived(defect, s) BY BoxParts
<1>5. SameText(box, Message(1)) <=> "empty" \in bits \/ defect # "aead_wrong"
  BY <1>3, <1>4 DEF SameText, Plaintext
<1>6. CASE s = ss_r
  <2>1. Opens(defect, box, Derived(defect, ss_r), Constant) <=> defect # "aead_rejects"
    BY <1>6, BoxOpens
  <2> QED BY <1>1, <1>5, <1>6, <2>1
<1>7. CASE s # ss_r
  <2>1. Opens(defect, box, Derived(defect, ss_r), Constant) <=> defect = "aead_any_key"
    BY <1>2, <1>7, BoxOtherKey
  <2> QED BY <1>1, <1>5, <1>7, <2>1
<1> QED BY <1>6, <1>7

LEMMA AkSteps ==
  ASSUME AkAt, defect \in {"none"} \cup CompDefects.authkem,
         build' = build, defect' = defect, bits' = bits, log' = log,
         AkKeys \/ AkSign \/ AkVerify \/ AkRecord \/ AkTamper
  PROVE  AkAt'
<1> USE DEF AkPlaces, Outside, AkLocals
<1>0. AkEnc' = AkEnc /\ (\A x : Transcript(x)' = Transcript(x)) BY DEF AkEnc, Transcript
<1>1. CASE AkKeys
  <2>1. pc = "ak_keys" /\ DOMAIN mem = AkLocals /\ mem.sig = Garbage
        /\ draws = 0 /\ log = {} /\ draws' = 0
    BY <1>1 DEF AkKeys, AkAt
  <2>2. CASE /\ pc' = "ak_sign"
             /\ mem' = [mem EXCEPT !.skR = Pair(1), !.skS = Pair(2),
                                   !.enc = AkEnc, !.ss_s = Secret(AkEnc)]
    <3>1. AkMade' /\ mem'.sig = Garbage BY <2>1, <2>2 DEF AkMade, AkEnc
    <3> QED BY <2>1, <2>2, <3>1 DEF AkAt
  <2>3. CASE /\ pc' = "ak_sign" /\ "pub" \in failed'
             /\ mem' = [mem EXCEPT !.skR = Pair(1), !.skS = Pair(2), !.enc = AkEnc]
    <3>1. AkMade' /\ mem'.sig = Garbage BY <2>1, <2>3 DEF AkMade, AkEnc
    <3> QED BY <2>1, <2>3, <3>1 DEF AkAt
  <2>4. CASE pc' = "return" /\ failed' # {}
    BY <2>1, <2>4 DEF AkAt, AkPastRecord
  <2> QED BY <1>1, <2>2, <2>3, <2>4 DEF AkKeys, Goto, Works, Fails, AkEnc
<1>2. CASE AkSign
  <2>1. pc = "ak_sign" /\ AkMade /\ mem.sig = Garbage /\ draws' = 0 /\ log = {}
        /\ pc' = "ak_verify"
    BY <1>2 DEF AkSign, AkAt, Goto
  <2>2. CASE mem' = [mem EXCEPT !["sig"] = Signature(mem.skS, Transcript(mem.enc))]
    <3>1. mem'.sig = Signature(Pair(2), Transcript(AkEnc)) /\ AkMade'
      BY <1>0, <1>2, <2>1, <2>2 DEF AkMade, AkSign, Works, Fails
    <3>2. AkSigned' BY <1>0, <3>1 DEF AkSigned
    <3> QED BY <2>1, <3>1, <3>2 DEF AkAt
  <2>3. CASE mem' = mem /\ "sign" \in failed' /\ failed \subseteq failed'
    <3>1. AkMade' /\ mem'.sig = Garbage BY <1>0, <2>1, <2>3 DEF AkMade
    <3> QED BY <2>1, <2>3, <3>1 DEF AkAt
  <2> QED BY <1>2, <2>2, <2>3 DEF AkSign, Works, Fails, Set
<1>3. CASE AkVerify
  <2>1. /\ pc = "ak_verify" /\ AkMade /\ draws' = 0 /\ log = {} /\ mem' = mem
        /\ AkSigned \/ (mem.sig = Garbage /\ "sign" \in failed)
    BY <1>3 DEF AkVerify, AkAt
  <2>2. PICK ok \in BOOLEAN : /\ Verify(ok, mem.sig, Transcript(mem.enc), mem.skS)
                              /\ Assert(ok, "O5-roundtrip", "ak_record")
    BY <1>3 DEF AkVerify
  <2>3. ok => Verifies(defect, mem.sig, Transcript(AkEnc), Pair(2))
    BY <2>1, <2>2 DEF Verify, AkMade
  <2>4. CASE ok
    <3>1. pc' = "ak_record" BY <2>2, <2>4 DEF Assert, Goto
    <3>2. AkSigned BY <2>1, <2>3, <2>4, Signatures
    <3>3. defect # "sig_rejects" BY <2>3, <2>4, <3>2, Signatures DEF AkSigned
    <3>4. failed \subseteq failed' BY <2>2 DEF Verify, Works, Fails
    <3>5. AkMade' /\ AkSigned' BY <1>0, <2>1, <3>2, <3>4 DEF AkMade, AkSigned
    <3> QED BY <2>1, <3>1, <3>3, <3>5 DEF AkAt
  <2>5. CASE ~ ok
    <3>1. pc' = "abort" /\ report' = "O5-roundtrip" BY <2>2, <2>5 DEF Assert
    <3>2. "verify" \in failed' \/ ("sign" \in failed' \/ defect = "sig_rejects")
      <4>1. CASE Fails("verify") BY <4>1 DEF Fails
      <4>2. CASE Works /\ AkSigned
        BY <2>1, <2>2, <2>5, <4>2, Signatures DEF Verify, AkSigned, AkMade, Fails
      <4>3. CASE Works /\ "sign" \in failed BY <4>3 DEF Works
      <4> QED BY <2>1, <2>2, <4>1, <4>2, <4>3 DEF Verify
    <3>3. failed' \cap AkCauses # {} \/ defect = "sig_rejects"
      BY <3>2 DEF AkCauses
    <3> QED BY <2>1, <3>1, <3>3 DEF AkAt
  <2> QED BY <2>4, <2>5
<1>4. CASE AkRecord
  <2>1. /\ pc = "ak_record" /\ AkMade /\ AkSigned /\ defect # "sig_rejects"
        /\ draws' = 0 /\ log = {} /\ mem' = mem
    BY <1>4 DEF AkRecord, AkAt
  <2>a. failed \subseteq failed' BY <1>4 DEF AkRecord, Works, Fails
  <2>2. AkMade' /\ AkSigned' BY <1>0, <2>1, <2>a DEF AkMade, AkSigned
  <2>3. CASE pc' = "ak_tamper" /\ AkPastRecord'
    BY <2>1, <2>2, <2>3 DEF AkAt
  <2>4. CASE /\ pc' = "abort" /\ report' = "O5-roundtrip"
             /\ \/ failed' \cap AkCauses # {}
                \/ defect \in {"sig_rejects", "kem_wrong", "aead_rejects", "aead_wrong"}
    BY <2>1, <2>4 DEF AkAt
  <2>5. CASE /\ Fails("hkdf") \/ Fails("seal") \/ Fails("open")
             /\ \E ok \in BOOLEAN : Assert(ok, "O5-roundtrip", "ak_tamper")
    <3>1. failed' \cap AkCauses # {} BY <2>5 DEF Fails, AkCauses
    <3> QED BY <2>3, <2>4, <2>5, <3>1 DEF Assert, Goto, AkPastRecord
  <2>6. CASE Fails("decaps") /\ Goto("ak_tamper")
    BY <2>3, <2>6 DEF Fails, Goto, AkPastRecord
  <2>7. CASE Works /\ \E ss_r \in Decapsulations(defect, mem.enc, mem.skR) :
             LET box == Sealed(Derived(defect, mem.ss_s), Constant, Message(1))
             IN Assert(/\ Opens(defect, box, Derived(defect, ss_r), Constant)
                       /\ SameText(box, Message(1)),
                       "O5-roundtrip", "ak_tamper")
    <3> DEFINE box == Sealed(Derived(defect, mem.ss_s), Constant, Message(1))
    <3>1. PICK ss_r \in Decapsulations(defect, AkEnc, Pair(1)) :
            Assert(/\ Opens(defect, box, Derived(defect, ss_r), Constant)
                   /\ SameText(box, Message(1)), "O5-roundtrip", "ak_tamper")
      BY <2>1, <2>7 DEF AkMade
    <3> DEFINE good == /\ Opens(defect, box, Derived(defect, ss_r), Constant)
                       /\ SameText(box, Message(1))
    <3>2. Assert(good, "O5-roundtrip", "ak_tamper") BY <3>1
    <3>3. failed' = failed BY <2>7 DEF Works
    <3>4. defect # "kem_unstable" BY DEF CompDefects
    <3>5. CASE mem.ss_s = Secret(AkEnc)
      <4>1. /\ good =>
                 /\ defect \notin {"kem_wrong", "aead_rejects"}
                 /\ "empty" \notin bits => defect # "aead_wrong"
            /\ ~ good => defect \in {"kem_wrong", "kem_unstable", "aead_rejects", "aead_wrong"}
        BY <3>5, AkRecordOpens
      <4> HIDE DEF good
      <4>2. CASE good BY <2>3, <3>2, <4>1, <4>2 DEF Assert, Goto, AkPastRecord
      <4>3. CASE ~ good BY <2>4, <3>2, <3>4, <4>1, <4>3 DEF Assert
      <4> QED BY <4>2, <4>3
    <3>6. CASE "pub" \in failed
      <4> HIDE DEF good
      <4>1. failed' \cap AkCauses # {} /\ failed' # {} BY <3>3, <3>6 DEF AkCauses
      <4>2. CASE good BY <2>3, <3>2, <4>1, <4>2 DEF Assert, Goto, AkPastRecord
      <4>3. CASE ~ good BY <2>4, <3>2, <4>1, <4>3 DEF Assert
      <4> QED BY <4>2, <4>3
    <3> QED BY <2>1, <3>5, <3>6 DEF AkMade
  <2> QED BY <1>4, <2>5, <2>6, <2>7 DEF AkRecord
<1>5. CASE AkTamper
  <2>1. /\ pc = "ak_tamper" /\ AkMade /\ AkSigned /\ defect # "sig_rejects" /\ AkPastRecord
        /\ draws' = 0 /\ log = {} /\ mem' = mem
    BY <1>5 DEF AkTamper, AkAt
  <2>2. PICK ok \in BOOLEAN : /\ Verify(ok, mem.sig, Transcript(Flip(AkEnc)), Pair(2))
                              /\ Assert(~ ok, "O5-transcript-binding", "return")
    BY <1>5, <2>1 DEF AkTamper, AkMade
  <2>3. Verifies(defect, mem.sig, Transcript(Flip(AkEnc)), Pair(2))
          <=> defect = "sig_any_msg" \/ build.fault = "AK"
    <3>1. CASE build.fault = "AK"
      BY <2>1, <3>1, TranscriptsApart, Signatures DEF AkSigned
    <3>2. CASE build.fault # "AK"
      BY <2>1, <3>2, TranscriptsApart, SignaturesOverOther DEF AkSigned
    <3> QED BY <3>1, <3>2
  <2>4. failed \subseteq failed' BY <2>2 DEF Verify, Works, Fails
  <2>5. CASE ok
    <3>1. pc' = "abort" /\ report' = "O5-transcript-binding" BY <2>2, <2>5 DEF Assert
    <3>2. defect = "sig_any_msg" \/ build.fault = "AK" BY <2>2, <2>3, <2>5 DEF Verify
    <3> QED BY <2>1, <3>1, <3>2 DEF AkAt
  <2>6. CASE ~ ok
    <3>1. pc' = "return" BY <2>2, <2>6 DEF Assert, Goto
    <3>2. failed' = {} => defect # "sig_any_msg" /\ build.fault # "AK"
      BY <2>2, <2>3, <2>6 DEF Verify, Fails
    <3>3. AkPastRecord' BY <2>1, <2>4 DEF AkPastRecord
    <3> QED BY <2>1, <3>1, <3>2, <3>3 DEF AkAt
  <2> QED BY <2>5, <2>6
<1> QED BY <1>1, <1>2, <1>3, <1>4, <1>5

(* Appending to a sequence of k elements given by its elements.            *)
LEMMA PushesOnto ==
  ASSUME NEW s, NEW k \in Nat, s = [i \in 1 .. k |-> s[i]], NEW x
  PROVE  /\ Len(s) = k
         /\ Append(s, x) = [i \in 1 .. k + 1 |-> Append(s, x)[i]]
         /\ DOMAIN Append(s, x) = 1 .. k + 1
         /\ Append(s, x)[k + 1] = x
         /\ \A i \in 1 .. k : Append(s, x)[i] = s[i]
<1> DEFINE S == {s[i] : i \in 1 .. k} \cup {x}
<1>1. s \in [1 .. k -> S] OBVIOUS
<1>2. s \in Seq(S) /\ Len(s) = k BY <1>1
<1>3. x \in S OBVIOUS
<1> HIDE DEF S
<1>4. Append(s, x) \in Seq(S) /\ Len(Append(s, x)) = k + 1 BY <1>2, <1>3
<1>5. DOMAIN Append(s, x) = 1 .. k + 1 BY <1>4
<1>6. \A i \in 1 .. k : Append(s, x)[i] = s[i] BY <1>2, <1>3
<1>7. Append(s, x)[k + 1] = x BY <1>2, <1>3
<1>8. Append(s, x) = [i \in 1 .. k + 1 |-> Append(s, x)[i]] BY <1>4, <1>5
<1> QED BY <1>2, <1>5, <1>6, <1>7, <1>8


(* comp_kdfchain_harness.c                                                 *)
KdfLocals == {"keys", "ct"}
ChainKey1 == Derived(defect, Random(0))
ChainKey2 == IF build.fault = "KDF" THEN ChainKey1 ELSE Derived(defect, ChainKey1)
ChainKey3 == IF build.fault = "KDF" THEN ChainKey1 ELSE Derived(defect, ChainKey2)
ChainKey4 == IF build.fault = "KDF" THEN ChainKey1 ELSE Derived(defect, ChainKey3)
ChainKeys == <<ChainKey1, ChainKey2, ChainKey3, ChainKey4>>
(* k keys of the chain are made.                                           *)
Chained(k) ==
  /\ DOMAIN mem = KdfLocals
  /\ IF k = 0 THEN mem.keys = Garbage
     ELSE /\ mem.keys = [kind |-> "keys", seq |-> mem.keys.seq]
          /\ DOMAIN mem.keys.seq = 1 .. k
          /\ mem.keys.seq = [i \in 1 .. k |-> mem.keys.seq[i]]
          /\ "hkdf" \notin failed =>
               \A i \in 1 .. k : mem.keys.seq[i] = ChainKeys[i]
KdfSealed == /\ Chained(4) /\ draws = 5
             /\ mem.ct.seq = [i \in 1 .. 4 |->
                   Sealed(mem.keys.seq[i], Constant, Message(i))]
KdfPastOpen ==
  failed = {} => /\ defect # "aead_rejects"
                 /\ "empty" \notin bits => defect # "aead_wrong"

KdfAt ==
  /\ pc \in KdfPlaces \cup Outside
  /\ pc = "kdf_chain" =>
       \E k \in 0 .. 3 : Chained(k) /\ draws = IF k = 0 THEN 0 ELSE 1
  /\ pc = "kdf_seal" => Chained(4) /\ draws = 1
  /\ pc = "kdf_open" => KdfSealed
  /\ pc = "kdf_separate" => KdfSealed /\ KdfPastOpen
  /\ pc # "idle" => log = {}
  /\ pc = "return" =>
       /\ draws \in 0 .. 5
       /\ failed = {} =>
            /\ KdfPastOpen
            /\ "apart" \in bits => /\ defect \notin {"kdf_identity", "aead_any_key"}
                                   /\ build.fault # "KDF"
  /\ pc = "abort" =>
       /\ draws \in 0 .. 5
       /\ \/ /\ report = "O5-roundtrip"
             /\ \/ failed \cap {"seal", "open"} # {}
                \/ defect \in {"aead_rejects", "aead_wrong"}
          \/ /\ report = "O5-key-separation"
             /\ \/ "hkdf" \in failed
                \/ defect \in {"kdf_identity", "aead_any_key"} \/ build.fault = "KDF"


LEMMA KdfBegins == ASSUME KdfBegin, build' = build, defect' = defect PROVE KdfAt'
<1>1. PICK b \in SUBSET {"apart"} : Begin(b, "kdf_chain", KdfLocals)
  BY DEF KdfBegin, KdfLocals
<1>2. /\ pc' = "kdf_chain" /\ DOMAIN mem' = KdfLocals /\ draws' = 0
      /\ failed' = {} /\ log' = {}
  BY <1>1, Beginning
<1>3. mem'["keys"] = Garbage BY <1>1, Beginning DEF KdfLocals, Globals
<1>4. Chained(0)' BY <1>2, <1>3 DEF Chained
<1> QED BY <1>2, <1>4 DEF KdfAt, KdfPlaces

(* Keys of one chain differ, unless the derivation does nothing; and then  *)
(* they are all the same.                                                  *)
LEMMA DerivedApart ==
  ASSUME NEW d, d # "kdf_identity", NEW x, NEW y
  PROVE  /\ Derived(d, x) # Random(0)
         /\ Derived(d, x) = Derived(d, y) => x = y
<1>1. Derived(d, x).kind = "derived" /\ Derived(d, x).from = x BY DEF Derived
<1>2. Derived(d, y).from = y BY DEF Derived
<1>3. Random(0).kind = "random" BY DEF Random
<1> QED BY <1>1, <1>2, <1>3

LEMMA ChainKeysApart ==
  ASSUME defect # "kdf_identity", build.fault # "KDF",
         NEW i \in 1 .. 4, NEW j \in 1 .. 4, i # j
  PROVE  ChainKeys[i] # ChainKeys[j]
<1>1. /\ ChainKey2 = Derived(defect, ChainKey1)
      /\ ChainKey3 = Derived(defect, ChainKey2)
      /\ ChainKey4 = Derived(defect, ChainKey3)
      /\ ChainKey1 = Derived(defect, Random(0))
  BY DEF ChainKey1, ChainKey2, ChainKey3, ChainKey4
<1>2. ChainKey1 # Random(0) /\ ChainKey2 # Random(0) /\ ChainKey3 # Random(0)
  BY <1>1, DerivedApart
<1>3. ChainKey2 # ChainKey1 /\ ChainKey3 # ChainKey1 /\ ChainKey4 # ChainKey1
  BY <1>1, <1>2, DerivedApart
<1>4. ChainKey3 # ChainKey2 /\ ChainKey4 # ChainKey2 BY <1>1, <1>3, DerivedApart
<1>5. ChainKey4 # ChainKey3 BY <1>1, <1>4, DerivedApart
<1>6. /\ ChainKeys[1] = ChainKey1 /\ ChainKeys[2] = ChainKey2
      /\ ChainKeys[3] = ChainKey3 /\ ChainKeys[4] = ChainKey4
  BY DEF ChainKeys
<1> HIDE DEF ChainKeys
<1> QED BY <1>3, <1>4, <1>5, <1>6

LEMMA ChainKeysSame ==
  ASSUME defect = "kdf_identity" \/ build.fault = "KDF",
         NEW i \in 1 .. 4, NEW j \in 1 .. 4
  PROVE  ChainKeys[i] = ChainKeys[j]
<1>1. ChainKey2 = ChainKey1 BY DEF ChainKey2, Derived
<1>2. ChainKey3 = ChainKey1 BY <1>1 DEF ChainKey3, Derived
<1>3. ChainKey4 = ChainKey1 BY <1>2 DEF ChainKey4, Derived
<1>4. /\ ChainKeys[1] = ChainKey1 /\ ChainKeys[2] = ChainKey2
      /\ ChainKeys[3] = ChainKey3 /\ ChainKeys[4] = ChainKey4
  BY DEF ChainKeys
<1> QED BY <1>1, <1>2, <1>3, <1>4

(* The key that is made next.                                              *)
LEMMA NextChainKey ==
  ASSUME NEW k \in 0 .. 3, NEW last,
         last = IF k = 0 THEN Random(0) ELSE ChainKeys[k]
  PROVE  ChainKeys[k + 1] = IF build.fault = "KDF" /\ k # 0 THEN last
                            ELSE Derived(defect, last)
<1>1. /\ ChainKeys[1] = ChainKey1 /\ ChainKeys[2] = ChainKey2
      /\ ChainKeys[3] = ChainKey3 /\ ChainKeys[4] = ChainKey4
  BY DEF ChainKeys
<1>2. CASE k = 0 BY <1>1, <1>2 DEF ChainKey1
<1>3. CASE k = 1 BY <1>1, <1>3 DEF ChainKey2
<1>4. CASE k = 2
  <2>1. CASE build.fault = "KDF" BY <1>1, <1>4, <2>1 DEF ChainKey2, ChainKey3
  <2>2. CASE build.fault # "KDF" BY <1>1, <1>4, <2>2 DEF ChainKey3
  <2> QED BY <2>1, <2>2
<1>5. CASE k = 3
  <2>1. CASE build.fault = "KDF" BY <1>1, <1>5, <2>1 DEF ChainKey3, ChainKey4
  <2>2. CASE build.fault # "KDF" BY <1>1, <1>5, <2>2 DEF ChainKey4
  <2> QED BY <2>1, <2>2
<1> QED BY <1>2, <1>3, <1>4, <1>5

(* As many keys are made as the chain is long.                             *)
LEMMA ChainLength ==
  ASSUME NEW k \in 0 .. 3, Chained(k),
         NEW keys, keys = IF mem.keys = Garbage THEN <<>> ELSE mem.keys.seq
  PROVE  keys = [i \in 1 .. k |-> keys[i]] /\ (keys = <<>> <=> k = 0)
<1>1. Garbage.kind = "garbage" BY DEF Garbage
<1>2. CASE k = 0 BY <1>2 DEF Chained
<1>3. CASE k # 0
  <2>1. mem.keys = [kind |-> "keys", seq |-> mem.keys.seq] BY <1>3 DEF Chained
  <2>2. mem.keys.kind = "keys" BY <2>1
  <2>3. keys = mem.keys.seq BY <1>1, <2>2
  <2>4. DOMAIN keys = 1 .. k /\ keys = [i \in 1 .. k |-> keys[i]]
    BY <1>3, <2>3 DEF Chained
  <2>5. 1 \in 1 .. k BY <1>3
  <2>6. keys # <<>> BY <2>4, <2>5
  <2> QED BY <1>3, <2>4, <2>6
<1> QED BY <1>2, <1>3

(* One more key of the chain.                                              *)
LEMMA ChainStep ==
  ASSUME NEW k \in 0 .. 3, Chained(k), KdfChain, build' = build, defect' = defect
  PROVE  Chained(k + 1)'
<1> DEFINE keys == IF mem.keys = Garbage THEN <<>> ELSE mem.keys.seq
           last == IF keys = <<>> THEN Random(0) ELSE keys[Len(keys)]
<1>1. Garbage.kind = "garbage" BY DEF Garbage
<1>2. keys = [i \in 1 .. k |-> keys[i]] /\ (keys = <<>> <=> k = 0)
  BY ChainLength
<1>3. "hkdf" \notin failed => \A i \in 1 .. k : keys[i] = ChainKeys[i]
  BY <1>1, <1>2 DEF Chained
<1>4. DOMAIN mem = KdfLocals BY DEF Chained
<1>5. ChainKeys' = ChainKeys
  BY DEF ChainKeys, ChainKey1, ChainKey2, ChainKey3, ChainKey4
<1>6. PICK x :
        /\ mem' = [mem EXCEPT !["keys"] = [kind |-> "keys", seq |-> Append(keys, x)]]
        /\ \/ /\ failed' = failed
              /\ x = IF build.fault = "KDF" /\ keys # <<>> THEN last
                     ELSE Derived(defect, last)
           \/ failed' = failed \cup {"hkdf"}
  BY DEF KdfChain, Works, Fails, Set
<1>7. Len(keys) = k BY <1>2, PushesOnto
<1>8. "hkdf" \notin failed' => x = ChainKeys[k + 1]
  <2>1. SUFFICES ASSUME "hkdf" \notin failed' PROVE x = ChainKeys[k + 1] OBVIOUS
  <2>2. "hkdf" \notin failed /\ x = IF build.fault = "KDF" /\ k # 0 THEN last
                            ELSE Derived(defect, last)
    BY <1>2, <1>6, <2>1
  <2>3. last = IF k = 0 THEN Random(0) ELSE ChainKeys[k]
    BY <1>2, <1>3, <1>7, <2>2
  <2> HIDE DEF last
  <2> QED BY <2>2, <2>3, NextChainKey
<1> DEFINE longer == Append(keys, x)
<1>9. /\ longer = [i \in 1 .. k + 1 |-> longer[i]]
      /\ DOMAIN longer = 1 .. k + 1
      /\ longer[k + 1] = x
      /\ \A i \in 1 .. k : longer[i] = keys[i]
  BY <1>2, PushesOnto
<1>10. mem' = [mem EXCEPT !["keys"] = [kind |-> "keys", seq |-> longer]]
  BY <1>6
<1> HIDE DEF longer, keys, last
<1>11. mem'.keys = [kind |-> "keys", seq |-> longer] /\ DOMAIN mem' = KdfLocals
  BY <1>4, <1>10 DEF KdfLocals
<1>12. "hkdf" \notin failed' => \A i \in 1 .. k + 1 : longer[i] = ChainKeys[i]
  BY <1>3, <1>6, <1>8, <1>9
<1>13. mem'.keys.seq = longer BY <1>11
<1> QED BY <1>5, <1>9, <1>11, <1>12, <1>13 DEF Chained

LEMMA KdfSteps ==
  ASSUME KdfAt, build' = build, defect' = defect, bits' = bits, log' = log,
         KdfChain \/ KdfSeal \/ KdfOpen \/ KdfSeparate
  PROVE  KdfAt'
<1> USE DEF KdfPlaces, Outside
<1>0. ChainKeys' = ChainKeys
  BY DEF ChainKeys, ChainKey1, ChainKey2, ChainKey3, ChainKey4
<1>1. CASE KdfChain
  <2>1. pc = "kdf_chain" /\ log = {} BY <1>1 DEF KdfChain, KdfAt
  <2>2. PICK k \in 0 .. 3 : Chained(k) /\ draws = IF k = 0 THEN 0 ELSE 1
    BY <2>1 DEF KdfAt
  <2>3. Chained(k + 1)' BY <1>1, <2>2, ChainStep
  <2>4. /\ draws' = 1
        /\ pc' = IF k + 1 = 4 THEN "kdf_seal" ELSE "kdf_chain"
    <3> DEFINE keys == IF mem.keys = Garbage THEN <<>> ELSE mem.keys.seq
    <3>1. /\ draws' = draws + (IF keys = <<>> THEN 1 ELSE 0)
          /\ pc' = IF Len(keys) + 1 = 4 THEN "kdf_seal" ELSE "kdf_chain"
      BY <1>1 DEF KdfChain, Drawn, Goto, N_CHAIN
    <3>2. keys = [i \in 1 .. k |-> keys[i]] /\ (keys = <<>> <=> k = 0)
      BY <2>2, ChainLength
    <3>3. Len(keys) = k BY <3>2, PushesOnto
    <3> HIDE DEF keys
    <3> QED BY <2>2, <3>1, <3>2, <3>3
  <2>5. CASE k = 3
    <3>1. pc' = "kdf_seal" /\ draws' = 1 /\ Chained(4)' BY <2>3, <2>4, <2>5
    <3> QED BY <2>1, <3>1 DEF KdfAt
  <2>6. CASE k # 3
    <3>1. pc' = "kdf_chain" BY <2>4, <2>6
    <3>2. k + 1 \in 0 .. 3 /\ draws' = IF k + 1 = 0 THEN 0 ELSE 1 BY <2>4, <2>6
    <3>3. \E n \in 0 .. 3 : Chained(n)' /\ draws' = IF n = 0 THEN 0 ELSE 1
      BY <2>3, <3>2
    <3> QED BY <2>1, <3>1, <3>3 DEF KdfAt
  <2> QED BY <2>5, <2>6
<1>2. CASE KdfSeal
  <2> DEFINE boxes == [i \in 1 .. 4 |-> Sealed(mem.keys.seq[i], Constant, Message(i))]
  <2>1. pc = "kdf_seal" /\ Chained(4) /\ draws = 1 /\ log = {}
    BY <1>2 DEF KdfSeal, KdfAt
  <2>2. /\ mem' = [mem EXCEPT !["ct"] = [kind |-> "boxes", seq |-> boxes]]
        /\ pc' = "kdf_open" /\ draws' = 5 /\ failed' \subseteq failed \cup {"seal"}
        /\ failed \subseteq failed'
    BY <1>2, <2>1 DEF KdfSeal, Set, Goto, Drawn, N_CHAIN, SealsUnseen, Works, Fails
  <2> HIDE DEF boxes
  <2>3. mem'.keys = mem.keys /\ mem'.ct.seq = boxes /\ DOMAIN mem' = DOMAIN mem
    BY <2>1, <2>2 DEF Chained, KdfLocals
  <2>4. Chained(4)' BY <1>0, <2>1, <2>2, <2>3 DEF Chained
  <2>5. KdfSealed' BY <2>2, <2>3, <2>4 DEF KdfSealed, boxes
  <2> QED BY <2>1, <2>2, <2>5 DEF KdfAt
<1>3. CASE KdfOpen
  <2>1. /\ pc = "kdf_open" /\ KdfSealed /\ log = {}
        /\ mem' = mem /\ draws' = draws
    BY <1>3 DEF KdfOpen, KdfAt
  <2>3. \A i \in 1 .. 4 :
          mem.ct.seq[i] = Sealed(mem.keys.seq[i], Constant, Message(i))
    BY <2>1 DEF KdfSealed
  <2> DEFINE good == \A i \in 1 .. 4 :
                       /\ Opens(defect, mem.ct.seq[i], mem.keys.seq[i], Constant)
                       /\ SameText(mem.ct.seq[i], Message(i))
  <2>4. PICK ok \in BOOLEAN :
          Opened(ok, good) /\ Assert(ok, "O5-roundtrip", "kdf_separate")
    BY <1>3 DEF KdfOpen, N_CHAIN
  <2>5. \A i \in 1 .. 4 :
          /\ Opens(defect, mem.ct.seq[i], mem.keys.seq[i], Constant)
               <=> defect # "aead_rejects"
          /\ SameText(mem.ct.seq[i], Message(i))
               <=> "empty" \in bits \/ defect # "aead_wrong"
    <3>1. TAKE i \in 1 .. 4
    <3>2. Garbage # Message(i) BY GarbageApart
    <3>3. Plaintext(defect, mem.ct.seq[i])
            = IF defect = "aead_wrong" THEN Garbage ELSE Message(i)
      BY <2>3, BoxOpens
    <3>4. Opens(defect, mem.ct.seq[i], mem.keys.seq[i], Constant)
               <=> defect # "aead_rejects"
      BY <2>3, BoxOpens
    <3>5. SameText(mem.ct.seq[i], Message(i))
               <=> "empty" \in bits \/ defect # "aead_wrong"
      BY <3>2, <3>3 DEF SameText
    <3> QED BY <3>4, <3>5
  <2>6. good <=> /\ defect # "aead_rejects"
                 /\ "empty" \notin bits => defect # "aead_wrong"
    <3>1. 1 \in 1 .. 4 OBVIOUS
    <3> QED BY <2>5, <3>1
  <2> HIDE DEF good
  <2>7. draws \in 0 .. 5 BY <2>1 DEF KdfSealed
  <2>8. /\ failed \subseteq failed' /\ (failed' = {} => ok = good)
        /\ ok = good \/ "seal" \in failed \/ ("open" \in failed' /\ ok = FALSE)
    BY <2>4, OpenedAs, Zenon
  <2>a. KdfSealed' BY <1>0, <2>1, <2>8 DEF KdfSealed, Chained
  <2>9. CASE ok
    <3>1. pc' = "kdf_separate" BY <2>4, <2>9 DEF Assert, Goto
    <3>2. KdfPastOpen' BY <2>6, <2>8, <2>9 DEF KdfPastOpen
    <3> QED BY <2>1, <2>a, <3>1, <3>2 DEF KdfAt
  <2>10. CASE ~ ok
    <3>1. pc' = "abort" /\ report' = "O5-roundtrip" BY <2>4, <2>10 DEF Assert
    <3>2. failed' \cap {"seal", "open"} # {} \/ defect \in {"aead_rejects", "aead_wrong"}
      BY <2>6, <2>8, <2>10
    <3> QED BY <2>1, <2>7, <3>1, <3>2 DEF KdfAt
  <2> QED BY <2>9, <2>10
<1>4. CASE KdfSeparate
  <2>1. /\ pc = "kdf_separate" /\ KdfSealed /\ KdfPastOpen /\ log = {}
        /\ mem' = mem /\ draws' = draws /\ draws \in 0 .. 5
    BY <1>4 DEF KdfSeparate, KdfAt, KdfSealed
  <2>2. CASE "apart" \notin bits
    <3>1. pc' = "return" /\ failed' = failed BY <1>4, <2>2 DEF KdfSeparate, Goto, Works
    <3> QED BY <2>1, <2>2, <3>1 DEF KdfAt, KdfPastOpen
  <2>3. CASE "apart" \in bits
    <3>1. PICK i \in 1 .. 4, j \in 1 .. 4, ok \in BOOLEAN :
            /\ i # j
            /\ Reopened(ok, Opens(defect, mem.ct.seq[i], mem.keys.seq[j], Constant))
            /\ Assert(~ ok, "O5-key-separation", "return")
      BY <1>4, <2>3 DEF KdfSeparate, N_CHAIN
    <3>2. mem.ct.seq[i] = Sealed(mem.keys.seq[i], Constant, Message(i))
      BY <2>1 DEF KdfSealed
    <3>3. "hkdf" \notin failed =>
            mem.keys.seq[i] = ChainKeys[i] /\ mem.keys.seq[j] = ChainKeys[j]
      BY <2>1 DEF KdfSealed, Chained
    <3> DEFINE opens == Opens(defect, mem.ct.seq[i], mem.keys.seq[j], Constant)
               same == defect = "kdf_identity" \/ build.fault = "KDF"
    <3>4. "hkdf" \notin failed /\ same => (opens <=> defect # "aead_rejects")
      <4>1. SUFFICES ASSUME "hkdf" \notin failed, same
                     PROVE  opens <=> defect # "aead_rejects"
        OBVIOUS
      <4>2. mem.keys.seq[j] = mem.keys.seq[i] BY <3>3, <4>1, ChainKeysSame
      <4> QED BY <3>2, <4>2, BoxOpens
    <3>5. "hkdf" \notin failed /\ ~ same => (opens <=> defect = "aead_any_key")
      <4>1. SUFFICES ASSUME "hkdf" \notin failed, ~ same
                     PROVE  opens <=> defect = "aead_any_key"
        OBVIOUS
      <4>2. mem.keys.seq[j] # mem.keys.seq[i] BY <3>1, <3>3, <4>1, ChainKeysApart
      <4> QED BY <3>2, <4>2, BoxOtherKey
    <3>6. /\ failed \subseteq failed' /\ (failed' = {} => ok = opens)
          /\ ok = opens \/ ("open" \in failed' /\ ok = FALSE)
      BY <3>1, ReopenedAs, Zenon
    <3> HIDE DEF opens
    <3>7. CASE ok
      <4>1. pc' = "abort" /\ report' = "O5-key-separation" BY <3>1, <3>7 DEF Assert
      <4>2. \/ "hkdf" \in failed'
            \/ defect \in {"kdf_identity", "aead_any_key"} \/ build.fault = "KDF"
        BY <3>4, <3>5, <3>6, <3>7
      <4> QED BY <2>1, <4>1, <4>2 DEF KdfAt
    <3>8. CASE ~ ok
      <4>1. pc' = "return" BY <3>1, <3>8 DEF Assert, Goto
      <4>2. failed' = {} =>
              /\ defect \notin {"kdf_identity", "aead_any_key"} /\ build.fault # "KDF"
        BY <2>1, <3>4, <3>5, <3>6, <3>8 DEF KdfPastOpen
      <4>3. failed' = {} => KdfPastOpen' BY <2>1, <3>6 DEF KdfPastOpen
      <4> QED BY <2>1, <4>1, <4>2, <4>3 DEF KdfAt
    <3> QED BY <3>7, <3>8
  <2> QED BY <2>2, <2>3
<1> QED BY <1>1, <1>2, <1>3, <1>4

(* comp_trad_harness.c                                                     *)
EtmHalf == /\ build.fault # "REC" /\ "odd" \notin bits
           /\ \E part \in Parts : bits \cap Parts = {part}
EtmSealed == /\ DOMAIN mem = {"buf"}
             /\ mem.buf = [kind |-> "etm", msg |-> Message(1), flipped |-> "none"]
EtmPastOpen == failed = {} /\ "empty" \notin bits => defect # "cbc_wrong"
RecHalf == build.fault # "ETM" /\ "odd" \in bits
RecSealed == /\ DOMAIN mem = {"ct"}
             /\ mem.ct = Sealed(Random(0), RecNonce(0), Message(1))
RecPastOpen ==
  failed = {} => /\ defect # "aead_rejects"
                 /\ "empty" \notin bits => defect # "aead_wrong"
RecPastSeq == failed = {} => defect # "aead_any_nonce" /\ build.fault # "REC"

TradAt ==
  /\ pc \in EtmPlaces \cup RecPlaces \cup Outside
  /\ pc \in EtmPlaces => EtmHalf
  /\ pc = "etm_seal" => DOMAIN mem = {"buf"} /\ draws = 0
  /\ pc = "etm_open" => EtmSealed /\ draws = 3
  /\ pc = "etm_tamper" => EtmSealed /\ EtmPastOpen /\ draws = 3
  /\ pc \in RecPlaces => RecHalf
  /\ pc = "rec_seal" => DOMAIN mem = {"ct"} /\ draws = 0
  /\ pc = "rec_open" => RecSealed /\ draws = 3
  /\ pc = "rec_seq"  => RecSealed /\ RecPastOpen /\ draws = 3
  /\ pc = "rec_tamper" => RecSealed /\ RecPastOpen /\ RecPastSeq /\ draws = 3
  /\ pc # "idle" => log = {}
  /\ pc = "return" =>
       /\ draws \in 0 .. 4
       /\ failed = {} =>
            \/ /\ EtmHalf /\ EtmPastOpen
               /\ build.fault = "ETM" => "flip_tag" \notin bits
            \/ RecHalf /\ RecPastOpen /\ RecPastSeq /\ defect # "aead_no_tag"
  /\ pc = "abort" =>
       /\ draws \in 0 .. 4
       /\ \/ /\ report = "O5-roundtrip"
             /\ \/ failed \cap {"seal", "open"} # {}
                \/ defect \in {"cbc_wrong", "aead_rejects", "aead_wrong"}
          \/ /\ report = "O5-ciphertext-integrity"
             /\ \/ "open" \in failed
                \/ defect = "mac_constant" \/ build.fault = "ETM"
          \/ /\ report = "O5-seq-binding"
             /\ defect = "aead_any_nonce" \/ build.fault = "REC"
          \/ /\ report = "O5-tamper"
             /\ "open" \in failed \/ defect = "aead_no_tag"



LEMMA TradBegins == ASSUME TradBegin, build' = build, defect' = defect PROVE TradAt'
<1> USE DEF EtmPlaces, RecPlaces
<1>1. CASE /\ build.fault # "REC"
           /\ \E part \in Parts, b \in SUBSET {"empty"} :
                Begin({part} \cup b, "etm_seal", {"buf"})
  <2>1. PICK part \in Parts, b \in SUBSET {"empty"} :
          Begin({part} \cup b, "etm_seal", {"buf"})
    BY <1>1
  <2>2. /\ pc' = "etm_seal" /\ bits' = {part} \cup b /\ draws' = 0
        /\ DOMAIN mem' = {"buf"} /\ failed' = {} /\ log' = {}
    BY <2>1, Beginning
  <2>3. bits' \cap Parts = {part} /\ "odd" \notin bits' BY <2>2 DEF Parts
  <2>4. EtmHalf' BY <1>1, <2>3 DEF EtmHalf
  <2> QED BY <2>2, <2>4 DEF TradAt
<1>2. CASE /\ build.fault # "ETM"
           /\ \E b \in SUBSET {"empty"} : Begin({"odd"} \cup b, "rec_seal", {"ct"})
  <2>1. PICK b \in SUBSET {"empty"} : Begin({"odd"} \cup b, "rec_seal", {"ct"})
    BY <1>2
  <2>2. /\ pc' = "rec_seal" /\ bits' = {"odd"} \cup b /\ draws' = 0
        /\ DOMAIN mem' = {"ct"} /\ failed' = {} /\ log' = {}
    BY <2>1, Beginning
  <2>3. RecHalf' BY <1>2, <2>2 DEF RecHalf
  <2> QED BY <2>2, <2>3 DEF TradAt
<1> QED BY <1>1, <1>2 DEF TradBegin

(* What the record layer opens: its own record, at another number, flipped. *)
LEMMA RecordOpens ==
  ASSUME NEW ct, ct = Sealed(Random(0), RecNonce(0), Message(1))
  PROVE  /\ RecOpens(ct, 0) <=> defect # "aead_rejects"
         /\ RecOpens(ct, 1) <=> \/ build.fault = "REC" /\ defect # "aead_rejects"
                                \/ build.fault # "REC" /\ defect = "aead_any_nonce"
         /\ RecOpens(Flip(ct), 0) <=> defect = "aead_no_tag"
         /\ SameText(ct, Message(1)) <=> "empty" \in bits \/ defect # "aead_wrong"
<1>1. RecNonce(1) # RecNonce(0)
  <2>1. RecNonce(1).seq = 1 /\ RecNonce(0).seq = 0 BY DEF RecNonce
  <2> QED BY <2>1
<1>2. Garbage # Message(1) BY GarbageApart
<1>3. RecOpens(ct, 0) <=> defect # "aead_rejects" BY BoxOpens DEF RecOpens
<1>4. RecOpens(Flip(ct), 0) <=> defect = "aead_no_tag" BY BoxOpens DEF RecOpens
<1>5. CASE build.fault = "REC"
  <2>1. RecOpens(ct, 1) <=> defect # "aead_rejects" BY <1>5, BoxOpens DEF RecOpens
  <2>2. Plaintext(defect, ct) = (IF defect = "aead_wrong" THEN Garbage ELSE Message(1))
    BY BoxOpens
  <2> QED BY <1>2, <1>3, <1>4, <1>5, <2>1, <2>2 DEF SameText
<1>6. CASE build.fault # "REC"
  <2>1. RecOpens(ct, 1) <=> defect = "aead_any_nonce"
    BY <1>1, <1>6, BoxOtherNonce DEF RecOpens
  <2>2. Plaintext(defect, ct) = (IF defect = "aead_wrong" THEN Garbage ELSE Message(1))
    BY BoxOpens
  <2> QED BY <1>2, <1>3, <1>4, <1>6, <2>1, <2>2 DEF SameText
<1> QED BY <1>5, <1>6

LEMMA TradSteps ==
  ASSUME TradAt, build' = build, defect' = defect, bits' = bits, log' = log,
         \/ EtmSeal \/ EtmRoundtrip \/ EtmTamper
         \/ RecSeal \/ RecRoundtrip \/ RecSeq \/ RecTamper
  PROVE  TradAt'
<1> USE DEF EtmPlaces, RecPlaces, Outside
<1>0. EtmHalf' = EtmHalf /\ RecHalf' = RecHalf BY DEF EtmHalf, RecHalf
<1>1. CASE EtmSeal
  <2>1. /\ pc = "etm_seal" /\ EtmHalf /\ log = {}
        /\ DOMAIN mem = {"buf"} /\ draws' = 3 /\ pc' = "etm_open"
        /\ mem' = [mem EXCEPT !["buf"] =
                     [kind |-> "etm", msg |-> Message(1), flipped |-> "none"]]
    BY <1>1 DEF EtmSeal, TradAt, Set, Drawn, Goto
  <2>2. EtmSealed' BY <2>1 DEF EtmSealed
  <2> QED BY <1>0, <2>1, <2>2 DEF TradAt
<1>2. CASE EtmRoundtrip
  <2>1. /\ pc = "etm_open" /\ EtmHalf /\ EtmSealed /\ draws = 3 /\ draws' = draws
        /\ log = {} /\ mem' = mem
    BY <1>2 DEF EtmRoundtrip, TradAt
  <2> DEFINE right == EtmOpens(mem.buf, TRUE) /\ (defect = "cbc_wrong" => "empty" \in bits)
  <2>2. PICK ok \in BOOLEAN :
          Opened(ok, right) /\ Assert(ok, "O5-roundtrip", "etm_tamper")
    BY <1>2 DEF EtmRoundtrip
  <2>3. mem.buf.flipped = "none" BY <2>1 DEF EtmSealed
  <2>4. right <=> (defect = "cbc_wrong" => "empty" \in bits)
    BY <2>3 DEF EtmOpens, MacOk
  <2>5. /\ failed \subseteq failed' /\ (failed' = {} => ok = right)
        /\ ok = right \/ "seal" \in failed \/ ("open" \in failed' /\ ok = FALSE)
    BY <2>2, OpenedAs, Zenon
  <2> HIDE DEF right
  <2>6. EtmSealed' BY <2>1 DEF EtmSealed
  <2>7. CASE ok
    <3>1. pc' = "etm_tamper" BY <2>2, <2>7 DEF Assert, Goto
    <3>2. EtmPastOpen' BY <2>4, <2>5, <2>7 DEF EtmPastOpen
    <3> QED BY <1>0, <2>1, <2>6, <3>1, <3>2 DEF TradAt
  <2>8. CASE ~ ok
    <3>1. pc' = "abort" /\ report' = "O5-roundtrip" BY <2>2, <2>8 DEF Assert
    <3>2. \/ failed' \cap {"seal", "open"} # {}
          \/ defect \in {"cbc_wrong", "aead_rejects", "aead_wrong"}
      BY <2>4, <2>5, <2>8
    <3> QED BY <2>1, <3>1, <3>2 DEF TradAt
  <2> QED BY <2>7, <2>8
<1>3. CASE EtmTamper
  <2>1. /\ pc = "etm_tamper" /\ EtmHalf /\ EtmSealed /\ EtmPastOpen /\ draws = 3
        /\ draws' = 4 /\ log = {} /\ mem' = mem
    BY <1>3 DEF EtmTamper, TradAt, Drawn
  <2>2. PICK ok \in BOOLEAN, part \in bits \cap Parts :
          /\ \/ Works /\ EtmOpens([mem.buf EXCEPT !.flipped = part], ok)
             \/ Fails("open") /\ (ok => part # "flip_tag" \/ build.fault = "ETM")
          /\ Assert(~ ok, "O5-ciphertext-integrity", "return")
    BY <1>3 DEF EtmTamper
  <2> DEFINE buf == [mem.buf EXCEPT !.flipped = part]
  <2>3. buf.flipped = part BY <2>1 DEF EtmSealed
  <2>4. (failed' = failed /\ EtmOpens(buf, ok)) \/ failed' = failed \cup {"open"}
    BY <2>2 DEF Works, Fails
  <2> HIDE DEF buf
  <2>5. part \in {"flip_tag", "flip_iv", "flip_ct"} BY DEF Parts
  <2>6. ok => "open" \in failed' \/ defect = "mac_constant" \/ build.fault = "ETM"
    <3>1. MacOk(buf) => build.fault = "ETM" \/ defect = "mac_constant"
      BY <2>3, <2>5 DEF MacOk
    <3>2. EtmOpens(buf, ok) /\ ok => MacOk(buf) BY DEF EtmOpens
    <3> QED BY <2>4, <3>1, <3>2
  <2>7. failed' = {} /\ build.fault = "ETM" /\ "flip_tag" \in bits => ok
    <3>1. SUFFICES ASSUME failed' = {}, build.fault = "ETM", "flip_tag" \in bits PROVE ok
      OBVIOUS
    <3>2. part = "flip_tag" BY <2>1, <3>1 DEF EtmHalf, Parts
    <3>3. MacOk(buf) BY <3>1 DEF MacOk
    <3>4. EtmOpens(buf, ok) BY <2>4, <3>1
    <3> QED BY <2>3, <3>2, <3>3, <3>4 DEF EtmOpens
  <2>8. CASE ok
    <3>1. pc' = "abort" /\ report' = "O5-ciphertext-integrity"
      BY <2>2, <2>8 DEF Assert
    <3> QED BY <2>1, <2>6, <2>8, <3>1 DEF TradAt
  <2>9. CASE ~ ok
    <3>1. pc' = "return" BY <2>2, <2>9 DEF Assert, Goto
    <3>2. failed' = {} => EtmPastOpen' BY <2>1, <2>4 DEF EtmPastOpen
    <3> QED BY <1>0, <2>1, <2>7, <2>9, <3>1, <3>2 DEF TradAt
  <2> QED BY <2>8, <2>9
<1>4. CASE RecSeal
  <2>1. /\ pc = "rec_seal" /\ RecHalf /\ log = {}
        /\ DOMAIN mem = {"ct"} /\ draws' = 3 /\ pc' = "rec_open"
        /\ mem' = [mem EXCEPT !["ct"] = Sealed(Random(0), RecNonce(0), Message(1))]
    BY <1>4 DEF RecSeal, TradAt, Set, Drawn, Goto
  <2>2. RecSealed' BY <2>1 DEF RecSealed
  <2> QED BY <1>0, <2>1, <2>2 DEF TradAt
<1>5. CASE RecRoundtrip
  <2>1. /\ pc = "rec_open" /\ RecHalf /\ RecSealed /\ draws = 3 /\ draws' = draws
        /\ log = {} /\ mem' = mem
    BY <1>5 DEF RecRoundtrip, TradAt
  <2> DEFINE right == RecOpens(mem.ct, 0) /\ SameText(mem.ct, Message(1))
  <2>2. PICK ok \in BOOLEAN :
          Opened(ok, right) /\ Assert(ok, "O5-roundtrip", "rec_seq")
    BY <1>5 DEF RecRoundtrip
  <2>3. right <=> /\ defect # "aead_rejects"
                  /\ "empty" \notin bits => defect # "aead_wrong"
    BY <2>1, RecordOpens DEF RecSealed
  <2>4. /\ failed \subseteq failed' /\ (failed' = {} => ok = right)
        /\ ok = right \/ "seal" \in failed \/ ("open" \in failed' /\ ok = FALSE)
    BY <2>2, OpenedAs, Zenon
  <2> HIDE DEF right
  <2>5. RecSealed' BY <2>1 DEF RecSealed
  <2>6. CASE ok
    <3>1. pc' = "rec_seq" BY <2>2, <2>6 DEF Assert, Goto
    <3>2. RecPastOpen' BY <2>3, <2>4, <2>6 DEF RecPastOpen
    <3> QED BY <1>0, <2>1, <2>5, <3>1, <3>2 DEF TradAt
  <2>7. CASE ~ ok
    <3>1. pc' = "abort" /\ report' = "O5-roundtrip" BY <2>2, <2>7 DEF Assert
    <3>2. \/ failed' \cap {"seal", "open"} # {}
          \/ defect \in {"cbc_wrong", "aead_rejects", "aead_wrong"}
      BY <2>3, <2>4, <2>7
    <3> QED BY <2>1, <3>1, <3>2 DEF TradAt
  <2> QED BY <2>6, <2>7
<1>6. CASE RecSeq
  <2>1. /\ pc = "rec_seq" /\ RecHalf /\ RecSealed /\ RecPastOpen
        /\ draws = 3 /\ draws' = draws /\ log = {} /\ mem' = mem
    BY <1>6 DEF RecSeq, TradAt
  <2>2. PICK ok \in BOOLEAN : /\ Reopened(ok, RecOpens(mem.ct, 1))
                             /\ Assert(~ ok, "O5-seq-binding", "rec_tamper")
    BY <1>6 DEF RecSeq
  <2>3. RecOpens(mem.ct, 1) <=> \/ build.fault = "REC" /\ defect # "aead_rejects"
                                \/ build.fault # "REC" /\ defect = "aead_any_nonce"
    BY <2>1, RecordOpens DEF RecSealed
  <2>4. /\ failed \subseteq failed' /\ (failed' = {} => ok = RecOpens(mem.ct, 1))
        /\ ok = RecOpens(mem.ct, 1) \/ ("open" \in failed' /\ ok = FALSE)
    BY <2>2, ReopenedAs, Zenon
  <2>5. RecSealed' BY <2>1 DEF RecSealed
  <2>6. CASE ok
    <3>1. pc' = "abort" /\ report' = "O5-seq-binding" BY <2>2, <2>6 DEF Assert
    <3>2. defect = "aead_any_nonce" \/ build.fault = "REC" BY <2>3, <2>4, <2>6
    <3> QED BY <2>1, <3>1, <3>2 DEF TradAt
  <2>7. CASE ~ ok
    <3>1. pc' = "rec_tamper" BY <2>2, <2>7 DEF Assert, Goto
    <3>2. RecPastOpen' BY <2>1, <2>4 DEF RecPastOpen
    <3>3. RecPastSeq' BY <2>1, <2>3, <2>4, <2>7 DEF RecPastSeq, RecPastOpen
    <3> QED BY <1>0, <2>1, <2>5, <3>1, <3>2, <3>3 DEF TradAt
  <2> QED BY <2>6, <2>7
<1>7. CASE RecTamper
  <2>1. /\ pc = "rec_tamper" /\ RecHalf /\ RecSealed /\ RecPastOpen /\ RecPastSeq
        /\ draws = 3 /\ draws' = 4 /\ log = {} /\ mem' = mem
    BY <1>7 DEF RecTamper, TradAt, Drawn
  <2>2. PICK ok \in BOOLEAN : /\ RecTamperOpens(ok, Flip(mem.ct))
                             /\ Assert(~ ok, "O5-tamper", "return")
    BY <1>7 DEF RecTamper
  <2>3. RecOpens(Flip(mem.ct), 0) <=> defect = "aead_no_tag"
    BY <2>1, RecordOpens DEF RecSealed
  <2>4. /\ failed \subseteq failed' /\ (failed' = {} => ok = RecOpens(Flip(mem.ct), 0))
        /\ ok => RecOpens(Flip(mem.ct), 0) \/ "open" \in failed'
    <3>1. CASE Reopened(ok, RecOpens(Flip(mem.ct), 0))
      <4>1. /\ failed \subseteq failed'
            /\ failed' = {} => ok = RecOpens(Flip(mem.ct), 0)
            /\ ok = RecOpens(Flip(mem.ct), 0) \/ ("open" \in failed' /\ ok = FALSE)
        BY <3>1, ReopenedAs, Zenon
      <4> QED BY <4>1
    <3>2. CASE Fails("open") BY <3>2 DEF Fails
    <3> QED BY <2>2, <3>1, <3>2 DEF RecTamperOpens
  <2>5. CASE ok
    <3>1. pc' = "abort" /\ report' = "O5-tamper" BY <2>2, <2>5 DEF Assert
    <3>2. "open" \in failed' \/ defect = "aead_no_tag" BY <2>3, <2>4, <2>5
    <3> QED BY <2>1, <3>1, <3>2 DEF TradAt
  <2>6. CASE ~ ok
    <3>1. pc' = "return" BY <2>2, <2>6 DEF Assert, Goto
    <3>2. failed' = {} =>
            RecHalf' /\ RecPastOpen' /\ RecPastSeq' /\ defect # "aead_no_tag"
      BY <1>0, <2>1, <2>3, <2>4, <2>6 DEF RecPastOpen, RecPastSeq
    <3> QED BY <2>1, <3>1, <3>2 DEF TradAt
  <2> QED BY <2>5, <2>6
<1> QED BY <1>1, <1>2, <1>3, <1>4, <1>5, <1>6, <1>7

(* comp_hpke_harness.c                                                     *)
HpkeLocals == {"g_skR", "g_eph", "enc", "ct", "ss_recv"}
HpkeEnc == Cipher(Pair(1), 2)
NoEph == "g_eph" \in DOMAIN mem => mem.g_eph = NULL
HpkeKeyed == DOMAIN mem = HpkeLocals /\ mem.g_skR = Pair(1)
HpkeSealed ==
  /\ HpkeKeyed /\ mem.g_eph = Pair(2) /\ mem.enc = HpkeEnc
  /\ mem.ct = Sealed(Schedule(Secret(HpkeEnc), Info), Constant, Message(1))
  /\ mem.ss_recv \in Decapsulations(defect, HpkeEnc, Pair(1))
  /\ build.h = "hpke_x25519"
HpkePastOpen ==
  failed = {} => /\ defect \notin {"kem_wrong", "aead_rejects"}
                 /\ "empty" \notin bits => defect # "aead_wrong"
HpkePastBind == failed = {} /\ "odd" \in bits => defect # "kdf_no_info"
HasJudged(oracle) == [what |-> "judged", oracle |-> oracle] \in log

HpkeAt ==
  /\ pc \in HpkePlaces \cup Outside
  /\ pc \in {"idle", "return"} => NoEph
  /\ pc \in HpkePlaces \ {"hpke_setup"} => HpkeKeyed
  /\ pc = "hpke_setup" => DOMAIN mem = HpkeLocals /\ mem.g_eph = NULL
  /\ pc = "hpke_encaps" => mem.g_eph = NULL
  /\ pc = "hpke_seal" => /\ mem.g_eph = Pair(2) /\ mem.enc = HpkeEnc
                         /\ build.h = "hpke_x25519"
  /\ pc = "hpke_open" => HpkeSealed
  /\ pc = "hpke_bind" => HpkeSealed /\ HpkePastOpen /\ HasJudged("O5-roundtrip")
  /\ pc = "hpke_tamper" =>
       HpkeSealed /\ HpkePastOpen /\ HpkePastBind /\ HasJudged("O5-roundtrip")
  /\ pc \in {"hpke_end", "return"} =>
       /\ pc = "hpke_end" => mem.g_eph = Pair(2)
       /\ failed = {} /\ build.h = "hpke_x25519" =>
            /\ HpkePastOpen /\ HpkePastBind
            /\ defect \notin {"kem_malleable", "aead_any_key"} /\ build.fault # "HPKE"
            /\ HasJudged("O5-roundtrip") /\ HasJudged("O5-upstream-tamper")
  /\ pc = "return" =>
       /\ DOMAIN mem = HpkeLocals
       /\ mem.g_skR = NULL \/ "keypair" \in failed
  /\ pc = "abort" =>
       /\ HpkeKeyed /\ mem.g_eph = Pair(2)
       /\ build.h = "hpke_x25519"
       /\ \/ /\ report = "O5-roundtrip"
             /\ \/ failed \cap {"hkdf", "seal", "open"} # {}
                \/ defect \in {"kem_wrong", "aead_rejects", "aead_wrong"}
          \/ /\ report = "O5-context-binding"
             /\ \/ "hkdf" \in failed \/ "alt" \in bits
                \/ defect \in {"kdf_no_info", "aead_any_key"}
          \/ /\ report = "O5-upstream-tamper"
             /\ \/ "hkdf" \in failed
                \/ defect \in {"kem_malleable", "aead_any_key"}
                \/ build.fault = "HPKE"
  /\ pc # "idle" =>
       draws = 0 /\ \A e \in log : e.what = "judged"



(* The globals of the process: no ephemeral key outlives an input.         *)
LEMMA HpkeBegins ==
  ASSUME HpkeAt, HpkeBegin, build' = build, defect' = defect PROVE HpkeAt'
<1>1. PICK b \in SUBSET {"odd", "alt", "empty"} : Begin(b, "hpke_setup", HpkeLocals)
  BY DEF HpkeBegin, HpkeLocals
<1>2. /\ pc' = "hpke_setup" /\ DOMAIN mem' = HpkeLocals /\ draws' = 0
      /\ failed' = {} /\ log' = {}
  BY <1>1, Beginning
<1>3. pc = "idle" /\ mem' = Fresh(HpkeLocals) BY <1>1 DEF Begin
<1>4. NoEph BY <1>3 DEF HpkeAt
<1>5. mem'["g_eph"] = NULL
  BY <1>3, <1>4 DEF Fresh, HpkeLocals, Globals, NoEph
<1> QED BY <1>2, <1>5 DEF HpkeAt, HpkePlaces

LEMMA Schedules ==
  ASSUME NEW s, NEW t, NEW i, NEW j
  PROVE  Schedule(s, i) = Schedule(t, j) <=>
           s = t /\ (defect = "kdf_no_info" \/ i = j)
<1>1. CASE defect = "kdf_no_info"
  <2>1. Schedule(s, i).ss = s /\ Schedule(t, j).ss = t BY DEF Schedule
  <2>2. Schedule(s, i).info = "" /\ Schedule(t, j).info = "" BY <1>1 DEF Schedule
  <2>3. s = t => Schedule(s, i) = Schedule(t, j) BY <1>1, Zenon DEF Schedule
  <2> QED BY <1>1, <2>1, <2>3
<1>2. CASE defect # "kdf_no_info"
  <2>1. Schedule(s, i).ss = s /\ Schedule(t, j).ss = t BY DEF Schedule
  <2>2. Schedule(s, i).info = i /\ Schedule(t, j).info = j BY <1>2 DEF Schedule
  <2> QED BY <1>2, <2>1, <2>2
<1> QED BY <1>1, <1>2

(* What opens the sender's record.                                         *)
HpkeBox == Sealed(Schedule(Secret(HpkeEnc), Info), Constant, Message(1))
LEMMA HpkeBoxOpens ==
  ASSUME NEW ss, NEW info
  PROVE  Opens(defect, HpkeBox, Schedule(ss, info), Constant) <=>
           IF ss = Secret(HpkeEnc) /\ (defect = "kdf_no_info" \/ info = Info)
           THEN defect # "aead_rejects" ELSE defect = "aead_any_key"
<1>1. CASE ss = Secret(HpkeEnc) /\ (defect = "kdf_no_info" \/ info = Info)
  <2>1. Schedule(ss, info) = Schedule(Secret(HpkeEnc), Info) BY <1>1, Schedules
  <2> QED BY <1>1, <2>1, BoxOpens DEF HpkeBox
<1>2. CASE ~ (ss = Secret(HpkeEnc) /\ (defect = "kdf_no_info" \/ info = Info))
  <2>1. Schedule(ss, info) # Schedule(Secret(HpkeEnc), Info) BY <1>2, Schedules
  <2> QED BY <1>2, <2>1, BoxOtherKey DEF HpkeBox
<1> QED BY <1>1, <1>2

(* The recipient's answer; a box that was not sealed may be opened by      *)
(* nothing but the sender's own schedule.                                  *)
LEMMA RecipientAnswers ==
  ASSUME NEW ok \in BOOLEAN, NEW ss, NEW info, RecipientOpens(ok, ss, info),
         mem.ct = HpkeBox
  PROVE  LET opens == Opens(defect, HpkeBox, Schedule(ss, info), Constant)
         IN /\ failed \subseteq failed'
            /\ failed' = {} => ok = opens
            /\ \/ ok = opens \/ "hkdf" \in failed'
               \/ ok = FALSE /\ "open" \in failed'
               \/ /\ "seal" \in failed /\ ss = Secret(HpkeEnc)
                  /\ defect = "kdf_no_info" \/ info = Info
<1> DEFINE opens == Opens(defect, HpkeBox, Schedule(ss, info), Constant)
<1>1. Schedule(ss, info) = HpkeBox.key <=>
        ss = Secret(HpkeEnc) /\ (defect = "kdf_no_info" \/ info = Info)
  BY BoxParts, Schedules DEF HpkeBox
<1>2. CASE Fails("hkdf") BY <1>2 DEF Fails
<1>3. CASE Schedule(ss, info) = HpkeBox.key /\ Opened(ok, opens)
  <2>1. /\ failed \subseteq failed' /\ (failed' = {} => ok = opens)
        /\ ok = opens \/ "seal" \in failed \/ ("open" \in failed' /\ ok = FALSE)
    BY <1>3, OpenedAs, Zenon
  <2> QED BY <1>1, <1>3, <2>1
<1>4. CASE Reopened(ok, opens)
  <2>1. /\ failed \subseteq failed' /\ (failed' = {} => ok = opens)
        /\ ok = opens \/ ("open" \in failed' /\ ok = FALSE)
    BY <1>4, ReopenedAs, Zenon
  <2> QED BY <2>1
<1> QED BY <1>2, <1>3, <1>4 DEF RecipientOpens

LEMMA HpkeText ==
  ("empty" \in bits \/ Plaintext(defect, HpkeBox) = Message(1))
    <=> ("empty" \in bits \/ defect # "aead_wrong")
<1>1. Plaintext(defect, HpkeBox) = (IF defect = "aead_wrong" THEN Garbage ELSE Message(1))
  BY BoxOpens DEF HpkeBox
<1>2. Garbage # Message(1) BY GarbageApart
<1> QED BY <1>1, <1>2

(* The globals that an input tears down, and those that a step keeps.      *)
LEMMA TornDown ==
  ASSUME DOMAIN mem = HpkeLocals, mem' = Teardown
  PROVE  DOMAIN mem' = HpkeLocals /\ mem'.g_skR = NULL /\ mem'.g_eph = NULL
  BY DEF Teardown, HpkeLocals

LEMMA HpkeSealedKept ==
  ASSUME HpkeSealed, build' = build, defect' = defect, bits' = bits, mem' = mem
  PROVE  HpkeSealed'
  BY DEF HpkeSealed, HpkeKeyed, Schedule, Info, HpkeEnc

LEMMA JudgedIs ==
  ASSUME NEW o, Judged(o), \A e \in log : e.what = "judged"
  PROVE  /\ HasJudged(o)' /\ \A e \in log' : e.what = "judged"
         /\ log \subseteq log'
  BY DEF Judged, HasJudged

LEMMA HpkeSteps ==
  ASSUME HpkeAt, defect \in {"none"} \cup HpkeDefects,
         build' = build, defect' = defect, bits' = bits,
         \/ HpkeSetup \/ HpkeEncaps \/ HpkeSeal
         \/ HpkeRoundtrip \/ HpkeBinding \/ HpkeTamper \/ HpkeEnd,
         build.h \in HpkeBuilds
  PROVE  HpkeAt'
<1> USE DEF HpkePlaces, Outside
<1>1. CASE HpkeSetup
  <2>1. /\ pc = "hpke_setup" /\ DOMAIN mem = HpkeLocals /\ mem.g_eph = NULL
        /\ draws = 0 /\ draws' = 0 /\ log' = log /\ \A e \in log : e.what = "judged"
    BY <1>1 DEF HpkeSetup, HpkeAt
  <2>2. CASE /\ pc' = "hpke_encaps" /\ mem' = [mem EXCEPT !["g_skR"] = Pair(1)]
    <3>1. HpkeKeyed' /\ mem'.g_eph = NULL BY <2>1, <2>2 DEF HpkeKeyed, HpkeLocals
    <3> QED BY <2>1, <2>2, <3>1 DEF HpkeAt
  <2>3. CASE /\ pc' = "return" /\ "keypair" \in failed'
             /\ \E made : mem' = [mem EXCEPT !["g_skR"] = made]
    <3>1. DOMAIN mem' = HpkeLocals /\ mem'.g_eph = NULL
      BY <2>1, <2>3 DEF HpkeLocals
    <3>2. NoEph' BY <3>1 DEF NoEph
    <3> QED BY <2>1, <2>3, <3>1, <3>2 DEF HpkeAt
  <2> QED BY <1>1, <2>2, <2>3 DEF HpkeSetup, Goto, Set, Fails
<1>2. CASE HpkeEncaps
  <2>1. /\ pc = "hpke_encaps" /\ HpkeKeyed /\ mem.g_eph = NULL
        /\ draws = 0 /\ draws' = 0 /\ log' = log /\ \A e \in log : e.what = "judged"
    BY <1>2 DEF HpkeEncaps, HpkeAt
  <2>2. CASE mem' = Teardown /\ pc' = "return"
             /\ (failed' = {} => build.h # "hpke_x25519")
    <3>1. DOMAIN mem' = HpkeLocals /\ mem'.g_skR = NULL /\ mem'.g_eph = NULL
      BY <2>1, <2>2, TornDown DEF HpkeKeyed
    <3>2. NoEph' BY <3>1 DEF NoEph
    <3> QED BY <2>1, <2>2, <3>1, <3>2 DEF HpkeAt
  <2>3. CASE /\ pc' = "hpke_seal" /\ build.h = "hpke_x25519"
             /\ mem' = [mem EXCEPT !.g_eph = Pair(2), !.enc = HpkeEnc]
    <3>1. HpkeKeyed' /\ mem'.g_eph = Pair(2) /\ mem'.enc = HpkeEnc
      BY <2>1, <2>3 DEF HpkeKeyed, HpkeLocals
    <3>2. HpkeEnc' = HpkeEnc BY DEF HpkeEnc
    <3> QED BY <2>1, <2>3, <3>1, <3>2 DEF HpkeAt
  <2>4. EncLen[build.h] > SizeofEnc <=> build.h # "hpke_x25519"
    <3>1. CASE build.h = "hpke_x25519" BY <3>1 DEF EncLen, SizeofEnc
    <3>2. CASE build.h = "hpke_mlkem" BY <3>2 DEF EncLen, SizeofEnc
    <3> QED BY <3>1, <3>2 DEF HpkeBuilds
  <2>5. CASE EncLen[build.h] > SizeofEnc
    BY <1>2, <2>2, <2>4, <2>5 DEF HpkeEncaps, Goto
  <2>6. CASE ~ (EncLen[build.h] > SizeofEnc)
    <3>1. \/ /\ pc' = "hpke_seal"
             /\ mem' = [mem EXCEPT !.g_eph = Pair(2), !.enc = Cipher(mem.g_skR, 2)]
          \/ Fails("encaps") /\ mem' = Teardown /\ pc' = "return"
      BY <1>2, <2>6 DEF HpkeEncaps, Goto
    <3>2. Cipher(mem.g_skR, 2) = HpkeEnc BY <2>1 DEF HpkeKeyed, HpkeEnc
    <3> QED BY <2>2, <2>3, <2>4, <2>6, <3>1, <3>2 DEF Fails
  <2> QED BY <2>5, <2>6
<1>3. CASE HpkeSeal
  <2>1. /\ pc = "hpke_seal" /\ HpkeKeyed /\ mem.g_eph = Pair(2) /\ mem.enc = HpkeEnc
        /\ build.h = "hpke_x25519"
        /\ draws = 0 /\ draws' = 0 /\ log' = log /\ \A e \in log : e.what = "judged"
    BY <1>3 DEF HpkeSeal, HpkeAt
  <2>2. CASE SealsUnseen /\ Goto("hpke_open")
             /\ \E ss \in Decapsulations(defect, mem.enc, mem.g_skR) :
                  mem' = [mem EXCEPT !.ss_recv = ss,
                    !.ct = Sealed(Schedule(Secret(mem.enc), Info), Constant, Message(1))]
    <3>1. PICK ss \in Decapsulations(defect, HpkeEnc, Pair(1)) :
            mem' = [mem EXCEPT !.ss_recv = ss, !.ct = HpkeBox]
      BY <2>1, <2>2 DEF HpkeKeyed, HpkeBox
    <3>2. /\ DOMAIN mem' = HpkeLocals /\ mem'.g_skR = Pair(1) /\ mem'.g_eph = Pair(2)
          /\ mem'.enc = HpkeEnc /\ mem'.ss_recv = ss /\ mem'.ct = HpkeBox
      BY <2>1, <3>1 DEF HpkeKeyed, HpkeLocals
    <3>3. HpkeEnc' = HpkeEnc /\ HpkeBox' = HpkeBox
      BY DEF HpkeEnc, HpkeBox, Schedule, Info
    <3>4. HpkeKeyed' BY <3>2 DEF HpkeKeyed
    <3>5. HpkeSealed' BY <2>1, <3>1, <3>2, <3>3, <3>4 DEF HpkeSealed, HpkeBox
    <3>6. pc' = "hpke_open" BY <2>2 DEF Goto
    <3> QED BY <2>1, <3>4, <3>5, <3>6 DEF HpkeAt
  <2>3. CASE (Fails("hkdf") \/ Fails("decaps")) /\ mem' = Teardown /\ Goto("return")
    <3>1. DOMAIN mem' = HpkeLocals /\ mem'.g_skR = NULL /\ mem'.g_eph = NULL
      BY <2>1, <2>3, TornDown DEF HpkeKeyed
    <3>2. NoEph' BY <3>1 DEF NoEph
    <3>3. failed' # {} /\ pc' = "return" BY <2>3 DEF Fails, Goto
    <3> QED BY <2>1, <3>1, <3>2, <3>3 DEF HpkeAt
  <2> QED BY <1>3, <2>2, <2>3 DEF HpkeSeal
<1>4. CASE HpkeRoundtrip
  <2>1. /\ pc = "hpke_open" /\ HpkeKeyed /\ HpkeSealed /\ mem' = mem
        /\ draws = 0 /\ draws' = 0 /\ \A e \in log : e.what = "judged"
    BY <1>4 DEF HpkeRoundtrip, HpkeAt
  <2>2. HpkeSealed' /\ HpkeKeyed'
    BY <2>1, HpkeSealedKept DEF HpkeKeyed
  <2>3. /\ HasJudged("O5-roundtrip")' /\ \A e \in log' : e.what = "judged"
    BY <1>4, <2>1, JudgedIs DEF HpkeRoundtrip
  <2> DEFINE text == SameText(mem.ct, Message(1))
             next == IF "odd" \in bits THEN "hpke_bind" ELSE "hpke_tamper"
  <2>4. PICK ok \in BOOLEAN :
          /\ RecipientOpens(ok, mem.ss_recv, Info)
          /\ Assert(ok /\ text, "O5-roundtrip", next)
    BY <1>4 DEF HpkeRoundtrip
  <2>5. mem.ct = HpkeBox BY <2>1 DEF HpkeSealed, HpkeBox
  <2>6. text <=> "empty" \in bits \/ defect # "aead_wrong"
    BY <2>5, HpkeText DEF SameText
  <2>7. /\ mem.ss_recv = Secret(HpkeEnc) \/ defect = "kem_wrong"
        /\ defect = "kem_wrong" => mem.ss_recv # Secret(HpkeEnc)
    <3>1. mem.ss_recv \in Decapsulations(defect, Cipher(Pair(1), 2), Pair(1))
      BY <2>1 DEF HpkeSealed, HpkeEnc
    <3> QED BY <3>1, DecapsulatesOwn DEF HpkeEnc, HpkeDefects
  <2> DEFINE opens == Opens(defect, HpkeBox, Schedule(mem.ss_recv, Info), Constant)
  <2>8. opens <=> defect \notin {"kem_wrong", "aead_rejects"}
    BY <2>7, HpkeBoxOpens
  <2>9. /\ failed \subseteq failed' /\ (failed' = {} => ok = opens)
        /\ ok = opens \/ failed' \cap {"hkdf", "seal", "open"} # {}
    BY <2>4, <2>5, RecipientAnswers
  <2> HIDE DEF opens
  <2> HIDE DEF text, next
  <2>10. CASE ok /\ text
    <3>1. pc' = next BY <2>4, <2>10 DEF Assert, Goto
    <3>2. HpkePastOpen' BY <2>6, <2>8, <2>9, <2>10 DEF HpkePastOpen
    <3>3. "odd" \notin bits => HpkePastBind' BY DEF HpkePastBind
    <3> QED BY <2>1, <2>2, <2>3, <3>1, <3>2, <3>3 DEF HpkeAt, next
  <2>11. CASE ~ (ok /\ text)
    <3>1. pc' = "abort" /\ report' = "O5-roundtrip" BY <2>4, <2>11 DEF Assert
    <3>2. \/ failed' \cap {"hkdf", "seal", "open"} # {}
          \/ defect \in {"kem_wrong", "aead_rejects", "aead_wrong"}
      BY <2>6, <2>8, <2>9, <2>11
    <3> QED BY <2>1, <2>2, <2>3, <3>1, <3>2 DEF HpkeAt, HpkeSealed
  <2> QED BY <2>10, <2>11
<1>5. CASE HpkeBinding
  <2>1. /\ pc = "hpke_bind" /\ HpkeKeyed /\ HpkeSealed /\ HpkePastOpen
        /\ HasJudged("O5-roundtrip") /\ mem' = mem
        /\ draws = 0 /\ draws' = 0 /\ \A e \in log : e.what = "judged"
    BY <1>5 DEF HpkeBinding, HpkeAt
  <2>2. HpkeSealed' /\ HpkeKeyed'
    BY <2>1, HpkeSealedKept DEF HpkeKeyed
  <2>3. /\ \A e \in log' : e.what = "judged" /\ log \subseteq log'
    BY <1>5, <2>1, JudgedIs DEF HpkeBinding
  <2>4. HasJudged("O5-roundtrip")'
    BY <1>5, <2>1 DEF HpkeBinding, Judged, HasJudged
  <2>5. PICK ok \in BOOLEAN :
          /\ RecipientOpens(ok, mem.ss_recv, "altinfo")
          /\ Assert(~ ok, "O5-context-binding", "hpke_tamper")
    BY <1>5 DEF HpkeBinding
  <2>6. mem.ct = HpkeBox BY <2>1 DEF HpkeSealed, HpkeBox
  <2>7. mem.ss_recv = Secret(HpkeEnc) \/ defect = "kem_wrong"
    <3>1. mem.ss_recv \in Decapsulations(defect, Cipher(Pair(1), 2), Pair(1))
      BY <2>1 DEF HpkeSealed, HpkeEnc
    <3> QED BY <3>1, DecapsulatesOwn DEF HpkeEnc, HpkeDefects
  <2>8. (Info = "altinfo") <=> "alt" \in bits BY DEF Info
  <2>9. /\ failed \subseteq failed'
        /\ ok => \/ "hkdf" \in failed' \/ "alt" \in bits
                 \/ defect \in {"kdf_no_info", "aead_any_key"}
        /\ failed' = {} /\ defect = "kdf_no_info" => ok
    <3> DEFINE opens == Opens(defect, HpkeBox, Schedule(mem.ss_recv, "altinfo"), Constant)
    <3>1. /\ opens => defect \in {"kdf_no_info", "aead_any_key"} \/ "alt" \in bits
          /\ defect = "kdf_no_info" => opens
      BY <2>7, <2>8, HpkeBoxOpens
    <3>2. /\ failed \subseteq failed' /\ (failed' = {} => ok = opens)
          /\ \/ ok = opens \/ "hkdf" \in failed' \/ ok = FALSE
             \/ defect = "kdf_no_info" \/ "altinfo" = Info
      BY <2>5, <2>6, RecipientAnswers
    <3> HIDE DEF opens
    <3> QED BY <2>8, <3>1, <3>2
  <2>10. CASE ok
    <3>1. pc' = "abort" /\ report' = "O5-context-binding" BY <2>5, <2>10 DEF Assert
    <3>2. \/ "hkdf" \in failed' \/ "alt" \in bits
          \/ defect \in {"kdf_no_info", "aead_any_key"}
      BY <2>9, <2>10
    <3> QED BY <2>1, <2>2, <2>3, <3>1, <3>2 DEF HpkeAt, HpkeSealed
  <2>11. CASE ~ ok
    <3>1. pc' = "hpke_tamper" BY <2>5, <2>11 DEF Assert, Goto
    <3>2. HpkePastOpen' /\ HpkePastBind'
      BY <2>1, <2>9, <2>11 DEF HpkePastOpen, HpkePastBind
    <3> QED BY <2>1, <2>2, <2>3, <2>4, <3>1, <3>2 DEF HpkeAt
  <2> QED BY <2>10, <2>11
<1>6. CASE HpkeTamper
  <2>1. /\ pc = "hpke_tamper" /\ HpkeKeyed /\ HpkeSealed /\ HpkePastOpen /\ HpkePastBind
        /\ HasJudged("O5-roundtrip") /\ mem' = mem /\ build.h = "hpke_x25519"
        /\ draws = 0 /\ draws' = 0 /\ \A e \in log : e.what = "judged"
    BY <1>6 DEF HpkeTamper, HpkeAt, HpkeSealed
  <2>2. HpkeSealed' /\ HpkeKeyed' /\ mem'.g_eph = Pair(2)
    BY <2>1, HpkeSealedKept DEF HpkeKeyed, HpkeSealed
  <2>3. CASE Fails("decaps") /\ Goto("hpke_end") /\ UNCHANGED log
    <3>1. failed' # {} /\ pc' = "hpke_end" BY <2>3 DEF Fails, Goto
    <3> QED BY <2>1, <2>2, <2>3, <3>1 DEF HpkeAt
  <2>4. CASE \E ok \in BOOLEAN,
                ss \in IF build.fault = "HPKE" THEN {Secret(mem.enc)}
                       ELSE Decapsulations(defect, Flip(mem.enc), mem.g_skR) :
               /\ RecipientOpens(ok, ss, Info)
               /\ Assert(~ ok, "O5-upstream-tamper", "hpke_end")
               /\ Judged("O5-upstream-tamper")
    <3>1. PICK ok \in BOOLEAN,
               ss \in IF build.fault = "HPKE" THEN {Secret(HpkeEnc)}
                      ELSE Decapsulations(defect, Flip(HpkeEnc), Pair(1)) :
               /\ RecipientOpens(ok, ss, Info)
               /\ Assert(~ ok, "O5-upstream-tamper", "hpke_end")
               /\ Judged("O5-upstream-tamper")
      BY <2>1, <2>4 DEF HpkeSealed, HpkeKeyed
    <3>2. /\ \A e \in log' : e.what = "judged" /\ log \subseteq log'
          /\ HasJudged("O5-upstream-tamper")'
      BY <2>1, <3>1, JudgedIs
    <3>3. HasJudged("O5-roundtrip")' BY <2>1, <3>1 DEF Judged, HasJudged
    <3>4. mem.ct = HpkeBox BY <2>1 DEF HpkeSealed, HpkeBox
    <3>5. ss = Secret(HpkeEnc) <=> defect = "kem_malleable" \/ build.fault = "HPKE"
      <4>1. CASE build.fault = "HPKE" BY <3>1, <4>1
      <4>2. CASE build.fault # "HPKE"
        <5>1. ss \in Decapsulations(defect, Flip(Cipher(Pair(1), 2)), Pair(1))
          BY <3>1, <4>2 DEF HpkeEnc
        <5> QED BY <4>2, <5>1, DecapsulatesFlipped DEF HpkeEnc
      <4> QED BY <4>1, <4>2
    <3>6. /\ failed \subseteq failed'
          /\ ok => \/ "hkdf" \in failed' \/ build.fault = "HPKE"
                   \/ defect \in {"kem_malleable", "aead_any_key"}
          /\ /\ failed' = {} /\ defect # "aead_rejects"
             /\ defect \in {"kem_malleable", "aead_any_key"} \/ build.fault = "HPKE"
             => ok
      <4> DEFINE opens == Opens(defect, HpkeBox, Schedule(ss, Info), Constant)
      <4>1. /\ opens => defect \in {"kem_malleable", "aead_any_key"} \/ build.fault = "HPKE"
            /\ /\ defect # "aead_rejects"
               /\ defect \in {"kem_malleable", "aead_any_key"} \/ build.fault = "HPKE"
               => opens
        BY <3>5, HpkeBoxOpens
      <4>2. /\ failed \subseteq failed' /\ (failed' = {} => ok = opens)
            /\ \/ ok = opens \/ "hkdf" \in failed' \/ ok = FALSE
               \/ ss = Secret(HpkeEnc)
        BY <3>1, <3>4, RecipientAnswers
      <4> HIDE DEF opens
      <4> QED BY <3>5, <4>1, <4>2
    <3>7. CASE ok
      <4>1. pc' = "abort" /\ report' = "O5-upstream-tamper" BY <3>1, <3>7 DEF Assert
      <4>2. \/ "hkdf" \in failed'
            \/ defect \in {"kem_malleable", "aead_any_key"} \/ build.fault = "HPKE"
        BY <3>6, <3>7
      <4> QED BY <2>1, <2>2, <3>2, <4>1, <4>2 DEF HpkeAt
    <3>8. CASE ~ ok
      <4>1. pc' = "hpke_end" BY <3>1, <3>8 DEF Assert, Goto
      <4>2. failed' = {} =>
              /\ defect \notin {"kem_malleable", "aead_any_key"}
              /\ build.fault # "HPKE"
        BY <2>1, <3>6, <3>8 DEF HpkePastOpen
      <4>3. HpkePastOpen' /\ HpkePastBind'
        BY <2>1, <3>6 DEF HpkePastOpen, HpkePastBind
      <4> QED BY <2>1, <2>2, <3>2, <3>3, <4>1, <4>2, <4>3 DEF HpkeAt
    <3> QED BY <3>7, <3>8
  <2> QED BY <1>6, <2>3, <2>4 DEF HpkeTamper
<1>7. CASE HpkeEnd
  <2>1. /\ pc = "hpke_end" /\ HpkeKeyed /\ mem' = Teardown /\ pc' = "return"
        /\ draws' = 0 /\ failed' = failed /\ log' = log
        /\ \A e \in log : e.what = "judged"
    BY <1>7 DEF HpkeEnd, HpkeAt, Goto
  <2>2. DOMAIN mem' = HpkeLocals /\ mem'.g_skR = NULL /\ mem'.g_eph = NULL
    BY <2>1, TornDown DEF HpkeKeyed
  <2>3. NoEph' BY <2>2 DEF NoEph
  <2>4. failed = {} /\ build.h = "hpke_x25519" =>
          /\ HpkePastOpen /\ HpkePastBind
          /\ defect \notin {"kem_malleable", "aead_any_key"} /\ build.fault # "HPKE"
          /\ HasJudged("O5-roundtrip") /\ HasJudged("O5-upstream-tamper")
    BY <2>1 DEF HpkeAt
  <2>5. failed' = {} /\ build.h = "hpke_x25519" =>
          /\ HpkePastOpen' /\ HpkePastBind'
          /\ defect \notin {"kem_malleable", "aead_any_key"} /\ build.fault # "HPKE"
          /\ HasJudged("O5-roundtrip")' /\ HasJudged("O5-upstream-tamper")'
    BY <2>1, <2>4 DEF HpkePastOpen, HpkePastBind, HasJudged
  <2> QED BY <2>1, <2>2, <2>3, <2>5 DEF HpkeAt
<1> QED BY <1>1, <1>2, <1>3, <1>4, <1>5, <1>6, <1>7

(* trad_metamorphic_harness.c, openssl_classic_harness.c                   *)
MetaOps == {"sha256", "hmac", "gcm", "chacha"}
Aeads == {"gcm", "chacha"}
AeadBox == Sealed(Random(0), Random(1), Message(1))
MetaPastOpen ==
  failed = {} => /\ defect # "aead_rejects"
                 /\ "empty" \notin bits => defect # "aead_wrong"
MetaPastTamper == failed = {} => defect # "aead_no_tag" /\ build.fault # "TRAD"

MetaAt ==
  /\ pc \in MetaPlaces \cup Outside
  /\ pc \in {"digest", "chunks"} =>
       DOMAIN mem = {"ct", "d1"} /\ bits \cap MetaOps = {"sha256"}
  /\ pc = "digest" => draws = 0
  /\ pc = "chunks" => /\ "digest" \in failed \/ mem.d1 \in Digests(1)
                      /\ draws \in {0, 2}
  /\ pc = "hmac" => /\ bits \cap MetaOps = {"hmac"} /\ build.h = "trad_meta"
                    /\ draws = 0
  /\ pc \in {"aead", "aead_open", "aead_tamper", "aead_key"} =>
       /\ DOMAIN mem = {"ct", "d1"}
       /\ \E op \in Aeads : bits \cap MetaOps = {op}
  /\ pc = "aead" => draws = 0
  /\ pc = "aead_open" => mem.ct = AeadBox /\ draws = 2
  /\ pc = "aead_tamper" => mem.ct = AeadBox /\ MetaPastOpen /\ draws = 2
  /\ pc = "aead_key" => /\ mem.ct = AeadBox /\ MetaPastOpen /\ MetaPastTamper
                        /\ build.h = "trad_meta" /\ draws = 2
  /\ pc # "idle" => log = {}
  /\ pc = "return" =>
       /\ draws \in 0 .. 2
       /\ failed = {} =>
            \/ /\ bits \cap MetaOps = {"sha256"}
               /\ "split" \in bits => defect # "hash_stream"
            \/ bits \cap MetaOps = {"hmac"} /\ defect # "mac_no_key"
            \/ /\ \E op \in Aeads : bits \cap MetaOps = {op}
               /\ build.h = "trad_meta" \/ "empty" \notin bits =>
                    /\ MetaPastOpen /\ MetaPastTamper
                    /\ build.h = "trad_meta" => defect # "aead_any_key"
  /\ pc = "abort" =>
       /\ draws \in 0 .. 2
       /\ \/ /\ report = "determinism" /\ build.h = "trad_meta"
             /\ defect = "hash_unstable" \/ failed \cap {"digest", "hmac"} # {}
          \/ /\ build.h = "trad_meta" /\ report = "chunk_consistency"
             /\ "digest" \in failed \/ defect \in {"hash_unstable", "hash_stream"}
          \/ /\ build.h = "classic" /\ report = "MR1_chunk_equiv"
             /\ "digest" \in failed \/ defect \in {"hash_unstable", "hash_stream"}
          \/ /\ build.h = "trad_meta" /\ report = "key_sensitivity"
             /\ "hmac" \in failed \/ defect = "mac_no_key"
          \/ /\ report = RoundtripOracle
             /\ \/ failed \cap {"seal", "open"} # {}
                \/ defect \in {"aead_rejects", "aead_wrong"}
          \/ /\ build.h = "trad_meta" /\ report = "tamper_reject"
             /\ defect = "aead_no_tag" \/ build.fault = "TRAD"
          \/ /\ build.h = "classic" /\ report = "MR3_tamper"
             /\ \/ "open" \in failed
                \/ defect = "aead_no_tag" \/ build.fault = "TRAD"
          \/ report = "wrong_key" /\ defect = "aead_any_key"


LEMMA MetaBegins == ASSUME MetaBegin, build' = build, defect' = defect PROVE MetaAt'
<1> USE DEF MetaPlaces, MetaOps, Aeads
<1>1. PICK op \in MetaOps, b \in {{}, {"split"}, {"empty"}} :
        /\ build.h = "classic" => op \in {"sha256", "gcm"}
        /\ Begin(b \cup {op}, Entry(op), {"ct", "d1"})
  BY DEF MetaBegin
<1>2. /\ pc' = Entry(op) /\ bits' = b \cup {op} /\ draws' = 0 /\ failed' = {}
      /\ log' = {} /\ DOMAIN mem' = {"ct", "d1"}
  BY <1>1, Beginning
<1>3. bits' \cap MetaOps = {op} BY <1>2
<1>4. build.h \in {"trad_meta", "classic"} BY DEF MetaBegin
<1>5. CASE op = "sha256"
  <2>1. pc' = "digest" BY <1>2, <1>5 DEF Entry
  <2> QED BY <1>2, <1>3, <1>5, <2>1 DEF MetaAt
<1>6. CASE op = "hmac"
  <2>1. pc' = "hmac" BY <1>2, <1>6 DEF Entry
  <2> QED BY <1>1, <1>2, <1>3, <1>4, <1>6, <2>1 DEF MetaAt
<1>7. CASE op \in Aeads
  <2>1. pc' = "aead" BY <1>2, <1>7 DEF Entry
  <2> QED BY <1>2, <1>3, <1>7, <2>1 DEF MetaAt
<1> QED BY <1>5, <1>6, <1>7

(* Digests of one message agree but for the noise of an unstable hash; one *)
(* in pieces differs exactly when the hash loses count and there are some. *)
LEMMA HashParts ==
  ASSUME NEW p, NEW k, NEW n
  PROVE  /\ Hash(p, k, n).pieces = p /\ Hash(p, k, n).key = k
         /\ Hash(p, k, n).noise = n /\ Hash(p, k, n) # Garbage
<1>1. Hash(p, k, n).kind = "hash" /\ Garbage.kind = "garbage" BY DEF Hash, Garbage
<1>2. /\ Hash(p, k, n).pieces = p /\ Hash(p, k, n).key = k
      /\ Hash(p, k, n).noise = n
  BY DEF Hash
<1> QED BY <1>1, <1>2

LEMMA DigestsAlike ==
  ASSUME NEW d \in Digests(1), NEW e \in Digests(1), d # e
  PROVE  defect = "hash_unstable"
  BY DEF Digests, Noises

LEMMA DigestsInPieces ==
  ASSUME NEW d \in Digests(1), NEW e \in Digests(2)
  PROVE  /\ d = e => ~ ("split" \in bits /\ defect = "hash_stream")
         /\ d # e => defect \in {"hash_unstable", "hash_stream"}
<1>1. CASE defect = "hash_stream" /\ "split" \in bits
  <2>1. d.pieces = 1 /\ e.pieces = 2 BY <1>1, HashParts DEF Digests
  <2> QED BY <1>1, <2>1
<1>2. CASE ~ (defect = "hash_stream" /\ "split" \in bits)
  <2>1. e \in Digests(1) BY <1>2 DEF Digests
  <2> QED BY <1>2, <2>1, DigestsAlike
<1> QED BY <1>1, <1>2

(* Tags under one key agree likewise, and those under two differ unless    *)
(* the key is not used.                                                    *)
LEMMA TagsAlike ==
  ASSUME NEW t \in Tags(1), NEW u \in Tags(1), t # u
  PROVE  defect = "hash_unstable"
  BY DEF Tags, Noises

LEMMA TagsByKey ==
  ASSUME NEW t \in Tags(1), NEW u \in Tags(2)
  PROVE  t = u <=> defect = "mac_no_key"
<1>1. CASE defect = "mac_no_key" BY <1>1 DEF Tags, Noises
<1>2. CASE defect # "mac_no_key"
  <2>1. t.key = 1 /\ u.key = 2 BY <1>2, HashParts DEF Tags
  <2> QED BY <1>2, <2>1
<1> QED BY <1>1, <1>2

LEMMA AeadBoxText ==
  ("empty" \in bits \/ Plaintext(defect, AeadBox) = Message(1))
    <=> ("empty" \in bits \/ defect # "aead_wrong")
<1>1. Plaintext(defect, AeadBox) = (IF defect = "aead_wrong" THEN Garbage ELSE Message(1))
  BY BoxOpens DEF AeadBox
<1>2. Garbage # Message(1) BY GarbageApart
<1> QED BY <1>1, <1>2

LEMMA AeadBoxOpens ==
  /\ Opens(defect, AeadBox, Random(0), Random(1)) <=> defect # "aead_rejects"
  /\ Opens(defect, Flip(AeadBox), Random(0), Random(1)) <=> defect = "aead_no_tag"
  /\ Opens(defect, AeadBox, OtherKey, Random(1)) <=> defect = "aead_any_key"
<1>1. OtherKey # Random(0)
  <2>1. OtherKey.kind = "flipped key" /\ Random(0).kind = "random"
    BY DEF OtherKey, Random
  <2> QED BY <2>1
<1>2. Opens(defect, AeadBox, OtherKey, Random(1)) <=> defect = "aead_any_key"
  BY <1>1, BoxOtherKey DEF AeadBox
<1>3. /\ Opens(defect, AeadBox, Random(0), Random(1)) <=> defect # "aead_rejects"
      /\ Opens(defect, Flip(AeadBox), Random(0), Random(1)) <=> defect = "aead_no_tag"
  BY BoxOpens DEF AeadBox
<1> QED BY <1>2, <1>3

LEMMA MetaSteps ==
  ASSUME MetaAt, build.h \in {"trad_meta", "classic"},
         build' = build, defect' = defect, bits' = bits, log' = log,
         \/ Digest \/ DigestChunks \/ Hmac
         \/ AeadSeal \/ AeadRoundtrip \/ AeadTamper \/ AeadWrongKey
  PROVE  MetaAt'
<1> USE DEF MetaPlaces, Outside
<1>0. /\ Digests(1)' = Digests(1) /\ RoundtripOracle' = RoundtripOracle
      /\ AeadBox' = AeadBox
  BY DEF Digests, Noises, RoundtripOracle, AeadBox
<1>1. CASE Digest
  <2>1. /\ pc = "digest" /\ DOMAIN mem = {"ct", "d1"} /\ bits \cap MetaOps = {"sha256"}
        /\ log = {} /\ draws = 0 /\ draws' \in {0, 2}
    BY <1>1 DEF Digest, MetaAt, Drawn
  <2>2. PICK d1 \in Uninitialised(Digests(1)), d2 \in Uninitialised(Digests(1)) :
          /\ (Works /\ Garbage \notin {d1, d2}) \/ Fails("digest")
          /\ build.h = "classic" => d2 = d1
          /\ mem' = [mem EXCEPT !["d1"] = d1]
          /\ Assert(d1 = d2, "determinism", "chunks")
    BY <1>1 DEF Digest, Set
  <2>3. mem'.d1 = d1 /\ DOMAIN mem' = {"ct", "d1"} BY <2>1, <2>2
  <2>4. "digest" \in failed' \/ (d1 \in Digests(1) /\ d2 \in Digests(1))
    BY <2>2 DEF Fails, Uninitialised
  <2>5. CASE d1 = d2
    <3>1. pc' = "chunks" BY <2>2, <2>5 DEF Assert, Goto
    <3> QED BY <1>0, <2>1, <2>3, <2>4, <3>1 DEF MetaAt
  <2>6. CASE d1 # d2
    <3>1. pc' = "abort" /\ report' = "determinism" /\ build.h = "trad_meta"
      BY <2>2, <2>6 DEF Assert
    <3>2. defect = "hash_unstable" \/ failed' \cap {"digest", "hmac"} # {}
      BY <2>4, <2>6, DigestsAlike
    <3> QED BY <2>1, <3>1, <3>2 DEF MetaAt
  <2> QED BY <2>5, <2>6
<1>2. CASE DigestChunks
  <2>1. /\ pc = "chunks" /\ bits \cap MetaOps = {"sha256"}
        /\ "digest" \in failed \/ mem.d1 \in Digests(1)
        /\ log = {} /\ draws \in {0, 2} /\ draws' = draws /\ mem' = mem
    BY <1>2 DEF DigestChunks, MetaAt
  <2> DEFINE oracle == IF build.h = "classic" THEN "MR1_chunk_equiv"
                       ELSE "chunk_consistency"
  <2>2. PICK d3 \in Uninitialised(Digests(2)) :
          /\ (Works /\ d3 # Garbage) \/ Fails("digest")
          /\ Assert(mem.d1 = d3, oracle, "return")
    BY <1>2 DEF DigestChunks
  <2>3. "digest" \in failed' \/ (mem.d1 \in Digests(1) /\ d3 \in Digests(2))
    BY <2>1, <2>2 DEF Works, Fails, Uninitialised
  <2>4. CASE mem.d1 = d3
    <3>1. pc' = "return" BY <2>2, <2>4 DEF Assert, Goto
    <3>2. failed' = {} => ("split" \in bits => defect # "hash_stream")
      BY <2>3, <2>4, DigestsInPieces
    <3> QED BY <2>1, <3>1, <3>2 DEF MetaAt
  <2>5. CASE mem.d1 # d3
    <3>1. pc' = "abort" /\ report' = oracle BY <2>2, <2>5 DEF Assert
    <3>2. "digest" \in failed' \/ defect \in {"hash_unstable", "hash_stream"}
      BY <2>3, <2>5, DigestsInPieces
    <3> QED BY <2>1, <3>1, <3>2 DEF MetaAt
  <2> QED BY <2>4, <2>5
<1>3. CASE Hmac
  <2>1. /\ pc = "hmac" /\ bits \cap MetaOps = {"hmac"} /\ build.h = "trad_meta"
        /\ log = {} /\ draws' = 2
    BY <1>3 DEF Hmac, MetaAt, Drawn
  <2>2. PICK t1 \in Uninitialised(Tags(1)), t2 \in Uninitialised(Tags(1)),
             t3 \in Uninitialised(Tags(1) \cup Tags(2)) :
          /\ \/ Works /\ {t1, t2} \subseteq Tags(1) /\ t3 \in Tags(2)
             \/ Fails("hmac")
          /\ IF t1 # t2 THEN Assert(FALSE, "determinism", "return")
                        ELSE Assert(t1 # t3, "key_sensitivity", "return")
    BY <1>3 DEF Hmac
  <2>3. "hmac" \in failed' \/ (t1 \in Tags(1) /\ t2 \in Tags(1) /\ t3 \in Tags(2))
    BY <2>2 DEF Fails
  <2>4. CASE t1 # t2
    <3>1. pc' = "abort" /\ report' = "determinism" BY <2>2, <2>4 DEF Assert
    <3>2. defect = "hash_unstable" \/ failed' \cap {"digest", "hmac"} # {}
      BY <2>3, <2>4, TagsAlike
    <3> QED BY <2>1, <3>1, <3>2 DEF MetaAt
  <2>5. CASE t1 = t2 /\ t1 = t3
    <3>1. pc' = "abort" /\ report' = "key_sensitivity" BY <2>2, <2>5 DEF Assert
    <3>2. "hmac" \in failed' \/ defect = "mac_no_key" BY <2>3, <2>5, TagsByKey
    <3> QED BY <2>1, <3>1, <3>2 DEF MetaAt
  <2>6. CASE t1 = t2 /\ t1 # t3
    <3>1. pc' = "return" BY <2>2, <2>6 DEF Assert, Goto
    <3>2. failed' = {} => defect # "mac_no_key" BY <2>3, <2>6, TagsByKey
    <3> QED BY <2>1, <3>1, <3>2 DEF MetaAt
  <2> QED BY <2>4, <2>5, <2>6
<1>4. CASE AeadSeal
  <2>1. /\ pc = "aead" /\ DOMAIN mem = {"ct", "d1"} /\ log = {}
        /\ draws' = 2 /\ \E op \in Aeads : bits \cap MetaOps = {op}
    BY <1>4 DEF AeadSeal, MetaAt, Drawn
  <2>2. CASE build.h = "classic" /\ "empty" \in bits
    <3>1. pc' = "return" /\ mem' = mem BY <1>4, <2>2 DEF AeadSeal, Goto
    <3> QED BY <2>1, <2>2, <3>1 DEF MetaAt
  <2>3. CASE ~ (build.h = "classic" /\ "empty" \in bits)
    <3>1. mem' = [mem EXCEPT !["ct"] = AeadBox] /\ pc' = "aead_open"
      BY <1>4, <2>3 DEF AeadSeal, AeadBox, Set, Goto
    <3>2. mem'.ct = AeadBox' /\ DOMAIN mem' = {"ct", "d1"} BY <1>0, <2>1, <3>1
    <3> QED BY <2>1, <3>1, <3>2 DEF MetaAt
  <2> QED BY <2>2, <2>3
<1>5. CASE AeadRoundtrip
  <2>1. /\ pc = "aead_open" /\ DOMAIN mem = {"ct", "d1"} /\ log = {}
        /\ mem.ct = AeadBox /\ mem' = mem /\ draws = 2 /\ draws' = 2
        /\ \E op \in Aeads : bits \cap MetaOps = {op}
    BY <1>5 DEF AeadRoundtrip, MetaAt
  <2> DEFINE right == /\ Opens(defect, AeadBox, Random(0), Random(1))
                      /\ SameText(AeadBox, Message(1))
  <2>2. PICK ok \in BOOLEAN :
          Opened(ok, right) /\ Assert(ok, RoundtripOracle, "aead_tamper")
    BY <1>5, <2>1 DEF AeadRoundtrip
  <2>3. right <=> /\ defect # "aead_rejects"
                  /\ "empty" \notin bits => defect # "aead_wrong"
    BY AeadBoxOpens, AeadBoxText DEF SameText
  <2>4. /\ failed \subseteq failed' /\ (failed' = {} => ok = right)
        /\ ok = right \/ "seal" \in failed \/ ("open" \in failed' /\ ok = FALSE)
    BY <2>2, OpenedAs, Zenon
  <2> HIDE DEF right
  <2>5. CASE ok
    <3>1. pc' = "aead_tamper" BY <2>2, <2>5 DEF Assert, Goto
    <3>2. MetaPastOpen' BY <2>3, <2>4, <2>5 DEF MetaPastOpen
    <3> QED BY <1>0, <2>1, <3>1, <3>2 DEF MetaAt
  <2>6. CASE ~ ok
    <3>1. pc' = "abort" /\ report' = RoundtripOracle BY <2>2, <2>6 DEF Assert
    <3>2. \/ failed' \cap {"seal", "open"} # {}
          \/ defect \in {"aead_rejects", "aead_wrong"}
      BY <2>3, <2>4, <2>6
    <3> QED BY <1>0, <2>1, <3>1, <3>2 DEF MetaAt
  <2> QED BY <2>5, <2>6
<1>6. CASE AeadTamper
  <2> DEFINE oracle == IF build.h = "classic" THEN "MR3_tamper" ELSE "tamper_reject"
             next == IF build.h = "classic" THEN "return" ELSE "aead_key"
             opens == Opens(defect, Flip(AeadBox), Random(0), Random(1))
  <2>1. /\ pc = "aead_tamper" /\ DOMAIN mem = {"ct", "d1"}
        /\ log = {} /\ mem.ct = AeadBox /\ MetaPastOpen
        /\ draws = 2 /\ draws' = 2 /\ mem' = mem
        /\ \E op \in Aeads : bits \cap MetaOps = {op}
    BY <1>6 DEF AeadTamper, MetaAt
  <2>2. PICK ok \in BOOLEAN :
          TamperOpens(ok) /\ Assert(~ ok /\ build.fault # "TRAD", oracle, next)
    BY <1>6 DEF AeadTamper
  <2>3. /\ failed \subseteq failed' /\ (failed' = {} => ok = opens)
        /\ ok => opens \/ (build.h = "classic" /\ "open" \in failed')
    <3>1. CASE Reopened(ok, opens)
      <4>1. /\ failed \subseteq failed' /\ (failed' = {} => ok = opens)
            /\ ok = opens \/ ("open" \in failed' /\ ok = FALSE)
        BY <3>1, ReopenedAs, Zenon
      <4> QED BY <4>1
    <3>2. CASE build.h = "classic" /\ Fails("open") BY <3>2 DEF Fails
    <3> QED BY <2>1, <2>2, <3>1, <3>2 DEF TamperOpens
  <2>4. opens <=> defect = "aead_no_tag" BY AeadBoxOpens
  <2> HIDE DEF opens, oracle, next
  <2>5. CASE ~ ok /\ build.fault # "TRAD"
    <3>1. pc' = next BY <2>2, <2>5 DEF Assert, Goto
    <3>2. MetaPastOpen' /\ MetaPastTamper'
      BY <2>1, <2>3, <2>4, <2>5 DEF MetaPastOpen, MetaPastTamper
    <3> QED BY <1>0, <2>1, <3>1, <3>2 DEF MetaAt, next
  <2>6. CASE ~ (~ ok /\ build.fault # "TRAD")
    <3>1. pc' = "abort" /\ report' = oracle BY <2>2, <2>6 DEF Assert
    <3>2. \/ defect = "aead_no_tag" \/ build.fault = "TRAD"
          \/ build.h = "classic" /\ "open" \in failed'
      BY <2>3, <2>4, <2>6
    <3> QED BY <2>1, <3>1, <3>2 DEF MetaAt, oracle
  <2> QED BY <2>5, <2>6
<1>7. CASE AeadWrongKey
  <2>1. /\ pc = "aead_key" /\ log = {}
        /\ mem.ct = AeadBox /\ MetaPastOpen /\ MetaPastTamper
        /\ draws = 2 /\ draws' = 2 /\ mem' = mem /\ build.h = "trad_meta"
        /\ \E op \in Aeads : bits \cap MetaOps = {op}
    BY <1>7 DEF AeadWrongKey, MetaAt
  <2> DEFINE opens == Opens(defect, AeadBox, OtherKey, Random(1))
  <2>2. PICK ok \in BOOLEAN : Reopened(ok, opens) /\ Assert(~ ok, "wrong_key", "return")
    BY <1>7, <2>1 DEF AeadWrongKey
  <2>3. opens <=> defect = "aead_any_key" BY AeadBoxOpens
  <2>4. /\ failed \subseteq failed' /\ (failed' = {} => ok = opens)
        /\ ok = opens \/ ("open" \in failed' /\ ok = FALSE)
    BY <2>2, ReopenedAs, Zenon
  <2> HIDE DEF opens
  <2>5. CASE ok
    <3>1. pc' = "abort" /\ report' = "wrong_key" BY <2>2, <2>5 DEF Assert
    <3>2. defect = "aead_any_key" BY <2>3, <2>4, <2>5
    <3> QED BY <2>1, <3>1, <3>2 DEF MetaAt
  <2>6. CASE ~ ok
    <3>1. pc' = "return" BY <2>2, <2>6 DEF Assert, Goto
    <3>2. failed' = {} => /\ MetaPastOpen' /\ MetaPastTamper'
                          /\ defect # "aead_any_key"
      BY <2>1, <2>3, <2>4, <2>6 DEF MetaPastOpen, MetaPastTamper
    <3> QED BY <2>1, <3>1, <3>2 DEF MetaAt
  <2> QED BY <2>5, <2>6
<1> QED BY <1>1, <1>2, <1>3, <1>4, <1>5, <1>6, <1>7

(* diff_multilib_harness.cpp                                               *)
WrongLib == IF defect # "none" THEN defect
            ELSE IF build.fault = "DIFF" /\ "sha256" \in bits THEN "cryptopp"
            ELSE "none"
Answer(lib) == IF lib = WrongLib THEN "wrong" ELSE "right"
(* k libraries have been asked.                                            *)
HasAsked(k) ==
  /\ DOMAIN mem = {"rs", "pair"}
  /\ IF k = 0 THEN mem.rs = Garbage
     ELSE /\ mem.rs = [kind |-> "results", seq |-> mem.rs.seq]
          /\ mem.rs.seq = [i \in 1 .. k |-> mem.rs.seq[i]]
          /\ failed = {} => \A i \in 1 .. k : mem.rs.seq[i] = Answer(Libs[i])
  /\ failed # {} => "compute" \in failed
MultiInput == \E op \in DOMAIN Asked : bits \in {{op}, {op, "aes_hw"}}

MultiAt ==
  /\ pc \in MultiPlaces \cup Outside
  /\ pc # "idle" => MultiInput /\ log = {}
  /\ pc = "ask" => \E k \in 0 .. Len(Libs) - 1 :
                      HasAsked(k) /\ draws = IF k = 0 THEN 0 ELSE 2
  /\ pc = "agree" => HasAsked(Len(Libs)) /\ draws = 2
  /\ pc = "return" =>
       /\ draws = 2
       /\ failed = {} => \A i \in DOMAIN Libs : Libs[i] # WrongLib
  /\ pc = "abort" =>
       /\ draws = 2 /\ report = "DIFF_mismatch"
       /\ failed # {} => "compute" \in failed
       /\ failed = {} => WrongLib \in mem.pair.names /\ WrongLib # "none"



(* The first of the results that differ.                                   *)
LEMMA SmallestOfFew ==
  ASSUME NEW S \in SUBSET (2 .. 4), S # {}
  PROVE  \E i \in S : \A j \in S : i <= j
<1>1. CASE 2 \in S BY <1>1
<1>2. CASE 2 \notin S /\ 3 \in S BY <1>2
<1>3. CASE 2 \notin S /\ 3 \notin S
  <2>1. PICK i \in S : TRUE OBVIOUS
  <2>2. \A j \in S : j = 4 BY <1>3
  <2> QED BY <2>1, <2>2
<1> QED BY <1>1, <1>2, <1>3

(* The libraries an input asks: at least two, and no one twice.            *)
LEMMA LibrariesAsked ==
  ASSUME MultiInput
  PROVE  /\ Len(Libs) \in 2 .. 4 /\ DOMAIN Libs = 1 .. Len(Libs)
         /\ \A i, j \in DOMAIN Libs : i # j => Libs[i] # Libs[j]
         /\ \A i \in DOMAIN Libs : Libs[i] # "none"
         /\ \E i \in DOMAIN Libs : Libs[i] = "cryptopp"
<1>1. PICK op \in DOMAIN Asked : bits \in {{op}, {op, "aes_hw"}} BY DEF MultiInput
<1>2. (CHOOSE x \in bits : x \in DOMAIN Asked) = op
  <2>1. "aes_hw" \notin DOMAIN Asked BY DEF Asked
  <2>2. op \in bits /\ \A x \in bits : x \in DOMAIN Asked => x = op BY <1>1, <2>1
  <2> QED BY <2>2
<1>3. Libs = IF op = "aesgcm" /\ "aes_hw" \notin bits
             THEN SubSeq(Asked.aesgcm, 1, 3) ELSE Asked[op]
  <2> DEFINE chosen == CHOOSE x \in bits : x \in DOMAIN Asked
  <2>1. Libs = IF chosen = "aesgcm" /\ "aes_hw" \notin bits
               THEN SubSeq(Asked.aesgcm, 1, 3) ELSE Asked[chosen]
    BY DEF Libs
  <2>2. chosen = op BY <1>2
  <2> HIDE DEF chosen
  <2> QED BY <2>1, <2>2
<1>4. SubSeq(Asked.aesgcm, 1, 3) = <<"openssl", "mbedtls", "cryptopp">>
  <2>1. Asked.aesgcm = <<"openssl", "mbedtls", "cryptopp", "libsodium">> BY DEF Asked
  <2> DEFINE s == <<"openssl", "mbedtls", "cryptopp", "libsodium">>
  <2>2. s \in Seq({"openssl", "mbedtls", "cryptopp", "libsodium"}) /\ Len(s) = 4 OBVIOUS
  <2>3. SubSeq(s, 1, 3) = [i \in 1 .. 3 |-> s[i]] BY <2>2
  <2>4. [i \in 1 .. 3 |-> s[i]] = <<"openssl", "mbedtls", "cryptopp">> OBVIOUS
  <2> QED BY <2>1, <2>3, <2>4
<1>5. Asked[op] \in {<<"openssl", "libsodium", "mbedtls", "cryptopp">>,
                     <<"openssl", "mbedtls", "cryptopp", "libsodium">>,
                     <<"openssl", "mbedtls", "cryptopp">>,
                     <<"openssl", "cryptopp">>}
  BY <1>1 DEF Asked, All
<1>6. Libs \in {<<"openssl", "libsodium", "mbedtls", "cryptopp">>,
                <<"openssl", "mbedtls", "cryptopp", "libsodium">>,
                <<"openssl", "mbedtls", "cryptopp">>,
                <<"openssl", "cryptopp">>}
  BY <1>3, <1>4, <1>5
<1> QED BY <1>6

LEMMA LibrariesNumber == MultiInput => Len(Libs) \in 2 .. 4
  BY LibrariesAsked

LEMMA MultiBegins == ASSUME MultiBegin, build' = build, defect' = defect PROVE MultiAt'
<1>1. PICK op \in DOMAIN Asked, b \in SUBSET {"aes_hw"} :
        Begin({op} \cup b, "ask", {"rs", "pair"})
  BY DEF MultiBegin
<1>2. /\ pc' = "ask" /\ bits' = {op} \cup b /\ draws' = 0 /\ failed' = {}
      /\ log' = {} /\ DOMAIN mem' = {"rs", "pair"}
  BY <1>1, Beginning
<1>3. mem'["rs"] = Garbage BY <1>1, Beginning DEF Globals
<1>4. bits' \in {{op}, {op, "aes_hw"}} BY <1>2
<1>5. MultiInput' BY <1>4 DEF MultiInput
<1>6. HasAsked(0)' BY <1>2, <1>3 DEF HasAsked
<1>7. (MultiInput => Len(Libs) \in 2 .. 4)' BY LibrariesNumber, PTL
<1>8. 0 \in 0 .. Len(Libs)' - 1 BY <1>5, <1>7
<1>9. \E k \in 0 .. Len(Libs)' - 1 : HasAsked(k)' /\ draws' = IF k = 0 THEN 0 ELSE 2
  BY <1>2, <1>6, <1>8
<1> QED BY <1>2, <1>5, <1>9 DEF MultiAt, MultiPlaces

(* A library that is asked computes the wrong value just when it is the    *)
(* wrong one.                                                              *)
LEMMA AnswersOf ==
  ASSUME MultiInput, build.fault # "none" => defect = "none",
         NEW i \in DOMAIN Libs, NEW wrong,
         wrong = (Libs[i] = defect \/ (build.fault = "DIFF" /\ "sha256" \in bits
                                       /\ Libs[i] = "cryptopp"))
  PROVE  Answer(Libs[i]) = IF wrong THEN "wrong" ELSE "right"
<1>1. Libs[i] # "none" BY LibrariesAsked
<1>2. (Libs[i] = WrongLib) = wrong
  <2>1. CASE defect # "none" BY <2>1 DEF WrongLib
  <2>2. CASE defect = "none" BY <1>1, <2>2 DEF WrongLib
  <2> QED BY <2>1, <2>2
<1> QED BY <1>2 DEF Answer

LEMMA MultiSteps ==
  ASSUME MultiAt, build.fault # "none" => defect = "none",
         build' = build, defect' = defect, bits' = bits, log' = log, Asks \/ Agree
  PROVE  MultiAt'
<1> USE DEF MultiPlaces, Outside
<1>0. /\ Libs' = Libs /\ WrongLib' = WrongLib /\ MultiInput' = MultiInput
      /\ \A lib : Answer(lib)' = Answer(lib)
  BY DEF Libs, WrongLib, MultiInput, Answer
<1>1. MultiInput /\ log = {} BY DEF MultiAt, Asks, Agree
<1>2. /\ Len(Libs) \in 2 .. 4 /\ DOMAIN Libs = 1 .. Len(Libs)
      /\ \A i, j \in DOMAIN Libs : i # j => Libs[i] # Libs[j]
      /\ \A i \in DOMAIN Libs : Libs[i] # "none"
  BY <1>1, LibrariesAsked
<1>3. Garbage.kind = "garbage" BY DEF Garbage
<1>4. CASE Asks
  <2>1. PICK k \in 0 .. Len(Libs) - 1 : HasAsked(k) /\ draws = IF k = 0 THEN 0 ELSE 2
    BY <1>4 DEF Asks, MultiAt
  <2> DEFINE done == IF mem.rs = Garbage THEN <<>> ELSE mem.rs.seq
             lib == Libs[Len(done) + 1]
             wrong == lib = defect \/ (build.fault = "DIFF" /\ "sha256" \in bits
                                       /\ lib = "cryptopp")
  <2>2. /\ done = [i \in 1 .. k |-> done[i]] /\ (mem.rs = Garbage <=> k = 0)
        /\ failed = {} => \A i \in 1 .. k : done[i] = Answer(Libs[i])
    <3>1. CASE k = 0 BY <2>1, <3>1 DEF HasAsked
    <3>2. CASE k # 0
      <4>1. mem.rs = [kind |-> "results", seq |-> mem.rs.seq]
        BY <2>1, <3>2 DEF HasAsked
      <4>2. mem.rs.kind = "results" BY <4>1
      <4>3. done = mem.rs.seq /\ mem.rs # Garbage BY <1>3, <4>2
      <4> HIDE DEF done
      <4> QED BY <2>1, <3>2, <4>3 DEF HasAsked
    <3> QED BY <3>1, <3>2
  <2>3. Len(done) = k BY <2>1, <2>2, PushesOnto
  <2>4. PICK v : /\ mem' = [mem EXCEPT !["rs"] = [kind |-> "results", seq |-> Append(done, v)]]
                 /\ \/ failed' = failed /\ v = IF wrong THEN "wrong" ELSE "right"
                    \/ failed' = failed \cup {"compute"} /\ failed' # {}
    BY <1>4 DEF Asks, Set, Works, Fails
  <2>5. /\ pc' = IF Len(done) + 1 = Len(Libs) THEN "agree" ELSE "ask"
        /\ draws' = draws + (IF mem.rs = Garbage THEN 2 ELSE 0)
    BY <1>4 DEF Asks, Goto, Drawn
  <2>6. k + 1 \in DOMAIN Libs BY <1>2, <2>1
  <2>7. Answer(Libs[k + 1]) = IF wrong THEN "wrong" ELSE "right"
    BY <1>1, <2>3, <2>6, AnswersOf
  <2> DEFINE longer == Append(done, v)
  <2> HIDE DEF wrong, lib, done
  <2>8. /\ longer = [i \in 1 .. k + 1 |-> longer[i]]
        /\ longer[k + 1] = v /\ \A i \in 1 .. k : longer[i] = done[i]
    BY <2>1, <2>2, PushesOnto
  <2>9. mem' = [mem EXCEPT !["rs"] = [kind |-> "results", seq |-> longer]] BY <2>4
  <2> HIDE DEF longer
  <2>10. DOMAIN mem = {"rs", "pair"} /\ (failed # {} => "compute" \in failed)
    BY <2>1 DEF HasAsked
  <2>11. /\ mem'.rs = [kind |-> "results", seq |-> longer] /\ mem'.rs.seq = longer
         /\ DOMAIN mem' = {"rs", "pair"}
    BY <2>9, <2>10
  <2>12. failed' = {} => \A i \in 1 .. k + 1 : longer[i] = Answer(Libs[i])
    <3>1. SUFFICES ASSUME failed' = {}, NEW i \in 1 .. k + 1
                   PROVE  longer[i] = Answer(Libs[i])
      OBVIOUS
    <3>2. failed = {} /\ v = Answer(Libs[k + 1]) BY <2>4, <2>7, <3>1
    <3>3. CASE i = k + 1 BY <2>8, <3>2, <3>3
    <3>4. CASE i \in 1 .. k BY <2>2, <2>8, <3>2, <3>4
    <3> QED BY <2>1, <3>3, <3>4
  <2>13. failed' # {} => "compute" \in failed' BY <2>4, <2>10
  <2>14. HasAsked(k + 1)'
    <3>1. k + 1 # 0 BY <2>1
    <3>2. failed' = {} => \A i \in 1 .. k + 1 : longer[i] = Answer(Libs[i])'
      BY <1>0, <2>12
    <3> QED BY <2>8, <2>11, <2>13, <3>1, <3>2 DEF HasAsked
  <2>15. draws' = 2 BY <2>1, <2>2, <2>5
  <2>16. CASE k + 1 = Len(Libs)
    <3>1. pc' = "agree" BY <2>3, <2>5, <2>16
    <3>2. HasAsked(Len(Libs))' BY <1>0, <2>14, <2>16
    <3> QED BY <1>0, <1>1, <2>15, <3>1, <3>2 DEF MultiAt
  <2>17. CASE k + 1 # Len(Libs)
    <3>1. pc' = "ask" BY <2>3, <2>5, <2>17
    <3>2. k + 1 \in 0 .. Len(Libs) - 1 /\ k + 1 # 0
      <4>1. \A a, b : a \in 2 .. 4 /\ b \in 0 .. a - 1 /\ b + 1 # a
                       => b + 1 \in 0 .. a - 1 /\ b + 1 # 0
        OBVIOUS
      <4>2. Len(Libs) \in 2 .. 4 BY <1>2
      <4>3. k \in 0 .. Len(Libs) - 1 OBVIOUS
      <4> QED BY <2>17, <4>1, <4>2, <4>3
    <3>3. Len(Libs)' = Len(Libs) BY <1>0
    <3>4. \E n \in 0 .. Len(Libs)' - 1 : HasAsked(n)' /\ draws' = IF n = 0 THEN 0 ELSE 2
      BY <2>14, <2>15, <3>2, <3>3
    <3> QED BY <1>0, <1>1, <3>1, <3>4 DEF MultiAt
  <2> QED BY <2>16, <2>17
<1>5. CASE Agree
  <2> DEFINE rs == mem.rs.seq
             n == Len(Libs)
             differ == {i \in 2 .. Len(rs) : rs[i] # rs[1]}
             first == CHOOSE i \in differ : \A j \in differ : i <= j
  <2>1. /\ pc = "agree" /\ HasAsked(n) /\ draws = 2 /\ draws' = 2 /\ failed' = failed
    BY <1>5 DEF Agree, MultiAt
  <2>2. /\ DOMAIN mem = {"rs", "pair"} /\ rs = [i \in 1 .. n |-> rs[i]]
        /\ failed = {} => \A i \in 1 .. n : rs[i] = Answer(Libs[i])
        /\ failed # {} => "compute" \in failed
    BY <1>2, <2>1 DEF HasAsked
  <2>3. n \in Nat /\ n >= 2 BY <1>2
  <2>4. IF differ = {} THEN pc' = "return"
        ELSE /\ mem' = [mem EXCEPT !["pair"] =
                          [kind |-> "pair", names |-> {Libs[1], Libs[first]}]]
             /\ pc' = "abort" /\ report' = "DIFF_mismatch"
    BY <1>5 DEF Agree, Set, Goto, Assert
  <2> HIDE DEF rs, n
  <2>5. Len(rs) = n BY <2>2, <2>3, PushesOnto
  <2>6. CASE differ = {}
    <3>1. failed = {} => \A i \in DOMAIN Libs : Libs[i] # WrongLib
      <4>1. SUFFICES ASSUME failed = {}, NEW i \in DOMAIN Libs, Libs[i] = WrongLib
                     PROVE  FALSE
        OBVIOUS
      <4>2. \A j \in 1 .. n : rs[j] = rs[1] BY <2>3, <2>5, <2>6
      <4>3. DOMAIN Libs = 1 .. n BY <1>2 DEF n
      <4>4. \A j \in 1 .. n : Answer(Libs[j]) = rs[1] BY <2>2, <4>1, <4>2
      <4>5. rs[1] = "wrong" BY <4>1, <4>3, <4>4 DEF Answer
      <4>6. 1 \in 1 .. n /\ 2 \in 1 .. n BY <2>3
      <4>7. Libs[1] = WrongLib /\ Libs[2] = WrongLib
        BY <4>4, <4>5, <4>6 DEF Answer
      <4> QED BY <1>2, <4>3, <4>6, <4>7
    <3>2. pc' = "return" BY <2>4, <2>6
    <3>3. failed' = {} => \A i \in DOMAIN Libs' : Libs'[i] # WrongLib'
      BY <1>0, <2>1, <3>1
    <3> QED BY <1>0, <1>1, <2>1, <3>2, <3>3 DEF MultiAt
  <2>7. CASE differ # {}
    <3>1. first \in differ
      <4>1. differ \in SUBSET (2 .. 4) /\ differ # {} BY <1>2, <2>5, <2>7 DEF n
      <4> HIDE DEF differ
      <4>2. \E i \in differ : \A j \in differ : i <= j BY <4>1, SmallestOfFew
      <4> QED BY <4>2
    <3>2. first \in 2 .. n /\ rs[first] # rs[1] BY <2>5, <3>1
    <3> HIDE DEF first, differ
    <3>3. mem' = [mem EXCEPT !["pair"] =
                          [kind |-> "pair", names |-> {Libs[1], Libs[first]}]]
          /\ pc' = "abort" /\ report' = "DIFF_mismatch"
      BY <2>4, <2>7
    <3>4. mem'.pair.names = {Libs[1], Libs[first]} BY <2>2, <3>3
    <3>5. failed = {} => WrongLib \in {Libs[1], Libs[first]} /\ WrongLib # "none"
      <4>1. 1 \in 1 .. n /\ first \in 1 .. n /\ DOMAIN Libs = 1 .. n
        BY <1>2, <2>3, <3>2 DEF n
      <4>2. failed = {} => Answer(Libs[1]) # Answer(Libs[first])
        BY <2>2, <3>2, <4>1
      <4>3. Libs[1] # "none" /\ Libs[first] # "none" BY <1>2, <4>1
      <4> QED BY <4>2, <4>3 DEF Answer
    <3> QED BY <1>0, <1>1, <2>1, <2>2, <3>3, <3>4, <3>5 DEF MultiAt
  <2> QED BY <2>6, <2>7
<1> QED BY <1>4, <1>5

=============================================================================
