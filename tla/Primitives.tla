----------------------------- MODULE Primitives -----------------------------
(***************************************************************************)
(* The cryptography the fuzz targets call, symbolically.  A value names    *)
(* what it was made from; two values are equal exactly when a right        *)
(* library would compute equal bytes (coincidences of probability 2^-128   *)
(* do not happen).  The parameter d is what is wrong with the library.     *)
(***************************************************************************)
EXTENDS Naturals

Garbage   == [kind |-> "garbage"]                 \* uninitialised memory
Constant  == [kind |-> "constant"]                \* what a fault hook puts in
Random(i) == [kind |-> "random", at |-> i]        \* the i-th draw of an input
Pair(i)   == [kind |-> "pair", at |-> i]          \* key pair made from it
Message(i) == [kind |-> "message", at |-> i]

(* One bit flipped, or flipped back.                                       *)
Flip(x) == [x EXCEPT !.flipped = ~ @]

(* KEM with implicit rejection.                                            *)
Cipher(pair, i) ==
  [kind |-> "cipher", to |-> pair, at |-> i, flipped |-> FALSE]
Secret(ct) == [kind |-> "secret", of |-> ct]
Rejected(ct, pair) == [kind |-> "rejected", of |-> ct, by |-> pair]

Decapsulations(d, ct, pair) ==
  IF ct.to # pair /\ d # "kem_any_key" THEN {Rejected(ct, pair)}
  ELSE CASE d = "kem_wrong"     -> {Rejected(ct, pair)}
         [] d = "kem_unstable"  -> {Secret(ct), Rejected(ct, pair)}
         [] d = "kem_malleable" -> {Secret([ct EXCEPT !.flipped = FALSE])}
         [] OTHER               -> {Secret(ct)}

(* Signatures                                                              *)
Signature(pair, msg) ==
  [kind |-> "signature", by |-> pair, msg |-> msg, flipped |-> FALSE]
Verifies(d, sig, msg, pair) ==
  /\ sig.kind = "signature" /\ d # "sig_rejects"
  /\ sig.by = pair \/ d = "sig_any_key"
  /\ sig.msg = msg \/ d = "sig_any_msg"
  /\ ~ sig.flipped \/ d = "sig_malleable"

(* AEAD                                                                    *)
Sealed(key, nonce, msg) ==
  [kind |-> "sealed", key |-> key, nonce |-> nonce, msg |-> msg,
   flipped |-> FALSE]
Opens(d, box, key, nonce) ==
  /\ d # "aead_rejects"
  /\ box.key = key \/ d = "aead_any_key"
  /\ box.nonce = nonce \/ d = "aead_any_nonce"
  /\ ~ box.flipped \/ d = "aead_no_tag"
Plaintext(d, box) == IF d = "aead_wrong" THEN Garbage ELSE box.msg

(* HKDF                                                                    *)
Derived(d, key) ==
  IF d = "kdf_identity" THEN key ELSE [kind |-> "derived", from |-> key]
=============================================================================
