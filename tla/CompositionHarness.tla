------------------------- MODULE CompositionHarness -------------------------
(***************************************************************************)
(* The L2 targets next to comp_hpke (HpkeHarness):                         *)
(*   authkem    comp_authkem_harness.c, either backend                     *)
(*   kdfchain   comp_kdfchain_harness.c                                    *)
(*   trad       comp_trad_harness.c: encrypt-then-MAC and the record layer *)
(***************************************************************************)
EXTENDS FuzzTarget

CompDefects == [
  authkem  |-> {"kem_wrong", "sig_rejects", "sig_any_msg", "kdf_identity",
                "aead_rejects", "aead_wrong"},
  kdfchain |-> {"kdf_identity", "aead_rejects", "aead_wrong", "aead_any_key"},
  trad     |-> {"cbc_wrong", "mac_constant", "aead_rejects", "aead_wrong",
                "aead_any_nonce", "aead_no_tag"}]

-----------------------------------------------------------------------------
AkBegin ==
  /\ build.h = "authkem"
  /\ \E b \in SUBSET {"empty"} :
       Begin(b, "ak_keys", {"skR", "skS", "enc", "ss_s", "sig"})

(* AK_MSG: what the signature covers.                                      *)
Transcript(enc) == IF build.fault = "AK" THEN Constant ELSE enc

(* Key pairs of both sides and the encapsulation; any failure ends it, but *)
(* for the status of x25519_pub: with a public key that was not written,   *)
(* the two sides derive from different secrets.                            *)
AkKeys ==
  /\ pc = "ak_keys"
  /\ \/ /\ Works /\ Goto("ak_sign")
        /\ LET enc == Cipher(Pair(1), 3) IN
             mem' = [mem EXCEPT !.skR = Pair(1), !.skS = Pair(2),
                                !.enc = enc, !.ss_s = Secret(enc)]
     \/ /\ Fails("pub") /\ Goto("ak_sign")
        /\ mem' = [mem EXCEPT !.skR = Pair(1), !.skS = Pair(2),
                              !.enc = Cipher(Pair(1), 3)]
     \/ (Fails("keypair") \/ Fails("encaps")) /\ Goto("return") /\ UNCHANGED mem
  /\ UNCHANGED draws

(* Its status is not looked at: sig may stay uninitialised.                *)
AkSign ==
  /\ pc = "ak_sign"
  /\ \/ Works /\ Set("sig", Signature(mem.skS, Transcript(mem.enc)))
     \/ Fails("sign") /\ UNCHANGED mem
  /\ Goto("ak_verify")
  /\ UNCHANGED draws

AkVerify ==
  /\ pc = "ak_verify"
  /\ \E ok \in BOOLEAN :
       /\ Verify(ok, mem.sig, Transcript(mem.enc), mem.skS)
       /\ Assert(ok, "O5-roundtrip", "ak_record")
  /\ UNCHANGED <<mem, draws>>

(* Both sides derive a key and a record goes over; the status of hkdf32,   *)
(* gcm_seal and the calls of gcm_open is not looked at, and what opens     *)
(* after one has failed is anybody's guess.                                *)
AkRecord ==
  /\ pc = "ak_record"
  /\ \/ /\ Works
        /\ \E ss_r \in Decapsulations(defect, mem.enc, mem.skR) :
             LET box == Sealed(Derived(defect, mem.ss_s), Constant, Message(1))
             IN Assert(/\ Opens(defect, box, Derived(defect, ss_r), Constant)
                       /\ SameText(box, Message(1)),
                       "O5-roundtrip", "ak_tamper")
     \/ /\ Fails("hkdf") \/ Fails("seal") \/ Fails("open")
        /\ \E ok \in BOOLEAN : Assert(ok, "O5-roundtrip", "ak_tamper")
     \/ Fails("decaps") /\ Goto("ak_tamper")
  /\ UNCHANGED <<mem, draws>>

AkTamper ==
  /\ pc = "ak_tamper"
  /\ \E ok \in BOOLEAN :
       /\ Verify(ok, mem.sig, Transcript(Flip(mem.enc)), mem.skS)
       /\ Assert(~ ok, "O5-transcript-binding", "return")
  /\ UNCHANGED <<mem, draws>>

-----------------------------------------------------------------------------
N_CHAIN == 4

(* "apart": the two indices taken from the input differ.                   *)
KdfBegin ==
  /\ build.h = "kdfchain"
  /\ \E b \in SUBSET {"apart"} : Begin(b, "kdf_chain", {"keys", "ct"})

(* keys[0] from ikm, then one from the other; CMF_FAULT_KDF copies.  The   *)
(* status of hkdf32 is not looked at, and two uninitialised keys may or    *)
(* may not be the same.                                                    *)
KdfChain ==
  /\ pc = "kdf_chain"
  /\ LET keys == IF mem.keys = Garbage THEN <<>> ELSE mem.keys.seq
         last == IF keys = <<>> THEN Random(0) ELSE keys[Len(keys)]
         Push(key) == Set("keys", [kind |-> "keys", seq |-> Append(keys, key)])
     IN /\ \/ /\ Works
              /\ Push(IF build.fault = "KDF" /\ keys # <<>>
                      THEN last ELSE Derived(defect, last))
           \/ /\ build.fault = "KDF" => keys = <<>>
              /\ Fails("hkdf")
              /\ \E at \in {0, Len(keys) + 1} :
                   Push([kind |-> "garbage", at |-> at])
        /\ Goto(IF Len(keys) + 1 = N_CHAIN THEN "kdf_seal" ELSE "kdf_chain")
        /\ Drawn(IF keys = <<>> THEN 1 ELSE 0)           \* ikm

(* Message i is sealed under key i.                                        *)
KdfSeal ==
  /\ pc = "kdf_seal"
  /\ Set("ct", [kind |-> "boxes", seq |->
                [i \in 1 .. N_CHAIN |->
                   Sealed(mem.keys.seq[i], Constant, Message(i))]])
  /\ Goto("kdf_open")
  /\ Drawn(N_CHAIN)
  /\ SealsUnseen

KdfOpen ==
  /\ pc = "kdf_open"
  /\ \E ok \in BOOLEAN :
       /\ Opened(ok, \A i \in 1 .. N_CHAIN :
                       /\ Opens(defect, mem.ct.seq[i], mem.keys.seq[i], Constant)
                       /\ SameText(mem.ct.seq[i], Message(i)))
       /\ Assert(ok, "O5-roundtrip", "kdf_separate")
  /\ UNCHANGED <<mem, draws>>

KdfSeparate ==
  /\ pc = "kdf_separate"
  /\ IF "apart" \notin bits THEN Goto("return") /\ Works
     ELSE \E i, j \in 1 .. N_CHAIN, ok \in BOOLEAN :
            /\ i # j
            /\ Reopened(ok, Opens(defect, mem.ct.seq[i], mem.keys.seq[j], Constant))
            /\ Assert(~ ok, "O5-key-separation", "return")
  /\ UNCHANGED <<mem, draws>>

-----------------------------------------------------------------------------
(* mode & 1 chooses; the flipped position is drawn: in the tag, the iv or  *)
(* the ciphertext.                                                         *)
Parts == {"flip_tag", "flip_iv", "flip_ct"}

TradBegin ==
  /\ build.h = "trad"
  /\ \/ /\ build.fault # "REC"
        /\ \E part \in Parts, b \in SUBSET {"empty"} :
             Begin({part} \cup b, "etm_seal", {"buf"})
     \/ /\ build.fault # "ETM"
        /\ \E b \in SUBSET {"empty"} : Begin({"odd"} \cup b, "rec_seal", {"ct"})

EtmSeal ==
  /\ pc = "etm_seal"
  /\ Set("buf", [kind |-> "etm", msg |-> Message(1), flipped |-> "none"])
  /\ Drawn(3) /\ Goto("etm_open")
  /\ SealsUnseen

(* etm_open: the tag first, then CBC, whose padding check may or may not   *)
(* object to a changed block.                                              *)
MacOk(buf) ==
  \/ buf.flipped = "none"
  \/ build.fault = "ETM"
  \/ defect = "mac_constant" /\ buf.flipped # "flip_tag"
EtmOpens(buf, ok) ==
  IF buf.flipped \in {"flip_iv", "flip_ct"} THEN ok => MacOk(buf)
                                            ELSE ok = MacOk(buf)

EtmRoundtrip ==
  /\ pc = "etm_open"
  /\ \E ok \in BOOLEAN :
       /\ Opened(ok, EtmOpens(mem.buf, TRUE) /\ (defect = "cbc_wrong" => "empty" \in bits))
       /\ Assert(ok, "O5-roundtrip", "etm_tamper")
  /\ UNCHANGED <<mem, draws>>

(* An HMAC that fails unseen leaves mac[] as the stack has it, with the    *)
(* tag of the buffer that was opened before, perhaps.                      *)
EtmTamper ==
  /\ pc = "etm_tamper"
  /\ \E ok \in BOOLEAN, part \in bits \cap Parts :
       /\ \/ Works /\ EtmOpens([mem.buf EXCEPT !.flipped = part], ok)
          \/ Fails("open") /\ (ok => part # "flip_tag" \/ build.fault = "ETM")
       /\ Assert(~ ok, "O5-ciphertext-integrity", "return")
  /\ Drawn(1)
  /\ UNCHANGED mem

(* rec_nonce: static_iv ^ seq.                                             *)
RecNonce(seq) == [kind |-> "nonce", seq |-> seq]

RecSeal ==
  /\ pc = "rec_seal"
  /\ Set("ct", Sealed(Random(0), RecNonce(0), Message(1)))
  /\ Drawn(3) /\ Goto("rec_open")
  /\ SealsUnseen

(* rec_open; CMF_FAULT_REC uses the sequence number of the seal.           *)
RecOpens(ct, seq) ==
  Opens(defect, ct, Random(0), RecNonce(IF build.fault = "REC" THEN 0 ELSE seq))

RecRoundtrip ==
  /\ pc = "rec_open"
  /\ \E ok \in BOOLEAN :
       /\ Opened(ok, RecOpens(mem.ct, 0) /\ SameText(mem.ct, Message(1)))
       /\ Assert(ok, "O5-roundtrip", "rec_seq")
  /\ UNCHANGED <<mem, draws>>

RecSeq ==
  /\ pc = "rec_seq"
  /\ \E ok \in BOOLEAN :
       /\ Reopened(ok, RecOpens(mem.ct, 1))
       /\ Assert(~ ok, "O5-seq-binding", "rec_tamper")
  /\ UNCHANGED <<mem, draws>>

(* A ciphertext that two calls that fail unseen, of the seal and of this   *)
(* opening, have left out of the tag can be flipped unnoticed.             *)
RecTamperOpens(ok, ct) ==
  \/ Reopened(ok, RecOpens(ct, 0))
  \/ "seal" \in failed /\ Fails("open") /\ ok = TRUE

(* Mutation: the buffer that was not flipped.                              *)
RecTamper_Untouched ==
  /\ pc = "rec_tamper"
  /\ \E ok \in BOOLEAN :
       /\ RecTamperOpens(ok, mem.ct)
       /\ Assert(~ ok, "O5-tamper", "return")
  /\ Drawn(1)
  /\ UNCHANGED mem

RecTamper ==
  /\ pc = "rec_tamper"
  /\ \E ok \in BOOLEAN :
       /\ RecTamperOpens(ok, Flip(mem.ct))
       /\ Assert(~ ok, "O5-tamper", "return")
  /\ Drawn(1)
  /\ UNCHANGED mem

-----------------------------------------------------------------------------
CompOracles(d) ==
  CASE d \in {"kem_wrong", "sig_rejects", "aead_rejects", "aead_wrong",
              "cbc_wrong"}                 -> {"O5-roundtrip"}
    [] d = "sig_any_msg"                   -> {"O5-transcript-binding"}
    [] d \in {"kdf_identity", "aead_any_key"} -> {"O5-key-separation"}
    [] d = "mac_constant"                  -> {"O5-ciphertext-integrity"}
    [] d = "aead_any_nonce"                -> {"O5-seq-binding"}
    [] d = "aead_no_tag"                   -> {"O5-tamper"}

CompExercises(d) ==
  CASE d \in {"kem_wrong", "sig_rejects", "sig_any_msg"} -> TRUE
    [] d \in {"kdf_identity", "aead_any_key"} ->
         build.h = "kdfchain" /\ "apart" \in bits
    [] d = "cbc_wrong"    -> bits \cap {"odd", "empty"} = {}
    [] d = "mac_constant" -> FALSE         \* the padding check may hide it
    [] OTHER              -> /\ build.h = "trad" => "odd" \in bits
                             /\ d = "aead_wrong" => "empty" \notin bits

CompBegin == AkBegin \/ KdfBegin \/ TradBegin

CompStep ==
  /\ \/ AkKeys \/ AkSign \/ AkVerify \/ AkRecord \/ AkTamper
     \/ KdfChain \/ KdfSeal \/ KdfOpen \/ KdfSeparate
     \/ EtmSeal \/ EtmRoundtrip \/ EtmTamper
     \/ RecSeal \/ RecRoundtrip \/ RecSeq \/ RecTamper
  /\ UNCHANGED <<bits, log>>
=============================================================================
