--------------------------- MODULE ClassicHarness ---------------------------
(***************************************************************************)
(* The targets of the traditional primitives:                              *)
(*   trad_meta   trad_metamorphic_harness.c                                *)
(*   classic     openssl_classic_harness.c                                 *)
(*   multilib    diff_multilib_harness.cpp: up to four libraries, and the  *)
(*               defect is the library that computes wrong values          *)
(* None of them looks at the status of a call.                             *)
(***************************************************************************)
EXTENDS FuzzTarget

ClassicDefects == [
  trad_meta |-> {"hash_unstable", "hash_stream", "mac_no_key", "aead_rejects",
                 "aead_wrong", "aead_no_tag", "aead_any_key"},
  classic   |-> {"hash_unstable", "hash_stream", "aead_rejects", "aead_wrong",
                 "aead_no_tag"},
  multilib  |-> {"openssl", "libsodium", "mbedtls", "cryptopp"}]

-----------------------------------------------------------------------------
(* "split": the message is hashed in more than one piece; "empty": no      *)
(* bytes are left for it (openssl_classic then returns, also when there    *)
(* are more than 4096).                                                    *)
Entry(op) == CASE op = "sha256" -> "digest"
               [] op = "hmac"   -> "hmac"
               [] OTHER         -> "aead"

MetaBegin ==
  /\ build.h \in {"trad_meta", "classic"}
  /\ \E op \in {"sha256", "hmac", "gcm", "chacha"},
        b \in {{}, {"split"}, {"empty"}} :
       /\ build.h = "classic" => op \in {"sha256", "gcm"}
       /\ Begin(b \cup {op}, Entry(op), {"ct", "d1"})

(* A digest or a tag: in how many pieces it was hashed, under which key,   *)
(* and noise.  None of the calls is looked at: after one that failed, the  *)
(* array may hold what an earlier call has left there, or anything else.   *)
Hash(pieces, key, noise) ==
  [kind |-> "hash", pieces |-> pieces, key |-> key, noise |-> noise]
Noises == IF defect = "hash_unstable" THEN {0, 1} ELSE {0}
Digests(pieces) ==
  {Hash(IF defect = "hash_stream" /\ "split" \in bits THEN pieces ELSE 1, 0, noise) :
     noise \in Noises}
Tags(key) ==
  {Hash(1, IF defect = "mac_no_key" THEN 1 ELSE key, noise) : noise \in Noises}
Uninitialised(hashes) == hashes \cup {Garbage}

(* One-shot; trad_metamorphic computes it twice.                           *)
Digest ==
  /\ pc = "digest"
  /\ \E d1, d2 \in Uninitialised(Digests(1)) :
       /\ (Works /\ Garbage \notin {d1, d2}) \/ Fails("digest")
       /\ build.h = "classic" => d2 = d1
       /\ Set("d1", d1)
       /\ Assert(d1 = d2, "determinism", "chunks")
  /\ Drawn(IF build.h = "trad_meta" THEN 2 ELSE 0)

(* In pieces.  The fault hook at trad_metamorphic_harness.c:77 changes the *)
(* split only after it has been used.                                      *)
DigestChunks ==
  /\ pc = "chunks"
  /\ \E d3 \in Uninitialised(Digests(2)) :
       /\ (Works /\ d3 # Garbage) \/ Fails("digest")
       /\ Assert(mem.d1 = d3,
                 IF build.h = "classic" THEN "MR1_chunk_equiv"
                                        ELSE "chunk_consistency", "return")
  /\ UNCHANGED <<mem, draws>>

(* Twice under a key, then under one that differs in a bit.                *)
Hmac ==
  /\ pc = "hmac"
  /\ \E t1, t2 \in Uninitialised(Tags(1)), t3 \in Uninitialised(Tags(1) \cup Tags(2)) :
       /\ \/ Works /\ {t1, t2} \subseteq Tags(1) /\ t3 \in Tags(2)
          \/ Fails("hmac")
       /\ IF t1 # t2 THEN Assert(FALSE, "determinism", "return")
                     ELSE Assert(t1 # t3, "key_sensitivity", "return")
  /\ Drawn(2)
  /\ UNCHANGED mem

RoundtripOracle == IF build.h = "classic" THEN "MR2_roundtrip" ELSE "roundtrip"

(* Key and iv drawn, and the message sealed, whatever comes of it.         *)
AeadSeal ==
  /\ pc = "aead"
  /\ Drawn(2)
  /\ IF build.h = "classic" /\ "empty" \in bits
     THEN Goto("return") /\ UNCHANGED <<mem, failed>>
     ELSE /\ Set("ct", Sealed(Random(0), Random(1), Message(1)))
          /\ SealsUnseen /\ Goto("aead_open")

AeadRoundtrip ==
  /\ pc = "aead_open"
  /\ \E ok \in BOOLEAN :
       /\ Opened(ok, /\ Opens(defect, mem.ct, Random(0), Random(1))
                     /\ SameText(mem.ct, Message(1)))
       /\ Assert(ok, RoundtripOracle, "aead_tamper")
  /\ UNCHANGED <<mem, draws>>

(* A bit of the tag flipped.  openssl_classic flips one of the ciphertext, *)
(* which two calls that fail unseen, of the seal and of this opening, have *)
(* left out of the tag.                                                    *)
TamperOpens(ok) ==
  \/ Reopened(ok, Opens(defect, Flip(mem.ct), Random(0), Random(1)))
  \/ build.h = "classic" /\ "seal" \in failed /\ Fails("open") /\ ok = TRUE

(* Mutation: the fault hook is dead code, as the one of line 77 is.        *)
AeadTamper_NoHook ==
  /\ pc = "aead_tamper"
  /\ \E ok \in BOOLEAN :
       /\ TamperOpens(ok)
       /\ Assert(~ ok, IF build.h = "classic" THEN "MR3_tamper" ELSE "tamper_reject",
                 IF build.h = "classic" THEN "return" ELSE "aead_key")
  /\ UNCHANGED <<mem, draws>>

(* The fault build claims that it was accepted.                            *)
AeadTamper ==
  /\ pc = "aead_tamper"
  /\ \E ok \in BOOLEAN :
       /\ TamperOpens(ok)
       /\ Assert(~ ok /\ build.fault # "TRAD",
                 IF build.h = "classic" THEN "MR3_tamper" ELSE "tamper_reject",
                 IF build.h = "classic" THEN "return" ELSE "aead_key")
  /\ UNCHANGED <<mem, draws>>

(* Opened with a key that differs in a bit.                                *)
OtherKey == [kind |-> "flipped key", of |-> Random(0)]
AeadWrongKey ==
  /\ pc = "aead_key"
  /\ \E ok \in BOOLEAN :
       /\ Reopened(ok, Opens(defect, mem.ct, OtherKey, Random(1)))
       /\ Assert(~ ok, "wrong_key", "return")
  /\ UNCHANGED <<mem, draws>>

-----------------------------------------------------------------------------
All == <<"openssl", "libsodium", "mbedtls", "cryptopp">>

(* The libraries each test asks, in the order of its rs.                   *)
Asked == [
  sha256     |-> All,
  sha512     |-> All,
  hmac256    |-> All,
  chachapoly |-> All,
  aesgcm     |-> <<"openssl", "mbedtls", "cryptopp", "libsodium">>,
  sha1       |-> <<"openssl", "mbedtls", "cryptopp">>,
  sha3_256   |-> <<"openssl", "cryptopp">>,
  sha3_512   |-> <<"openssl", "cryptopp">>,
  hmac512    |-> All,
  hkdf256    |-> <<"openssl", "mbedtls", "cryptopp">>]

(* "aes_hw": crypto_aead_aes256gcm_is_available().                         *)
MultiBegin ==
  /\ build.h = "multilib"
  /\ \E op \in DOMAIN Asked, b \in SUBSET {"aes_hw"} :
       Begin({op} \cup b, "ask", {"rs", "pair"})

Libs == LET op == CHOOSE x \in bits : x \in DOMAIN Asked IN
  IF op = "aesgcm" /\ "aes_hw" \notin bits
  THEN SubSeq(Asked.aesgcm, 1, 3) ELSE Asked[op]

(* One library after the other pushes its result; a call that fails leaves *)
(* the zeros of the vector, in full or in part.                            *)
Asks ==
  /\ pc = "ask"
  /\ LET done == IF mem.rs = Garbage THEN <<>> ELSE mem.rs.seq
         lib == Libs[Len(done) + 1]
         Push(v) == Set("rs", [kind |-> "results", seq |-> Append(done, v)])
         wrong == lib = defect \/ (build.fault = "DIFF" /\ "sha256" \in bits
                                   /\ lib = "cryptopp")
     IN /\ \/ Works /\ Push(IF wrong THEN "wrong" ELSE "right")
           \/ Fails("compute") /\ \E v \in {"zeros", "partial"} : Push(v)
        /\ Goto(IF Len(done) + 1 = Len(Libs) THEN "agree" ELSE "ask")
  /\ Drawn(IF mem.rs = Garbage THEN 2 ELSE 0)

(* Mutation: the name of the library before the one that disagrees.        *)
Agree_NamesPrevious ==
  /\ pc = "agree"
  /\ LET rs == mem.rs.seq
         differ == {i \in 2 .. Len(rs) : rs[i] # rs[1]}
     IN IF differ = {} THEN Goto("return") /\ UNCHANGED mem
        ELSE LET i == CHOOSE i \in differ : \A j \in differ : i <= j IN
             /\ Set("pair", [kind |-> "pair", names |-> {Libs[1], Libs[i - 1]}])
             /\ Assert(FALSE, "DIFF_mismatch", "return")
  /\ UNCHANGED <<draws, failed>>

(* agree: the first that differs from the first.                           *)
Agree ==
  /\ pc = "agree"
  /\ LET rs == mem.rs.seq
         differ == {i \in 2 .. Len(rs) : rs[i] # rs[1]}
     IN IF differ = {} THEN Goto("return") /\ UNCHANGED mem
        ELSE LET i == CHOOSE i \in differ : \A j \in differ : i <= j IN
             /\ Set("pair", [kind |-> "pair", names |-> {Libs[1], Libs[i]}])
             /\ Assert(FALSE, "DIFF_mismatch", "return")
  /\ UNCHANGED <<draws, failed>>

-----------------------------------------------------------------------------
ClassicOracles(d) ==
  CASE d = "hash_unstable" -> IF build.h = "classic" THEN {"MR1_chunk_equiv"}
                              ELSE {"determinism", "chunk_consistency"}
    [] d = "hash_stream"   -> {"chunk_consistency", "MR1_chunk_equiv"}
    [] d = "mac_no_key"    -> {"key_sensitivity"}
    [] d \in {"aead_rejects", "aead_wrong"} -> {RoundtripOracle}
    [] d = "aead_no_tag"   -> {"tamper_reject", "MR3_tamper"}
    [] d = "aead_any_key"  -> {"wrong_key"}
    [] OTHER               -> {"DIFF_mismatch"}

ClassicExercises(d) ==
  CASE d = "hash_unstable" -> FALSE
    [] d = "hash_stream"   -> {"sha256", "split"} \subseteq bits
    [] d = "mac_no_key"    -> "hmac" \in bits
    [] d = "aead_wrong"    -> bits \cap {"gcm", "chacha"} # {} /\ "empty" \notin bits
    [] d \in {"aead_rejects", "aead_no_tag", "aead_any_key"} ->
         /\ bits \cap {"gcm", "chacha"} # {}
         /\ build.h = "classic" => "empty" \notin bits
    [] OTHER -> \E i \in DOMAIN Libs : Libs[i] = d

ClassicBegin == MetaBegin \/ MultiBegin

ClassicStep ==
  /\ \/ Digest \/ DigestChunks \/ Hmac
     \/ AeadSeal \/ AeadRoundtrip \/ AeadTamper \/ AeadWrongKey
     \/ Asks \/ Agree
  /\ UNCHANGED <<bits, log>>
=============================================================================
