---------------------------- MODULE FuzzTargets ----------------------------
(***************************************************************************)
(* Every libFuzzer target of the five families, one input after another,   *)
(* with a right library, a library with one defect, or the fault that its  *)
(* CMF_FAULT_ macro injects into a copy of the target built for            *)
(* tests/negative_tests.sh.                                                *)
(***************************************************************************)
EXTENDS LiboqsHarness, SequenceHarness, CompositionHarness, HpkeHarness,
        ClassicHarness, HomomorphicHarness

(* Every target as it is fuzzed, and every build of negative_tests.sh.     *)
FaultsOf == [
  kem |-> {"MR1"}, sig |-> {"MR3"},
  seq_aead |-> {"NONCE", "RELEASE"}, seq_oneshot |-> {"NONCE", "RELEASE"},
  seq_ecdsa |-> {"KREUSE"}, seq_evp |-> {"IV", "UAF"}, seq_pqc |-> {"KEMSWAP"},
  authkem |-> {"AK"}, kdfchain |-> {"KDF"}, trad |-> {"ETM", "REC"},
  hpke_x25519 |-> {"HPKE"}, hpke_mlkem |-> {},
  trad_meta |-> {"TRAD"}, classic |-> {}, multilib |-> {"DIFF"},
  seal_bfv |-> {}, bfv_diff |-> {"FHE"}, ckks |-> {"FHE"}, ckks_diff |-> {"FHE"},
  tfhe |-> {"fault"}, zk |-> {"fault"}]
TargetBuilds ==
  UNION {[h : {x}, fault : {"none"} \cup FaultsOf[x]] : x \in DOMAIN FaultsOf}

ASSUME BuildsOK == Builds \subseteq TargetBuilds

DefectsOf(h) ==
  CASE h = "kem"                 -> KemDefects
    [] h = "sig"                 -> SigDefects
    [] h \in AeadSeq             -> AeadDefects
    [] h = "seq_ecdsa"           -> EcdsaDefects
    [] h = "seq_pqc"             -> PqcDefects
    [] h \in DOMAIN CompDefects  -> CompDefects[h]
    [] h \in HpkeBuilds          -> HpkeDefects
    [] h \in DOMAIN ClassicDefects -> ClassicDefects[h]
    [] h \in DOMAIN HomomorphicDefects -> HomomorphicDefects[h]
    [] OTHER                     -> {}

Init ==
  /\ TargetInit
  /\ defect \in {"none"} \cup (IF build.fault = "none" THEN DefectsOf(build.h) ELSE {})

Begins == \/ LiboqsBegin \/ SequenceBegin \/ CompBegin \/ HpkeBegin \/ ClassicBegin
          \/ HomomorphicBegin
Steps == \/ LiboqsStep \/ SequenceStep \/ CompStep \/ HpkeStep \/ ClassicStep
         \/ HomomorphicStep

Next ==
  \/ (Begins \/ Steps \/ Return) /\ UNCHANGED <<build, defect>>
  \/ Aborted

Spec == Init /\ [][Next]_ftvars

-----------------------------------------------------------------------------
(* Every location and report is one of the code's, and an aborted process  *)
(* has said why (CMF_VIOLATION prints before it aborts).                   *)
TypeOK ==
  /\ build \in Builds
  /\ defect \in {"none"} \cup DefectsOf(build.h)
  /\ draws \in 0 .. 6
  /\ failed \subseteq Failing
  /\ pc = "abort" => report # "none"
  /\ report # "none" => pc = "abort" \/ build.h \in Counting

(* The calls whose status a target does not look at, by the oracles that   *)
(* then accuse the library.                                                *)
Unchecked ==
  {"kem"} \X {"decaps"} \X {"MR1_decaps_status"} \cup
  {"sig"} \X {"verify"} \X {"MR1_correctness"} \cup
  {"authkem"} \X {"pub", "sign", "verify", "hkdf", "seal", "open"} \X {"O5-roundtrip"} \cup
  {"kdfchain"} \X {"hkdf"} \X {"O5-key-separation"} \cup
  {"kdfchain", "trad", "hpke_x25519"} \X {"seal", "open"} \X {"O5-roundtrip"} \cup
  {"trad"} \X {"open"} \X {"O5-ciphertext-integrity", "O5-tamper"} \cup
  {"hpke_x25519"} \X {"hkdf"} \X {"O5-roundtrip", "O5-context-binding",
                                  "O5-upstream-tamper"} \cup
  {"seq_aead"} \X {"seal"} \X {"O6-release-before-verify"} \cup
  {"seq_evp"} \X {"seal"} \X {"O6-iv-unpredictability"} \cup
  {"seq_ecdsa"} \X {"rand"} \X {"O6-ecdsa-k-uniqueness"} \cup
  {"seq_ecdsa"} \X {"sign", "verify"} \X {"O6-sign-verify"} \cup
  {"trad_meta"} \X {"digest"} \X {"determinism", "chunk_consistency"} \cup
  {"trad_meta"} \X {"hmac"} \X {"determinism", "key_sensitivity"} \cup
  {"trad_meta"} \X {"seal", "open"} \X {"roundtrip"} \cup
  {"classic"} \X {"digest"} \X {"MR1_chunk_equiv"} \cup
  {"classic"} \X {"seal", "open"} \X {"MR2_roundtrip"} \cup
  {"classic"} \X {"open"} \X {"MR3_tamper"} \cup
  {"multilib"} \X {"compute"} \X {"DIFF_mismatch"}

(* comp_hpke opens with "another" info that is the info of the input.      *)
AltInfoAlarm == report = "O5-context-binding" /\ "alt" \in bits

(* A right library is never accused, whatever the input, whichever call    *)
(* fails and however many inputs came before; except for the calls whose   *)
(* failure a target cannot tell from a wrong result, and but for the input *)
(* of comp_hpke whose info is already the alternative one.                 *)
NoFalseAlarm ==
  report # "none" /\ build.fault = "none" /\ defect = "none" =>
    \/ \E call \in failed : <<build.h, call, report>> \in Unchecked
    \/ AltInfoAlarm

OraclesOf(d) ==
  CASE build.h \in {"kem"}                -> KemOracles(d)
    [] build.h \in {"sig"}                -> SigOracles(d)
    [] build.h \in DOMAIN CompDefects     -> CompOracles(d)
    [] build.h \in HpkeBuilds             -> HpkeOracles(d)
    [] build.h \in DOMAIN ClassicDefects  -> ClassicOracles(d)
    [] build.h \in DOMAIN HomomorphicDefects -> HomomorphicOracles(d)
    [] OTHER                              -> SequenceOracles(d)

Exercises(d) ==
  CASE build.h \in {"kem"}                -> KemExercises(d)
    [] build.h \in {"sig"}                -> SigExercises(d)
    [] build.h \in DOMAIN CompDefects     -> CompExercises(d)
    [] build.h \in HpkeBuilds             -> HpkeExercises(d)
    [] build.h \in DOMAIN ClassicDefects  -> ClassicExercises(d)
    [] build.h \in DOMAIN HomomorphicDefects -> HomomorphicExercises(d)
    [] OTHER                              -> SequenceExercises(d)

(* An input that exercises the defect of the library, and in which every   *)
(* call succeeds, does not return from the target; the programs that count *)
(* their violations have printed one.                                      *)
DefectCaught ==
  pc = "return" /\ failed = {} /\ defect # "none" =>
    report # "none" \/ ~ Exercises(defect)

(* A library with a defect is accused by the oracle written for it, and    *)
(* agree() of diff_multilib never blames a pair of right libraries.        *)
RightOracle ==
  report # "none" /\ failed = {} =>
    /\ defect # "none" => report \in OraclesOf(defect) \/ AltInfoAlarm
    /\ build.h = "multilib" =>
         (IF defect = "none" THEN "cryptopp" ELSE defect) \in mem.pair.names

(* The oracle each self-test of tests/negative_tests.sh greps for.  UAF is *)
(* undefined behaviour: AddressSanitizer may end the process before the    *)
(* line the self-test greps for is printed.                                *)
Expected(fault) ==
  CASE fault = "MR1"     -> {"MR1_correctness"}
    [] fault = "MR3"     -> {"MR3_strong_unforgeability"}
    [] fault = "TRAD"    -> {"tamper_reject"}
    [] fault = "ETM"     -> {"O5-ciphertext-integrity"}
    [] fault = "REC"     -> {"O5-seq-binding"}
    [] fault = "AK"      -> {"O5-transcript-binding"}
    [] fault = "HPKE"    -> {"O5-upstream-tamper"}
    [] fault = "KDF"     -> {"O5-key-separation"}
    [] fault = "NONCE"   -> {"O6-nonce-uniqueness"}
    [] fault = "RELEASE" -> {"O6-release-before-verify"}
    [] fault = "KREUSE"  -> {"O6-ecdsa-k-uniqueness"}
    [] fault = "KEMSWAP" -> {"O6-kem-key-confusion"}
    [] fault = "IV"      -> {"O6-iv-unpredictability"}
    [] fault = "UAF"     -> {"O6-ctx-use-after-free", "sanitizer"}
    [] fault = "DIFF"    -> {"DIFF_mismatch"}
    [] fault = "FHE"     -> {"add disagree", "add error"}
    [] fault = "fault"   -> {"mul", "completeness"}

(* The inputs that reach an injected fault.                                *)
Reaches(fault) ==
  CASE fault = "TRAD"    -> bits \cap {"gcm", "chacha"} # {}
    [] fault = "ETM"     -> "flip_tag" \in bits
    [] fault = "KDF"     -> "apart" \in bits
    [] fault = "NONCE"   -> build.h = "seq_oneshot" => "tiny" \notin bits
    [] fault = "RELEASE" -> "tamper" \in bits /\ "tiny" \notin bits
    [] fault \in {"IV", "UAF"} -> "tiny" \notin bits
    [] fault = "DIFF"    -> "sha256" \in bits
    [] OTHER             -> TRUE

(* A self-test build notices its own fault in every input that reaches it, *)
(* and says so with the oracle the self-test greps for.                    *)
FaultFires ==
  build.fault # "none" /\ failed = {} =>
    /\ pc = "return" => report # "none" \/ ~ Reaches(build.fault)
    /\ report # "none" => report \in Expected(build.fault) \/ AltInfoAlarm

(* Between two inputs, and while comp_hpke works on one, its globals hold  *)
(* no key of another input: every way out tears them down, but for the     *)
(* setup that fails with its key made.                                     *)
KeysOfThisInput ==
  build.h \in HpkeBuilds =>
    /\ pc = "return" => /\ mem.g_eph = NULL
                        /\ mem.g_skR = NULL \/ "keypair" \in failed
    /\ pc \notin {"idle", "return", "hpke_setup"} =>
         mem.g_skR = Pair(1) /\ mem.g_eph \in {NULL, Pair(2)}

(* An input of comp_hpke in which no call fails is judged by both its      *)
(* unconditional oracles, with each of the backends the header names:      *)
(* "classical X25519" and "post-quantum ML-KEM-768".                       *)
OraclesReached ==
  build.h \in HpkeBuilds /\ pc = "return" /\ failed = {} =>
    \A o \in {"O5-roundtrip", "O5-upstream-tamper"} :
      [what |-> "judged", oracle |-> o] \in log

(* An input that returns has kept the contract of the L3 targets: no two   *)
(* encryptions or signatures under one key and nonce, no plaintext of a    *)
(* tampered ciphertext handed on, no freed context used.                   *)
ContractKept ==
  pc = "return" =>
    \A e \in log :
      /\ e # Touched
      /\ e.what = "handed on" => ~ e.box.flipped
      /\ e.what = "sealed" =>
           \A f \in log : f.what = "sealed" /\ f.nth # e.nth =>
                            <<e.key, e.nonce>> # <<f.key, f.nonce>>
=============================================================================
