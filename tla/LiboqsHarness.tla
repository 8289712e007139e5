--------------------------- MODULE LiboqsHarness ---------------------------
(***************************************************************************)
(* liboqs_kem_harness.c and liboqs_sig_harness.c: the metamorphic          *)
(* relations on one scheme.  "bits" are the mode bits; the buffer ss_d2    *)
(* is used by three relations in turn.                                     *)
(***************************************************************************)
EXTENDS FuzzTarget

KemDefects == {"kem_wrong", "kem_unstable", "kem_malleable", "kem_any_key",
               "kem_memory"}
SigDefects == {"sig_rejects", "sig_any_msg", "sig_malleable", "sig_any_key",
               "sig_memory"}

-----------------------------------------------------------------------------
KemBegin ==
  /\ build.h = "kem"
  /\ \E b \in SUBSET {"MR2", "MR3", "MEM"} :
       Begin(b, "kem_keypair", {"pair", "pair2", "ct", "ss_e", "ss_d", "ss_d2"})

KemKeypair ==
  /\ pc = "kem_keypair"
  /\ \/ /\ Works /\ Set("pair", Pair(draws)) /\ Drawn(1)
        /\ Goto("kem_encaps")
     \/ Fails("keypair") /\ Goto("return") /\ UNCHANGED <<mem, draws>>

KemEncaps ==
  /\ pc = "kem_encaps"
  /\ \/ /\ Works /\ Drawn(1)
        /\ mem' = [mem EXCEPT !.ct = Cipher(mem.pair, draws),
                              !.ss_e = Secret(Cipher(mem.pair, draws))]
        /\ Goto("kem_MR1")
     \/ Fails("encaps") /\ Goto("return") /\ UNCHANGED <<mem, draws>>

(* decaps into the buffer ss, by the secret key of pair.                   *)
DecapsInto(ss, ct, pair) ==
  Works /\ \E s \in Decapsulations(defect, ct, pair) : Set(ss, s)

(* Correctness; the fault hook corrupts ss_d before the comparison.        *)
KemMR1 ==
  /\ pc = "kem_MR1"
  /\ \/ /\ Works
        /\ \E s \in Decapsulations(defect, mem.ct, mem.pair) :
             Set("ss_d", IF build.fault = "MR1" THEN Garbage ELSE s)
        /\ Assert(mem'.ss_d = mem.ss_e, "MR1_correctness", "kem_MR4")
     \/ /\ Fails("decaps")
        /\ Assert(FALSE, "MR1_decaps_status", "kem_MR4") /\ UNCHANGED mem
  /\ UNCHANGED draws

KemMR4 ==
  /\ pc = "kem_MR4"
  /\ \/ /\ DecapsInto("ss_d2", mem.ct, mem.pair)
        /\ Assert(mem'.ss_d2 = mem.ss_d, "MR4_determinism", "kem_MR2")
     \/ Fails("decaps") /\ Goto("kem_MR2") /\ UNCHANGED mem
  /\ UNCHANGED draws

(* Mutation: the status is not looked at, so that ss_d2 may be stale.      *)
KemMR2_AnyStatus ==
  /\ pc = "kem_MR2"
  /\ IF "MR2" \in bits
     THEN /\ \/ DecapsInto("ss_d2", Flip(mem.ct), mem.pair)
             \/ Fails("decaps") /\ UNCHANGED mem
          /\ Assert(mem'.ss_d2 # mem.ss_e, "MR2_malleability", "kem_MR3")
     ELSE Goto("kem_MR3") /\ UNCHANGED <<mem, failed>>
  /\ UNCHANGED draws

KemMR2 ==
  /\ pc = "kem_MR2"
  /\ \/ "MR2" \notin bits /\ Goto("kem_MR3") /\ UNCHANGED <<mem, failed>>
     \/ /\ "MR2" \in bits /\ DecapsInto("ss_d2", Flip(mem.ct), mem.pair)
        /\ Assert(mem'.ss_d2 # mem.ss_e, "MR2_malleability", "kem_MR3")
     \/ "MR2" \in bits /\ Fails("decaps") /\ Goto("kem_MR3") /\ UNCHANGED mem
  /\ UNCHANGED draws

(* A second key pair, then its decapsulation of the first one's ct.        *)
KemMR3Keypair ==
  /\ pc = "kem_MR3"
  /\ \/ "MR3" \notin bits /\ Goto("kem_MEM") /\ UNCHANGED <<mem, draws, failed>>
     \/ /\ "MR3" \in bits /\ Works
        /\ Set("pair2", Pair(draws)) /\ Drawn(1) /\ Goto("kem_MR3b")
     \/ /\ "MR3" \in bits /\ Fails("keypair") /\ Goto("kem_MEM")
        /\ UNCHANGED <<mem, draws>>

KemMR3 ==
  /\ pc = "kem_MR3b"
  /\ \/ /\ DecapsInto("ss_d2", mem.ct, mem.pair2)
        /\ Assert(mem'.ss_d2 # mem.ss_e, "MR3_wrong_key", "kem_MEM")
     \/ Fails("decaps") /\ Goto("kem_MEM") /\ UNCHANGED mem
  /\ UNCHANGED draws

(* The input's own bytes into decaps: only a sanitizer may object.         *)
KemMEM ==
  /\ pc = "kem_MEM"
  /\ Assert("MEM" \in bits => defect # "kem_memory", "sanitizer", "return")
  /\ UNCHANGED <<mem, draws, failed>>

KemStep ==
  \/ KemKeypair \/ KemEncaps \/ KemMR1 \/ KemMR4 \/ KemMR2
  \/ KemMR3Keypair \/ KemMR3 \/ KemMEM

(* Which relation notices a defect, and in which inputs it must.           *)
KemOracles(d) ==
  CASE d = "kem_wrong"     -> {"MR1_correctness"}
    [] d = "kem_unstable"  -> {"MR1_correctness", "MR4_determinism"}
    [] d = "kem_malleable" -> {"MR2_malleability"}
    [] d = "kem_any_key"   -> {"MR3_wrong_key"}
    [] d = "kem_memory"    -> {"sanitizer"}

KemExercises(d) ==
  CASE d = "kem_wrong"     -> TRUE
    [] d = "kem_unstable"  -> FALSE
    [] d = "kem_malleable" -> "MR2" \in bits
    [] d = "kem_any_key"   -> "MR3" \in bits
    [] d = "kem_memory"    -> "MEM" \in bits

-----------------------------------------------------------------------------
(* "one" says that the message has a single byte (tail_len % 256 = 0).     *)
SigBegin ==
  /\ build.h = "sig"
  /\ \E b \in SUBSET {"MR2", "MR3", "MR4", "MEM", "one"} :
       Begin(b, "sig_keypair", {"pair", "pair2", "msg", "sig"})

SigKeypair ==
  /\ pc = "sig_keypair"
  /\ \/ /\ Works /\ Drawn(1) /\ Goto("sig_sign")
        /\ mem' = [mem EXCEPT !.pair = Pair(draws), !.msg = Message(1)]
     \/ Fails("keypair") /\ Goto("return") /\ UNCHANGED <<mem, draws>>

SigSign ==
  /\ pc = "sig_sign"
  /\ \/ Works /\ Set("sig", Signature(mem.pair, mem.msg)) /\ Goto("sig_MR1")
     \/ Fails("sign") /\ Goto("return") /\ UNCHANGED mem
  /\ Drawn(1)

SigMR1 ==
  /\ pc = "sig_MR1"
  /\ \E ok \in BOOLEAN :
       /\ Verify(ok, mem.sig, mem.msg, mem.pair)
       /\ Assert(ok, "MR1_correctness", "sig_fault")
  /\ UNCHANGED <<mem, draws>>

(* CMF_FAULT_MR3: a byte is changed and restored before the call.          *)
SigFault ==
  /\ pc = "sig_fault"
  /\ \/ build.fault # "MR3" /\ Goto("sig_MR2") /\ UNCHANGED failed
     \/ /\ build.fault = "MR3"
        /\ \E ok \in BOOLEAN :
             /\ Verify(ok, mem.sig, mem.msg, mem.pair)
             /\ Assert(~ ok, "MR3_strong_unforgeability", "sig_MR2")
  /\ UNCHANGED <<mem, draws>>

(* A relation that must refuse: sig over msg under pair.                   *)
Refuses(on, sig, msg, pair, oracle, next) ==
  \/ ~ on /\ Goto(next) /\ UNCHANGED failed
  \/ on /\ \E ok \in BOOLEAN :
       Verify(ok, sig, msg, pair) /\ Assert(~ ok, oracle, next)

SigMR2 ==
  /\ pc = "sig_MR2"
  /\ Refuses("MR2" \in bits /\ "one" \notin bits, mem.sig, Message(2), mem.pair,
             "MR2_message_binding", "sig_MR3")
  /\ UNCHANGED <<mem, draws>>

SigMR3 ==
  /\ pc = "sig_MR3"
  /\ Refuses("MR3" \in bits, Flip(mem.sig), mem.msg, mem.pair,
             "MR3_strong_unforgeability", "sig_MR4")
  /\ UNCHANGED <<mem, draws>>

SigMR4Keypair ==
  /\ pc = "sig_MR4"
  /\ \/ "MR4" \notin bits /\ Goto("sig_MEM") /\ UNCHANGED <<mem, draws, failed>>
     \/ /\ "MR4" \in bits /\ Works
        /\ Set("pair2", Pair(draws)) /\ Drawn(1) /\ Goto("sig_MR4b")
     \/ /\ "MR4" \in bits /\ Fails("keypair") /\ Goto("sig_MEM")
        /\ UNCHANGED <<mem, draws>>

(* Mutation: MR2's changed message is used again.                          *)
SigMR4_OtherMessage ==
  /\ pc = "sig_MR4b"
  /\ Refuses(TRUE, mem.sig, Message(2), mem.pair2, "MR4_wrong_key", "sig_MEM")
  /\ UNCHANGED <<mem, draws>>

SigMR4 ==
  /\ pc = "sig_MR4b"
  /\ Refuses(TRUE, mem.sig, mem.msg, mem.pair2, "MR4_wrong_key", "sig_MEM")
  /\ UNCHANGED <<mem, draws>>

SigMEM ==
  /\ pc = "sig_MEM"
  /\ Assert("MEM" \in bits => defect # "sig_memory", "sanitizer", "return")
  /\ UNCHANGED <<mem, draws, failed>>

SigStep ==
  \/ SigKeypair \/ SigSign \/ SigMR1 \/ SigFault \/ SigMR2 \/ SigMR3
  \/ SigMR4Keypair \/ SigMR4 \/ SigMEM

SigOracles(d) ==
  CASE d = "sig_rejects"   -> {"MR1_correctness"}
    [] d = "sig_any_msg"   -> {"MR2_message_binding"}
    [] d = "sig_malleable" -> {"MR3_strong_unforgeability"}
    [] d = "sig_any_key"   -> {"MR4_wrong_key"}
    [] d = "sig_memory"    -> {"sanitizer"}

SigExercises(d) ==
  CASE d = "sig_rejects"   -> TRUE
    [] d = "sig_any_msg"   -> "MR2" \in bits /\ "one" \notin bits
    [] d = "sig_malleable" -> "MR3" \in bits
    [] d = "sig_any_key"   -> "MR4" \in bits
    [] d = "sig_memory"    -> "MEM" \in bits

LiboqsBegin == KemBegin \/ SigBegin
LiboqsStep == (KemStep \/ SigStep) /\ UNCHANGED <<bits, log>>
=============================================================================
