---------------------------- MODULE HpkeHarness ----------------------------
(***************************************************************************)
(* comp_hpke_harness.c, with either backend: a message is sealed the HPKE  *)
(* way (KEM, HKDF bound to info, AES-GCM) and opened as the recipient,     *)
(* under another info, and with a tampered encapsulated key.  The keys are *)
(* globals, which an input leaves behind unless it tears them down.        *)
(*                                                                         *)
(* info is the aad too, and no oracle opens with another aad.              *)
(***************************************************************************)
EXTENDS FuzzTarget

HpkeBuilds == {"hpke_x25519", "hpke_mlkem"}
HpkeDefects == {"kem_wrong", "kem_malleable", "kdf_no_info", "aead_rejects",
                "aead_wrong", "aead_any_key"}

EncLen == [hpke_x25519 |-> 32, hpke_mlkem |-> 1088]        \* ENC_LEN
SizeofEnc == 64

(* "odd": tflag & 1; "alt": info is the alternative info itself; "empty":  *)
(* no bytes are left for the message.                                      *)
HpkeBegin ==
  /\ build.h \in HpkeBuilds
  /\ \E b \in SUBSET {"odd", "alt", "empty"} :
       Begin(b, "hpke_setup", {"g_skR", "g_eph", "enc", "ct", "ss_recv"})

Info == IF "alt" \in bits THEN "altinfo" ELSE "info"

(* key_schedule                                                            *)
Schedule(ss, info) ==
  [kind |-> "schedule", ss |-> ss, info |-> IF defect = "kdf_no_info" THEN "" ELSE info]

(* kem_teardown                                                            *)
Teardown == [mem EXCEPT !.g_skR = NULL, !.g_eph = NULL]

(* kem_setup.  It fails before there is a key or with one made ("if        *)
(* (!x25519_pub(...)) return 0"), and then nothing is torn down.           *)
HpkeSetup ==
  /\ pc = "hpke_setup"
  /\ \/ Works /\ Set("g_skR", Pair(1)) /\ Goto("hpke_encaps")
     \/ /\ Fails("keypair") /\ Goto("return")
        /\ \E made \in {NULL, Pair(1)} : Set("g_skR", made)
  /\ UNCHANGED <<draws, log>>

(* Mutation: kem_encaps fails and the globals are left.                    *)
HpkeEncaps_NoTeardown ==
  /\ pc = "hpke_encaps"
  /\ IF EncLen[build.h] > SizeofEnc
     THEN Works /\ mem' = Teardown /\ Goto("return")
     ELSE \/ /\ Works /\ Goto("hpke_seal")
             /\ mem' = [mem EXCEPT !.g_eph = Pair(2), !.enc = Cipher(mem.g_skR, 2)]
          \/ /\ Fails("encaps") /\ Goto("return")
             /\ \E made \in {NULL, Pair(2)} : Set("g_eph", made)
  /\ UNCHANGED <<draws, log>>

(* Mutation: the guard is off by a comparison.                             *)
HpkeEncaps_AnyLength ==
  /\ pc = "hpke_encaps"
  /\ IF EncLen[build.h] >= 32
     THEN Works /\ mem' = Teardown /\ Goto("return")
     ELSE \/ /\ Works /\ Goto("hpke_seal")
             /\ mem' = [mem EXCEPT !.g_eph = Pair(2), !.enc = Cipher(mem.g_skR, 2)]
          \/ Fails("encaps") /\ mem' = Teardown /\ Goto("return")
  /\ UNCHANGED <<draws, log>>

(* The guard on ENC_LEN, then kem_encaps.                                  *)
HpkeEncaps ==
  /\ pc = "hpke_encaps"
  /\ IF EncLen[build.h] > SizeofEnc
     THEN Works /\ mem' = Teardown /\ Goto("return")
     ELSE \/ /\ Works /\ Goto("hpke_seal")
             /\ mem' = [mem EXCEPT !.g_eph = Pair(2), !.enc = Cipher(mem.g_skR, 2)]
          \/ Fails("encaps") /\ mem' = Teardown /\ Goto("return")
  /\ UNCHANGED <<draws, log>>

(* The sender's key_schedule and gcm_seal, then kem_decaps.  The status of *)
(* gcm_seal is not looked at.                                              *)
HpkeSeal ==
  /\ pc = "hpke_seal"
  /\ \/ /\ SealsUnseen /\ Goto("hpke_open")
        /\ \E ss \in Decapsulations(defect, mem.enc, mem.g_skR) :
             mem' = [mem EXCEPT !.ss_recv = ss,
               !.ct = Sealed(Schedule(Secret(mem.enc), Info), Constant, Message(1))]
     \/ (Fails("hkdf") \/ Fails("decaps")) /\ mem' = Teardown /\ Goto("return")
  /\ UNCHANGED <<draws, log>>

(* The recipient's key_schedule and gcm_open, whose statuses are not       *)
(* looked at: what an uninitialised key opens is anybody's guess.  Only    *)
(* under the sender's own schedule may a box that was not sealed open.     *)
RecipientOpens(ok, ss, info) ==
  LET schedule == Schedule(ss, info)
      opens == Opens(defect, mem.ct, schedule, Constant)
  IN \/ IF schedule = mem.ct.key THEN Opened(ok, opens) ELSE Reopened(ok, opens)
     \/ Fails("hkdf") /\ ok \in BOOLEAN

Judged(oracle) == log' = log \cup {[what |-> "judged", oracle |-> oracle]}

HpkeRoundtrip ==
  /\ pc = "hpke_open"
  /\ \E ok \in BOOLEAN :
       /\ RecipientOpens(ok, mem.ss_recv, Info)
       /\ Assert(ok /\ SameText(mem.ct, Message(1)), "O5-roundtrip",
                 IF "odd" \in bits THEN "hpke_bind" ELSE "hpke_tamper")
  /\ Judged("O5-roundtrip")
  /\ UNCHANGED <<mem, draws>>

HpkeBinding ==
  /\ pc = "hpke_bind"
  /\ \E ok \in BOOLEAN :
       /\ RecipientOpens(ok, mem.ss_recv, "altinfo")
       /\ Assert(~ ok, "O5-context-binding", "hpke_tamper")
  /\ Judged("O5-context-binding")
  /\ UNCHANGED <<mem, draws>>

(* CMF_FAULT_HPKE takes the sender's secret for the recipient's.           *)
HpkeTamper ==
  /\ pc = "hpke_tamper"
  /\ \/ \E ok \in BOOLEAN,
           ss \in IF build.fault = "HPKE" THEN {Secret(mem.enc)}
                  ELSE Decapsulations(defect, Flip(mem.enc), mem.g_skR) :
          /\ RecipientOpens(ok, ss, Info)
          /\ Assert(~ ok, "O5-upstream-tamper", "hpke_end")
          /\ Judged("O5-upstream-tamper")
     \/ /\ build.fault # "HPKE"                  \* the KEM refuses
        /\ Fails("decaps") /\ Goto("hpke_end") /\ UNCHANGED log
  /\ UNCHANGED <<mem, draws>>

HpkeEnd ==
  /\ pc = "hpke_end" /\ Goto("return")
  /\ mem' = Teardown
  /\ UNCHANGED <<draws, failed, log>>

-----------------------------------------------------------------------------
HpkeOracles(d) ==
  CASE d = "kdf_no_info"   -> {"O5-context-binding"}
    [] d = "kem_malleable" -> {"O5-upstream-tamper"}
    [] d = "aead_any_key"  -> {"O5-context-binding", "O5-upstream-tamper"}
    [] OTHER               -> {"O5-roundtrip"}

HpkeExercises(d) ==
  CASE d = "kdf_no_info" -> "odd" \in bits
    [] d = "aead_wrong"  -> "empty" \notin bits
    [] OTHER             -> TRUE

HpkeStep ==
  /\ \/ HpkeSetup \/ HpkeEncaps \/ HpkeSeal
     \/ HpkeRoundtrip \/ HpkeBinding \/ HpkeTamper \/ HpkeEnd
  /\ UNCHANGED bits
=============================================================================
