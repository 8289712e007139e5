----------------------------- MODULE FuzzTarget -----------------------------
(***************************************************************************)
(* What the libFuzzer targets share (engine/cmfuzz_common.h): a process    *)
(* that takes one input after another, the generator seeded from each      *)
(* input, calls into a library that may fail, and oracles that abort.      *)
(*                                                                         *)
(* An input is abstracted to bits, the decisions the target takes from it. *)
(* One shorter than the target's minimum changes nothing and is left out.  *)
(***************************************************************************)
EXTENDS Primitives, Sequences

CONSTANTS
  Builds,      \* [h, fault]: a harness and its CMF_FAULT_ macro, or "none"
  Failing      \* library calls that may fail

VARIABLES
  build,       \* the target that runs
  defect,      \* of the library linked into it, or "none"
  pc,
  bits,        \* of this input
  mem,         \* locals of this input
  draws,       \* values drawn from g_cmf_prng since cmf_prng_seed
  failed,      \* calls that failed in this input
  log,         \* what this input did with keys and nonces (a history)
  report       \* oracle= of the CMF_VIOLATION line

ftvars == <<build, defect, pc, bits, mem, draws, failed, log, report>>

TargetInit ==
  /\ build \in Builds
  /\ pc = "idle" /\ bits = {} /\ mem = [x \in {} |-> Garbage] /\ draws = 0
  /\ failed = {} /\ log = {} /\ report = "none"

(* Static variables start as NULL and keep, from one input to the next,    *)
(* what an earlier input has left in them; locals are uninitialised.       *)
Globals == {"g_skR", "g_eph"}
NULL == [kind |-> "null"]
Stale == [kind |-> "stale"]
Fresh(locals) ==
  [x \in locals |-> IF x \notin Globals THEN Garbage
                    ELSE IF x \notin DOMAIN mem \/ mem[x] = NULL THEN NULL
                    ELSE Stale]

(* Mutation: without cmf_prng_seed.                                        *)
Begin_NotSeeded(b, entry, locals) ==
  /\ pc = "idle" /\ pc' = entry
  /\ bits' = b
  /\ mem' = Fresh(locals)
  /\ failed' = {} /\ log' = {}
  /\ UNCHANGED <<draws, report>>

(* cmf_prng_seed and the reading of the input.                             *)
Begin(b, entry, locals) ==
  /\ pc = "idle" /\ pc' = entry
  /\ bits' = b
  /\ mem' = Fresh(locals)
  /\ draws' = 0 /\ failed' = {} /\ log' = {}
  /\ UNCHANGED report

Return ==
  /\ pc = "return" /\ pc' = "idle"
  /\ UNCHANGED <<bits, mem, draws, failed, log, report>>

(* abort(), after which libFuzzer saves the input and ends; or the end of  *)
(* a program whose exception nobody catches.                               *)
Aborted == pc \in {"abort", "terminated"} /\ UNCHANGED ftvars

Goto(next) == pc' = next /\ UNCHANGED report

(* CMF_ASSERT                                                              *)
Assert(holds, oracle, next) ==
  IF holds THEN Goto(next) ELSE pc' = "abort" /\ report' = oracle

Set(x, v) == mem' = [mem EXCEPT ![x] = v]

(* k values drawn: each splitmix step moves the state, so no two of an     *)
(* input are the same.                                                     *)
Drawn(k) == draws' = draws + k

Works == UNCHANGED failed
Fails(call) == call \in Failing /\ failed' = failed \cup {call}

(* A verification answers as it should, or errs and so refuses.            *)
Verify(ok, sig, msg, pair) ==
  \/ Works /\ ok = Verifies(defect, sig, msg, pair)
  \/ Fails("verify") /\ ok = FALSE

(* An opened box is compared with its message; memcmp over no bytes        *)
(* ("empty") finds no difference.                                          *)
SameText(box, msg) == "empty" \in bits \/ Plaintext(defect, box) = msg

(* The targets that use OpenSSL's EVP do not look at the status of the     *)
(* calls that seal and open.  A box sealed by a call that failed is kept   *)
(* as if it were whole, with "seal" in failed to tell that it is not:      *)
(* whether it opens, and to what, is anybody's guess.                      *)
SealsUnseen == Works \/ Fails("seal")
Opened(ok, right) ==
  \/ Works /\ (ok = right \/ "seal" \in failed)
  \/ Fails("open") /\ (ok = FALSE \/ "seal" \in failed)

(* Opening what was changed, or with another key or nonce: whatever fails, *)
(* the tag that is checked at the end does not match.                      *)
Reopened(ok, opens) ==
  \/ Works /\ ok = opens
  \/ Fails("open") /\ ok = FALSE
=============================================================================
