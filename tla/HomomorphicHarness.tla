------------------------- MODULE HomomorphicHarness -------------------------
(***************************************************************************)
(* The oracles of homomorphic encryption and of zero-knowledge proofs:     *)
(*   seal_bfv   seal_fhe_harness.cpp, a libFuzzer target                   *)
(*   bfv_diff   fhe_diff_harness.cpp: SEAL and OpenFHE, exact              *)
(*   ckks       fhe_ckks_harness.cpp: SEAL, approximate                    *)
(*   ckks_diff  fhe_ckks_diff_harness.cpp: SEAL and OpenFHE, approximate   *)
(*   tfhe       tfhebridge/src/main.rs: words of W, wrapping               *)
(*   zk         zkbridge/src/main.rs: Groth16                              *)
(* All but the first are programs with a loop; an iteration is an "input". *)
(* tfhe and zk count what is wrong and go on with the loop.                *)
(***************************************************************************)
EXTENDS FuzzTarget, Integers

T == 5         \* plaintext modulus, a prime (65537 in the code)
W == 4         \* 2^32 in the code

Counting == {"tfhe", "zk"}
HomomorphicDefects == [
  seal_bfv  |-> {"add", "saturate", "mul", "mul_sum"},
  bfv_diff  |-> {"seal_add", "seal_mul", "seal_mul_sum",
                 "ofhe_add", "ofhe_mul", "ofhe_mul_sum"},
  ckks      |-> {"seal_add", "seal_mul"},
  ckks_diff |-> {"seal_add", "seal_mul", "ofhe_add", "ofhe_mul", "apart"},
  tfhe      |-> {"add", "sub", "mul", "and", "or", "xor", "gt", "lt", "eq", "ne"},
  zk        |-> {"zk_rejects", "zk_any_input", "zk_malleable", "zk_any_crs"}]

(* The operands of an iteration.  Of reals only the size of the product    *)
(* matters, which the bound of a product grows with.                       *)
Operands == CASE build.h \in {"seal_bfv", "bfv_diff"}
                   -> [a : 0 .. T - 1, b : 0 .. T - 1, c : 0 .. T - 1]
              [] build.h = "tfhe" -> [a : 0 .. W - 1, b : 0 .. W - 1, c : {0, 3}]
              [] build.h = "zk"   -> {<<>>}
              [] OTHER            -> [product : {0, 4000}]

HomomorphicBegin ==
  /\ build.h \in DOMAIN HomomorphicDefects
  /\ \E x \in Operands :
       /\ pc = "idle" /\ pc' = build.h
       /\ bits' = {} /\ mem' = x /\ draws' = 0 /\ failed' = {} /\ log' = {}
       /\ UNCHANGED report

(* The end of an iteration: every assertion that does not hold is          *)
(* reported; the first that fails ends a program that aborts.              *)
JudgedInOrder(asserts) ==
  LET broken == {i \in DOMAIN asserts : ~ asserts[i].holds}
      first == CHOOSE i \in broken : \A j \in broken : i <= j
  IN /\ report' = IF broken = {} THEN report ELSE asserts[first].oracle
     /\ pc' = IF broken # {} /\ build.h \notin Counting THEN "abort"
                                                        ELSE "return"
     /\ UNCHANGED <<mem, draws>>

Oracle(o, h) == [oracle |-> o, holds |-> h]

(* seal_bfv catches what SEAL throws and returns; elsewhere the exception  *)
(* ends the program, without a CMF_VIOLATION line.                         *)
Throws ==
  /\ Fails("homomorphic")
  /\ pc' = IF build.h = "seal_bfv" THEN "return" ELSE "terminated"
  /\ UNCHANGED <<mem, draws, report>>

-----------------------------------------------------------------------------
(* Ciphertexts of BFV carry the plaintext and whether they are a sum; d is *)
(* what is wrong with the library.                                         *)
Enc(x) == [value |-> x, sum |-> FALSE]
BfvAdd(d, x, y) ==
  LET s == x.value + y.value
  IN [sum |-> TRUE,
      value |-> CASE d = "add"                   -> (s + 1) % T
                  [] d = "saturate" /\ s >= T    -> T - 1
                  [] OTHER                       -> s % T]
BfvMul(d, x, y) ==
  [sum |-> FALSE,
   value |-> (x.value * y.value +
              IF d = "mul" \/ (d = "mul_sum" /\ y.sum) THEN 1 ELSE 0) % T]

(* MR1 and MR2 of seal_bfv, in their order.                                *)
SealBfv ==
  /\ pc = "seal_bfv"
  /\ LET a == Enc(mem.a)  b == Enc(mem.b)  c == Enc(mem.c)
         sum == BfvAdd(defect, a, b)
         prod == BfvMul(defect, a, b)
         lhs == BfvMul(defect, a, BfvAdd(defect, b, c))
         rhs == BfvAdd(defect, prod, BfvMul(defect, a, c))
     IN \/ /\ JudgedInOrder(<<
                Oracle("MR1_add", sum.value = (mem.a + mem.b) % T),
                Oracle("MR1_mul", prod.value = (mem.a * mem.b) % T),
                Oracle("MR2_distributivity", lhs.value = rhs.value),
                Oracle("MR2_vs_plain",
                       lhs.value = (mem.a * ((mem.b + mem.c) % T)) % T)>>)
           /\ Works
        \/ Throws

(* OpenFHE decodes a slot to a number centred around 0.                    *)
Centred(x) == IF 2 * x > T THEN x - T ELSE x

(* Mutation: the centred number is returned as it is.                      *)
OfheDecoded_Centred(v) == v

OfheDecoded(v) == IF v < 0 THEN v + T ELSE v

(* The library that is wrong, and the operation.                           *)
Part == [seal_add |-> <<"seal", "add">>, seal_mul |-> <<"seal", "mul">>,
         seal_mul_sum |-> <<"seal", "mul_sum">>,
         ofhe_add |-> <<"ofhe", "add">>, ofhe_mul |-> <<"ofhe", "mul">>,
         ofhe_mul_sum |-> <<"ofhe", "mul_sum">>]
DefectIn(lib) == IF defect \in DOMAIN Part /\ Part[defect][1] = lib
                 THEN Part[defect][2] ELSE "none"

(* add, mul and distr of a library.                                        *)
Evaluated(lib) ==
  LET d == DefectIn(lib)
      a == Enc(mem.a)  b == Enc(mem.b)  c == Enc(mem.c)
      decoded(x) == IF lib = "seal" THEN x.value ELSE OfheDecoded(Centred(x.value))
  IN [add |-> decoded(BfvAdd(d, a, b)),
      mul |-> decoded(BfvMul(d, a, b)),
      distr |-> decoded(BfvMul(d, a, BfvAdd(d, b, c)))]

(* s_add ^= 1 of CMF_FHE_FAULT.                                            *)
Xor1(x) == IF x % 2 = 0 THEN x + 1 ELSE x - 1

BfvDiff ==
  /\ pc = "bfv_diff"
  /\ LET right == Evaluated("seal")
         s == IF build.fault = "FHE" THEN [right EXCEPT !.add = Xor1(@)] ELSE right
         o == Evaluated("ofhe")
         p == [add |-> (mem.a + mem.b) % T, mul |-> (mem.a * mem.b) % T,
               distr |-> (mem.a * ((mem.b + mem.c) % T)) % T]
         agree(op) == s[op] = p[op] /\ o[op] = p[op] /\ s[op] = o[op]
     IN \/ JudgedInOrder(<<Oracle("add disagree", agree("add")),
                    Oracle("mul disagree", agree("mul")),
                    Oracle("distributivity disagree", agree("distr"))>>) /\ Works
        \/ Throws

-----------------------------------------------------------------------------
(* Errors of CKKS: of a sum in hundredths (ADD_BOUND = 1, XLIB_ADD = 2),   *)
(* of a product in units.  A right library stays near 0.                   *)
Noise == -1 .. 1
Near(e, bound) == - bound <= e /\ e <= bound
MulBound == 1 + mem.product \div 1000
XlibMul == 2 + mem.product \div 1000
SumErrors(lib) == IF DefectIn(lib) = "add" THEN {-2, 3} ELSE Noise
ProductErrors(lib) ==
  CASE DefectIn(lib) = "mul"                  -> {- MulBound - 1, MulBound + 1}
    [] defect = "apart"                       -> {IF lib = "seal" THEN MulBound
                                                                  ELSE - MulBound}
    [] OTHER                                  -> Noise
Shift == IF build.fault = "FHE" THEN 500 ELSE 0

Ckks ==
  /\ pc = "ckks"
  /\ \/ /\ \E e \in SumErrors("seal"), f \in ProductErrors("seal") :
             JudgedInOrder(<<Oracle("add error", Near(e + Shift, 1)),
                      Oracle("mul error", Near(f, MulBound))>>)
        /\ Works
     \/ Throws

(* Sums within 1 of the truth are within 2 of each other, so that only the *)
(* looser bound of products leaves the last comparison something to find.  *)
CkksDiff ==
  /\ pc = "ckks_diff"
  /\ \/ /\ \E es \in SumErrors("seal"), eo \in SumErrors("ofhe"),
             fs \in ProductErrors("seal"), fo \in ProductErrors("ofhe") :
             JudgedInOrder(<<
               Oracle("add error", Near(es + Shift, 1) /\ Near(eo, 1)),
               Oracle("mul error", Near(fs, MulBound) /\ Near(fo, MulBound)),
               Oracle("add disagree", Near(es + Shift - eo, 2)),
               Oracle("mul disagree", Near(fs - fo, XlibMul))>>)
        /\ Works
     \/ Throws

-----------------------------------------------------------------------------
(* Integers of TFHE: what the operation computes in the clear.  "both" has *)
(* the bits, two in a word of W = 4 values, that are set in x and in y.    *)
Clear(op, x, y) ==
  LET both == 2 * ((x \div 2) * (y \div 2)) + (x % 2) * (y % 2) IN
  CASE op = "add" -> (x + y) % W
    [] op = "sub" -> (x - y) % W
    [] op = "mul" -> (x * y) % W
    [] op = "and" -> both
    [] op = "or"  -> x + y - both
    [] op = "xor" -> x + y - 2 * both
    [] op = "gt"  -> x > y
    [] op = "lt"  -> x < y
    [] op = "eq"  -> x = y
    [] op = "ne"  -> x # y
Computed(op, x, y) ==
  IF defect # op THEN Clear(op, x, y)
  ELSE IF op \in {"gt", "lt", "eq", "ne"} THEN ~ Clear(op, x, y)
  ELSE (Clear(op, x, y) + 1) % W

Tfhe ==
  /\ pc = "tfhe"
  /\ LET a == mem.a  b == mem.b  c == mem.c
         faulty(op) == IF op = "mul" /\ build.fault = "fault"
                       THEN (Computed(op, a, b) + 1) % W ELSE Computed(op, a, b)
         right(op) == Oracle(op, faulty(op) = Clear(op, a, b))
         distr == Computed("mul", a, Computed("add", b, c))
     IN JudgedInOrder(<<right("add"), right("sub"), right("mul"),
                 Oracle("distributivity",
                        distr = Clear("mul", a, Clear("add", b, c))),
                 right("and"), right("or"), right("xor"), right("gt"),
                 right("lt"), right("eq"), right("ne")>>)
  /\ Works

(* A proof: of a statement, under a reference string, intact or not.       *)
Proof(statement, crs) ==
  [of |-> statement, under |-> crs, intact |-> TRUE]
Accepted(crs, statement, proof) ==
  /\ defect # "zk_rejects"
  /\ proof.of = statement \/ defect = "zk_any_input"
  /\ proof.under = crs \/ defect = "zk_any_crs"
  /\ proof.intact \/ defect = "zk_malleable"

Zk ==
  /\ pc = "zk"
  /\ LET honest == Accepted(1, "c", Proof("c", 1))
     IN JudgedInOrder(<<
          Oracle("completeness", IF build.fault = "fault" THEN ~ honest ELSE honest),
          Oracle("wrong public input", ~ Accepted(1, "c + 1", Proof("c", 1))),
          Oracle("different statement", ~ Accepted(1, "c", Proof("c2", 1))),
          Oracle("tampered",
                 ~ Accepted(1, "c", [Proof("c", 1) EXCEPT !.intact = FALSE])),
          Oracle("independent CRS", ~ Accepted(2, "c", Proof("c", 1)))>>)
  /\ Works

(* std::process::exit(1) after the loop, when there were failures.         *)
CountingExit ==
  /\ build.h \in Counting /\ pc = "idle" /\ report # "none"
  /\ pc' = "abort"
  /\ UNCHANGED <<bits, mem, draws, failed, log, report>>

HomomorphicStep ==
  \/ (SealBfv \/ BfvDiff \/ Ckks \/ CkksDiff \/ Tfhe \/ Zk) /\ UNCHANGED <<bits, log>>
  \/ CountingExit

-----------------------------------------------------------------------------
(* A sum that saturates shows when one of the sums carries.                *)
HomomorphicExercises(d) ==
  /\ d = "saturate" => \/ mem.a + mem.b >= T
                       \/ mem.a # 0 /\ mem.b + mem.c >= T
                       \/ ((mem.a * mem.b) % T) + ((mem.a * mem.c) % T) >= T
  /\ d = "apart" => mem.product > 0

(* The first oracle that the defect breaks.                                *)
FirstOracle == [
  seal_bfv  |-> [add |-> {"MR1_add"}, mul |-> {"MR1_mul"},
                 mul_sum |-> {"MR2_distributivity"},
                 saturate |-> {"MR1_add", "MR2_distributivity", "MR2_vs_plain"}],
  bfv_diff  |-> [seal_add |-> {"add disagree"}, ofhe_add |-> {"add disagree"},
                 seal_mul |-> {"mul disagree"}, ofhe_mul |-> {"mul disagree"},
                 seal_mul_sum |-> {"distributivity disagree"},
                 ofhe_mul_sum |-> {"distributivity disagree"}],
  ckks      |-> [seal_add |-> {"add error"}, seal_mul |-> {"mul error"}],
  ckks_diff |-> [seal_add |-> {"add error"}, ofhe_add |-> {"add error"},
                 seal_mul |-> {"mul error"}, ofhe_mul |-> {"mul error"},
                 apart |-> {"mul disagree"}],
  tfhe      |-> [op \in HomomorphicDefects.tfhe |-> {op}],
  zk        |-> [zk_rejects |-> {"completeness"},
                 zk_any_input |-> {"wrong public input"},
                 zk_malleable |-> {"tampered"},
                 zk_any_crs |-> {"independent CRS"}]]
HomomorphicOracles(d) == FirstOracle[build.h][d]
=============================================================================
