-------------------------- MODULE FuzzTargetsProofs --------------------------
(***************************************************************************)
(* Theorems about the libFuzzer targets, for every set of builds and every *)
(* set of calls that may fail.                                             *)
(***************************************************************************)
EXTENDS FuzzHarnessProofs

(* The programs of homomorphic encryption and of zero-knowledge proofs.    *)
(* What may have made a report, and what an iteration that is over shows.  *)
Homomorphic == DOMAIN HomomorphicDefects
Blames(o) ==
  \/ defect \in HomomorphicDefects[build.h] /\ o \in HomomorphicOracles(defect)
  \/ build.fault # "none" /\ o \in Expected(build.fault)
HomomorphicAt ==
  /\ pc \in {build.h, "terminated"} \cup Outside
  /\ pc = build.h => mem \in Operands
  /\ draws = 0 /\ log = {}
  /\ build.h \in Counting => failed = {}
  /\ pc = "abort" => report # "none"
  /\ report # "none" => Blames(report)
  /\ pc = "return" /\ report = "none" /\ failed = {} =>
       /\ defect # "none" => ~ HomomorphicExercises(defect)
       /\ build.fault = "none"


(* The smallest of a few.                                                  *)
LEMMA SmallestIndex ==
  ASSUME NEW S \in SUBSET (1 .. 11), S # {}
  PROVE  \E i \in S : \A j \in S : i <= j
<1> DEFINE Below(n) == \A i \in S : n <= i
<1>1. Below(1) OBVIOUS
<1>2. ASSUME NEW n \in 1 .. 11, Below(n), n \notin S PROVE Below(n + 1)
  BY <1>2
<1>3. PICK i \in S : TRUE OBVIOUS
<1>4. ~ Below(12) BY <1>3
<1>5. ASSUME NEW n \in 1 .. 11, n \in S, Below(n)
      PROVE  \E k \in S : \A j \in S : k <= j
  BY <1>5
<1> HIDE DEF Below
<1>6. (Below(1) => Below(2)) \/ \E k \in S : \A j \in S : k <= j BY <1>2, <1>5
<1>7. (Below(2) => Below(3)) \/ \E k \in S : \A j \in S : k <= j BY <1>2, <1>5
<1>8. (Below(3) => Below(4)) \/ \E k \in S : \A j \in S : k <= j BY <1>2, <1>5
<1>9. (Below(4) => Below(5)) \/ \E k \in S : \A j \in S : k <= j BY <1>2, <1>5
<1>10. (Below(5) => Below(6)) \/ \E k \in S : \A j \in S : k <= j BY <1>2, <1>5
<1>11. (Below(6) => Below(7)) \/ \E k \in S : \A j \in S : k <= j BY <1>2, <1>5
<1>12. (Below(7) => Below(8)) \/ \E k \in S : \A j \in S : k <= j BY <1>2, <1>5
<1>13. (Below(8) => Below(9)) \/ \E k \in S : \A j \in S : k <= j BY <1>2, <1>5
<1>14. (Below(9) => Below(10)) \/ \E k \in S : \A j \in S : k <= j BY <1>2, <1>5
<1>15. (Below(10) => Below(11)) \/ \E k \in S : \A j \in S : k <= j BY <1>2, <1>5
<1>16. (Below(11) => Below(12)) \/ \E k \in S : \A j \in S : k <= j BY <1>2, <1>5
<1> QED
  BY <1>1, <1>4, <1>6, <1>7, <1>8, <1>9, <1>10, <1>11, <1>12, <1>13, <1>14, <1>15, <1>16

LEMMA OracleParts ==
  ASSUME NEW o, NEW h \in BOOLEAN
  PROVE  Oracle(o, h).oracle = o /\ (Oracle(o, h).holds <=> h)
  BY DEF Oracle

(* What an iteration reports: nothing, or the first assertion that fails.  *)
LEMMA JudgedFirst ==
  ASSUME NEW asserts, DOMAIN asserts \subseteq 1 .. 11, JudgedInOrder(asserts)
  PROVE  /\ mem' = mem /\ draws' = draws
         /\ \/ /\ \A i \in DOMAIN asserts : asserts[i].holds
               /\ report' = report /\ pc' = "return"
            \/ \E i \in DOMAIN asserts :
                 /\ ~ asserts[i].holds
                 /\ \A j \in DOMAIN asserts : j < i => asserts[j].holds
                 /\ report' = asserts[i].oracle
                 /\ pc' = IF build.h \notin Counting THEN "abort" ELSE "return"
<1> DEFINE broken == {i \in DOMAIN asserts : ~ asserts[i].holds}
           first == CHOOSE i \in broken : \A j \in broken : i <= j
<1>1. /\ report' = IF broken = {} THEN report ELSE asserts[first].oracle
      /\ pc' = IF broken # {} /\ build.h \notin Counting THEN "abort" ELSE "return"
      /\ mem' = mem /\ draws' = draws
  BY DEF JudgedInOrder
<1>2. CASE broken = {} BY <1>1, <1>2
<1>3. CASE broken # {}
  <2>1. broken \in SUBSET (1 .. 11) OBVIOUS
  <2>2. first \in broken /\ \A j \in broken : first <= j
    <3> HIDE DEF broken
    <3>1. \E i \in broken : \A j \in broken : i <= j BY <1>3, <2>1, SmallestIndex
    <3> QED BY <3>1
  <2>3. first \in 1 .. 11 BY <2>1, <2>2
  <2> HIDE DEF first
  <2>4. \A j \in DOMAIN asserts : j < first => asserts[j].holds
    <3>1. TAKE j \in DOMAIN asserts
    <3>2. j \in 1 .. 11 OBVIOUS
    <3> QED BY <2>2, <2>3, <3>2
  <2>5. first \in DOMAIN asserts /\ ~ asserts[first].holds BY <2>2
  <2> QED BY <1>1, <1>3, <2>4, <2>5
<1> QED BY <1>2, <1>3

LEMMA JudgedEnds ==
  ASSUME HomomorphicAt, pc = build.h, build' = build, defect' = defect,
         log' = log, Works, build.h \in Homomorphic,
         NEW asserts, DOMAIN asserts \subseteq 1 .. 11, JudgedInOrder(asserts),
         \A i \in DOMAIN asserts : asserts[i].oracle # "none",
         \A i \in DOMAIN asserts :
           /\ ~ asserts[i].holds
           /\ \A j \in DOMAIN asserts : j < i => asserts[j].holds
           => Blames(asserts[i].oracle),
         (\A i \in DOMAIN asserts : asserts[i].holds) =>
           /\ defect # "none" => ~ HomomorphicExercises(defect)
           /\ build.fault = "none"
  PROVE  HomomorphicAt'
<1>1. /\ failed' = failed /\ draws = 0 /\ log = {}
      /\ (build.h \in Counting => failed = {})
      /\ (report # "none" => Blames(report))
  BY DEF HomomorphicAt, Works
<1>2. (\A o : Blames(o)' = Blames(o))
  BY DEF Blames, HomomorphicOracles, Expected
<1>3. build.h \notin {"idle", "return", "abort", "terminated"}
  BY DEF Homomorphic, HomomorphicDefects
<1>4. mem' = mem /\ draws' = draws BY JudgedFirst
<1>5. HomomorphicExercises(defect)' = HomomorphicExercises(defect)
  BY <1>4 DEF HomomorphicExercises
<1>6. CASE /\ \A i \in DOMAIN asserts : asserts[i].holds
           /\ report' = report /\ pc' = "return"
  BY <1>1, <1>2, <1>3, <1>4, <1>5, <1>6 DEF HomomorphicAt, Outside
<1>7. CASE \E i \in DOMAIN asserts :
             /\ ~ asserts[i].holds
             /\ \A j \in DOMAIN asserts : j < i => asserts[j].holds
             /\ report' = asserts[i].oracle
             /\ pc' = IF build.h \notin Counting THEN "abort" ELSE "return"
  <2>1. Blames(report') /\ report' # "none" /\ pc' \in {"abort", "return"} BY <1>7
  <2> QED BY <1>1, <1>2, <1>3, <1>4, <2>1 DEF HomomorphicAt, Outside
<1> QED BY <1>6, <1>7, JudgedFirst

(* An exception of the library.                                            *)
LEMMA ThrowsEnds ==
  ASSUME HomomorphicAt, pc = build.h, build' = build, defect' = defect,
         log' = log, Throws, build.h \in Homomorphic \ Counting
  PROVE  HomomorphicAt'
<1>1. /\ draws = 0 /\ log = {} /\ (report # "none" => Blames(report))
  BY DEF HomomorphicAt
<1>2. (\A o : Blames(o)' = Blames(o))
  BY DEF Blames, HomomorphicOracles, Expected
<1>3. build.h \notin {"idle", "return", "abort", "terminated"}
  BY DEF Homomorphic, HomomorphicDefects
<1>4. /\ failed' # {} /\ pc' \in {"return", "terminated"} /\ report' = report
      /\ draws' = draws
  BY DEF Throws, Fails
<1> QED BY <1>1, <1>2, <1>3, <1>4 DEF HomomorphicAt, Outside

LEMMA HomomorphicBegins ==
  ASSUME HomomorphicAt, HomomorphicBegin, build' = build, defect' = defect
  PROVE  HomomorphicAt'
<1>1. PICK x \in Operands :
        /\ pc = "idle" /\ pc' = build.h
        /\ mem' = x /\ draws' = 0 /\ failed' = {} /\ log' = {} /\ report' = report
  BY DEF HomomorphicBegin
<1>2. (\A o : Blames(o)' = Blames(o))
  BY DEF Blames, HomomorphicOracles, Expected
<1>3. Operands' = Operands BY DEF Operands
<1>4. build.h \notin {"idle", "return", "abort", "terminated"}
  BY DEF HomomorphicBegin, HomomorphicDefects
<1>5. report # "none" => Blames(report) BY DEF HomomorphicAt
<1> QED BY <1>1, <1>2, <1>3, <1>4, <1>5 DEF HomomorphicAt, Outside


(* Which oracles each defect may set off.                                  *)
LEMMA SealBlames ==
  ASSUME build.h = "seal_bfv"
  PROVE  /\ defect \in {"add", "saturate"} => Blames("MR1_add")
         /\ defect = "mul" => Blames("MR1_mul")
         /\ defect \in {"mul_sum", "saturate"} => Blames("MR2_distributivity")
         /\ defect = "saturate" => Blames("MR2_vs_plain")
<1> DEFINE F == FirstOracle.seal_bfv
<1>1. /\ F["add"] = {"MR1_add"} /\ F["mul"] = {"MR1_mul"}
      /\ F["mul_sum"] = {"MR2_distributivity"}
      /\ F["saturate"] = {"MR1_add", "MR2_distributivity", "MR2_vs_plain"}
  BY DEF FirstOracle
<1>2. HomomorphicDefects.seal_bfv = {"add", "saturate", "mul", "mul_sum"}
  BY DEF HomomorphicDefects
<1>3. FirstOracle[build.h] = F /\ HomomorphicDefects[build.h] = HomomorphicDefects.seal_bfv
  OBVIOUS
<1> HIDE DEF F
<1> QED BY <1>1, <1>2, <1>3 DEF Blames, HomomorphicOracles

LEMMA BfvDiffBlames ==
  ASSUME build.h = "bfv_diff"
  PROVE  /\ defect \in {"seal_add", "ofhe_add"} => Blames("add disagree")
         /\ defect \in {"seal_mul", "ofhe_mul"} => Blames("mul disagree")
         /\ defect \in {"seal_mul_sum", "ofhe_mul_sum"} =>
              Blames("distributivity disagree")
         /\ build.fault = "FHE" => Blames("add disagree")
<1> DEFINE F == FirstOracle.bfv_diff
<1>1. /\ F["seal_add"] = {"add disagree"} /\ F["ofhe_add"] = {"add disagree"}
      /\ F["seal_mul"] = {"mul disagree"} /\ F["ofhe_mul"] = {"mul disagree"}
      /\ F["seal_mul_sum"] = {"distributivity disagree"}
      /\ F["ofhe_mul_sum"] = {"distributivity disagree"}
  BY DEF FirstOracle
<1>2. HomomorphicDefects.bfv_diff = {"seal_add", "seal_mul", "seal_mul_sum",
                                     "ofhe_add", "ofhe_mul", "ofhe_mul_sum"}
  BY DEF HomomorphicDefects
<1>3. FirstOracle[build.h] = F /\ HomomorphicDefects[build.h] = HomomorphicDefects.bfv_diff
  OBVIOUS
<1>4. build.fault = "FHE" => "add disagree" \in Expected(build.fault) BY DEF Expected
<1> HIDE DEF F
<1> QED BY <1>1, <1>2, <1>3, <1>4 DEF Blames, HomomorphicOracles

LEMMA CkksBlames ==
  ASSUME build.h \in {"ckks", "ckks_diff"},
         defect \in {"none"} \cup HomomorphicDefects[build.h]
  PROVE  /\ defect \in {"seal_add", "ofhe_add"} => Blames("add error")
         /\ defect \in {"seal_mul", "ofhe_mul"} => Blames("mul error")
         /\ defect = "apart" => Blames("mul disagree")
         /\ build.fault = "FHE" => Blames("add error")
<1> DEFINE F == FirstOracle.ckks
           G == FirstOracle.ckks_diff
<1>1. F["seal_add"] = {"add error"} /\ F["seal_mul"] = {"mul error"}
  BY DEF FirstOracle
<1>2. /\ G["seal_add"] = {"add error"} /\ G["ofhe_add"] = {"add error"}
      /\ G["seal_mul"] = {"mul error"} /\ G["ofhe_mul"] = {"mul error"}
      /\ G["apart"] = {"mul disagree"}
  BY DEF FirstOracle
<1>3. /\ HomomorphicDefects.ckks = {"seal_add", "seal_mul"}
      /\ HomomorphicDefects.ckks_diff =
           {"seal_add", "seal_mul", "ofhe_add", "ofhe_mul", "apart"}
  BY DEF HomomorphicDefects
<1>4. build.fault = "FHE" => "add error" \in Expected(build.fault) BY DEF Expected
<1>5. CASE build.h = "ckks"
  <2>1. FirstOracle[build.h] = F /\ HomomorphicDefects[build.h] = HomomorphicDefects.ckks
    BY <1>5
  <2> HIDE DEF F, G
  <2> QED BY <1>1, <1>3, <1>4, <2>1 DEF Blames, HomomorphicOracles
<1>6. CASE build.h = "ckks_diff"
  <2>1. /\ FirstOracle[build.h] = G
        /\ HomomorphicDefects[build.h] = HomomorphicDefects.ckks_diff
    BY <1>6
  <2> HIDE DEF F, G
  <2> QED BY <1>2, <1>3, <1>4, <2>1 DEF Blames, HomomorphicOracles
<1> QED BY <1>5, <1>6

LEMMA TfheBlames ==
  ASSUME build.h = "tfhe"
  PROVE  /\ defect \in HomomorphicDefects.tfhe => Blames(defect)
         /\ build.fault = "fault" => Blames("mul")
<1>1. FirstOracle[build.h] = [op \in HomomorphicDefects.tfhe |-> {op}]
  BY DEF FirstOracle
<1>2. build.fault = "fault" => "mul" \in Expected(build.fault) BY DEF Expected
<1>3. HomomorphicDefects[build.h] = HomomorphicDefects.tfhe OBVIOUS
<1>4. defect \in HomomorphicDefects.tfhe => HomomorphicOracles(defect) = {defect}
  BY <1>1 DEF HomomorphicOracles
<1> QED BY <1>2, <1>3, <1>4 DEF Blames

LEMMA ZkBlames ==
  ASSUME build.h = "zk"
  PROVE  /\ defect = "zk_rejects" => Blames("completeness")
         /\ defect = "zk_any_input" => Blames("wrong public input")
         /\ defect = "zk_malleable" => Blames("tampered")
         /\ defect = "zk_any_crs" => Blames("independent CRS")
         /\ build.fault = "fault" => Blames("completeness")
<1> DEFINE F == FirstOracle.zk
<1>1. /\ F["zk_rejects"] = {"completeness"}
      /\ F["zk_any_input"] = {"wrong public input"}
      /\ F["zk_malleable"] = {"tampered"} /\ F["zk_any_crs"] = {"independent CRS"}
  BY DEF FirstOracle
<1>2. HomomorphicDefects.zk = {"zk_rejects", "zk_any_input", "zk_malleable", "zk_any_crs"}
  BY DEF HomomorphicDefects
<1>3. FirstOracle[build.h] = F /\ HomomorphicDefects[build.h] = HomomorphicDefects.zk
  OBVIOUS
<1>4. build.fault = "fault" => "completeness" \in Expected(build.fault) BY DEF Expected
<1> HIDE DEF F
<1> QED BY <1>1, <1>2, <1>3, <1>4 DEF Blames, HomomorphicOracles


LEMMA TwoJudged ==
  ASSUME NEW o1, NEW o2, NEW h1 \in BOOLEAN, NEW h2 \in BOOLEAN,
         o1 # "none", o2 # "none",
         HomomorphicAt, pc = build.h, build' = build, defect' = defect,
         log' = log, Works, build.h \in Homomorphic,
         JudgedInOrder(<<Oracle(o1, h1), Oracle(o2, h2)>>),
         ~ h1 => Blames(o1), h1 /\ ~ h2 => Blames(o2),
         h1 /\ h2 => /\ defect # "none" => ~ HomomorphicExercises(defect)
                     /\ build.fault = "none"
  PROVE  HomomorphicAt'
<1> DEFINE asserts == <<Oracle(o1, h1), Oracle(o2, h2)>>
<1>1. /\ DOMAIN asserts = 1 .. 2 /\ asserts[1] = Oracle(o1, h1)
      /\ asserts[2] = Oracle(o2, h2)
  OBVIOUS
<1> HIDE DEF asserts
<1>2. /\ (asserts[1].holds <=> h1) /\ asserts[1].oracle = o1
      /\ (asserts[2].holds <=> h2) /\ asserts[2].oracle = o2
  BY <1>1, OracleParts
<1>3. \A i \in DOMAIN asserts :
        /\ ~ asserts[i].holds
        /\ \A j \in DOMAIN asserts : j < i => asserts[j].holds
        => Blames(asserts[i].oracle)
  BY <1>1, <1>2
<1>4. (\A i \in DOMAIN asserts : asserts[i].holds) =>
        /\ defect # "none" => ~ HomomorphicExercises(defect)
        /\ build.fault = "none"
  BY <1>1, <1>2
<1>5. \A i \in DOMAIN asserts : asserts[i].oracle # "none" BY <1>1, <1>2
<1>6. JudgedInOrder(asserts) BY DEF asserts
<1> QED BY <1>1, <1>3, <1>4, <1>5, <1>6, JudgedEnds



(* Arithmetic modulo T, for each plaintext and each sum or product of two. *)
LEMMA EncParts ==
  ASSUME NEW x PROVE Enc(x).value = x /\ ~ Enc(x).sum
  BY DEF Enc

LEMMA BfvSum ==
  ASSUME NEW d, NEW x, NEW y
  PROVE  /\ BfvAdd(d, x, y).sum
         /\ BfvAdd(d, x, y).value =
              IF d = "add" THEN (x.value + y.value + 1) % T
              ELSE IF d = "saturate" /\ x.value + y.value >= T THEN T - 1
              ELSE (x.value + y.value) % T
<1>1. CASE d = "add" BY <1>1 DEF BfvAdd
<1>2. CASE d = "saturate" BY <1>2 DEF BfvAdd
<1>3. CASE d \notin {"add", "saturate"} BY <1>3 DEF BfvAdd
<1> QED BY <1>1, <1>2, <1>3

LEMMA BfvProduct ==
  ASSUME NEW d, NEW x, NEW y
  PROVE  /\ ~ BfvMul(d, x, y).sum
         /\ BfvMul(d, x, y).value =
              (x.value * y.value +
               IF d = "mul" \/ (d = "mul_sum" /\ y.sum) THEN 1 ELSE 0) % T
  BY DEF BfvMul

LEMMA Distributes ==
  ASSUME NEW a \in 0 .. 4, NEW b \in 0 .. 4, NEW c \in 0 .. 4
  PROVE  (a * ((b + c) % 5)) % 5 = (((a * b) % 5) + ((a * c) % 5)) % 5
<1>1. CASE a = 0 BY <1>1
<1>2. CASE a = 1 BY <1>2
<1>3. CASE a = 2 BY <1>3
<1>4. CASE a = 3 BY <1>4
<1>5. CASE a = 4 BY <1>5
<1> QED BY <1>1, <1>2, <1>3, <1>4, <1>5

LEMMA NextIsOther == ASSUME NEW x \in Int PROVE (x + 1) % 5 # x % 5
  OBVIOUS

(* A saturated sum shows in a product, unless by 0.                        *)
LEMMA SaturatedShows ==
  ASSUME NEW a \in 0 .. 4, NEW v \in 0 .. 3, (a * 4) % 5 = (a * v) % 5
  PROVE  a = 0
<1>1. CASE a = 1 BY <1>1
<1>2. CASE a = 2 BY <1>2
<1>3. CASE a = 3 BY <1>3
<1>4. CASE a = 4 BY <1>4
<1> QED BY <1>1, <1>2, <1>3, <1>4

LEMMA Products == ASSUME NEW a \in 0 .. 4, NEW b \in 0 .. 4 PROVE a * b \in 0 .. 16
<1>1. CASE a = 0 BY <1>1
<1>2. CASE a = 1 BY <1>2
<1>3. CASE a = 2 BY <1>3
<1>4. CASE a = 3 BY <1>4
<1>5. CASE a = 4 BY <1>5
<1> QED BY <1>1, <1>2, <1>3, <1>4, <1>5

LEMMA Residues == ASSUME NEW x \in Int PROVE x % 5 \in 0 .. 4
  OBVIOUS

LEMMA SealBfvStep ==
  ASSUME HomomorphicAt, SealBfv, build' = build, defect' = defect, log' = log,
         build.h = "seal_bfv", build.fault = "none",
         defect \in {"none"} \cup HomomorphicDefects.seal_bfv
  PROVE  HomomorphicAt'
<1>1. pc = "seal_bfv" /\ mem \in Operands BY DEF SealBfv, HomomorphicAt
<1>2. mem \in [a : 0 .. 4, b : 0 .. 4, c : 0 .. 4] BY <1>1 DEF Operands, T
<1> DEFINE a == mem.a
           b == mem.b
           c == mem.c
           sum == BfvAdd(defect, Enc(a), Enc(b))
           prod == BfvMul(defect, Enc(a), Enc(b))
           bc == BfvAdd(defect, Enc(b), Enc(c))
           ac == BfvMul(defect, Enc(a), Enc(c))
           lhs == BfvMul(defect, Enc(a), bc)
           rhs == BfvAdd(defect, prod, ac)
           h1 == sum.value = (a + b) % T
           h2 == prod.value = (a * b) % T
           h3 == lhs.value = rhs.value
           h4 == lhs.value = (a * ((b + c) % T)) % T
           asserts == <<Oracle("MR1_add", h1), Oracle("MR1_mul", h2),
                        Oracle("MR2_distributivity", h3), Oracle("MR2_vs_plain", h4)>>
<1>3. (JudgedInOrder(asserts) /\ Works) \/ Throws BY DEF SealBfv
<1>4. CASE Throws
  BY <1>1, <1>4, ThrowsEnds DEF Homomorphic, HomomorphicDefects, Counting
<1>5. CASE JudgedInOrder(asserts) /\ Works
  <2>1. a \in 0 .. 4 /\ b \in 0 .. 4 /\ c \in 0 .. 4 BY <1>2
  <2> DEFINE v == IF defect = "add" THEN (b + c + 1) % 5
                  ELSE IF defect = "saturate" /\ b + c >= 5 THEN 4
                  ELSE (b + c) % 5
             more == IF defect = "mul" THEN 1 ELSE 0
             more2 == IF defect \in {"mul", "mul_sum"} THEN 1 ELSE 0
             x == (a * b + more) % 5
             y == (a * c + more) % 5
  <2>2. sum.value = IF defect = "add" THEN (a + b + 1) % 5
                    ELSE IF defect = "saturate" /\ a + b >= 5 THEN 4
                    ELSE (a + b) % 5
    BY EncParts, BfvSum DEF T
  <2>3. bc.value = v /\ bc.sum BY EncParts, BfvSum DEF T
  <2>4. prod.value = x /\ ac.value = y BY EncParts, BfvProduct DEF T
  <2>5. lhs.value = (a * v + more2) % 5
    <3> HIDE DEF v, bc
    <3> QED BY <2>3, EncParts, BfvProduct DEF T
  <2>6. rhs.value = IF defect = "add" THEN (x + y + 1) % 5
                    ELSE IF defect = "saturate" /\ x + y >= 5 THEN 4
                    ELSE (x + y) % 5
    <3> HIDE DEF x, y, prod, ac
    <3> QED BY <2>4, BfvSum DEF T
  <2>7. /\ a * b \in 0 .. 16 /\ a * c \in 0 .. 16 /\ x \in 0 .. 4 /\ y \in 0 .. 4
        /\ v \in 0 .. 4
    BY <2>1, Products, Residues
  <2>8. h1 <=> defect # "add" /\ ~ (defect = "saturate" /\ a + b >= 5)
    <3> HIDE DEF a, b, sum
    <3>1. (a + b + 1) % 5 # (a + b) % 5 BY <2>1
    <3>2. a + b >= 5 => (a + b) % 5 # 4 BY <2>1
    <3> QED BY <2>2, <3>1, <3>2 DEF T
  <2>9. h2 <=> defect # "mul"
    <3> HIDE DEF a, b, prod, v
    <3>1. (a * b + 1) % 5 # (a * b) % 5 /\ (a * b + 0) % 5 = (a * b) % 5
      BY <2>7, NextIsOther
    <3> QED BY <2>4, <3>1 DEF T
  <2> HIDE DEF a, b, c, sum, prod, bc, ac, lhs, rhs
  <2>10. a * v \in 0 .. 16 BY <2>1, <2>7, Products
  <2>11. v = (b + c) % 5 /\ more = 0 /\ defect \notin {"add", "mul", "saturate"}
           => (a * v) % 5 = (x + y) % 5 /\ rhs.value = (x + y) % 5
    <3>1. SUFFICES ASSUME v = (b + c) % 5, more = 0,
                          defect \notin {"add", "mul", "saturate"}
                   PROVE  (a * v) % 5 = (x + y) % 5
      BY <2>6
    <3>2. x = (a * b) % 5 /\ y = (a * c) % 5 BY <2>7, <3>1
    <3> QED BY <2>1, <3>1, <3>2, Distributes
  <2>12. defect = "none" => h3 /\ h4
    <3>1. SUFFICES ASSUME defect = "none" PROVE h3 /\ h4 OBVIOUS
    <3>2. v = (b + c) % 5 /\ more = 0 /\ more2 = 0 BY <3>1
    <3>3. lhs.value = (a * v) % 5 BY <2>5, <2>10, <3>2
    <3> QED BY <2>11, <3>1, <3>2, <3>3 DEF T
  <2>13. defect = "mul_sum" => ~ h3
    <3>1. SUFFICES ASSUME defect = "mul_sum" PROVE ~ h3 OBVIOUS
    <3>2. v = (b + c) % 5 /\ more = 0 /\ more2 = 1 BY <3>1
    <3>3. lhs.value = (a * v + 1) % 5 BY <2>5, <3>2
    <3>4. (a * v + 1) % 5 # (a * v) % 5 BY <2>10, NextIsOther
    <3> QED BY <2>11, <3>1, <3>2, <3>3, <3>4
  <2>14. defect = "saturate" /\ h1 /\ h3 /\ h4 => ~ HomomorphicExercises(defect)
    <3>1. SUFFICES ASSUME defect = "saturate", h1, h3, h4
                   PROVE  ~ HomomorphicExercises(defect)
      OBVIOUS
    <3>2. a + b < 5 BY <2>1, <2>8, <3>1
    <3>3. x = (a * b) % 5 /\ y = (a * c) % 5 BY <2>7, <3>1
    <3>4. lhs.value = (a * v) % 5 BY <2>5, <2>10, <3>1
    <3>5. lhs.value = (a * ((b + c) % 5)) % 5 BY <3>1 DEF T
    <3>6. lhs.value = (x + y) % 5 BY <2>1, <3>3, <3>5, Distributes
    <3>7. ~ (x + y >= 5)
      <4>1. x + y >= 5 => (x + y) % 5 # 4 /\ rhs.value = 4 BY <2>6, <2>7, <3>1
      <4> QED BY <3>1, <3>6, <4>1
    <3>8. b + c >= 5 => a = 0
      <4>1. SUFFICES ASSUME b + c >= 5 PROVE a = 0 OBVIOUS
      <4>2. v = 4 BY <3>1, <4>1
      <4>3. (b + c) % 5 \in 0 .. 3 BY <2>1, <4>1
      <4> QED BY <2>1, <3>4, <3>5, <4>2, <4>3, SaturatedShows
    <3> QED BY <2>1, <3>1, <3>2, <3>3, <3>7, <3>8 DEF HomomorphicExercises, T, a, b, c
  <2>15. defect \in {"none", "add", "saturate", "mul", "mul_sum"}
    BY DEF HomomorphicDefects
  <2>16. /\ ~ h1 => Blames("MR1_add")
         /\ ~ h2 => Blames("MR1_mul")
         /\ h1 /\ h2 /\ ~ h3 => Blames("MR2_distributivity")
         /\ h1 /\ h2 /\ h3 /\ ~ h4 => Blames("MR2_vs_plain")
         /\ h1 /\ h2 /\ h3 /\ h4 =>
              /\ defect # "none" => ~ HomomorphicExercises(defect)
              /\ build.fault = "none"
    <3> HIDE DEF h1, h2, h3, h4
    <3> QED BY <2>8, <2>9, <2>12, <2>13, <2>14, <2>15, SealBlames
  <2>17. /\ DOMAIN asserts = 1 .. 4
         /\ asserts[1] = Oracle("MR1_add", h1) /\ asserts[2] = Oracle("MR1_mul", h2)
         /\ asserts[3] = Oracle("MR2_distributivity", h3)
         /\ asserts[4] = Oracle("MR2_vs_plain", h4)
    <3> HIDE DEF h1, h2, h3, h4
    <3> QED OBVIOUS
  <2>18. h1 \in BOOLEAN /\ h2 \in BOOLEAN /\ h3 \in BOOLEAN /\ h4 \in BOOLEAN
    OBVIOUS
  <2> HIDE DEF h1, h2, h3, h4, asserts
  <2>19. /\ (asserts[1].holds <=> h1) /\ asserts[1].oracle = "MR1_add"
         /\ (asserts[2].holds <=> h2) /\ asserts[2].oracle = "MR1_mul"
         /\ (asserts[3].holds <=> h3) /\ asserts[3].oracle = "MR2_distributivity"
         /\ (asserts[4].holds <=> h4) /\ asserts[4].oracle = "MR2_vs_plain"
    BY <2>17, <2>18, OracleParts
  <2>20. \A i \in DOMAIN asserts :
           /\ ~ asserts[i].holds
           /\ \A j \in DOMAIN asserts : j < i => asserts[j].holds
           => Blames(asserts[i].oracle)
    BY <2>16, <2>17, <2>19
  <2>21. (\A i \in DOMAIN asserts : asserts[i].holds) =>
           /\ defect # "none" => ~ HomomorphicExercises(defect)
           /\ build.fault = "none"
    BY <2>16, <2>17, <2>19
  <2>22. \A i \in DOMAIN asserts : asserts[i].oracle # "none" BY <2>17, <2>19
  <2> QED BY <1>1, <1>5, <2>17, <2>20, <2>21, <2>22, JudgedEnds
          DEF Homomorphic, HomomorphicDefects
<1> QED BY <1>3, <1>4, <1>5


(* Three assertions in their order.                                        *)
LEMMA ThreeJudged ==
  ASSUME NEW o1, NEW o2, NEW o3, NEW h1 \in BOOLEAN, NEW h2 \in BOOLEAN,
         NEW h3 \in BOOLEAN, o1 # "none", o2 # "none", o3 # "none",
         HomomorphicAt, pc = build.h, build' = build, defect' = defect,
         log' = log, Works, build.h \in Homomorphic,
         JudgedInOrder(<<Oracle(o1, h1), Oracle(o2, h2), Oracle(o3, h3)>>),
         ~ h1 => Blames(o1), h1 /\ ~ h2 => Blames(o2), h1 /\ h2 /\ ~ h3 => Blames(o3),
         h1 /\ h2 /\ h3 => /\ defect # "none" => ~ HomomorphicExercises(defect)
                           /\ build.fault = "none"
  PROVE  HomomorphicAt'
<1> DEFINE asserts == <<Oracle(o1, h1), Oracle(o2, h2), Oracle(o3, h3)>>
<1>1. /\ DOMAIN asserts = 1 .. 3 /\ asserts[1] = Oracle(o1, h1)
      /\ asserts[2] = Oracle(o2, h2) /\ asserts[3] = Oracle(o3, h3)
  OBVIOUS
<1> HIDE DEF asserts
<1>2. /\ (asserts[1].holds <=> h1) /\ asserts[1].oracle = o1
      /\ (asserts[2].holds <=> h2) /\ asserts[2].oracle = o2
      /\ (asserts[3].holds <=> h3) /\ asserts[3].oracle = o3
  BY <1>1, OracleParts
<1>3. \A i \in DOMAIN asserts :
        /\ ~ asserts[i].holds
        /\ \A j \in DOMAIN asserts : j < i => asserts[j].holds
        => Blames(asserts[i].oracle)
  BY <1>1, <1>2
<1>4. (\A i \in DOMAIN asserts : asserts[i].holds) =>
        /\ defect # "none" => ~ HomomorphicExercises(defect)
        /\ build.fault = "none"
  BY <1>1, <1>2
<1>5. \A i \in DOMAIN asserts : asserts[i].oracle # "none" BY <1>1, <1>2
<1>6. JudgedInOrder(asserts) BY DEF asserts
<1> QED BY <1>1, <1>3, <1>4, <1>5, <1>6, JudgedEnds

(* The numbers a library returns: centring and decoding undo each other.   *)
LEMMA DecodedSame ==
  ASSUME NEW x \in 0 .. 4 PROVE OfheDecoded(Centred(x)) = x
  BY DEF OfheDecoded, Centred, T

LEMMA DefectOf ==
  ASSUME NEW lib \in {"seal", "ofhe"}
  PROVE  /\ DefectIn(lib) \in {"none", "add", "mul", "mul_sum"}
         /\ DefectIn(lib) = "add" <=>
              (lib = "seal" /\ defect = "seal_add") \/ (lib = "ofhe" /\ defect = "ofhe_add")
         /\ DefectIn(lib) = "mul" <=>
              (lib = "seal" /\ defect = "seal_mul") \/ (lib = "ofhe" /\ defect = "ofhe_mul")
         /\ DefectIn(lib) = "mul_sum" <=>
              \/ lib = "seal" /\ defect = "seal_mul_sum"
              \/ lib = "ofhe" /\ defect = "ofhe_mul_sum"
<1>1. /\ DOMAIN Part = {"seal_add", "seal_mul", "seal_mul_sum",
                        "ofhe_add", "ofhe_mul", "ofhe_mul_sum"}
      /\ Part["seal_add"] = <<"seal", "add">> /\ Part["seal_mul"] = <<"seal", "mul">>
      /\ Part["seal_mul_sum"] = <<"seal", "mul_sum">>
      /\ Part["ofhe_add"] = <<"ofhe", "add">> /\ Part["ofhe_mul"] = <<"ofhe", "mul">>
      /\ Part["ofhe_mul_sum"] = <<"ofhe", "mul_sum">>
  BY DEF Part
<1>2. CASE defect \notin DOMAIN Part BY <1>1, <1>2 DEF DefectIn
<1>3. CASE defect = "seal_add" BY <1>1, <1>3 DEF DefectIn
<1>4. CASE defect = "seal_mul" BY <1>1, <1>4 DEF DefectIn
<1>5. CASE defect = "seal_mul_sum" BY <1>1, <1>5 DEF DefectIn
<1>6. CASE defect = "ofhe_add" BY <1>1, <1>6 DEF DefectIn
<1>7. CASE defect = "ofhe_mul" BY <1>1, <1>7 DEF DefectIn
<1>8. CASE defect = "ofhe_mul_sum" BY <1>1, <1>8 DEF DefectIn
<1> QED BY <1>1, <1>2, <1>3, <1>4, <1>5, <1>6, <1>7, <1>8

LEMMA EvaluatedParts ==
  ASSUME mem \in [a : 0 .. 4, b : 0 .. 4, c : 0 .. 4], NEW lib \in {"seal", "ofhe"}
  PROVE  /\ Evaluated(lib).add \in 0 .. 4
         /\ Evaluated(lib).add = (mem.a + mem.b) % T <=> DefectIn(lib) # "add"
         /\ Evaluated(lib).mul = (mem.a * mem.b) % T <=> DefectIn(lib) # "mul"
         /\ DefectIn(lib) \in {"none", "mul_sum"} =>
              (Evaluated(lib).distr = (mem.a * ((mem.b + mem.c) % T)) % T
                 <=> DefectIn(lib) # "mul_sum")
<1> DEFINE d == DefectIn(lib)
           a == mem.a
           b == mem.b
           c == mem.c
           sum == BfvAdd(d, Enc(a), Enc(b))
           prod == BfvMul(d, Enc(a), Enc(b))
           bc == BfvAdd(d, Enc(b), Enc(c))
           distr == BfvMul(d, Enc(a), bc)
           decoded(x) == IF lib = "seal" THEN x.value ELSE OfheDecoded(Centred(x.value))
<1>1. a \in 0 .. 4 /\ b \in 0 .. 4 /\ c \in 0 .. 4 OBVIOUS
<1>2. d \in {"none", "add", "mul", "mul_sum"} BY DefectOf
<1>3. /\ Evaluated(lib).add = decoded(sum) /\ Evaluated(lib).mul = decoded(prod)
      /\ Evaluated(lib).distr = decoded(distr)
  BY DEF Evaluated
<1> HIDE DEF d, a, b, c
<1>4. a * b \in 0 .. 16 BY <1>1, Products
<1>5. /\ sum.value = IF d = "add" THEN (a + b + 1) % 5 ELSE (a + b) % 5
      /\ bc.value = IF d = "add" THEN (b + c + 1) % 5 ELSE (b + c) % 5
      /\ bc.sum
  BY <1>2, EncParts, BfvSum DEF T
<1>6. prod.value = IF d = "mul" THEN (a * b + 1) % 5 ELSE (a * b + 0) % 5
  BY <1>2, EncParts, BfvProduct DEF T
<1> DEFINE v == bc.value
<1>7. distr.value = (a * v + IF d \in {"mul", "mul_sum"} THEN 1 ELSE 0) % 5
  <2> HIDE DEF bc
  <2> QED BY <1>5, EncParts, BfvProduct DEF T
<1>8. v \in 0 .. 4 BY <1>1, <1>5, Residues
<1> HIDE DEF v
<1>9. a * v \in 0 .. 16 BY <1>1, <1>8, Products
<1>10. sum.value \in 0 .. 4 /\ prod.value \in 0 .. 4 /\ distr.value \in 0 .. 4
  BY <1>1, <1>4, <1>5, <1>6, <1>7, <1>9, Residues
<1> HIDE DEF sum, prod, distr
<1>11. decoded(sum) = sum.value /\ decoded(prod) = prod.value
       /\ decoded(distr) = distr.value
  BY <1>10, DecodedSame
<1> HIDE DEF decoded
<1>12. sum.value = (a + b) % 5 <=> d # "add"
  <2>1. (a + b + 1) % 5 # (a + b) % 5 BY <1>1, NextIsOther
  <2> QED BY <1>5, <2>1
<1>13. prod.value = (a * b) % 5 <=> d # "mul"
  <2>1. (a * b + 1) % 5 # (a * b) % 5 /\ (a * b + 0) % 5 = (a * b) % 5
    BY <1>4, NextIsOther
  <2> QED BY <1>6, <2>1
<1>14. d \in {"none", "mul_sum"} =>
         (distr.value = (a * ((b + c) % 5)) % 5 <=> d # "mul_sum")
  <2>1. SUFFICES ASSUME d \in {"none", "mul_sum"}
                 PROVE  distr.value = (a * ((b + c) % 5)) % 5 <=> d # "mul_sum"
    OBVIOUS
  <2>2. v = (b + c) % 5 BY <1>5, <2>1 DEF v
  <2>3. (a * v + 1) % 5 # (a * v) % 5 /\ (a * v + 0) % 5 = (a * v) % 5
    BY <1>9, NextIsOther
  <2> QED BY <1>7, <2>1, <2>2, <2>3
<1> QED BY <1>3, <1>10, <1>11, <1>12, <1>13, <1>14 DEF a, b, c, d, T

LEMMA BfvDiffStep ==
  ASSUME HomomorphicAt, BfvDiff, build' = build, defect' = defect, log' = log,
         build.h = "bfv_diff", build.fault \in {"none", "FHE"},
         defect \in {"none"} \cup HomomorphicDefects.bfv_diff,
         build.fault # "none" => defect = "none"
  PROVE  HomomorphicAt'
<1>1. pc = "bfv_diff" /\ mem \in Operands BY DEF BfvDiff, HomomorphicAt
<1>2. mem \in [a : 0 .. 4, b : 0 .. 4, c : 0 .. 4] BY <1>1 DEF Operands, T
<1> DEFINE right == Evaluated("seal")
           s == IF build.fault = "FHE" THEN [right EXCEPT !.add = Xor1(@)] ELSE right
           o == Evaluated("ofhe")
           p == [add |-> (mem.a + mem.b) % T, mul |-> (mem.a * mem.b) % T,
                 distr |-> (mem.a * ((mem.b + mem.c) % T)) % T]
           h1 == s["add"] = p["add"] /\ o["add"] = p["add"] /\ s["add"] = o["add"]
           h2 == s["mul"] = p["mul"] /\ o["mul"] = p["mul"] /\ s["mul"] = o["mul"]
           h3 == /\ s["distr"] = p["distr"] /\ o["distr"] = p["distr"]
                 /\ s["distr"] = o["distr"]
<1>3. \/ /\ JudgedInOrder(<<Oracle("add disagree", h1), Oracle("mul disagree", h2),
                            Oracle("distributivity disagree", h3)>>)
         /\ Works
      \/ Throws
  BY DEF BfvDiff
<1>4. h1 \in BOOLEAN /\ h2 \in BOOLEAN /\ h3 \in BOOLEAN OBVIOUS
<1>5. /\ s["add"] = IF build.fault = "FHE" THEN Xor1(right.add) ELSE right.add
      /\ s["mul"] = right.mul /\ s["distr"] = right.distr
  BY DEF Evaluated
<1>6. /\ p["add"] = (mem.a + mem.b) % T /\ p["mul"] = (mem.a * mem.b) % T
      /\ p["distr"] = (mem.a * ((mem.b + mem.c) % T)) % T
  OBVIOUS
<1> HIDE DEF s, p
<1>7. /\ right.add \in 0 .. 4
      /\ right.add = p["add"] <=> DefectIn("seal") # "add"
      /\ right.mul = p["mul"] <=> DefectIn("seal") # "mul"
      /\ DefectIn("seal") \in {"none", "mul_sum"} =>
           (right.distr = p["distr"] <=> DefectIn("seal") # "mul_sum")
  BY <1>2, <1>6, EvaluatedParts
<1>8. /\ o["add"] = p["add"] <=> DefectIn("ofhe") # "add"
      /\ o["mul"] = p["mul"] <=> DefectIn("ofhe") # "mul"
      /\ DefectIn("ofhe") \in {"none", "mul_sum"} =>
           (o["distr"] = p["distr"] <=> DefectIn("ofhe") # "mul_sum")
  BY <1>2, <1>6, EvaluatedParts
<1> HIDE DEF right, o
<1>9. Xor1(right.add) # right.add BY <1>7 DEF Xor1
<1>10. h1 <=> defect \notin {"seal_add", "ofhe_add"} /\ build.fault # "FHE"
  BY <1>5, <1>7, <1>8, <1>9, DefectOf
<1>11. h2 <=> defect \notin {"seal_mul", "ofhe_mul"}
  BY <1>5, <1>7, <1>8, DefectOf
<1>12. h1 /\ h2 => (h3 <=> defect \notin {"seal_mul_sum", "ofhe_mul_sum"})
  BY <1>5, <1>7, <1>8, <1>10, <1>11, DefectOf
<1> HIDE DEF h1, h2, h3
<1>13. defect \in {"none", "seal_add", "seal_mul", "seal_mul_sum",
                   "ofhe_add", "ofhe_mul", "ofhe_mul_sum"}
  BY DEF HomomorphicDefects
<1>14. /\ ~ h1 => Blames("add disagree")
       /\ h1 /\ ~ h2 => Blames("mul disagree")
       /\ h1 /\ h2 /\ ~ h3 => Blames("distributivity disagree")
       /\ h1 /\ h2 /\ h3 => /\ defect # "none" => ~ HomomorphicExercises(defect)
                            /\ build.fault = "none"
  BY <1>10, <1>11, <1>12, <1>13, BfvDiffBlames
<1>15. build.h \in Homomorphic \ Counting
  BY DEF Homomorphic, HomomorphicDefects, Counting
<1>16. CASE Throws BY <1>1, <1>15, <1>16, ThrowsEnds
<1> DEFINE o1 == "add disagree"
           o2 == "mul disagree"
           o3 == "distributivity disagree"
<1>17. o1 # "none" /\ o2 # "none" /\ o3 # "none" OBVIOUS
<1>18. /\ ~ h1 => Blames(o1)
       /\ h1 /\ ~ h2 => Blames(o2)
       /\ h1 /\ h2 /\ ~ h3 => Blames(o3)
  BY <1>14
<1>19. \/ /\ JudgedInOrder(<<Oracle(o1, h1), Oracle(o2, h2), Oracle(o3, h3)>>)
          /\ Works
       \/ Throws
  BY <1>3
<1> HIDE DEF o1, o2, o3
<1>20. h1 /\ h2 /\ h3 => /\ defect # "none" => ~ HomomorphicExercises(defect)
                         /\ build.fault = "none"
  BY <1>14
<1>21. CASE JudgedInOrder(<<Oracle(o1, h1), Oracle(o2, h2), Oracle(o3, h3)>>) /\ Works
  BY <1>1, <1>4, <1>15, <1>17, <1>18, <1>20, <1>21, ThreeJudged
<1> QED BY <1>16, <1>19, <1>21


(* Errors of CKKS against their bounds.                                    *)
LEMMA Bounds ==
  ASSUME mem \in [product : {0, 4000}]
  PROVE  /\ MulBound = IF mem.product = 0 THEN 1 ELSE 5
         /\ XlibMul = IF mem.product = 0 THEN 2 ELSE 6
         /\ mem.product \in {0, 4000}
<1>1. 0 \div 1000 = 0 /\ 4000 \div 1000 = 4 OBVIOUS
<1>2. mem.product \in {0, 4000} OBVIOUS
<1>3. CASE mem.product = 0 BY <1>1, <1>3 DEF MulBound, XlibMul
<1>4. CASE mem.product = 4000 BY <1>1, <1>4 DEF MulBound, XlibMul
<1> QED BY <1>2, <1>3, <1>4

LEMMA SumsNear ==
  ASSUME NEW lib, NEW e \in SumErrors(lib)
  PROVE  /\ e \in -2 .. 3 /\ (Near(e, 1) <=> DefectIn(lib) # "add")
         /\ ~ Near(e + 500, 1)
         /\ Near(e, 1) <=> e \in -1 .. 1
<1>1. CASE DefectIn(lib) = "add" BY <1>1 DEF SumErrors, Near, Noise
<1>2. CASE DefectIn(lib) # "add" BY <1>2 DEF SumErrors, Near, Noise
<1> QED BY <1>1, <1>2

LEMMA ProductsNear ==
  ASSUME mem \in [product : {0, 4000}], NEW lib \in {"seal", "ofhe"},
         NEW f \in ProductErrors(lib)
  PROVE  /\ f \in Int
         /\ Near(f, MulBound) <=> DefectIn(lib) # "mul"
         /\ DefectIn(lib) # "mul" /\ defect # "apart" => f \in -1 .. 1
         /\ defect = "apart" => f = IF lib = "seal" THEN MulBound ELSE - MulBound
<1>1. MulBound \in {1, 5} BY Bounds
<1>2. DefectIn(lib) = "mul" => defect # "apart" BY DefectOf
<1>3. CASE DefectIn(lib) = "mul"
  <2>1. f \in {- MulBound - 1, MulBound + 1} BY <1>2, <1>3 DEF ProductErrors
  <2> QED BY <1>1, <1>2, <1>3, <2>1 DEF Near
<1>4. CASE defect = "apart"
  <2>1. f = IF lib = "seal" THEN MulBound ELSE - MulBound
    BY <1>2, <1>4 DEF ProductErrors
  <2> QED BY <1>1, <1>2, <1>4, <2>1 DEF Near
<1>5. CASE DefectIn(lib) # "mul" /\ defect # "apart"
  <2>1. f \in -1 .. 1 BY <1>5 DEF ProductErrors, Noise
  <2> QED BY <1>1, <1>5, <2>1 DEF Near
<1> QED BY <1>3, <1>4, <1>5

LEMMA CkksStep ==
  ASSUME HomomorphicAt, Ckks, build' = build, defect' = defect, log' = log,
         build.h = "ckks", build.fault \in {"none", "FHE"},
         defect \in {"none"} \cup HomomorphicDefects.ckks,
         build.fault # "none" => defect = "none"
  PROVE  HomomorphicAt'
<1>1. pc = "ckks" /\ mem \in Operands BY DEF Ckks, HomomorphicAt
<1>2. mem \in [product : {0, 4000}] BY <1>1 DEF Operands
<1>3. build.h \in Homomorphic \ Counting
  BY DEF Homomorphic, HomomorphicDefects, Counting
<1>4. CASE Throws BY <1>1, <1>3, <1>4, ThrowsEnds
<1>5. CASE /\ \E e \in SumErrors("seal"), f \in ProductErrors("seal") :
                JudgedInOrder(<<Oracle("add error", Near(e + Shift, 1)),
                                Oracle("mul error", Near(f, MulBound))>>)
           /\ Works
  <2>1. PICK e \in SumErrors("seal"), f \in ProductErrors("seal") :
          JudgedInOrder(<<Oracle("add error", Near(e + Shift, 1)),
                          Oracle("mul error", Near(f, MulBound))>>)
    BY <1>5
  <2> DEFINE h1 == Near(e + Shift, 1)
             h2 == Near(f, MulBound)
  <2>2. h1 \in BOOLEAN /\ h2 \in BOOLEAN BY DEF Near
  <2>3. h1 <=> defect # "seal_add" /\ build.fault # "FHE"
    <3>1. e \in -2 .. 3 BY SumsNear
    <3>2. CASE build.fault = "FHE" BY <3>2, SumsNear DEF Shift
    <3>3. CASE build.fault # "FHE"
      <4>1. e + Shift = e BY <3>1, <3>3 DEF Shift
      <4> QED BY <3>3, <4>1, SumsNear, DefectOf
    <3> QED BY <3>2, <3>3
  <2>4. h2 <=> defect # "seal_mul" BY <1>2, ProductsNear, DefectOf
  <2>5. JudgedInOrder(<<Oracle("add error", h1), Oracle("mul error", h2)>>) BY <2>1
  <2> HIDE DEF h1, h2
  <2>6. defect \in {"none", "seal_add", "seal_mul"} BY DEF HomomorphicDefects
  <2>7. /\ ~ h1 => Blames("add error")
        /\ h1 /\ ~ h2 => Blames("mul error")
        /\ h1 /\ h2 => /\ defect # "none" => ~ HomomorphicExercises(defect)
                       /\ build.fault = "none"
    BY <2>3, <2>4, <2>6, CkksBlames
  <2> QED BY <1>1, <1>3, <1>5, <2>2, <2>5, <2>7, TwoJudged
<1> QED BY <1>4, <1>5 DEF Ckks

LEMMA FourJudged ==
  ASSUME NEW o1, NEW o2, NEW o3, NEW o4,
         NEW h1 \in BOOLEAN, NEW h2 \in BOOLEAN, NEW h3 \in BOOLEAN,
         NEW h4 \in BOOLEAN,
         o1 # "none", o2 # "none", o3 # "none", o4 # "none",
         HomomorphicAt, pc = build.h, build' = build, defect' = defect,
         log' = log, Works, build.h \in Homomorphic,
         JudgedInOrder(<<Oracle(o1, h1), Oracle(o2, h2), Oracle(o3, h3),
                         Oracle(o4, h4)>>),
         ~ h1 => Blames(o1),
         h1 /\ ~ h2 => Blames(o2),
         h1 /\ h2 /\ ~ h3 => Blames(o3),
         h1 /\ h2 /\ h3 /\ ~ h4 => Blames(o4),
         h1 /\ h2 /\ h3 /\ h4 =>
           /\ defect # "none" => ~ HomomorphicExercises(defect)
           /\ build.fault = "none"
  PROVE  HomomorphicAt'
<1> DEFINE asserts == <<Oracle(o1, h1), Oracle(o2, h2), Oracle(o3, h3),
                        Oracle(o4, h4)>>
<1>1. /\ DOMAIN asserts = 1 .. 4
      /\ asserts[1] = Oracle(o1, h1)
      /\ asserts[2] = Oracle(o2, h2)
      /\ asserts[3] = Oracle(o3, h3)
      /\ asserts[4] = Oracle(o4, h4)
  OBVIOUS
<1> HIDE DEF asserts
<1>2. /\ (asserts[1].holds <=> h1) /\ asserts[1].oracle = o1
      /\ (asserts[2].holds <=> h2) /\ asserts[2].oracle = o2
      /\ (asserts[3].holds <=> h3) /\ asserts[3].oracle = o3
      /\ (asserts[4].holds <=> h4) /\ asserts[4].oracle = o4
  BY <1>1, OracleParts
<1>3. \A i \in DOMAIN asserts :
        /\ ~ asserts[i].holds
        /\ \A j \in DOMAIN asserts : j < i => asserts[j].holds
        => Blames(asserts[i].oracle)
  BY <1>1, <1>2
<1>4. (\A i \in DOMAIN asserts : asserts[i].holds) =>
        /\ defect # "none" => ~ HomomorphicExercises(defect)
        /\ build.fault = "none"
  BY <1>1, <1>2
<1>5. \A i \in DOMAIN asserts : asserts[i].oracle # "none" BY <1>1, <1>2
<1>6. JudgedInOrder(asserts) BY DEF asserts
<1> QED BY <1>1, <1>3, <1>4, <1>5, <1>6, JudgedEnds

LEMMA CkksDiffStep ==
  ASSUME HomomorphicAt, CkksDiff, build' = build, defect' = defect, log' = log,
         build.h = "ckks_diff", build.fault \in {"none", "FHE"},
         defect \in {"none"} \cup HomomorphicDefects.ckks_diff,
         build.fault # "none" => defect = "none"
  PROVE  HomomorphicAt'
<1>1. pc = "ckks_diff" /\ mem \in Operands BY DEF CkksDiff, HomomorphicAt
<1>2. mem \in [product : {0, 4000}] BY <1>1 DEF Operands
<1>3. build.h \in Homomorphic \ Counting
  BY DEF Homomorphic, HomomorphicDefects, Counting
<1>4. CASE Throws BY <1>1, <1>3, <1>4, ThrowsEnds
<1>5. CASE ~ Throws
  <2>1. PICK es \in SumErrors("seal"), eo \in SumErrors("ofhe"),
             fs \in ProductErrors("seal"), fo \in ProductErrors("ofhe") :
          JudgedInOrder(<<
            Oracle("add error", Near(es + Shift, 1) /\ Near(eo, 1)),
            Oracle("mul error", Near(fs, MulBound) /\ Near(fo, MulBound)),
            Oracle("add disagree", Near(es + Shift - eo, 2)),
            Oracle("mul disagree", Near(fs - fo, XlibMul))>>)
    BY <1>5 DEF CkksDiff
  <2> DEFINE h1 == Near(es + Shift, 1) /\ Near(eo, 1)
             h2 == Near(fs, MulBound) /\ Near(fo, MulBound)
             h3 == Near(es + Shift - eo, 2)
             h4 == Near(fs - fo, XlibMul)
  <2>2. h1 \in BOOLEAN /\ h2 \in BOOLEAN /\ h3 \in BOOLEAN /\ h4 \in BOOLEAN
    BY DEF Near
  <2>3. /\ es \in -2 .. 3 /\ eo \in -2 .. 3
        /\ Near(es, 1) <=> es \in -1 .. 1
        /\ Near(eo, 1) <=> eo \in -1 .. 1
        /\ ~ Near(es + 500, 1)
        /\ Near(es, 1) <=> defect # "seal_add"
        /\ Near(eo, 1) <=> defect # "ofhe_add"
    BY SumsNear, DefectOf
  <2>4. h1 <=> defect \notin {"seal_add", "ofhe_add"} /\ build.fault # "FHE"
    <3>1. CASE build.fault = "FHE" BY <2>3, <3>1 DEF Shift
    <3>2. CASE build.fault # "FHE"
      <4>1. es + Shift = es BY <2>3, <3>2 DEF Shift
      <4> QED BY <2>3, <3>2, <4>1
    <3> QED BY <3>1, <3>2
  <2>5. h1 => h3
    <3>1. SUFFICES ASSUME h1 PROVE h3 OBVIOUS
    <3>2. Shift = 0 BY <2>4, <3>1 DEF Shift
    <3>3. es \in -1 .. 1 /\ eo \in -1 .. 1 BY <2>3, <2>4, <3>1
    <3> QED BY <3>2, <3>3 DEF Near
  <2>6. h2 <=> defect \notin {"seal_mul", "ofhe_mul"} BY <1>2, ProductsNear, DefectOf
  <2>7. h2 => (h4 <=> ~ (defect = "apart" /\ mem.product > 0))
    <3>1. SUFFICES ASSUME h2 PROVE h4 <=> ~ (defect = "apart" /\ mem.product > 0)
      OBVIOUS
    <3>2. /\ MulBound = IF mem.product = 0 THEN 1 ELSE 5
          /\ XlibMul = IF mem.product = 0 THEN 2 ELSE 6
          /\ mem.product \in {0, 4000}
      BY <1>2, Bounds
    <3>3. CASE defect = "apart"
      <4>1. fs = MulBound /\ fo = - MulBound BY <1>2, <3>3, ProductsNear
      <4> QED BY <3>2, <3>3, <4>1 DEF Near
    <3>4. CASE defect # "apart"
      <4>1. fs \in -1 .. 1 /\ fo \in -1 .. 1
        BY <1>2, <2>6, <3>1, <3>4, ProductsNear, DefectOf
      <4> QED BY <3>2, <3>4, <4>1 DEF Near
    <3> QED BY <3>3, <3>4
  <2>8. JudgedInOrder(<<Oracle("add error", h1), Oracle("mul error", h2),
                        Oracle("add disagree", h3), Oracle("mul disagree", h4)>>)
    BY <2>1
  <2> HIDE DEF h1, h2, h3, h4
  <2>9. defect \in {"none", "seal_add", "seal_mul", "ofhe_add", "ofhe_mul", "apart"}
    BY DEF HomomorphicDefects
  <2>10. defect = "apart" /\ ~ (mem.product > 0) => ~ HomomorphicExercises(defect)
    BY DEF HomomorphicExercises
  <2>11. /\ ~ h1 => Blames("add error")
         /\ h1 /\ ~ h2 => Blames("mul error")
         /\ h1 /\ h2 /\ ~ h3 => Blames("add disagree")
         /\ h1 /\ h2 /\ h3 /\ ~ h4 => Blames("mul disagree")
         /\ h1 /\ h2 /\ h3 /\ h4 => /\ defect # "none" => ~ HomomorphicExercises(defect)
                                    /\ build.fault = "none"
    BY <2>4, <2>5, <2>6, <2>7, <2>9, <2>10, CkksBlames
  <2>12. Works BY <1>5 DEF CkksDiff
  <2>13. pc = build.h /\ build.h \in Homomorphic BY <1>1, <1>3
  <2> DEFINE o1 == "add error"
             o2 == "mul error"
             o3 == "add disagree"
             o4 == "mul disagree"
  <2>14. o1 # "none" /\ o2 # "none" /\ o3 # "none" /\ o4 # "none" OBVIOUS
  <2>15. JudgedInOrder(<<Oracle(o1, h1), Oracle(o2, h2), Oracle(o3, h3),
                         Oracle(o4, h4)>>)
    BY <2>8
  <2>16. /\ ~ h1 => Blames(o1)
         /\ h1 /\ ~ h2 => Blames(o2)
         /\ h1 /\ h2 /\ ~ h3 => Blames(o3)
         /\ h1 /\ h2 /\ h3 /\ ~ h4 => Blames(o4)
         /\ h1 /\ h2 /\ h3 /\ h4 => /\ defect # "none" => ~ HomomorphicExercises(defect)
                                    /\ build.fault = "none"
    BY <2>11
  <2> HIDE DEF o1, o2, o3, o4
  <2> QED BY <2>2, <2>12, <2>13, <2>14, <2>15, <2>16, FourJudged
<1> QED BY <1>4, <1>5


(* Integers of TFHE.                                                       *)
TfheOps == <<"add", "sub", "mul", "distributivity", "and", "or", "xor", "gt",
             "lt", "eq", "ne">>

LEMMA NextWord == ASSUME NEW x \in Int PROVE (x + 1) % 4 # x
  OBVIOUS

LEMMA ClearNumbers ==
  ASSUME NEW a \in 0 .. 3, NEW b \in 0 .. 3,
         NEW op \in {"add", "sub", "mul", "and", "or", "xor"}
  PROVE  Clear(op, a, b) \in Int
<1> DEFINE both == 2 * ((a \div 2) * (b \div 2)) + (a % 2) * (b % 2)
<1>1. a * b \in Int /\ both \in Int
  <2>1. a \div 2 \in Int /\ b \div 2 \in Int /\ a % 2 \in Int /\ b % 2 \in Int OBVIOUS
  <2>2. (a \div 2) * (b \div 2) \in Int /\ (a % 2) * (b % 2) \in Int BY <2>1
  <2> QED BY <2>2
<1>2. CASE op = "add" BY <1>2 DEF Clear, W
<1>3. CASE op = "sub" BY <1>3 DEF Clear, W
<1>4. CASE op = "mul" BY <1>1, <1>4 DEF Clear, W
<1>5. CASE op = "and"
  <2>1. Clear(op, a, b) = both BY <1>5 DEF Clear
  <2> HIDE DEF both
  <2> QED BY <1>1, <2>1
<1>6. CASE op = "or"
  <2>1. Clear(op, a, b) = a + b - both BY <1>6 DEF Clear
  <2> HIDE DEF both
  <2> QED BY <1>1, <2>1
<1>7. CASE op = "xor"
  <2>1. Clear(op, a, b) = a + b - 2 * both BY <1>7 DEF Clear
  <2> HIDE DEF both
  <2> QED BY <1>1, <2>1
<1> QED BY <1>2, <1>3, <1>4, <1>5, <1>6, <1>7

LEMMA ComputedRight ==
  ASSUME NEW a \in 0 .. 3, NEW b \in 0 .. 3, NEW op \in HomomorphicDefects.tfhe
  PROVE  Computed(op, a, b) = Clear(op, a, b) <=> defect # op
<1>1. CASE defect # op BY <1>1 DEF Computed
<1>2. CASE defect = op /\ op \in {"gt", "lt", "eq", "ne"}
  <2>1. Computed(op, a, b) = (~ Clear(op, a, b)) BY <1>2, Zenon DEF Computed
  <2>2. Clear(op, a, b) \in BOOLEAN
    <3>1. CASE op = "gt" BY <3>1 DEF Clear
    <3>2. CASE op = "lt" BY <3>2 DEF Clear
    <3>3. CASE op = "eq" BY <3>3 DEF Clear
    <3>4. CASE op = "ne" BY <3>4 DEF Clear
    <3> QED BY <1>2, <3>1, <3>2, <3>3, <3>4
  <2>3. \A x \in BOOLEAN : (~ x) # x OBVIOUS
  <2> QED BY <1>2, <2>1, <2>2, <2>3, Zenon
<1>3. CASE defect = op /\ op \notin {"gt", "lt", "eq", "ne"}
  <2>1. Computed(op, a, b) = (Clear(op, a, b) + 1) % 4 BY <1>3 DEF Computed, W
  <2>2. op \in {"add", "sub", "mul", "and", "or", "xor"}
    BY <1>3 DEF HomomorphicDefects
  <2>3. Clear(op, a, b) \in Int BY <2>2, ClearNumbers
  <2> QED BY <1>3, <2>1, <2>3, NextWord
<1> QED BY <1>1, <1>2, <1>3

LEMMA TfheStep ==
  ASSUME HomomorphicAt, Tfhe, build' = build, defect' = defect, log' = log,
         build.h = "tfhe", build.fault \in {"none", "fault"},
         defect \in {"none"} \cup HomomorphicDefects.tfhe,
         build.fault # "none" => defect = "none"
  PROVE  HomomorphicAt'
<1>1. pc = "tfhe" /\ mem \in Operands BY DEF Tfhe, HomomorphicAt
<1>2. mem \in [a : 0 .. 3, b : 0 .. 3, c : {0, 3}] BY <1>1 DEF Operands, W
<1>3. build.h \in Homomorphic BY DEF Homomorphic, HomomorphicDefects
<1> DEFINE a == mem.a
           b == mem.b
           c == mem.c
           faulty(op) == IF op = "mul" /\ build.fault = "fault"
                         THEN (Computed(op, a, b) + 1) % W ELSE Computed(op, a, b)
           sound(op) == faulty(op) = Clear(op, a, b)
           distr == Computed("mul", a, Computed("add", b, c))
                      = Clear("mul", a, Clear("add", b, c))
           right(op) == Oracle(op, sound(op))
           asserts == <<right("add"), right("sub"), right("mul"),
                        Oracle("distributivity", distr),
                        right("and"), right("or"), right("xor"), right("gt"),
                        right("lt"), right("eq"), right("ne")>>
<1>4. JudgedInOrder(asserts) /\ Works BY DEF Tfhe
<1>5. a \in 0 .. 3 /\ b \in 0 .. 3 BY <1>2
<1>6. ASSUME NEW op \in HomomorphicDefects.tfhe
      PROVE  sound(op) <=> defect # op /\ ~ (op = "mul" /\ build.fault = "fault")
  <2>1. Computed(op, a, b) = Clear(op, a, b) <=> defect # op BY <1>5, ComputedRight
  <2>2. CASE op = "mul" /\ build.fault = "fault"
    <3>1. Computed(op, a, b) = Clear(op, a, b) /\ Clear(op, a, b) \in Int
      BY <1>5, <2>1, <2>2, ClearNumbers DEF HomomorphicDefects
    <3> QED BY <2>2, <3>1, NextWord DEF W
  <2>3. CASE ~ (op = "mul" /\ build.fault = "fault") BY <2>1, <2>3
  <2> QED BY <2>2, <2>3
<1>7. defect \notin {"add", "mul"} => distr BY DEF Computed
<1>8. distr \in BOOLEAN /\ \A op \in HomomorphicDefects.tfhe : sound(op) \in BOOLEAN
  OBVIOUS
<1>9. /\ DOMAIN asserts = 1 .. 11
      /\ asserts[4] = Oracle("distributivity", distr)
      /\ DOMAIN TfheOps = 1 .. 11 /\ TfheOps[4] = "distributivity"
      /\ TfheOps[1] = "add" /\ TfheOps[2] = "sub" /\ TfheOps[3] = "mul"
      /\ TfheOps[5] = "and" /\ TfheOps[6] = "or" /\ TfheOps[7] = "xor"
      /\ TfheOps[8] = "gt" /\ TfheOps[9] = "lt" /\ TfheOps[10] = "eq"
      /\ TfheOps[11] = "ne"
  <2> HIDE DEF right, distr
  <2> QED BY DEF TfheOps
<1>10. /\ asserts[1] = right("add") /\ asserts[2] = right("sub") /\ asserts[3] = right("mul")
       /\ asserts[5] = right("and") /\ asserts[6] = right("or") /\ asserts[7] = right("xor")
       /\ asserts[8] = right("gt") /\ asserts[9] = right("lt") /\ asserts[10] = right("eq")
       /\ asserts[11] = right("ne")
  <2> HIDE DEF right, distr
  <2> QED OBVIOUS
<1>11. \A op \in HomomorphicDefects.tfhe :
         right(op).oracle = op /\ (right(op).holds <=> sound(op))
  BY <1>8, OracleParts
<1>12. asserts[4].oracle = "distributivity" /\ (asserts[4].holds <=> distr)
  BY <1>8, <1>9, OracleParts
<1> HIDE DEF right, sound, distr, asserts, faulty
<1>13. HomomorphicDefects.tfhe =
         {"add", "sub", "mul", "and", "or", "xor", "gt", "lt", "eq", "ne"}
  BY DEF HomomorphicDefects
<1>14. \A i \in 1 .. 11 \ {4} :
         /\ asserts[i].oracle = TfheOps[i] /\ TfheOps[i] \in HomomorphicDefects.tfhe
         /\ (asserts[i].holds <=> sound(TfheOps[i]))
  BY <1>9, <1>10, <1>11, <1>13
<1>15. ASSUME NEW i \in DOMAIN asserts, ~ asserts[i].holds,
              \A j \in DOMAIN asserts : j < i => asserts[j].holds
       PROVE  Blames(asserts[i].oracle)
  <2>1. CASE i = 4
    <3>1. asserts[1].holds /\ asserts[3].holds BY <1>9, <1>15, <2>1
    <3>2. sound("add") /\ sound("mul") BY <1>9, <1>14, <3>1
    <3>3. defect \notin {"add", "mul"} BY <1>6, <1>13, <3>2
    <3> QED BY <1>7, <1>12, <1>15, <2>1, <3>3
  <2>2. CASE i # 4
    <3>1. i \in 1 .. 11 \ {4} BY <1>9, <2>2
    <3>2. ~ sound(TfheOps[i]) /\ TfheOps[i] \in HomomorphicDefects.tfhe
          /\ asserts[i].oracle = TfheOps[i]
      BY <1>14, <1>15, <3>1
    <3>3. TfheOps[i] = defect \/ (TfheOps[i] = "mul" /\ build.fault = "fault")
      BY <1>6, <3>2
    <3> QED BY <3>2, <3>3, TfheBlames
  <2> QED BY <2>1, <2>2
<1>16. (\A i \in DOMAIN asserts : asserts[i].holds) =>
         /\ defect # "none" => ~ HomomorphicExercises(defect)
         /\ build.fault = "none"
  <2>1. SUFFICES ASSUME \A i \in DOMAIN asserts : asserts[i].holds
                 PROVE  defect = "none" /\ build.fault = "none"
    OBVIOUS
  <2>2. \A i \in 1 .. 11 \ {4} : sound(TfheOps[i]) BY <1>9, <1>14, <2>1
  <2>3. \A op \in HomomorphicDefects.tfhe : sound(op) BY <1>9, <1>13, <2>2
  <2>4. \A op \in HomomorphicDefects.tfhe :
          defect # op /\ ~ (op = "mul" /\ build.fault = "fault")
    BY <1>6, <2>3
  <2>5. "mul" \in HomomorphicDefects.tfhe BY <1>13
  <2> QED BY <2>4, <2>5
<1>17. \A i \in DOMAIN asserts : asserts[i].oracle # "none"
  BY <1>9, <1>12, <1>13, <1>14
<1> QED BY <1>1, <1>3, <1>4, <1>9, <1>15, <1>16, <1>17, JudgedEnds

(* Proofs of statements.                                                   *)
LEMMA ProofParts ==
  ASSUME NEW s, NEW k
  PROVE  /\ Proof(s, k).of = s /\ Proof(s, k).under = k /\ Proof(s, k).intact
         /\ [Proof(s, k) EXCEPT !.intact = FALSE].of = s
         /\ [Proof(s, k) EXCEPT !.intact = FALSE].under = k
         /\ ~ [Proof(s, k) EXCEPT !.intact = FALSE].intact
<1> DEFINE Bit(v) == [of |-> s, under |-> k, intact |-> v]
<1>1. ASSUME NEW v \in BOOLEAN, NEW w \in BOOLEAN
      PROVE  /\ [Bit(v) EXCEPT !.intact = w] = Bit(w)
             /\ Bit(v).of = s /\ Bit(v).under = k /\ Bit(v).intact = v
  OBVIOUS
<1>2. Proof(s, k) = Bit(TRUE) BY DEF Proof
<1> HIDE DEF Bit
<1> QED BY <1>1, <1>2

LEMMA ZkStep ==
  ASSUME HomomorphicAt, Zk, build' = build, defect' = defect, log' = log,
         build.h = "zk", build.fault \in {"none", "fault"},
         defect \in {"none"} \cup HomomorphicDefects.zk,
         build.fault # "none" => defect = "none"
  PROVE  HomomorphicAt'
<1>1. pc = "zk" BY DEF Zk
<1>2. build.h \in Homomorphic BY DEF Homomorphic, HomomorphicDefects
<1> DEFINE honest == Accepted(1, "c", Proof("c", 1))
           tampered == [Proof("c", 1) EXCEPT !.intact = FALSE]
           h1 == IF build.fault = "fault" THEN ~ honest ELSE honest
           h2 == ~ Accepted(1, "c + 1", Proof("c", 1))
           h3 == ~ Accepted(1, "c", Proof("c2", 1))
           h4 == ~ Accepted(1, "c", tampered)
           h5 == ~ Accepted(2, "c", Proof("c", 1))
<1>3. /\ JudgedInOrder(<<Oracle("completeness", h1), Oracle("wrong public input", h2),
                         Oracle("different statement", h3), Oracle("tampered", h4),
                         Oracle("independent CRS", h5)>>)
      /\ Works
  BY DEF Zk
<1>4. \A s, k : Proof(s, k).of = s /\ Proof(s, k).under = k /\ Proof(s, k).intact
  BY ProofParts
<1>5. tampered.of = "c" /\ tampered.under = 1 /\ ~ tampered.intact
  BY ProofParts
<1> HIDE DEF tampered
<1>6. /\ (honest <=> defect # "zk_rejects")
      /\ (h2 <=> defect # "zk_any_input")
      /\ (h3 <=> defect # "zk_any_input")
      /\ (h4 <=> defect # "zk_malleable")
      /\ (h5 <=> defect # "zk_any_crs")
  <2>1. defect \in {"none", "zk_rejects", "zk_any_input", "zk_malleable", "zk_any_crs"}
    BY DEF HomomorphicDefects
  <2>2. /\ Proof("c", 1).of = "c" /\ Proof("c", 1).under = 1 /\ Proof("c", 1).intact
        /\ Proof("c2", 1).of = "c2" /\ Proof("c2", 1).under = 1 /\ Proof("c2", 1).intact
    BY <1>4
  <2>3. honest <=> defect # "zk_rejects" BY <2>1, <2>2 DEF Accepted
  <2>4. h2 <=> defect # "zk_any_input" BY <2>1, <2>2, Zenon DEF Accepted
  <2>5. h3 <=> defect # "zk_any_input" BY <2>1, <2>2 DEF Accepted
  <2>6. h4 <=> defect # "zk_malleable" BY <1>5, <2>1 DEF Accepted
  <2>7. h5 <=> defect # "zk_any_crs" BY <2>1, <2>2 DEF Accepted
  <2> QED BY <2>3, <2>4, <2>5, <2>6, <2>7
<1>7. h1 <=> defect # "zk_rejects" /\ build.fault = "none"
  <2> HIDE DEF honest
  <2> QED BY <1>6
<1>8. h1 \in BOOLEAN /\ h2 \in BOOLEAN /\ h3 \in BOOLEAN /\ h4 \in BOOLEAN
      /\ h5 \in BOOLEAN
  BY DEF Accepted
<1>9. defect \in {"none", "zk_rejects", "zk_any_input", "zk_malleable", "zk_any_crs"}
  BY DEF HomomorphicDefects
<1>10. /\ ~ h1 => Blames("completeness")
       /\ h1 /\ ~ h2 => Blames("wrong public input")
       /\ h1 /\ h2 /\ ~ h3 => Blames("different statement")
       /\ h1 /\ h2 /\ h3 /\ ~ h4 => Blames("tampered")
       /\ h1 /\ h2 /\ h3 /\ h4 /\ ~ h5 => Blames("independent CRS")
       /\ h1 /\ h2 /\ h3 /\ h4 /\ h5 =>
            /\ defect # "none" => ~ HomomorphicExercises(defect)
            /\ build.fault = "none"
  <2> HIDE DEF honest, h1, h2, h3, h4, h5
  <2> QED BY <1>6, <1>7, <1>9, ZkBlames
<1>11. JudgedInOrder(<<Oracle("completeness", h1), Oracle("wrong public input", h2),
                        Oracle("different statement", h3), Oracle("tampered", h4),
                        Oracle("independent CRS", h5)>>)
  BY <1>3
<1> HIDE DEF honest, h1, h2, h3, h4, h5
<1>12. pc = build.h BY <1>1
<1> DEFINE o1 == "completeness"
           o2 == "wrong public input"
           o3 == "different statement"
           o4 == "tampered"
           o5 == "independent CRS"
<1>13. o1 # "none" /\ o2 # "none" /\ o3 # "none" /\ o4 # "none" /\ o5 # "none"
  OBVIOUS
<1>14. JudgedInOrder(<<Oracle(o1, h1), Oracle(o2, h2), Oracle(o3, h3),
                       Oracle(o4, h4), Oracle(o5, h5)>>)
  BY <1>11
<1>15. /\ ~ h1 => Blames(o1)
       /\ h1 /\ ~ h2 => Blames(o2)
       /\ h1 /\ h2 /\ ~ h3 => Blames(o3)
       /\ h1 /\ h2 /\ h3 /\ ~ h4 => Blames(o4)
       /\ h1 /\ h2 /\ h3 /\ h4 /\ ~ h5 => Blames(o5)
       /\ h1 /\ h2 /\ h3 /\ h4 /\ h5 =>
            /\ defect # "none" => ~ HomomorphicExercises(defect)
            /\ build.fault = "none"
  BY <1>10
<1>16. Works BY <1>3
<1> DEFINE asserts == <<Oracle(o1, h1), Oracle(o2, h2), Oracle(o3, h3),
                       Oracle(o4, h4), Oracle(o5, h5)>>
<1>17. JudgedInOrder(asserts) BY <1>14
<1>18. /\ DOMAIN asserts = 1 .. 5
       /\ asserts[1] = Oracle(o1, h1)
       /\ asserts[2] = Oracle(o2, h2)
       /\ asserts[3] = Oracle(o3, h3)
       /\ asserts[4] = Oracle(o4, h4)
       /\ asserts[5] = Oracle(o5, h5)
  <2> HIDE DEF o1, o2, o3, o4, o5
  <2> QED OBVIOUS
<1> HIDE DEF o1, o2, o3, o4, o5, asserts
<1>19. /\ (asserts[1].holds <=> h1) /\ asserts[1].oracle = o1
       /\ (asserts[2].holds <=> h2) /\ asserts[2].oracle = o2
       /\ (asserts[3].holds <=> h3) /\ asserts[3].oracle = o3
       /\ (asserts[4].holds <=> h4) /\ asserts[4].oracle = o4
       /\ (asserts[5].holds <=> h5) /\ asserts[5].oracle = o5
  BY <1>8, <1>18, OracleParts
<1>20. \A i \in DOMAIN asserts :
         /\ ~ asserts[i].holds
         /\ \A j \in DOMAIN asserts : j < i => asserts[j].holds
         => Blames(asserts[i].oracle)
  BY <1>15, <1>18, <1>19
<1>21. (\A i \in DOMAIN asserts : asserts[i].holds) =>
         /\ defect # "none" => ~ HomomorphicExercises(defect)
         /\ build.fault = "none"
  BY <1>15, <1>18, <1>19
<1>22. \A i \in DOMAIN asserts : asserts[i].oracle # "none" BY <1>13, <1>18, <1>19
<1> QED BY <1>2, <1>12, <1>16, <1>17, <1>18, <1>20, <1>21, <1>22, JudgedEnds

LEMMA ExitStep ==
  ASSUME HomomorphicAt, CountingExit, build' = build, defect' = defect
  PROVE  HomomorphicAt'
<1>1. /\ pc = "idle" /\ pc' = "abort" /\ report # "none" /\ report' = report
      /\ failed' = failed /\ draws' = draws /\ log' = log
      /\ build.h \in {"tfhe", "zk"}
  BY DEF CountingExit, Counting
<1>2. (\A o : Blames(o)' = Blames(o))
  BY DEF Blames, HomomorphicOracles, Expected
<1> QED BY <1>1, <1>2 DEF HomomorphicAt, Outside

LEMMA HomomorphicSteps ==
  ASSUME HomomorphicAt, HomomorphicStep, build' = build, defect' = defect,
         build.h \in Homomorphic, build.fault \in {"none"} \cup FaultsOf[build.h],
         defect \in {"none"} \cup HomomorphicDefects[build.h],
         build.fault # "none" => defect = "none"
  PROVE  HomomorphicAt'
<1>1. pc \in {build.h, "terminated"} \cup Outside BY DEF HomomorphicAt
<1>2. CASE CountingExit BY <1>2, ExitStep
<1>3. CASE SealBfv /\ log' = log
  <2>1. build.h = "seal_bfv" BY <1>1, <1>3 DEF SealBfv, Outside
  <2>2. build.fault = "none" /\ defect \in {"none"} \cup HomomorphicDefects.seal_bfv
    BY <2>1 DEF FaultsOf
  <2> QED BY <1>3, <2>1, <2>2, SealBfvStep
<1>4. CASE BfvDiff /\ log' = log
  <2>1. build.h = "bfv_diff" BY <1>1, <1>4 DEF BfvDiff, Outside
  <2>2. /\ build.fault \in {"none", "FHE"}
        /\ defect \in {"none"} \cup HomomorphicDefects.bfv_diff
    BY <2>1 DEF FaultsOf
  <2> QED BY <1>4, <2>1, <2>2, BfvDiffStep
<1>5. CASE Ckks /\ log' = log
  <2>1. build.h = "ckks" BY <1>1, <1>5 DEF Ckks, Outside
  <2>2. /\ build.fault \in {"none", "FHE"}
        /\ defect \in {"none"} \cup HomomorphicDefects.ckks
    BY <2>1 DEF FaultsOf
  <2> QED BY <1>5, <2>1, <2>2, CkksStep
<1>6. CASE CkksDiff /\ log' = log
  <2>1. build.h = "ckks_diff" BY <1>1, <1>6 DEF CkksDiff, Outside
  <2>2. /\ build.fault \in {"none", "FHE"}
        /\ defect \in {"none"} \cup HomomorphicDefects.ckks_diff
    BY <2>1 DEF FaultsOf
  <2> QED BY <1>6, <2>1, <2>2, CkksDiffStep
<1>7. CASE Tfhe /\ log' = log
  <2>1. build.h = "tfhe" BY <1>1, <1>7 DEF Tfhe, Outside
  <2>2. /\ build.fault \in {"none", "fault"}
        /\ defect \in {"none"} \cup HomomorphicDefects.tfhe
    BY <2>1 DEF FaultsOf
  <2> QED BY <1>7, <2>1, <2>2, TfheStep
<1>8. CASE Zk /\ log' = log
  <2>1. build.h = "zk" BY <1>1, <1>8 DEF Zk, Outside
  <2>2. /\ build.fault \in {"none", "fault"}
        /\ defect \in {"none"} \cup HomomorphicDefects.zk
    BY <2>1 DEF FaultsOf
  <2> QED BY <1>8, <2>1, <2>2, ZkStep
<1> QED BY <1>2, <1>3, <1>4, <1>5, <1>6, <1>7, <1>8 DEF HomomorphicStep

-----------------------------------------------------------------------------
(* What every step of a target does: it may add a call to those that have  *)
(* failed, and it reports only as it aborts.                               *)
Framed == /\ failed' \subseteq failed \cup Failing
          /\ report' = report \/ pc' = "abort"
          /\ pc' # "idle"

LEMMA KemFrame == ASSUME KemStep PROVE Framed /\ pc \in KemPlaces
<1> USE DEF Framed, KemPlaces, Works, Fails, Goto, Assert, DecapsInto
<1>1. CASE KemKeypair BY <1>1 DEF KemKeypair
<1>2. CASE KemEncaps BY <1>2 DEF KemEncaps
<1>3. CASE KemMR1 BY <1>3 DEF KemMR1
<1>4. CASE KemMR4 BY <1>4 DEF KemMR4
<1>5. CASE KemMR2 BY <1>5 DEF KemMR2
<1>6. CASE KemMR3Keypair BY <1>6 DEF KemMR3Keypair
<1>7. CASE KemMR3 BY <1>7 DEF KemMR3
<1>8. CASE KemMEM BY <1>8 DEF KemMEM
<1> QED BY <1>1, <1>2, <1>3, <1>4, <1>5, <1>6, <1>7, <1>8 DEF KemStep

LEMMA SigFrame == ASSUME SigStep PROVE Framed /\ pc \in SigPlaces
<1> USE DEF Framed, SigPlaces, Works, Fails, Goto, Assert, Verify, Refuses
<1>1. CASE SigKeypair BY <1>1 DEF SigKeypair
<1>2. CASE SigSign BY <1>2 DEF SigSign
<1>3. CASE SigMR1 BY <1>3 DEF SigMR1
<1>4. CASE SigFault BY <1>4 DEF SigFault
<1>5. CASE SigMR2 BY <1>5 DEF SigMR2
<1>6. CASE SigMR3 BY <1>6 DEF SigMR3
<1>7. CASE SigMR4Keypair BY <1>7 DEF SigMR4Keypair
<1>8. CASE SigMR4 BY <1>8 DEF SigMR4
<1>9. CASE SigMEM BY <1>9 DEF SigMEM
<1> QED BY <1>1, <1>2, <1>3, <1>4, <1>5, <1>6, <1>7, <1>8, <1>9 DEF SigStep

AeadStep == \/ NonceKey \/ SealFirst \/ SealSecond \/ NonceReuse
            \/ ReleaseSeal \/ ReleaseDeliver
EcdsaStep == EcdsaFirst \/ EcdsaSecond \/ EcdsaVerify \/ EcdsaReuse
EvpStep == EvpEncrypt \/ EvpReuse \/ EvpContext
PqcStep == PqcKeys \/ PqcHonest \/ PqcMisuse

LEMMA AeadFrame == ASSUME AeadStep PROVE Framed /\ pc \in AeadPlaces
<1> USE DEF Framed, AeadPlaces, Works, Fails, Goto, Assert,
           SealsUnseen, Opened, Reopened
<1>1. CASE NonceKey BY <1>1 DEF NonceKey
<1>2. CASE SealFirst BY <1>2 DEF SealFirst, SealFails
<1>3. CASE SealSecond BY <1>3 DEF SealSecond, SealFails
<1>4. CASE NonceReuse BY <1>4 DEF NonceReuse
<1>5. CASE ReleaseSeal BY <1>5 DEF ReleaseSeal, SealFails
<1>6. CASE ReleaseDeliver BY <1>6 DEF ReleaseDeliver
<1> QED BY <1>1, <1>2, <1>3, <1>4, <1>5, <1>6 DEF AeadStep

LEMMA EcdsaFrame == ASSUME EcdsaStep PROVE Framed /\ pc \in EcdsaPlaces
<1> USE DEF Framed, EcdsaPlaces, Works, Fails, Goto, Assert,
           SealsUnseen, Opened, Reopened
<1>1. CASE EcdsaFirst BY <1>1 DEF EcdsaFirst, EcdsaSign
<1>2. CASE EcdsaSecond BY <1>2 DEF EcdsaSecond, EcdsaSign
<1>3. CASE EcdsaVerify BY <1>3 DEF EcdsaVerify, Verify
<1>4. CASE EcdsaReuse BY <1>4 DEF EcdsaReuse
<1> QED BY <1>1, <1>2, <1>3, <1>4 DEF EcdsaStep

LEMMA EvpFrame == ASSUME EvpStep PROVE Framed /\ pc \in EvpPlaces
<1> USE DEF Framed, EvpPlaces, Works, Fails, Goto, Assert,
           SealsUnseen, Opened, Reopened
<1>1. CASE EvpEncrypt BY <1>1 DEF EvpEncrypt
<1>2. CASE EvpReuse BY <1>2 DEF EvpReuse
<1>3. CASE EvpContext BY <1>3 DEF EvpContext
<1> QED BY <1>1, <1>2, <1>3 DEF EvpStep

LEMMA PqcFrame == ASSUME PqcStep PROVE Framed /\ pc \in PqcPlaces
<1> USE DEF Framed, PqcPlaces, Works, Fails, Goto, Assert
<1>1. CASE PqcKeys BY <1>1 DEF PqcKeys
<1>2. CASE PqcHonest BY <1>2 DEF PqcHonest
<1>3. CASE PqcMisuse BY <1>3 DEF PqcMisuse
<1> QED BY <1>1, <1>2, <1>3 DEF PqcStep

AkStep == AkKeys \/ AkSign \/ AkVerify \/ AkRecord \/ AkTamper
KdfStep == KdfChain \/ KdfSeal \/ KdfOpen \/ KdfSeparate
TradStep == \/ EtmSeal \/ EtmRoundtrip \/ EtmTamper
            \/ RecSeal \/ RecRoundtrip \/ RecSeq \/ RecTamper

LEMMA AkFrame == ASSUME AkStep PROVE Framed /\ pc \in AkPlaces
<1> USE DEF Framed, AkPlaces, Works, Fails, Goto, Assert, Verify,
           SealsUnseen, Opened, Reopened
<1>1. CASE AkKeys BY <1>1 DEF AkKeys
<1>2. CASE AkSign BY <1>2 DEF AkSign
<1>3. CASE AkVerify BY <1>3 DEF AkVerify
<1>4. CASE AkRecord BY <1>4 DEF AkRecord
<1>5. CASE AkTamper BY <1>5 DEF AkTamper
<1> QED BY <1>1, <1>2, <1>3, <1>4, <1>5 DEF AkStep

LEMMA KdfFrame == ASSUME KdfStep PROVE Framed /\ pc \in KdfPlaces
<1> USE DEF Framed, KdfPlaces, Works, Fails, Goto, Assert,
           SealsUnseen, Opened, Reopened
<1>1. CASE KdfChain BY <1>1 DEF KdfChain
<1>2. CASE KdfSeal BY <1>2 DEF KdfSeal
<1>3. CASE KdfOpen BY <1>3 DEF KdfOpen
<1>4. CASE KdfSeparate BY <1>4 DEF KdfSeparate
<1> QED BY <1>1, <1>2, <1>3, <1>4 DEF KdfStep

LEMMA TradFrame == ASSUME TradStep PROVE Framed /\ pc \in EtmPlaces \cup RecPlaces
<1> USE DEF Framed, EtmPlaces, RecPlaces, Works, Fails, Goto, Assert,
           SealsUnseen, Opened, Reopened
<1>1. CASE EtmSeal BY <1>1 DEF EtmSeal
<1>2. CASE EtmRoundtrip BY <1>2 DEF EtmRoundtrip
<1>3. CASE EtmTamper BY <1>3 DEF EtmTamper
<1>4. CASE RecSeal BY <1>4 DEF RecSeal
<1>5. CASE RecRoundtrip BY <1>5 DEF RecRoundtrip
<1>6. CASE RecSeq BY <1>6 DEF RecSeq
<1>7. CASE RecTamper BY <1>7 DEF RecTamper, RecTamperOpens
<1> QED BY <1>1, <1>2, <1>3, <1>4, <1>5, <1>6, <1>7 DEF TradStep

HpkeActs == \/ HpkeSetup \/ HpkeEncaps \/ HpkeSeal
            \/ HpkeRoundtrip \/ HpkeBinding \/ HpkeTamper \/ HpkeEnd

LEMMA HpkeFrame == ASSUME HpkeActs PROVE Framed /\ pc \in HpkePlaces
<1> USE DEF Framed, HpkePlaces, Works, Fails, Goto, Assert,
           SealsUnseen, Opened, Reopened
<1>1. CASE HpkeSetup BY <1>1 DEF HpkeSetup
<1>2. CASE HpkeEncaps BY <1>2 DEF HpkeEncaps
<1>3. CASE HpkeSeal BY <1>3 DEF HpkeSeal
<1>4. CASE HpkeRoundtrip BY <1>4 DEF HpkeRoundtrip, RecipientOpens
<1>5. CASE HpkeBinding BY <1>5 DEF HpkeBinding, RecipientOpens
<1>6. CASE HpkeTamper BY <1>6 DEF HpkeTamper, RecipientOpens
<1>7. CASE HpkeEnd BY <1>7 DEF HpkeEnd
<1> QED BY <1>1, <1>2, <1>3, <1>4, <1>5, <1>6, <1>7 DEF HpkeActs

MetaStep == \/ Digest \/ DigestChunks \/ Hmac
            \/ AeadSeal \/ AeadRoundtrip \/ AeadTamper \/ AeadWrongKey
MultiStep == Asks \/ Agree

LEMMA MetaFrame == ASSUME MetaStep PROVE Framed /\ pc \in MetaPlaces
<1> USE DEF Framed, MetaPlaces, Works, Fails, Goto, Assert,
           SealsUnseen, Opened, Reopened
<1>1. CASE Digest BY <1>1 DEF Digest
<1>2. CASE DigestChunks BY <1>2 DEF DigestChunks
<1>3. CASE Hmac BY <1>3 DEF Hmac
<1>4. CASE AeadRoundtrip BY <1>4 DEF AeadRoundtrip
<1>5. CASE AeadTamper BY <1>5 DEF AeadTamper, TamperOpens
<1>6. CASE AeadWrongKey BY <1>6 DEF AeadWrongKey
<1>7. CASE AeadSeal BY <1>7 DEF AeadSeal
<1> QED BY <1>1, <1>2, <1>3, <1>4, <1>5, <1>6, <1>7 DEF MetaStep

LEMMA MultiFrame == ASSUME MultiStep PROVE Framed /\ pc \in MultiPlaces
<1> USE DEF Framed, MultiPlaces, Works, Fails, Goto, Assert
<1>1. CASE Asks BY <1>1 DEF Asks
<1>2. CASE Agree BY <1>2 DEF Agree
<1> QED BY <1>1, <1>2 DEF MultiStep

LEMMA HomomorphicFrame ==
  ASSUME HomomorphicStep
  PROVE  /\ failed' \subseteq failed \cup Failing
         /\ report' = report \/ pc' = "abort" \/ build.h \in Counting
         /\ pc' # "idle"
         /\ pc \in Homomorphic \/ CountingExit
<1>1. ASSUME NEW asserts, JudgedInOrder(asserts), Works
      PROVE  /\ failed' \subseteq failed \cup Failing
             /\ report' = report \/ pc' = "abort" \/ build.h \in Counting
             /\ pc' # "idle"
  BY <1>1 DEF JudgedInOrder, Works
<1>2. Throws => /\ failed' \subseteq failed \cup Failing
              /\ report' = report /\ pc' # "idle"
  BY DEF Throws, Fails
<1>3. CountingExit => failed' = failed /\ report' = report /\ pc' # "idle"
  BY DEF CountingExit
<1>4. CASE SealBfv BY <1>1, <1>2, <1>4 DEF SealBfv, Homomorphic, HomomorphicDefects
<1>5. CASE BfvDiff BY <1>1, <1>2, <1>5 DEF BfvDiff, Homomorphic, HomomorphicDefects
<1>6. CASE Ckks BY <1>1, <1>2, <1>6 DEF Ckks, Homomorphic, HomomorphicDefects
<1>7. CASE CkksDiff BY <1>1, <1>2, <1>7 DEF CkksDiff, Homomorphic, HomomorphicDefects
<1>8. CASE Tfhe BY <1>1, <1>2, <1>8 DEF Tfhe, Homomorphic, HomomorphicDefects
<1>9. CASE Zk BY <1>1, <1>2, <1>9 DEF Zk, Homomorphic, HomomorphicDefects
<1> QED BY <1>3, <1>4, <1>5, <1>6, <1>7, <1>8, <1>9 DEF HomomorphicStep

-----------------------------------------------------------------------------
(* The invariant.                                                          *)
FamilyAt ==
  /\ build.h = "kem" => KemAt /\ log = {}
  /\ build.h = "sig" => SigAt /\ log = {}
  /\ build.h \in AeadSeq => AeadAt
  /\ build.h = "seq_ecdsa" => EcdsaAt
  /\ build.h = "seq_evp" => EvpAt
  /\ build.h = "seq_pqc" => PqcAt
  /\ build.h = "authkem" => AkAt
  /\ build.h = "kdfchain" => KdfAt
  /\ build.h = "trad" => TradAt
  /\ build.h \in HpkeBuilds => HpkeAt
  /\ build.h \in {"trad_meta", "classic"} => MetaAt
  /\ build.h = "multilib" => MultiAt
  /\ build.h \in Homomorphic => HomomorphicAt

FuzzInv ==
  /\ build \in Builds
  /\ defect \in {"none"} \cup DefectsOf(build.h)
  /\ build.fault # "none" => defect = "none"
  /\ failed \subseteq Failing
  /\ draws \in 0 .. 6
  /\ report # "none" => pc = "abort" \/ build.h \in Counting
  /\ FamilyAt

-----------------------------------------------------------------------------
(* Which family a location belongs to; no two share one.                   *)
Kind(p) ==
  IF p \in KemPlaces THEN "kem"
  ELSE IF p \in SigPlaces THEN "sig"
  ELSE IF p \in AeadPlaces THEN "aead"
  ELSE IF p \in EcdsaPlaces THEN "ecdsa"
  ELSE IF p \in EvpPlaces THEN "evp"
  ELSE IF p \in PqcPlaces THEN "pqc"
  ELSE IF p \in AkPlaces THEN "ak"
  ELSE IF p \in KdfPlaces THEN "kdf"
  ELSE IF p \in EtmPlaces \cup RecPlaces THEN "trad"
  ELSE IF p \in HpkePlaces THEN "hpke"
  ELSE IF p \in MetaPlaces THEN "meta"
  ELSE IF p \in MultiPlaces THEN "multi"
  ELSE IF p \in Homomorphic THEN "homomorphic"
  ELSE "outside"

LEMMA KindOf ==
  ASSUME NEW p
  PROVE  /\ p \in KemPlaces => Kind(p) = "kem"
         /\ p \in SigPlaces => Kind(p) = "sig"
         /\ p \in AeadPlaces => Kind(p) = "aead"
         /\ p \in EcdsaPlaces => Kind(p) = "ecdsa"
         /\ p \in EvpPlaces => Kind(p) = "evp"
         /\ p \in PqcPlaces => Kind(p) = "pqc"
         /\ p \in AkPlaces => Kind(p) = "ak"
         /\ p \in KdfPlaces => Kind(p) = "kdf"
         /\ p \in EtmPlaces \cup RecPlaces => Kind(p) = "trad"
         /\ p \in HpkePlaces => Kind(p) = "hpke"
         /\ p \in MetaPlaces => Kind(p) = "meta"
         /\ p \in MultiPlaces => Kind(p) = "multi"
         /\ p \in Homomorphic => Kind(p) = "homomorphic"
         /\ p \in Outside \cup {"terminated"} => Kind(p) = "outside"
<1>1. p \in KemPlaces => Kind(p) = "kem"
  BY DEF Kind, KemPlaces, SigPlaces, AeadPlaces, EcdsaPlaces, EvpPlaces,
         PqcPlaces, AkPlaces, KdfPlaces, EtmPlaces, RecPlaces, HpkePlaces, MetaPlaces,
         MultiPlaces, Homomorphic, HomomorphicDefects
<1>2. p \in SigPlaces => Kind(p) = "sig"
  BY DEF Kind, KemPlaces, SigPlaces, AeadPlaces, EcdsaPlaces, EvpPlaces,
         PqcPlaces, AkPlaces, KdfPlaces, EtmPlaces, RecPlaces, HpkePlaces, MetaPlaces,
         MultiPlaces, Homomorphic, HomomorphicDefects
<1>3. p \in AeadPlaces => Kind(p) = "aead"
  BY DEF Kind, KemPlaces, SigPlaces, AeadPlaces, EcdsaPlaces, EvpPlaces,
         PqcPlaces, AkPlaces, KdfPlaces, EtmPlaces, RecPlaces, HpkePlaces, MetaPlaces,
         MultiPlaces, Homomorphic, HomomorphicDefects
<1>4. p \in EcdsaPlaces => Kind(p) = "ecdsa"
  BY DEF Kind, KemPlaces, SigPlaces, AeadPlaces, EcdsaPlaces, EvpPlaces,
         PqcPlaces, AkPlaces, KdfPlaces, EtmPlaces, RecPlaces, HpkePlaces, MetaPlaces,
         MultiPlaces, Homomorphic, HomomorphicDefects
<1>5. p \in EvpPlaces => Kind(p) = "evp"
  BY DEF Kind, KemPlaces, SigPlaces, AeadPlaces, EcdsaPlaces, EvpPlaces,
         PqcPlaces, AkPlaces, KdfPlaces, EtmPlaces, RecPlaces, HpkePlaces, MetaPlaces,
         MultiPlaces, Homomorphic, HomomorphicDefects
<1>6. p \in PqcPlaces => Kind(p) = "pqc"
  BY DEF Kind, KemPlaces, SigPlaces, AeadPlaces, EcdsaPlaces, EvpPlaces,
         PqcPlaces, AkPlaces, KdfPlaces, EtmPlaces, RecPlaces, HpkePlaces, MetaPlaces,
         MultiPlaces, Homomorphic, HomomorphicDefects
<1>7. p \in AkPlaces => Kind(p) = "ak"
  BY DEF Kind, KemPlaces, SigPlaces, AeadPlaces, EcdsaPlaces, EvpPlaces,
         PqcPlaces, AkPlaces, KdfPlaces, EtmPlaces, RecPlaces, HpkePlaces, MetaPlaces,
         MultiPlaces, Homomorphic, HomomorphicDefects
<1>8. p \in KdfPlaces => Kind(p) = "kdf"
  BY DEF Kind, KemPlaces, SigPlaces, AeadPlaces, EcdsaPlaces, EvpPlaces,
         PqcPlaces, AkPlaces, KdfPlaces, EtmPlaces, RecPlaces, HpkePlaces, MetaPlaces,
         MultiPlaces, Homomorphic, HomomorphicDefects
<1>9. p \in EtmPlaces \cup RecPlaces => Kind(p) = "trad"
  BY DEF Kind, KemPlaces, SigPlaces, AeadPlaces, EcdsaPlaces, EvpPlaces,
         PqcPlaces, AkPlaces, KdfPlaces, EtmPlaces, RecPlaces, HpkePlaces, MetaPlaces,
         MultiPlaces, Homomorphic, HomomorphicDefects
<1>10. p \in HpkePlaces => Kind(p) = "hpke"
  BY DEF Kind, KemPlaces, SigPlaces, AeadPlaces, EcdsaPlaces, EvpPlaces,
         PqcPlaces, AkPlaces, KdfPlaces, EtmPlaces, RecPlaces, HpkePlaces, MetaPlaces,
         MultiPlaces, Homomorphic, HomomorphicDefects
<1>11. p \in MetaPlaces => Kind(p) = "meta"
  BY DEF Kind, KemPlaces, SigPlaces, AeadPlaces, EcdsaPlaces, EvpPlaces,
         PqcPlaces, AkPlaces, KdfPlaces, EtmPlaces, RecPlaces, HpkePlaces, MetaPlaces,
         MultiPlaces, Homomorphic, HomomorphicDefects
<1>12. p \in MultiPlaces => Kind(p) = "multi"
  BY DEF Kind, KemPlaces, SigPlaces, AeadPlaces, EcdsaPlaces, EvpPlaces,
         PqcPlaces, AkPlaces, KdfPlaces, EtmPlaces, RecPlaces, HpkePlaces, MetaPlaces,
         MultiPlaces, Homomorphic, HomomorphicDefects
<1>13. p \in Homomorphic => Kind(p) = "homomorphic"
  BY DEF Kind, KemPlaces, SigPlaces, AeadPlaces, EcdsaPlaces, EvpPlaces,
         PqcPlaces, AkPlaces, KdfPlaces, EtmPlaces, RecPlaces, HpkePlaces, MetaPlaces,
         MultiPlaces, Homomorphic, HomomorphicDefects
<1>14. p \in Outside \cup {"terminated"} => Kind(p) = "outside"
  BY DEF Kind, Outside, KemPlaces, SigPlaces, AeadPlaces, EcdsaPlaces, EvpPlaces,
         PqcPlaces, AkPlaces, KdfPlaces, EtmPlaces, RecPlaces, HpkePlaces, MetaPlaces,
         MultiPlaces, Homomorphic, HomomorphicDefects
<1> QED
  BY <1>1, <1>2, <1>3, <1>4, <1>5, <1>6, <1>7, <1>8, <1>9, <1>10, <1>11, <1>12, <1>13,
     <1>14

(* A step is one of the family its location belongs to.                    *)
LEMMA StepsSorted ==
  ASSUME Steps
  PROVE  /\ Kind(pc) = "kem" => KemStep /\ bits' = bits /\ log' = log
         /\ Kind(pc) = "sig" => SigStep /\ bits' = bits /\ log' = log
         /\ Kind(pc) = "aead" => AeadStep /\ bits' = bits
         /\ Kind(pc) = "ecdsa" => EcdsaStep /\ bits' = bits
         /\ Kind(pc) = "evp" => EvpStep /\ bits' = bits
         /\ Kind(pc) = "pqc" => PqcStep /\ bits' = bits
         /\ Kind(pc) = "ak" => AkStep /\ bits' = bits /\ log' = log
         /\ Kind(pc) = "kdf" => KdfStep /\ bits' = bits /\ log' = log
         /\ Kind(pc) = "trad" => TradStep /\ bits' = bits /\ log' = log
         /\ Kind(pc) = "hpke" => HpkeActs /\ bits' = bits
         /\ Kind(pc) = "meta" => MetaStep /\ bits' = bits /\ log' = log
         /\ Kind(pc) = "multi" => MultiStep /\ bits' = bits /\ log' = log
         /\ Kind(pc) = "homomorphic" => HomomorphicStep
         /\ Kind(pc) = "outside" => CountingExit
         /\ failed' \subseteq failed \cup Failing
         /\ report' = report \/ pc' = "abort" \/ build.h \in Counting
         /\ pc' # "idle"
<1>1. CASE KemStep /\ bits' = bits /\ log' = log
  <2>1. Kind(pc) = "kem" /\ Framed BY <1>1, KemFrame, KindOf
  <2> QED BY <1>1, <2>1 DEF Framed
<1>2. CASE SigStep /\ bits' = bits /\ log' = log
  <2>1. Kind(pc) = "sig" /\ Framed BY <1>2, SigFrame, KindOf
  <2> QED BY <1>2, <2>1 DEF Framed
<1>3. CASE AeadStep /\ bits' = bits
  <2>1. Kind(pc) = "aead" /\ Framed BY <1>3, AeadFrame, KindOf
  <2> QED BY <1>3, <2>1 DEF Framed
<1>4. CASE EcdsaStep /\ bits' = bits
  <2>1. Kind(pc) = "ecdsa" /\ Framed BY <1>4, EcdsaFrame, KindOf
  <2> QED BY <1>4, <2>1 DEF Framed
<1>5. CASE EvpStep /\ bits' = bits
  <2>1. Kind(pc) = "evp" /\ Framed BY <1>5, EvpFrame, KindOf
  <2> QED BY <1>5, <2>1 DEF Framed
<1>6. CASE PqcStep /\ bits' = bits
  <2>1. Kind(pc) = "pqc" /\ Framed BY <1>6, PqcFrame, KindOf
  <2> QED BY <1>6, <2>1 DEF Framed
<1>7. CASE AkStep /\ bits' = bits /\ log' = log
  <2>1. Kind(pc) = "ak" /\ Framed BY <1>7, AkFrame, KindOf
  <2> QED BY <1>7, <2>1 DEF Framed
<1>8. CASE KdfStep /\ bits' = bits /\ log' = log
  <2>1. Kind(pc) = "kdf" /\ Framed BY <1>8, KdfFrame, KindOf
  <2> QED BY <1>8, <2>1 DEF Framed
<1>9. CASE TradStep /\ bits' = bits /\ log' = log
  <2>1. Kind(pc) = "trad" /\ Framed BY <1>9, TradFrame, KindOf
  <2> QED BY <1>9, <2>1 DEF Framed
<1>10. CASE HpkeActs /\ bits' = bits
  <2>1. Kind(pc) = "hpke" /\ Framed BY <1>10, HpkeFrame, KindOf
  <2> QED BY <1>10, <2>1 DEF Framed
<1>11. CASE MetaStep /\ bits' = bits /\ log' = log
  <2>1. Kind(pc) = "meta" /\ Framed BY <1>11, MetaFrame, KindOf
  <2> QED BY <1>11, <2>1 DEF Framed
<1>12. CASE MultiStep /\ bits' = bits /\ log' = log
  <2>1. Kind(pc) = "multi" /\ Framed BY <1>12, MultiFrame, KindOf
  <2> QED BY <1>12, <2>1 DEF Framed
<1>13. CASE HomomorphicStep
  <2>1. CASE CountingExit
    <3>1. Kind(pc) = "outside" BY <2>1, KindOf DEF CountingExit, Outside
    <3> QED BY <1>13, <2>1, <3>1, HomomorphicFrame
  <2>2. CASE pc \in Homomorphic
    <3>1. Kind(pc) = "homomorphic" BY <2>2, KindOf
    <3> QED BY <1>13, <3>1, HomomorphicFrame
  <2> QED BY <1>13, <2>1, <2>2, HomomorphicFrame
<1>14. CASE LiboqsStep BY <1>1, <1>2, <1>14 DEF LiboqsStep
<1>15. CASE SequenceStep
  BY <1>3, <1>4, <1>5, <1>6, <1>15
  DEF SequenceStep, AeadStep, EcdsaStep, EvpStep, PqcStep
<1>16. CASE CompStep BY <1>7, <1>8, <1>9, <1>16 DEF CompStep, AkStep, KdfStep, TradStep
<1>17. CASE HpkeStep BY <1>10, <1>17 DEF HpkeStep, HpkeActs
<1>18. CASE ClassicStep BY <1>11, <1>12, <1>18 DEF ClassicStep, MetaStep, MultiStep
<1> QED BY <1>13, <1>14, <1>15, <1>16, <1>17, <1>18 DEF Steps

(* An input begins with nothing of the one before but mem and the report.  *)
LEMMA BeginsSorted ==
  ASSUME Begins
  PROVE  /\ pc = "idle" /\ failed' = {} /\ log' = {} /\ draws' = 0 /\ report' = report
         /\ build.h = "kem" => KemBegin
         /\ build.h = "sig" => SigBegin
         /\ build.h \in AeadSeq => AeadBegin
         /\ build.h = "seq_ecdsa" => EcdsaBegin
         /\ build.h = "seq_evp" => EvpBegin
         /\ build.h = "seq_pqc" => PqcBegin
         /\ build.h = "authkem" => AkBegin
         /\ build.h = "kdfchain" => KdfBegin
         /\ build.h = "trad" => TradBegin
         /\ build.h \in HpkeBuilds => HpkeBegin
         /\ build.h \in {"trad_meta", "classic"} => MetaBegin
         /\ build.h = "multilib" => MultiBegin
         /\ build.h \in Homomorphic => HomomorphicBegin
<1> DEFINE Empty == /\ pc = "idle" /\ failed' = {} /\ log' = {} /\ draws' = 0
                    /\ report' = report
<1>1. \A b, entry, L : Begin(b, entry, L) => Empty BY DEF Begin
<1> HIDE DEF Empty
<1>2. CASE KemBegin
  <2>1. Empty /\ build.h = "kem" BY <1>1, <1>2 DEF KemBegin
  <2> QED BY <1>2, <2>1 DEF Empty, AeadSeq, HpkeBuilds, Homomorphic, HomomorphicDefects
<1>3. CASE SigBegin
  <2>1. Empty /\ build.h = "sig" BY <1>1, <1>3 DEF SigBegin
  <2> QED BY <1>3, <2>1 DEF Empty, AeadSeq, HpkeBuilds, Homomorphic, HomomorphicDefects
<1>4. CASE AeadBegin
  <2>1. Empty /\ build.h \in AeadSeq BY <1>1, <1>4 DEF AeadBegin
  <2> QED BY <1>4, <2>1 DEF Empty, AeadSeq, HpkeBuilds, Homomorphic, HomomorphicDefects
<1>5. CASE EcdsaBegin
  <2>1. Empty /\ build.h = "seq_ecdsa" BY <1>1, <1>5 DEF EcdsaBegin
  <2> QED BY <1>5, <2>1 DEF Empty, AeadSeq, HpkeBuilds, Homomorphic, HomomorphicDefects
<1>6. CASE EvpBegin
  <2>1. Empty /\ build.h = "seq_evp" BY <1>1, <1>6 DEF EvpBegin
  <2> QED BY <1>6, <2>1 DEF Empty, AeadSeq, HpkeBuilds, Homomorphic, HomomorphicDefects
<1>7. CASE PqcBegin
  <2>1. Empty /\ build.h = "seq_pqc" BY <1>1, <1>7 DEF PqcBegin
  <2> QED BY <1>7, <2>1 DEF Empty, AeadSeq, HpkeBuilds, Homomorphic, HomomorphicDefects
<1>8. CASE AkBegin
  <2>1. Empty /\ build.h = "authkem" BY <1>1, <1>8 DEF AkBegin
  <2> QED BY <1>8, <2>1 DEF Empty, AeadSeq, HpkeBuilds, Homomorphic, HomomorphicDefects
<1>9. CASE KdfBegin
  <2>1. Empty /\ build.h = "kdfchain" BY <1>1, <1>9 DEF KdfBegin
  <2> QED BY <1>9, <2>1 DEF Empty, AeadSeq, HpkeBuilds, Homomorphic, HomomorphicDefects
<1>10. CASE TradBegin
  <2>1. Empty /\ build.h = "trad" BY <1>1, <1>10 DEF TradBegin
  <2> QED BY <1>10, <2>1 DEF Empty, AeadSeq, HpkeBuilds, Homomorphic, HomomorphicDefects
<1>11. CASE HpkeBegin
  <2>1. Empty /\ build.h \in HpkeBuilds BY <1>1, <1>11 DEF HpkeBegin
  <2> QED BY <1>11, <2>1 DEF Empty, AeadSeq, HpkeBuilds, Homomorphic, HomomorphicDefects
<1>12. CASE MetaBegin
  <2>1. Empty /\ build.h \in {"trad_meta", "classic"} BY <1>1, <1>12 DEF MetaBegin
  <2> QED BY <1>12, <2>1 DEF Empty, AeadSeq, HpkeBuilds, Homomorphic, HomomorphicDefects
<1>13. CASE MultiBegin
  <2>1. Empty /\ build.h = "multilib" BY <1>1, <1>13 DEF MultiBegin
  <2> QED BY <1>13, <2>1 DEF Empty, AeadSeq, HpkeBuilds, Homomorphic, HomomorphicDefects
<1>14. CASE HomomorphicBegin
  <2>1. Empty /\ build.h \in Homomorphic
    BY <1>14 DEF HomomorphicBegin, Homomorphic, Empty
  <2> QED BY <1>14, <2>1 DEF Empty, AeadSeq, HpkeBuilds, Homomorphic, HomomorphicDefects
<1> QED
  BY <1>2, <1>3, <1>4, <1>5, <1>6, <1>7, <1>8, <1>9, <1>10, <1>11, <1>12, <1>13, <1>14
  DEF Begins, LiboqsBegin, SequenceBegin, CompBegin, HpkeBegin, ClassicBegin

-----------------------------------------------------------------------------
LEMMA BuildParts ==
  ASSUME build \in Builds
  PROVE  build.h \in DOMAIN FaultsOf /\ build.fault \in {"none"} \cup FaultsOf[build.h]
<1>1. PICK x \in DOMAIN FaultsOf : build \in [h : {x}, fault : {"none"} \cup FaultsOf[x]]
  BY BuildsOK DEF TargetBuilds
<1> QED BY <1>1

(* The defects a family's proofs speak of.                                 *)
LEMMA DefectParts ==
  ASSUME FuzzInv
  PROVE  /\ build.h = "seq_pqc" => defect \in {"none"} \cup PqcDefects
         /\ build.h = "authkem" => defect \in {"none"} \cup CompDefects.authkem
         /\ build.h \in HpkeBuilds => defect \in {"none"} \cup HpkeDefects
         /\ build.h \in Homomorphic =>
              defect \in {"none"} \cup HomomorphicDefects[build.h]
<1> USE DEF FuzzInv, DefectsOf, AeadSeq, HpkeBuilds
<1>1. build.h = "seq_pqc" => DefectsOf(build.h) = PqcDefects
  BY DEF CompDefects, ClassicDefects, HomomorphicDefects
<1>2. build.h = "authkem" => DefectsOf(build.h) = CompDefects.authkem
  BY DEF CompDefects, ClassicDefects, HomomorphicDefects
<1>3. build.h \in HpkeBuilds => DefectsOf(build.h) = HpkeDefects
  BY DEF CompDefects, ClassicDefects, HomomorphicDefects
<1>4. build.h \in Homomorphic => DefectsOf(build.h) = HomomorphicDefects[build.h]
  BY DEF CompDefects, ClassicDefects, HomomorphicDefects, Homomorphic
<1> HIDE DEF DefectsOf
<1> QED BY <1>1, <1>2, <1>3, <1>4

LEMMA FamilyBegins ==
  ASSUME FuzzInv, Begins, build' = build, defect' = defect
  PROVE  FamilyAt'
<1>1. build.h = "kem" => KemAt' /\ log' = {} BY BeginsSorted, KemBegins
<1>2. build.h = "sig" => SigAt' /\ log' = {} BY BeginsSorted, SigBegins
<1>3. build.h \in AeadSeq => AeadAt' BY BeginsSorted, AeadBegins
<1>4. build.h = "seq_ecdsa" => EcdsaAt' BY BeginsSorted, EcdsaBegins
<1>5. build.h = "seq_evp" => EvpAt' BY BeginsSorted, EvpBegins
<1>6. build.h = "seq_pqc" => PqcAt' BY BeginsSorted, PqcBegins
<1>7. build.h = "authkem" => AkAt' BY BeginsSorted, AkBegins
<1>8. build.h = "kdfchain" => KdfAt' BY BeginsSorted, KdfBegins
<1>9. build.h = "trad" => TradAt' BY BeginsSorted, TradBegins
<1>10. build.h \in HpkeBuilds => HpkeAt'
  BY BeginsSorted, HpkeBegins DEF FuzzInv, FamilyAt
<1>11. build.h \in {"trad_meta", "classic"} => MetaAt' BY BeginsSorted, MetaBegins
<1>12. build.h = "multilib" => MultiAt' BY BeginsSorted, MultiBegins
<1>13. build.h \in Homomorphic => HomomorphicAt'
  BY BeginsSorted, HomomorphicBegins DEF FuzzInv, FamilyAt
<1> QED
  BY <1>1, <1>2, <1>3, <1>4, <1>5, <1>6, <1>7, <1>8, <1>9, <1>10, <1>11, <1>12, <1>13
  DEF FamilyAt

LEMMA FamilySteps ==
  ASSUME FuzzInv, Steps, build' = build, defect' = defect
  PROVE  FamilyAt'
<1>1. ASSUME build.h = "kem" PROVE KemAt' /\ log' = {}
  <2>1. KemAt /\ log = {} BY <1>1 DEF FuzzInv, FamilyAt
  <2>2. Kind(pc) \in {"kem", "outside"} BY <2>1, KindOf DEF KemAt
  <2>3. ~ CountingExit BY <1>1 DEF CountingExit, Counting
  <2>4. KemStep /\ bits' = bits /\ log' = log BY <2>2, <2>3, StepsSorted
  <2> QED BY <1>1, <2>1, <2>4, KemSteps
<1>2. ASSUME build.h = "sig" PROVE SigAt' /\ log' = {}
  <2>1. SigAt /\ log = {} BY <1>2 DEF FuzzInv, FamilyAt
  <2>2. Kind(pc) \in {"sig", "outside"} BY <2>1, KindOf DEF SigAt
  <2>3. ~ CountingExit BY <1>2 DEF CountingExit, Counting
  <2>4. SigStep /\ bits' = bits /\ log' = log BY <2>2, <2>3, StepsSorted
  <2> QED BY <1>2, <2>1, <2>4, SigSteps
<1>3. ASSUME build.h \in AeadSeq PROVE AeadAt'
  <2>1. AeadAt BY <1>3 DEF FuzzInv, FamilyAt
  <2>2. Kind(pc) \in {"aead", "outside"} BY <2>1, KindOf DEF AeadAt
  <2>3. ~ CountingExit BY <1>3 DEF CountingExit, Counting, AeadSeq, HpkeBuilds
  <2>4. AeadStep /\ bits' = bits BY <2>2, <2>3, StepsSorted
  <2> QED BY <1>3, <2>1, <2>4, AeadSteps DEF AeadStep
<1>4. ASSUME build.h = "seq_ecdsa" PROVE EcdsaAt'
  <2>1. EcdsaAt BY <1>4 DEF FuzzInv, FamilyAt
  <2>2. Kind(pc) \in {"ecdsa", "outside"} BY <2>1, KindOf DEF EcdsaAt
  <2>3. ~ CountingExit BY <1>4 DEF CountingExit, Counting
  <2>4. EcdsaStep /\ bits' = bits BY <2>2, <2>3, StepsSorted
  <2> QED BY <1>4, <2>1, <2>4, EcdsaSteps DEF EcdsaStep
<1>5. ASSUME build.h = "seq_evp" PROVE EvpAt'
  <2>1. EvpAt BY <1>5 DEF FuzzInv, FamilyAt
  <2>2. Kind(pc) \in {"evp", "outside"} BY <2>1, KindOf DEF EvpAt
  <2>3. ~ CountingExit BY <1>5 DEF CountingExit, Counting
  <2>4. EvpStep /\ bits' = bits BY <2>2, <2>3, StepsSorted
  <2> QED BY <1>5, <2>1, <2>4, EvpSteps DEF EvpStep
<1>6. ASSUME build.h = "seq_pqc" PROVE PqcAt'
  <2>1. PqcAt BY <1>6 DEF FuzzInv, FamilyAt
  <2>2. Kind(pc) \in {"pqc", "outside"} BY <2>1, KindOf DEF PqcAt
  <2>3. ~ CountingExit BY <1>6 DEF CountingExit, Counting
  <2>4. PqcStep /\ bits' = bits BY <2>2, <2>3, StepsSorted
  <2> QED BY <1>6, <2>1, <2>4, PqcSteps, DefectParts DEF PqcStep
<1>7. ASSUME build.h = "authkem" PROVE AkAt'
  <2>1. AkAt BY <1>7 DEF FuzzInv, FamilyAt
  <2>2. Kind(pc) \in {"ak", "outside"} BY <2>1, KindOf DEF AkAt
  <2>3. ~ CountingExit BY <1>7 DEF CountingExit, Counting
  <2>4. AkStep /\ bits' = bits /\ log' = log BY <2>2, <2>3, StepsSorted
  <2> QED BY <1>7, <2>1, <2>4, AkSteps, DefectParts DEF AkStep
<1>8. ASSUME build.h = "kdfchain" PROVE KdfAt'
  <2>1. KdfAt BY <1>8 DEF FuzzInv, FamilyAt
  <2>2. Kind(pc) \in {"kdf", "outside"} BY <2>1, KindOf DEF KdfAt
  <2>3. ~ CountingExit BY <1>8 DEF CountingExit, Counting
  <2>4. KdfStep /\ bits' = bits /\ log' = log BY <2>2, <2>3, StepsSorted
  <2> QED BY <1>8, <2>1, <2>4, KdfSteps DEF KdfStep
<1>9. ASSUME build.h = "trad" PROVE TradAt'
  <2>1. TradAt BY <1>9 DEF FuzzInv, FamilyAt
  <2>2. Kind(pc) \in {"trad", "outside"} BY <2>1, KindOf DEF TradAt
  <2>3. ~ CountingExit BY <1>9 DEF CountingExit, Counting
  <2>4. TradStep /\ bits' = bits /\ log' = log BY <2>2, <2>3, StepsSorted
  <2> QED BY <1>9, <2>1, <2>4, TradSteps DEF TradStep
<1>10. ASSUME build.h \in HpkeBuilds PROVE HpkeAt'
  <2>1. HpkeAt BY <1>10 DEF FuzzInv, FamilyAt
  <2>2. Kind(pc) \in {"hpke", "outside"} BY <2>1, KindOf DEF HpkeAt
  <2>3. ~ CountingExit BY <1>10 DEF CountingExit, Counting, AeadSeq, HpkeBuilds
  <2>4. HpkeActs /\ bits' = bits BY <2>2, <2>3, StepsSorted
  <2> QED BY <1>10, <2>1, <2>4, HpkeSteps, DefectParts DEF HpkeActs
<1>11. ASSUME build.h \in {"trad_meta", "classic"} PROVE MetaAt'
  <2>1. MetaAt BY <1>11 DEF FuzzInv, FamilyAt
  <2>2. Kind(pc) \in {"meta", "outside"} BY <2>1, KindOf DEF MetaAt
  <2>3. ~ CountingExit BY <1>11 DEF CountingExit, Counting
  <2>4. MetaStep /\ bits' = bits /\ log' = log BY <2>2, <2>3, StepsSorted
  <2> QED BY <1>11, <2>1, <2>4, MetaSteps DEF MetaStep
<1>12. ASSUME build.h = "multilib" PROVE MultiAt'
  <2>1. MultiAt BY <1>12 DEF FuzzInv, FamilyAt
  <2>2. Kind(pc) \in {"multi", "outside"} BY <2>1, KindOf DEF MultiAt
  <2>3. ~ CountingExit BY <1>12 DEF CountingExit, Counting
  <2>4. MultiStep /\ bits' = bits /\ log' = log BY <2>2, <2>3, StepsSorted
  <2> QED BY <1>12, <2>1, <2>4, MultiSteps DEF MultiStep, FuzzInv
<1>13. ASSUME build.h \in Homomorphic PROVE HomomorphicAt'
  <2>1. HomomorphicAt BY <1>13 DEF FuzzInv, FamilyAt
  <2>2. Kind(pc) \in {"homomorphic", "outside"}
    <3>1. build.h \in Homomorphic BY <1>13
    <3> QED BY <2>1, <3>1, KindOf DEF HomomorphicAt
  <2>3. HomomorphicStep BY <2>2, StepsSorted DEF HomomorphicStep
  <2>4. build.fault \in {"none"} \cup FaultsOf[build.h] BY BuildParts DEF FuzzInv
  <2> QED BY <1>13, <2>1, <2>3, <2>4, DefectParts, HomomorphicSteps DEF FuzzInv
<1> QED
  BY <1>1, <1>2, <1>3, <1>4, <1>5, <1>6, <1>7, <1>8, <1>9, <1>10, <1>11, <1>12, <1>13
  DEF FamilyAt

LEMMA FamilyReturns ==
  ASSUME FuzzInv, Return, build' = build, defect' = defect
  PROVE  FamilyAt'
<1>0. /\ pc = "return" /\ pc' = "idle" /\ mem' = mem /\ draws' = draws
      /\ failed' = failed /\ log' = log /\ report' = report /\ bits' = bits
  BY DEF Return
<1>1. build.h = "kem" => KemAt' /\ log' = {}
  BY <1>0 DEF KemAt, Outside, KemPlaces, FuzzInv, FamilyAt
<1>2. build.h = "sig" => SigAt' /\ log' = {}
  BY <1>0 DEF SigAt, Outside, SigPlaces, FuzzInv, FamilyAt
<1>3. build.h \in AeadSeq => AeadAt'
  BY <1>0 DEF AeadAt, Outside, AeadPlaces
<1>4. build.h = "seq_ecdsa" => EcdsaAt'
  BY <1>0 DEF EcdsaAt, Outside, EcdsaPlaces
<1>5. build.h = "seq_evp" => EvpAt'
  BY <1>0 DEF EvpAt, Outside, EvpPlaces
<1>6. build.h = "seq_pqc" => PqcAt'
  BY <1>0 DEF PqcAt, Outside, PqcPlaces
<1>7. build.h = "authkem" => AkAt'
  BY <1>0 DEF AkAt, Outside, AkPlaces
<1>8. build.h = "kdfchain" => KdfAt'
  BY <1>0 DEF KdfAt, Outside, KdfPlaces
<1>9. build.h = "trad" => TradAt'
  BY <1>0 DEF TradAt, Outside, EtmPlaces, RecPlaces
<1>10. build.h \in HpkeBuilds => HpkeAt'
  <2>1. build.h \in HpkeBuilds => NoEph BY <1>0 DEF FuzzInv, FamilyAt, HpkeAt
  <2> QED BY <1>0, <2>1 DEF HpkeAt, Outside, HpkePlaces, NoEph
<1>11. build.h \in {"trad_meta", "classic"} => MetaAt'
  BY <1>0 DEF MetaAt, Outside, MetaPlaces
<1>12. build.h = "multilib" => MultiAt'
  BY <1>0 DEF MultiAt, Outside, MultiPlaces
<1>13. build.h \in Homomorphic => HomomorphicAt'
  <2>1. (\A p : Blames(p)' = Blames(p))
    BY DEF Blames, HomomorphicOracles, Expected
  <2>2. build.h \in Homomorphic => HomomorphicAt BY DEF FuzzInv, FamilyAt
  <2>3. build.h \in Homomorphic => build.h # "idle"
    BY DEF Homomorphic, HomomorphicDefects
  <2> QED BY <1>0, <2>1, <2>2, <2>3 DEF HomomorphicAt, Outside
<1> QED
  BY <1>1, <1>2, <1>3, <1>4, <1>5, <1>6, <1>7, <1>8, <1>9, <1>10, <1>11, <1>12, <1>13
  DEF FamilyAt

-----------------------------------------------------------------------------
(* The invariant holds at the start, and every step keeps it.              *)
LEMMA FuzzInit == ASSUME Init PROVE FuzzInv
<1>1. /\ build \in Builds /\ pc = "idle" /\ draws = 0 /\ failed = {} /\ log = {}
      /\ report = "none" /\ mem = [x \in {} |-> Garbage]
  BY DEF Init, TargetInit
<1>2. /\ defect \in {"none"} \cup DefectsOf(build.h)
      /\ build.fault # "none" => defect = "none"
  BY DEF Init
<1>3. /\ KemAt /\ SigAt /\ AeadAt /\ EcdsaAt /\ EvpAt /\ PqcAt
  BY <1>1 DEF KemAt, SigAt, AeadAt, EcdsaAt, EvpAt, PqcAt, Outside
<1>4. /\ AkAt /\ KdfAt /\ MultiAt
  BY <1>1 DEF AkAt, KdfAt, MultiAt, Outside
<1>5. TradAt BY <1>1 DEF TradAt, Outside, EtmPlaces, RecPlaces
<1>6. MetaAt BY <1>1 DEF MetaAt, Outside
<1>7. HpkeAt BY <1>1 DEF HpkeAt, NoEph, Outside, HpkePlaces
<1>8. build.h \in Homomorphic => HomomorphicAt
  <2>1. build.h \in Homomorphic => build.h # "idle"
    BY DEF Homomorphic, HomomorphicDefects
  <2> QED BY <1>1, <2>1 DEF HomomorphicAt, Outside
<1>9. FamilyAt BY <1>1, <1>3, <1>4, <1>5, <1>6, <1>7, <1>8 DEF FamilyAt
<1>10. draws \in 0 .. 6 BY <1>1
<1> QED BY <1>1, <1>2, <1>9, <1>10 DEF FuzzInv

(* No target draws more than six values from an input.                     *)
LEMMA DrawsBounded ==
  ASSUME FamilyAt, build \in Builds, pc # "idle"
  PROVE  draws \in 0 .. 6
<1>1. build.h \in DOMAIN FaultsOf BY BuildParts
<1>2. build.h = "kem" => draws \in 0 .. 6
  BY DEF FamilyAt, KemAt, KemPlaces, Outside
<1>3. build.h = "sig" => draws \in 0 .. 6
  BY DEF FamilyAt, SigAt, SigPlaces, Outside
<1>4. build.h \in AeadSeq => draws \in 0 .. 6
  <2>1. NonceDrawn \in {1, 3} /\ NonceDraws \in {0, 1} BY DEF NonceDrawn, NonceDraws
  <2> QED BY <2>1 DEF FamilyAt, AeadAt, AeadPlaces, Outside
<1>5. build.h = "seq_ecdsa" => draws \in 0 .. 6
  BY DEF FamilyAt, EcdsaAt, EcdsaPlaces, Outside, EcdsaBoth, EcdsaSigned
<1>6. build.h = "seq_evp" => draws \in 0 .. 6
  BY DEF FamilyAt, EvpAt, EvpPlaces, Outside
<1>7. build.h = "seq_pqc" => draws \in 0 .. 6 BY DEF FamilyAt, PqcAt
<1>8. build.h = "authkem" => draws \in 0 .. 6 BY DEF FamilyAt, AkAt
<1>9. build.h = "kdfchain" => draws \in 0 .. 6
  BY DEF FamilyAt, KdfAt, KdfPlaces, Outside, KdfSealed
<1>10. build.h = "trad" => draws \in 0 .. 6
  BY DEF FamilyAt, TradAt, EtmPlaces, RecPlaces, Outside
<1>11. build.h \in HpkeBuilds => draws \in 0 .. 6 BY DEF FamilyAt, HpkeAt
<1>12. build.h \in {"trad_meta", "classic"} => draws \in 0 .. 6
  BY DEF FamilyAt, MetaAt, MetaPlaces, Outside
<1>13. build.h = "multilib" => draws \in 0 .. 6
  BY DEF FamilyAt, MultiAt, MultiPlaces, Outside
<1>14. build.h \in Homomorphic => draws \in 0 .. 6 BY DEF FamilyAt, HomomorphicAt
<1> QED
  BY <1>1, <1>2, <1>3, <1>4, <1>5, <1>6, <1>7, <1>8, <1>9, <1>10, <1>11, <1>12, <1>13,
     <1>14
  DEF FaultsOf, AeadSeq, HpkeBuilds, Homomorphic, HomomorphicDefects

LEMMA DrawsImplied ==
  FamilyAt /\ build \in Builds /\ pc # "idle" => draws \in 0 .. 6
  BY DrawsBounded

(* A target that has reported, and steps, counts.                          *)
LEMMA StepsWithin ==
  ASSUME FuzzInv, Steps
  PROVE  report # "none" => build.h \in Counting
<1>1. pc # "abort"
  <2>1. Kind("abort") = "outside" BY KindOf DEF Outside
  <2>2. CountingExit => pc = "idle" BY DEF CountingExit
  <2> QED BY <2>1, <2>2, StepsSorted
<1> QED BY <1>1 DEF FuzzInv

(* What stays when nothing changes.                                        *)
LEMMA FamilyStays ==
  ASSUME FamilyAt, UNCHANGED ftvars
  PROVE  FamilyAt'
<1> USE DEF ftvars
<1>1. KemAt' = KemAt
  BY DEF KemAt, KemRight, KemPastMR1, KemPastMR2, KemPastMR3
<1>2. SigAt' = SigAt
  BY DEF SigAt, SigSigned, SigPastMR1, SigPastFault, SigPastMR2, SigPastMR3, SigPastMR4
<1>3. AeadAt' = AeadAt
  BY DEF AeadAt, NonceHalf, NonceDrawn, NonceGoes, Boxed, FirstNonce, SecondNonce,
         FirstSeal, SecondSeal, NonceSource, NonceDraws
<1>4. EcdsaAt' = EcdsaAt
  BY DEF EcdsaAt, EcdsaSigned, EcdsaBoth, KOf, NonceK
<1>5. EvpAt' = EvpAt
  BY DEF EvpAt, IvSource, IvBox, Sealings, ContractAt
<1>6. PqcAt' = PqcAt BY DEF PqcAt, PqcMade
<1>7. AkAt' = AkAt BY DEF AkAt, AkMade, AkSigned, AkPastRecord, Transcript
<1>8. KdfAt' = KdfAt
  BY DEF KdfAt, KdfSealed, KdfPastOpen, Chained, ChainKeys, ChainKey1, ChainKey2,
         ChainKey3, ChainKey4
<1>9. TradAt' = TradAt
  BY DEF TradAt, EtmHalf, EtmSealed, EtmPastOpen, RecHalf, RecSealed, RecPastOpen,
         RecPastSeq
<1>10. HpkeAt' = HpkeAt
  BY DEF HpkeAt, NoEph, HpkeKeyed, HpkeSealed, HpkePastOpen, HpkePastBind, HasJudged,
     Info, Schedule
<1>11. MetaAt' = MetaAt
  BY DEF MetaAt, MetaPastOpen, MetaPastTamper, RoundtripOracle, Digests, Noises, AeadBox
<1>12. MultiAt' = MultiAt
  BY DEF MultiAt, HasAsked, MultiInput, WrongLib, Answer, Libs
<1>13. HomomorphicAt' = HomomorphicAt
  BY DEF HomomorphicAt, Blames, Operands, HomomorphicOracles, HomomorphicExercises,
     Expected
<1> QED
  BY <1>1, <1>2, <1>3, <1>4, <1>5, <1>6, <1>7, <1>8, <1>9, <1>10, <1>11, <1>12, <1>13
  DEF FamilyAt

LEMMA FuzzNext == ASSUME FuzzInv, [Next]_ftvars PROVE FuzzInv'
<1>1. ASSUME build' = build, defect' = defect, FamilyAt', failed' \subseteq Failing,
             draws' \in 0 .. 6, report' # "none" => pc' = "abort" \/ build.h \in Counting
      PROVE  FuzzInv'
  <2>1. DefectsOf(build.h)' = DefectsOf(build.h)
    BY <1>1 DEF DefectsOf
  <2> QED BY <1>1, <2>1 DEF FuzzInv
<1>2. ASSUME build' = build, defect' = defect, FamilyAt', pc' # "idle"
      PROVE  draws' \in 0 .. 6
  <2>1. FamilyAt /\ build \in Builds /\ pc # "idle" => draws \in 0 .. 6
    BY DrawsBounded
  <2>2. (FamilyAt /\ build \in Builds /\ pc # "idle" => draws \in 0 .. 6)'
    BY DrawsImplied, PTL
  <2> QED BY <1>2, <2>2 DEF FuzzInv
<1>3. ASSUME Begins, build' = build, defect' = defect PROVE FuzzInv'
  <2>1. FamilyAt' BY <1>3, FamilyBegins
  <2>2. pc = "idle" /\ failed' = {} /\ draws' = 0 /\ report' = report
    BY <1>3, BeginsSorted
  <2>3. draws' \in 0 .. 6 BY <2>2
  <2>4. report' # "none" => build.h \in Counting BY <2>2 DEF FuzzInv
  <2> QED BY <1>1, <1>3, <2>1, <2>2, <2>3, <2>4
<1>4. ASSUME Steps, build' = build, defect' = defect PROVE FuzzInv'
  <2>1. FamilyAt' BY <1>4, FamilySteps
  <2>2. /\ failed' \subseteq failed \cup Failing /\ pc' # "idle"
        /\ report' = report \/ pc' = "abort" \/ build.h \in Counting
    BY <1>4, StepsSorted
  <2>3. draws' \in 0 .. 6 BY <1>2, <1>4, <2>1, <2>2
  <2>4. report # "none" => build.h \in Counting BY <1>4, StepsWithin
  <2>5. failed' \subseteq Failing BY <2>2 DEF FuzzInv
  <2> QED BY <1>1, <1>4, <2>1, <2>2, <2>3, <2>4, <2>5
<1>5. ASSUME Return, build' = build, defect' = defect PROVE FuzzInv'
  <2>1. FamilyAt' BY <1>5, FamilyReturns
  <2>2. pc = "return" /\ draws' = draws /\ failed' = failed /\ report' = report
    BY <1>5 DEF Return
  <2> QED BY <1>1, <1>5, <2>1, <2>2 DEF FuzzInv
<1>6. ASSUME UNCHANGED ftvars PROVE FuzzInv'
  <2>1. FamilyAt' BY <1>6, FamilyStays DEF FuzzInv
  <2> QED BY <1>1, <1>6, <2>1 DEF ftvars, FuzzInv
<1>7. CASE Next
  <2>1. CASE (Begins \/ Steps \/ Return) /\ UNCHANGED <<build, defect>>
    BY <1>3, <1>4, <1>5, <2>1
  <2>2. CASE Aborted BY <1>6, <2>2 DEF Aborted
  <2> QED BY <1>7, <2>1, <2>2 DEF Next
<1>8. CASE UNCHANGED ftvars BY <1>6, <1>8
<1> QED BY <1>7, <1>8

(* The invariant of the targets, for every set of builds and of calls that *)
(* fail: what each location of each target may rely on.                    *)
THEOREM FuzzInvariant == Spec => []FuzzInv
<1>1. Init => FuzzInv BY FuzzInit
<1>2. FuzzInv /\ [Next]_ftvars => FuzzInv' BY FuzzNext
<1> QED BY <1>1, <1>2, PTL DEF Spec

-----------------------------------------------------------------------------
(* The invariant, target by target: which one runs, with which defect or   *)
(* fault, and what it has reported.                                        *)
Reports == report # "none" => pc = "abort"
InKem ==
  /\ build.h = "kem" /\ KemAt /\ log = {}
  /\ defect \in {"none"} \cup KemDefects
  /\ build.fault \in {"none", "MR1"}
  /\ build.fault # "none" => defect = "none"
  /\ Reports
InSig ==
  /\ build.h = "sig" /\ SigAt /\ log = {}
  /\ defect \in {"none"} \cup SigDefects
  /\ build.fault \in {"none", "MR3"}
  /\ build.fault # "none" => defect = "none"
  /\ Reports
InAead ==
  /\ build.h \in AeadSeq /\ AeadAt
  /\ defect \in {"none"} \cup AeadDefects
  /\ build.fault \in {"none", "NONCE", "RELEASE"}
  /\ build.fault # "none" => defect = "none"
  /\ Reports
InEcdsa ==
  /\ build.h = "seq_ecdsa" /\ EcdsaAt
  /\ defect \in {"none"} \cup EcdsaDefects
  /\ build.fault \in {"none", "KREUSE"}
  /\ build.fault # "none" => defect = "none"
  /\ Reports
InEvp ==
  /\ build.h = "seq_evp" /\ EvpAt
  /\ defect \in {"none"} \cup {}
  /\ build.fault \in {"none", "IV", "UAF"}
  /\ build.fault # "none" => defect = "none"
  /\ Reports
InPqc ==
  /\ build.h = "seq_pqc" /\ PqcAt
  /\ defect \in {"none"} \cup PqcDefects
  /\ build.fault \in {"none", "KEMSWAP"}
  /\ build.fault # "none" => defect = "none"
  /\ Reports
InAk ==
  /\ build.h = "authkem" /\ AkAt
  /\ defect \in {"none"} \cup CompDefects.authkem
  /\ build.fault \in {"none", "AK"}
  /\ build.fault # "none" => defect = "none"
  /\ Reports
InKdf ==
  /\ build.h = "kdfchain" /\ KdfAt
  /\ defect \in {"none"} \cup CompDefects.kdfchain
  /\ build.fault \in {"none", "KDF"}
  /\ build.fault # "none" => defect = "none"
  /\ Reports
InTrad ==
  /\ build.h = "trad" /\ TradAt
  /\ defect \in {"none"} \cup CompDefects.trad
  /\ build.fault \in {"none", "ETM", "REC"}
  /\ build.fault # "none" => defect = "none"
  /\ Reports
InHpke ==
  /\ build.h \in HpkeBuilds /\ HpkeAt
  /\ defect \in {"none"} \cup HpkeDefects
  /\ build.fault \in IF build.h = "hpke_mlkem" THEN {"none"} ELSE {"none", "HPKE"}
  /\ build.fault # "none" => defect = "none"
  /\ Reports
InMeta ==
  /\ build.h \in {"trad_meta", "classic"} /\ MetaAt
  /\ defect \in {"none"} \cup ClassicDefects[build.h]
  /\ build.fault \in IF build.h = "classic" THEN {"none"} ELSE {"none", "TRAD"}
  /\ build.fault # "none" => defect = "none"
  /\ Reports
InMulti ==
  /\ build.h = "multilib" /\ MultiAt
  /\ defect \in {"none"} \cup ClassicDefects.multilib
  /\ build.fault \in {"none", "DIFF"}
  /\ build.fault # "none" => defect = "none"
  /\ Reports
InHomomorphic ==
  /\ build.h \in Homomorphic /\ HomomorphicAt
  /\ defect \in {"none"} \cup HomomorphicDefects[build.h]
  /\ build.fault # "none" => defect = "none"

LEMMA Families ==
  ASSUME FuzzInv
  PROVE  \/ InKem \/ InSig \/ InAead \/ InEcdsa \/ InEvp
         \/ InPqc \/ InAk \/ InKdf \/ InTrad \/ InHpke
         \/ InMeta \/ InMulti \/ InHomomorphic
<1>1. /\ build.h \in DOMAIN FaultsOf
      /\ build.fault \in {"none"} \cup FaultsOf[build.h]
  BY BuildParts DEF FuzzInv
<1>2. /\ defect \in {"none"} \cup DefectsOf(build.h) /\ FamilyAt
      /\ build.fault # "none" => defect = "none"
      /\ build.h \notin Counting => Reports
  BY DEF FuzzInv, Reports
<1>3. ASSUME build.h = "kem" PROVE InKem
  <2>1. DefectsOf(build.h) = KemDefects
    BY <1>3 DEF DefectsOf, AeadSeq, HpkeBuilds, CompDefects, ClassicDefects,
       HomomorphicDefects, Homomorphic
  <2>2. build.fault \in {"none", "MR1"} BY <1>1, <1>3 DEF FaultsOf, AeadSeq, HpkeBuilds
  <2>3. build.h \notin Counting BY <1>3 DEF Counting, AeadSeq, HpkeBuilds
  <2> QED BY <1>2, <1>3, <2>1, <2>2, <2>3 DEF InKem, FamilyAt
<1>4. ASSUME build.h = "sig" PROVE InSig
  <2>1. DefectsOf(build.h) = SigDefects
    BY <1>4 DEF DefectsOf, AeadSeq, HpkeBuilds, CompDefects, ClassicDefects,
       HomomorphicDefects, Homomorphic
  <2>2. build.fault \in {"none", "MR3"} BY <1>1, <1>4 DEF FaultsOf, AeadSeq, HpkeBuilds
  <2>3. build.h \notin Counting BY <1>4 DEF Counting, AeadSeq, HpkeBuilds
  <2> QED BY <1>2, <1>4, <2>1, <2>2, <2>3 DEF InSig, FamilyAt
<1>5. ASSUME build.h \in AeadSeq PROVE InAead
  <2>1. DefectsOf(build.h) = AeadDefects
    BY <1>5 DEF DefectsOf, AeadSeq, HpkeBuilds, CompDefects, ClassicDefects,
       HomomorphicDefects, Homomorphic
  <2>2. build.fault \in {"none", "NONCE", "RELEASE"}
    BY <1>1, <1>5 DEF FaultsOf, AeadSeq, HpkeBuilds
  <2>3. build.h \notin Counting BY <1>5 DEF Counting, AeadSeq, HpkeBuilds
  <2> QED BY <1>2, <1>5, <2>1, <2>2, <2>3 DEF InAead, FamilyAt
<1>6. ASSUME build.h = "seq_ecdsa" PROVE InEcdsa
  <2>1. DefectsOf(build.h) = EcdsaDefects
    BY <1>6 DEF DefectsOf, AeadSeq, HpkeBuilds, CompDefects, ClassicDefects,
       HomomorphicDefects, Homomorphic
  <2>2. build.fault \in {"none", "KREUSE"}
    BY <1>1, <1>6 DEF FaultsOf, AeadSeq, HpkeBuilds
  <2>3. build.h \notin Counting BY <1>6 DEF Counting, AeadSeq, HpkeBuilds
  <2> QED BY <1>2, <1>6, <2>1, <2>2, <2>3 DEF InEcdsa, FamilyAt
<1>7. ASSUME build.h = "seq_evp" PROVE InEvp
  <2>1. DefectsOf(build.h) = {}
    BY <1>7 DEF DefectsOf, AeadSeq, HpkeBuilds, CompDefects, ClassicDefects,
       HomomorphicDefects, Homomorphic
  <2>2. build.fault \in {"none", "IV", "UAF"}
    BY <1>1, <1>7 DEF FaultsOf, AeadSeq, HpkeBuilds
  <2>3. build.h \notin Counting BY <1>7 DEF Counting, AeadSeq, HpkeBuilds
  <2> QED BY <1>2, <1>7, <2>1, <2>2, <2>3 DEF InEvp, FamilyAt
<1>8. ASSUME build.h = "seq_pqc" PROVE InPqc
  <2>1. DefectsOf(build.h) = PqcDefects
    BY <1>8 DEF DefectsOf, AeadSeq, HpkeBuilds, CompDefects, ClassicDefects,
       HomomorphicDefects, Homomorphic
  <2>2. build.fault \in {"none", "KEMSWAP"}
    BY <1>1, <1>8 DEF FaultsOf, AeadSeq, HpkeBuilds
  <2>3. build.h \notin Counting BY <1>8 DEF Counting, AeadSeq, HpkeBuilds
  <2> QED BY <1>2, <1>8, <2>1, <2>2, <2>3 DEF InPqc, FamilyAt
<1>9. ASSUME build.h = "authkem" PROVE InAk
  <2>1. DefectsOf(build.h) = CompDefects.authkem
    BY <1>9 DEF DefectsOf, AeadSeq, HpkeBuilds, CompDefects, ClassicDefects,
       HomomorphicDefects, Homomorphic
  <2>2. build.fault \in {"none", "AK"} BY <1>1, <1>9 DEF FaultsOf, AeadSeq, HpkeBuilds
  <2>3. build.h \notin Counting BY <1>9 DEF Counting, AeadSeq, HpkeBuilds
  <2> QED BY <1>2, <1>9, <2>1, <2>2, <2>3 DEF InAk, FamilyAt
<1>10. ASSUME build.h = "kdfchain" PROVE InKdf
  <2>1. DefectsOf(build.h) = CompDefects.kdfchain
    BY <1>10 DEF DefectsOf, AeadSeq, HpkeBuilds, CompDefects, ClassicDefects,
       HomomorphicDefects, Homomorphic
  <2>2. build.fault \in {"none", "KDF"} BY <1>1, <1>10 DEF FaultsOf, AeadSeq, HpkeBuilds
  <2>3. build.h \notin Counting BY <1>10 DEF Counting, AeadSeq, HpkeBuilds
  <2> QED BY <1>2, <1>10, <2>1, <2>2, <2>3 DEF InKdf, FamilyAt
<1>11. ASSUME build.h = "trad" PROVE InTrad
  <2>1. DefectsOf(build.h) = CompDefects.trad
    BY <1>11 DEF DefectsOf, AeadSeq, HpkeBuilds, CompDefects, ClassicDefects,
       HomomorphicDefects, Homomorphic
  <2>2. build.fault \in {"none", "ETM", "REC"}
    BY <1>1, <1>11 DEF FaultsOf, AeadSeq, HpkeBuilds
  <2>3. build.h \notin Counting BY <1>11 DEF Counting, AeadSeq, HpkeBuilds
  <2> QED BY <1>2, <1>11, <2>1, <2>2, <2>3 DEF InTrad, FamilyAt
<1>12. ASSUME build.h \in HpkeBuilds PROVE InHpke
  <2>1. DefectsOf(build.h) = HpkeDefects
    BY <1>12 DEF DefectsOf, AeadSeq, HpkeBuilds, CompDefects, ClassicDefects,
       HomomorphicDefects, Homomorphic
  <2>2. build.fault \in IF build.h = "hpke_mlkem" THEN {"none"} ELSE {"none", "HPKE"}
    BY <1>1, <1>12 DEF FaultsOf, AeadSeq, HpkeBuilds
  <2>3. build.h \notin Counting BY <1>12 DEF Counting, AeadSeq, HpkeBuilds
  <2> QED BY <1>2, <1>12, <2>1, <2>2, <2>3 DEF InHpke, FamilyAt
<1>13. ASSUME build.h \in {"trad_meta", "classic"} PROVE InMeta
  <2>1. DefectsOf(build.h) = ClassicDefects[build.h]
    BY <1>13 DEF DefectsOf, AeadSeq, HpkeBuilds, CompDefects, ClassicDefects,
       HomomorphicDefects, Homomorphic
  <2>2. build.fault \in IF build.h = "classic" THEN {"none"} ELSE {"none", "TRAD"}
    BY <1>1, <1>13 DEF FaultsOf, AeadSeq, HpkeBuilds
  <2>3. build.h \notin Counting BY <1>13 DEF Counting, AeadSeq, HpkeBuilds
  <2> QED BY <1>2, <1>13, <2>1, <2>2, <2>3 DEF InMeta, FamilyAt
<1>14. ASSUME build.h = "multilib" PROVE InMulti
  <2>1. DefectsOf(build.h) = ClassicDefects.multilib
    BY <1>14 DEF DefectsOf, AeadSeq, HpkeBuilds, CompDefects, ClassicDefects,
       HomomorphicDefects, Homomorphic
  <2>2. build.fault \in {"none", "DIFF"}
    BY <1>1, <1>14 DEF FaultsOf, AeadSeq, HpkeBuilds
  <2>3. build.h \notin Counting BY <1>14 DEF Counting, AeadSeq, HpkeBuilds
  <2> QED BY <1>2, <1>14, <2>1, <2>2, <2>3 DEF InMulti, FamilyAt
<1>15. ASSUME build.h \in Homomorphic PROVE InHomomorphic
  <2>1. DefectsOf(build.h) = HomomorphicDefects[build.h]
    BY <1>15 DEF DefectsOf, AeadSeq, HpkeBuilds, CompDefects, ClassicDefects,
       HomomorphicDefects, Homomorphic
  <2> QED BY <1>2, <1>15, <2>1 DEF InHomomorphic, FamilyAt
<1> QED
  BY <1>1, <1>3, <1>4, <1>5, <1>6, <1>7, <1>8,
     <1>9, <1>10, <1>11, <1>12, <1>13, <1>14, <1>15
  DEF FaultsOf, AeadSeq, HpkeBuilds, Homomorphic, HomomorphicDefects

(* The oracles and the exercising inputs of a target's family.             *)
LEMMA FamilyOracles ==
  ASSUME NEW d
  PROVE  /\ InKem => OraclesOf(d) = KemOracles(d) /\ Exercises(d) = KemExercises(d)
         /\ InSig => OraclesOf(d) = SigOracles(d) /\ Exercises(d) = SigExercises(d)
         /\ InAead \/ InEcdsa \/ InEvp \/ InPqc =>
              OraclesOf(d) = SequenceOracles(d) /\ Exercises(d) = SequenceExercises(d)
         /\ InAk \/ InKdf \/ InTrad =>
              OraclesOf(d) = CompOracles(d) /\ Exercises(d) = CompExercises(d)
         /\ InHpke => OraclesOf(d) = HpkeOracles(d) /\ Exercises(d) = HpkeExercises(d)
         /\ InMeta \/ InMulti =>
              OraclesOf(d) = ClassicOracles(d) /\ Exercises(d) = ClassicExercises(d)
         /\ InHomomorphic =>
              OraclesOf(d) = HomomorphicOracles(d) /\ Exercises(d) = HomomorphicExercises(d)
<1> USE DEF AeadSeq, HpkeBuilds, Homomorphic, CompDefects, ClassicDefects,
            HomomorphicDefects
<1>1. InKem => OraclesOf(d) = KemOracles(d) /\ Exercises(d) = KemExercises(d)
  BY DEF InKem, OraclesOf, Exercises
<1>2. InSig => OraclesOf(d) = SigOracles(d) /\ Exercises(d) = SigExercises(d)
  BY DEF InSig, OraclesOf, Exercises
<1>3. InAead \/ InEcdsa \/ InEvp \/ InPqc =>
        OraclesOf(d) = SequenceOracles(d) /\ Exercises(d) = SequenceExercises(d)
  BY DEF InAead, InEcdsa, InEvp, InPqc, OraclesOf, Exercises
<1>4. InAk \/ InKdf \/ InTrad =>
        OraclesOf(d) = CompOracles(d) /\ Exercises(d) = CompExercises(d)
  BY DEF InAk, InKdf, InTrad, OraclesOf, Exercises
<1>5. InHpke => OraclesOf(d) = HpkeOracles(d) /\ Exercises(d) = HpkeExercises(d)
  BY DEF InHpke, OraclesOf, Exercises
<1>6. InMeta \/ InMulti =>
        OraclesOf(d) = ClassicOracles(d) /\ Exercises(d) = ClassicExercises(d)
  BY DEF InMeta, InMulti, OraclesOf, Exercises
<1>7. InHomomorphic =>
        OraclesOf(d) = HomomorphicOracles(d) /\ Exercises(d) = HomomorphicExercises(d)
  BY DEF InHomomorphic, OraclesOf, Exercises
<1> QED BY <1>1, <1>2, <1>3, <1>4, <1>5, <1>6, <1>7

(* A target that has aborted has said why.                                 *)
LEMMA AbortReports ==
  ASSUME FuzzInv
  PROVE  pc = "abort" => report # "none"
<1>1. CASE InKem
  BY <1>1 DEF InKem, KemAt
<1>2. CASE InSig
  BY <1>2 DEF InSig, SigAt
<1>3. CASE InAead
  BY <1>3 DEF InAead, AeadAt
<1>4. CASE InEcdsa
  BY <1>4 DEF InEcdsa, EcdsaAt
<1>5. CASE InEvp
  BY <1>5 DEF InEvp, EvpAt
<1>6. CASE InPqc
  BY <1>6 DEF InPqc, PqcAt
<1>7. CASE InAk
  BY <1>7 DEF InAk, AkAt
<1>8. CASE InKdf
  BY <1>8 DEF InKdf, KdfAt
<1>9. CASE InTrad
  BY <1>9 DEF InTrad, TradAt
<1>10. CASE InHpke
  BY <1>10 DEF InHpke, HpkeAt
<1>11. CASE InMeta
  BY <1>11 DEF InMeta, MetaAt, RoundtripOracle
<1>12. CASE InMulti
  BY <1>12 DEF InMulti, MultiAt
<1>13. CASE InHomomorphic
  BY <1>13 DEF InHomomorphic, HomomorphicAt
<1> QED
  BY <1>1, <1>2, <1>3, <1>4, <1>5, <1>6, <1>7,
     <1>8, <1>9, <1>10, <1>11, <1>12, <1>13,
     Families

(* Every location, report and count is one of the code's, and no process   *)
(* ends without naming the oracle that ended it: TypeOK, for all builds.   *)
THEOREM FuzzTypes == Spec => []TypeOK
<1>1. FuzzInv => TypeOK BY AbortReports DEF FuzzInv, TypeOK
<1> QED BY <1>1, FuzzInvariant, PTL

(* What a report names: a defect, a fault or a call that failed.           *)
LEMMA NoAlarm ==
  ASSUME FuzzInv
  PROVE  NoFalseAlarm
<1>1. CASE InKem
  BY <1>1 DEF InKem, KemAt, Reports, NoFalseAlarm, Unchecked
<1>2. CASE InSig
  BY <1>2 DEF InSig, SigAt, Reports, NoFalseAlarm, Unchecked
<1>3. CASE InAead
  BY <1>3 DEF InAead, AeadAt, Reports, NoFalseAlarm, Unchecked
<1>4. CASE InEcdsa
  BY <1>4 DEF InEcdsa, EcdsaAt, Reports, NoFalseAlarm, Unchecked
<1>5. CASE InEvp
  BY <1>5 DEF InEvp, EvpAt, Reports, NoFalseAlarm, Unchecked
<1>6. CASE InPqc
  BY <1>6 DEF InPqc, PqcAt, Reports, NoFalseAlarm, Unchecked
<1>7. CASE InAk
  BY <1>7 DEF InAk, AkAt, AkCauses, Reports, NoFalseAlarm, Unchecked
<1>8. CASE InKdf
  BY <1>8 DEF InKdf, KdfAt, Reports, NoFalseAlarm, Unchecked
<1>9. CASE InTrad
  BY <1>9 DEF InTrad, TradAt, Reports, NoFalseAlarm, Unchecked
<1>10. CASE InHpke
  BY <1>10
  DEF InHpke, HpkeAt, Reports, NoFalseAlarm, Unchecked, AltInfoAlarm, HpkeBuilds
<1>11. CASE InMeta
  BY <1>11 DEF InMeta, MetaAt, Reports, NoFalseAlarm, Unchecked, RoundtripOracle
<1>12. CASE InMulti
  BY <1>12 DEF InMulti, MultiAt, Reports, NoFalseAlarm, Unchecked, WrongLib
<1>13. CASE InHomomorphic
  <2>1. "none" \notin HomomorphicDefects[build.h]
    BY <1>13 DEF InHomomorphic, Homomorphic, HomomorphicDefects
  <2> QED BY <1>13, <2>1 DEF InHomomorphic, HomomorphicAt, NoFalseAlarm, Blames
<1> QED
  BY <1>1, <1>2, <1>3, <1>4, <1>5, <1>6, <1>7,
     <1>8, <1>9, <1>10, <1>11, <1>12, <1>13,
     Families

(* A right library is never accused, over any sequence of inputs, unless a *)
(* call failed whose status the target does not look at: NoFalseAlarm.     *)
THEOREM FuzzNoFalseAlarm == Spec => []NoFalseAlarm
<1>1. FuzzInv => NoFalseAlarm BY NoAlarm
<1> QED BY <1>1, FuzzInvariant, PTL

(* What a defect sets off is one of its own oracles.                       *)
LEMMA OracleRight ==
  ASSUME FuzzInv
  PROVE  RightOracle
<1>1. CASE InKem
  BY <1>1, FamilyOracles
  DEF InKem, KemAt, Reports, RightOracle, KemOracles, KemDefects
<1>2. CASE InSig
  BY <1>2, FamilyOracles
  DEF InSig, SigAt, Reports, RightOracle, SigOracles, SigDefects
<1>3. CASE InAead
  BY <1>3, FamilyOracles
  DEF InAead, AeadAt, Reports, RightOracle, SequenceOracles, AeadDefects, AeadSeq
<1>4. CASE InEcdsa
  BY <1>4, FamilyOracles
  DEF InEcdsa, EcdsaAt, Reports, RightOracle, SequenceOracles, AeadDefects, EcdsaDefects
<1>5. CASE InEvp
  BY <1>5 DEF InEvp, EvpAt, Reports, RightOracle
<1>6. CASE InPqc
  BY <1>6, FamilyOracles
  DEF InPqc, PqcAt, Reports, RightOracle, SequenceOracles, AeadDefects, PqcDefects
<1>7. CASE InAk
  BY <1>7, FamilyOracles
  DEF InAk, AkAt, Reports, RightOracle, CompOracles, CompDefects
<1>8. CASE InKdf
  BY <1>8, FamilyOracles
  DEF InKdf, KdfAt, Reports, RightOracle, CompOracles, CompDefects
<1>9. CASE InTrad
  BY <1>9, FamilyOracles
  DEF InTrad, TradAt, Reports, RightOracle, CompOracles, CompDefects
<1>10. CASE InHpke
  BY <1>10, FamilyOracles
  DEF InHpke, HpkeAt, Reports, RightOracle, HpkeOracles, HpkeDefects, HpkeBuilds,
      AltInfoAlarm
<1>11. CASE InMeta
  BY <1>11, FamilyOracles
  DEF InMeta, MetaAt, Reports, RightOracle, ClassicOracles, ClassicDefects,
      RoundtripOracle
<1>12. CASE InMulti
  <2>1. ClassicOracles(defect) = {"DIFF_mismatch"}
    BY <1>12 DEF InMulti, ClassicOracles, ClassicDefects
  <2> QED
    BY <1>12, <2>1, FamilyOracles DEF InMulti, MultiAt, Reports, RightOracle, WrongLib
<1>13. CASE InHomomorphic
  <2>1. report # "none" /\ defect # "none" => report \in HomomorphicOracles(defect)
    BY <1>13 DEF InHomomorphic, HomomorphicAt, Blames
  <2>2. build.h # "multilib" BY <1>13 DEF InHomomorphic, Homomorphic, HomomorphicDefects
  <2> QED BY <1>13, <2>1, <2>2, FamilyOracles DEF RightOracle
<1> QED
  BY <1>1, <1>2, <1>3, <1>4, <1>5, <1>6, <1>7,
     <1>8, <1>9, <1>10, <1>11, <1>12, <1>13,
     Families

(* A defect is named by an oracle written for it, and agree() of           *)
(* diff_multilib names the library that is wrong: RightOracle.             *)
THEOREM FuzzRightOracle == Spec => []RightOracle
<1>1. FuzzInv => RightOracle BY OracleRight
<1> QED BY <1>1, FuzzInvariant, PTL

(* An input that exercises a defect and returns would have cleared it.     *)
LEMMA Caught ==
  ASSUME FuzzInv, \A b \in Builds : b.h # "hpke_mlkem"
  PROVE  DefectCaught
<1>1. CASE InKem
  BY <1>1, FamilyOracles
  DEF InKem, KemAt, DefectCaught, KemExercises, KemDefects, KemPastMR2, KemPastMR3
<1>2. CASE InSig
  BY <1>2, FamilyOracles
  DEF InSig, SigAt, DefectCaught, SigExercises, SigDefects, SigPastMR2, SigPastMR3,
      SigPastMR4
<1>3. CASE InAead
  BY <1>3, FamilyOracles
  DEF InAead, AeadAt, DefectCaught, SequenceExercises, AeadExercises, AeadDefects
<1>4. CASE InEcdsa
  BY <1>4, FamilyOracles
  DEF InEcdsa, EcdsaAt, DefectCaught, EcdsaDefects
<1>5. CASE InEvp
  BY <1>5, FamilyOracles
  DEF InEvp, EvpAt, DefectCaught
<1>6. CASE InPqc
  BY <1>6, FamilyOracles
  DEF InPqc, PqcAt, DefectCaught, PqcDefects
<1>7. CASE InAk
  BY <1>7, FamilyOracles
  DEF InAk, AkAt, DefectCaught, CompExercises, CompDefects, AkPastRecord
<1>8. CASE InKdf
  BY <1>8, FamilyOracles
  DEF InKdf, KdfAt, DefectCaught, CompExercises, CompDefects, KdfPastOpen
<1>9. CASE InTrad
  BY <1>9, FamilyOracles
  DEF InTrad, TradAt, DefectCaught, CompExercises, CompDefects, EtmHalf, EtmPastOpen,
      RecHalf, RecPastOpen,
      RecPastSeq
<1>10. CASE InHpke
  <2>1. build.h = "hpke_x25519" BY <1>10 DEF FuzzInv, InHpke, HpkeBuilds
  <2> QED BY <1>10, <2>1, FamilyOracles
      DEF InHpke, HpkeAt, DefectCaught, HpkeExercises, HpkeDefects, HpkePastOpen,
          HpkePastBind
<1>11. CASE InMeta
  <2>1. ASSUME pc = "return", failed = {}, defect # "none", ClassicExercises(defect)
        PROVE  FALSE
    <3>1. \/ bits \cap MetaOps = {"sha256"} /\ ("split" \in bits => defect # "hash_stream")
          \/ bits \cap MetaOps = {"hmac"} /\ defect # "mac_no_key"
          \/ /\ \E op \in Aeads : bits \cap MetaOps = {op}
             /\ build.h = "trad_meta" \/ "empty" \notin bits =>
                  /\ MetaPastOpen /\ MetaPastTamper
                  /\ build.h = "trad_meta" => defect # "aead_any_key"
      BY <1>11, <2>1 DEF InMeta, MetaAt
    <3>2. /\ build.h \in {"trad_meta", "classic"}
          /\ defect \in ClassicDefects[build.h]
      BY <1>11, <2>1 DEF InMeta
    <3>3. /\ defect # "hash_unstable"
          /\ defect = "hash_stream" => {"sha256", "split"} \subseteq bits
          /\ defect = "mac_no_key" => "hmac" \in bits
          /\ defect \in {"aead_rejects", "aead_wrong", "aead_no_tag", "aead_any_key"} =>
               /\ bits \cap {"gcm", "chacha"} # {}
               /\ defect = "aead_wrong" => "empty" \notin bits
               /\ build.h = "classic" => "empty" \notin bits
      BY <2>1 DEF ClassicExercises
    <3>4. defect \in {"hash_unstable", "hash_stream", "mac_no_key", "aead_rejects",
                     "aead_wrong", "aead_no_tag", "aead_any_key"}
      BY <3>2 DEF ClassicDefects
    <3>5. defect = "aead_any_key" => build.h = "trad_meta"
      BY <3>2 DEF ClassicDefects
    <3> QED
      BY <2>1, <3>1, <3>2, <3>3, <3>4, <3>5 DEF MetaOps, Aeads, MetaPastOpen, MetaPastTamper
  <2> QED BY <1>11, <2>1, FamilyOracles DEF DefectCaught
<1>12. CASE InMulti
  BY <1>12, FamilyOracles
  DEF InMulti, MultiAt, DefectCaught, ClassicExercises, ClassicDefects, WrongLib
<1>13. CASE InHomomorphic
  BY <1>13, FamilyOracles DEF InHomomorphic, HomomorphicAt, DefectCaught
<1> QED
  BY <1>1, <1>2, <1>3, <1>4, <1>5, <1>6, <1>7,
     <1>8, <1>9, <1>10, <1>11, <1>12, <1>13,
     Families

(* No defect gets past an input that exercises it, for every set of builds *)
(* without comp_hpke over ML-KEM, which judges nothing (run hpke_mlkem):   *)
(* DefectCaught.                                                           *)
THEOREM FuzzDefectCaught ==
  ASSUME \A b \in Builds : b.h # "hpke_mlkem"
  PROVE  Spec => []DefectCaught
<1>1. FuzzInv => DefectCaught BY Caught
<1> QED BY <1>1, FuzzInvariant, PTL

(* The oracle each fault is expected to set off, one at a time.            *)
LEMMA ExpectedOf ==
         /\ Expected("MR1") = {"MR1_correctness"}
         /\ Expected("MR3") = {"MR3_strong_unforgeability"}
         /\ Expected("TRAD") = {"tamper_reject"}
         /\ Expected("ETM") = {"O5-ciphertext-integrity"}
         /\ Expected("REC") = {"O5-seq-binding"}
         /\ Expected("AK") = {"O5-transcript-binding"}
         /\ Expected("HPKE") = {"O5-upstream-tamper"}
         /\ Expected("KDF") = {"O5-key-separation"}
         /\ Expected("NONCE") = {"O6-nonce-uniqueness"}
         /\ Expected("RELEASE") = {"O6-release-before-verify"}
         /\ Expected("KREUSE") = {"O6-ecdsa-k-uniqueness"}
         /\ Expected("KEMSWAP") = {"O6-kem-key-confusion"}
         /\ Expected("IV") = {"O6-iv-unpredictability"}
         /\ Expected("UAF") = {"O6-ctx-use-after-free", "sanitizer"}
         /\ Expected("DIFF") = {"DIFF_mismatch"}
<1> USE DEF Expected
<1>1. Expected("MR1") = {"MR1_correctness"} OBVIOUS
<1>2. Expected("MR3") = {"MR3_strong_unforgeability"} OBVIOUS
<1>3. Expected("TRAD") = {"tamper_reject"} OBVIOUS
<1>4. Expected("ETM") = {"O5-ciphertext-integrity"} OBVIOUS
<1>5. Expected("REC") = {"O5-seq-binding"} OBVIOUS
<1>6. Expected("AK") = {"O5-transcript-binding"} OBVIOUS
<1>7. Expected("HPKE") = {"O5-upstream-tamper"} OBVIOUS
<1>8. Expected("KDF") = {"O5-key-separation"} OBVIOUS
<1>9. Expected("NONCE") = {"O6-nonce-uniqueness"} OBVIOUS
<1>10. Expected("RELEASE") = {"O6-release-before-verify"} OBVIOUS
<1>11. Expected("KREUSE") = {"O6-ecdsa-k-uniqueness"} OBVIOUS
<1>12. Expected("KEMSWAP") = {"O6-kem-key-confusion"} OBVIOUS
<1>13. Expected("IV") = {"O6-iv-unpredictability"} OBVIOUS
<1>14. Expected("UAF") = {"O6-ctx-use-after-free", "sanitizer"} OBVIOUS
<1>15. Expected("DIFF") = {"DIFF_mismatch"} OBVIOUS
<1> QED
  BY <1>1, <1>2, <1>3, <1>4, <1>5, <1>6, <1>7, <1>8,
     <1>9, <1>10, <1>11, <1>12, <1>13, <1>14, <1>15

(* A build with a fault notices it, by the oracle that is grepped for.     *)
LEMMA FaultNoticed ==
  ASSUME FuzzInv
  PROVE  FaultFires
<1>1. CASE InKem
  BY <1>1, ExpectedOf
  DEF InKem, KemAt, Reports, FaultFires, Reaches
<1>2. CASE InSig
  BY <1>2, ExpectedOf
  DEF InSig, SigAt, Reports, FaultFires, Reaches
<1>3. CASE InAead
  BY <1>3, ExpectedOf
  DEF InAead, AeadAt, Reports, FaultFires, Reaches, AeadSeq
<1>4. CASE InEcdsa
  BY <1>4, ExpectedOf
  DEF InEcdsa, EcdsaAt, Reports, FaultFires, Reaches
<1>5. CASE InEvp
  BY <1>5, ExpectedOf
  DEF InEvp, EvpAt, Reports, FaultFires, Reaches
<1>6. CASE InPqc
  BY <1>6, ExpectedOf
  DEF InPqc, PqcAt, Reports, FaultFires, Reaches
<1>7. CASE InAk
  BY <1>7, ExpectedOf
  DEF InAk, AkAt, Reports, FaultFires, Reaches
<1>8. CASE InKdf
  BY <1>8, ExpectedOf
  DEF InKdf, KdfAt, Reports, FaultFires, Reaches
<1>9. CASE InTrad
  BY <1>9, ExpectedOf
  DEF InTrad, TradAt, Reports, FaultFires, Reaches, EtmHalf, RecHalf, RecPastSeq
<1>10. CASE InHpke
  <2>1. build.fault # "none" => build.h = "hpke_x25519"
    BY <1>10 DEF InHpke, HpkeBuilds
  <2> QED BY <1>10, <2>1, ExpectedOf
      DEF InHpke, HpkeAt, Reports, FaultFires, Reaches, AltInfoAlarm
<1>11. CASE InMeta
  <2>1. ASSUME build.fault # "none", failed = {}, pc = "return", Reaches(build.fault)
        PROVE  FALSE
    <3>1. build.fault = "TRAD" /\ build.h = "trad_meta" BY <1>11, <2>1 DEF InMeta
    <3>2. bits \cap {"gcm", "chacha"} # {} BY <2>1, <3>1 DEF Reaches
    <3> QED BY <1>11, <2>1, <3>1, <3>2
        DEF InMeta, MetaAt, MetaOps, Aeads, MetaPastTamper
  <2>2. ASSUME build.fault # "none", failed = {}, report # "none"
        PROVE  report \in Expected(build.fault)
    <3>1. /\ build.fault = "TRAD" /\ build.h = "trad_meta" /\ pc = "abort"
          /\ defect = "none"
      BY <1>11, <2>2 DEF InMeta, Reports
    <3> QED BY <1>11, <2>2, <3>1, ExpectedOf DEF InMeta, MetaAt
  <2> QED BY <2>1, <2>2 DEF FaultFires
<1>12. CASE InMulti
  <2>1. ASSUME build.fault # "none", failed = {}, pc = "return", Reaches(build.fault)
        PROVE  FALSE
    <3>1. build.fault = "DIFF" /\ defect = "none" BY <1>12, <2>1 DEF InMulti
    <3>2. "sha256" \in bits BY <2>1, <3>1 DEF Reaches
    <3>3. WrongLib = "cryptopp" BY <3>1, <3>2 DEF WrongLib
    <3>4. MultiInput /\ \A j \in DOMAIN Libs : Libs[j] # WrongLib
      BY <1>12, <2>1 DEF InMulti, MultiAt
    <3> QED BY <3>3, <3>4, LibrariesAsked
  <2> QED BY <1>12, <2>1, ExpectedOf DEF InMulti, MultiAt, Reports, FaultFires
<1>13. CASE InHomomorphic
  <2>1. "none" \notin HomomorphicDefects[build.h]
    BY <1>13 DEF InHomomorphic, Homomorphic, HomomorphicDefects
  <2> QED BY <1>13, <2>1 DEF InHomomorphic, HomomorphicAt, FaultFires, Blames
<1> QED
  BY <1>1, <1>2, <1>3, <1>4, <1>5, <1>6, <1>7,
     <1>8, <1>9, <1>10, <1>11, <1>12, <1>13,
     Families

(* Every self-test of negative_tests.sh finds what it injects, and by the  *)
(* oracle it greps for, for every set of builds: FaultFires.               *)
THEOREM FuzzFaultFires == Spec => []FaultFires
<1>1. FuzzInv => FaultFires BY FaultNoticed
<1> QED BY <1>1, FuzzInvariant, PTL

(* What is only judged keeps the contract.                                 *)
LEMMA ContractOfJudged ==
  ASSUME NEW entries, \A e \in entries : e.what = "judged"
  PROVE  ContractAt(entries)
<1>1. Touched.what # "judged" BY DEF Touched
<1> DEFINE h == "handed on"
<1>2. h # "judged" OBVIOUS
<1> HIDE DEF h
<1>3. \A e \in entries : e # Touched /\ e.what # h /\ e.what # "sealed"
  BY <1>1, <1>2
<1> QED BY <1>3 DEF ContractAt, h

(* Every input that returns has kept the contract of its calls.            *)
LEMMA ContractHeld ==
  ASSUME FuzzInv
  PROVE  pc = "return" => ContractAt(log)
<1>1. CASE InKem
  BY <1>1, ContractOfNothing DEF InKem, KemAt
<1>2. CASE InSig
  BY <1>2, ContractOfNothing DEF InSig, SigAt
<1>3. CASE InAead
  BY <1>3 DEF InAead, AeadAt
<1>4. CASE InEcdsa
  BY <1>4 DEF InEcdsa, EcdsaAt
<1>5. CASE InEvp
  BY <1>5 DEF InEvp, EvpAt
<1>6. CASE InPqc
  BY <1>6, ContractOfNothing DEF InPqc, PqcAt
<1>7. CASE InAk
  BY <1>7, ContractOfNothing DEF InAk, AkAt
<1>8. CASE InKdf
  BY <1>8, ContractOfNothing DEF InKdf, KdfAt
<1>9. CASE InTrad
  BY <1>9, ContractOfNothing DEF InTrad, TradAt
<1>10. CASE InHpke
  BY <1>10, ContractOfJudged DEF InHpke, HpkeAt
<1>11. CASE InMeta
  BY <1>11, ContractOfNothing DEF InMeta, MetaAt
<1>12. CASE InMulti
  BY <1>12, ContractOfNothing DEF InMulti, MultiAt
<1>13. CASE InHomomorphic
  BY <1>13, ContractOfNothing DEF InHomomorphic, HomomorphicAt
<1> QED
  BY <1>1, <1>2, <1>3, <1>4, <1>5, <1>6, <1>7,
     <1>8, <1>9, <1>10, <1>11, <1>12, <1>13,
     Families

(* No input that returns has used a nonce twice under one key, handed on a *)
(* plaintext it had not verified, or touched a freed context: ContractKept. *)
THEOREM FuzzContractKept == Spec => []ContractKept
<1>1. FuzzInv => ContractKept BY ContractHeld DEF ContractKept, ContractAt
<1> QED BY <1>1, FuzzInvariant, PTL

(* Between inputs, and through one, the globals of comp_hpke hold no key of *)
(* another input: KeysOfThisInput.                                         *)
THEOREM FuzzKeysOfThisInput == Spec => []KeysOfThisInput
<1>1. ASSUME FuzzInv PROVE KeysOfThisInput
  <2>1. build.h \in HpkeBuilds => HpkeAt BY <1>1 DEF FuzzInv, FamilyAt
  <2> QED BY <2>1
      DEF KeysOfThisInput, HpkeAt, HpkePlaces, HpkeLocals, Outside, NoEph, HpkeKeyed,
          HpkeSealed
<1> QED BY <1>1, FuzzInvariant, PTL

(* An input of comp_hpke in which nothing fails is judged by both of its   *)
(* unconditional oracles, over X25519: OraclesReached.                     *)
THEOREM FuzzOraclesReached ==
  ASSUME \A b \in Builds : b.h # "hpke_mlkem"
  PROVE  Spec => []OraclesReached
<1>1. ASSUME FuzzInv PROVE OraclesReached
  <2>1. build.h \in HpkeBuilds => HpkeAt /\ build.h = "hpke_x25519"
    BY <1>1 DEF FuzzInv, FamilyAt, HpkeBuilds
  <2> QED BY <2>1 DEF OraclesReached, HpkeAt, HasJudged
<1> QED BY <1>1, FuzzInvariant, PTL
=============================================================================
