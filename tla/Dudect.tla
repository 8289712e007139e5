------------------------------- MODULE Dudect -------------------------------
(***************************************************************************)
(* The constant-time engine (engine/ct_dudect.c, ct_dudect_trad.c): timed  *)
(* runs of an operation on two classes of inputs, and Welch's t-test on    *)
(* the cycle counts below each of a series of cuts.                        *)
(*                                                                         *)
(* The doubles are exact here: with a Scale that every number of           *)
(* measurements up to N_MEAS divides, everything t_push keeps is a         *)
(* multiple of 1/Scale, and the threshold is compared in integers.  What   *)
(* the operation takes is any of Cycles.                                   *)
(***************************************************************************)
EXTENDS Integers, Sequences, FiniteSets, FiniteSetsExt, SequencesExt

CONSTANTS
  N_MEAS,
  N_PERCENTILES,
  Threshold,       \* 4 * T_THRESHOLD^2: 81 in the code
  Scale,           \* a common multiple of 1 .. N_MEAS
  UINT64_MAX,      \* the last cut, above all of Cycles
  Cycles,          \* cycle counts a measurement may give
  Targets          \* pairs of an operation and what is expected of it

VARIABLES
  target,          \* CMF_KIND, CMF_TRAD_OP and the expectation
  dpc,             \* "new", "measure", "sort", "crop", "verdict", "exit"
  cls, cyc,        \* class and cycles of each measurement
  took,            \* history: the cycles, as measured
  timed,           \* the input each measurement was about
  drawn, msg_rand, \* random messages drawn so far; the last one, 0: none yet
  sorted, p,
  leaked,          \* max_abs_t > T_THRESHOLD
  verdict

ctvars == <<target, dpc, cls, cyc, took, timed, drawn, msg_rand, sorted, p,
            leaked, verdict>>

Init ==
  /\ target = <<"none", "none">> /\ dpc = "new"
  /\ cls = <<>> /\ cyc = <<>> /\ took = <<>> /\ timed = <<>> /\ drawn = 0 /\ msg_rand = 0
  /\ sorted = <<>> /\ p = 0 /\ leaked = FALSE /\ verdict = "none"

Enter ==
  /\ dpc = "new"
  /\ target' \in Targets /\ dpc' = "measure"
  /\ UNCHANGED <<cls, cyc, took, timed, drawn, msg_rand, sorted, p, leaked, verdict>>

(* Mutation: the random message is drawn for the other class.              *)
Prologue_OtherClass(c) ==
  IF target[1] = "sign"
  THEN /\ timed' = Append(timed, IF c = 1 THEN <<"random", msg_rand>> ELSE <<"fixed", 0>>)
       /\ IF c = 0 THEN drawn' = drawn + 1 /\ msg_rand' = drawn + 1
                   ELSE UNCHANGED <<drawn, msg_rand>>
  ELSE /\ timed' = Append(timed, IF c = 1 THEN <<"pool", 0>> ELSE <<"fixed", 0>>)
       /\ UNCHANGED <<drawn, msg_rand>>

(* Signing copies the message drawn before, and draws the next one then;   *)
(* the other operations take theirs from a pool filled beforehand.         *)
Prologue(c) ==
  IF target[1] = "sign"
  THEN /\ timed' = Append(timed, IF c = 1 THEN <<"random", msg_rand>> ELSE <<"fixed", 0>>)
       /\ IF c = 1 THEN drawn' = drawn + 1 /\ msg_rand' = drawn + 1
                   ELSE UNCHANGED <<drawn, msg_rand>>
  ELSE /\ timed' = Append(timed, IF c = 1 THEN <<"pool", 0>> ELSE <<"fixed", 0>>)
       /\ UNCHANGED <<drawn, msg_rand>>

Measure ==
  /\ dpc = "measure"
  /\ \E c \in {0, 1}, cycles \in Cycles :
       cls' = Append(cls, c) /\ cyc' = Append(cyc, cycles)
       /\ took' = Append(took, cycles) /\ Prologue(c)
  /\ dpc' = IF Len(cls') = N_MEAS THEN "sort" ELSE "measure"
  /\ UNCHANGED <<target, sorted, p, leaked, verdict>>

(* Mutation: no copy, the measurements themselves are sorted.              *)
Sort_InPlace ==
  /\ dpc = "sort"
  /\ sorted' = SortSeq(cyc, <) /\ cyc' = SortSeq(cyc, <) /\ dpc' = "crop"
  /\ UNCHANGED <<target, cls, took, timed, drawn, msg_rand, p, leaked, verdict>>

Sort ==
  /\ dpc = "sort"
  /\ sorted' = SortSeq(cyc, <) /\ dpc' = "crop"
  /\ UNCHANGED <<target, cls, cyc, took, timed, drawn, msg_rand, p, leaked, verdict>>

-----------------------------------------------------------------------------
(* (1 - 0.5^(10 (q + 1) / N_PERCENTILES)) * N_MEAS, rounded down: the most *)
(* k with 0.5^(10 (q + 1)) at most (1 - k / N_MEAS)^N_PERCENTILES.         *)
CutIndex ==
  [q \in 0 .. N_PERCENTILES - 1 |->
     Max({k \in 0 .. N_MEAS - 1 :
            \E j \in 0 .. 10 * (q + 1) :
              N_MEAS ^ N_PERCENTILES <= 2 ^ j * (N_MEAS - k) ^ N_PERCENTILES})]

(* sorted[] is numbered from 0.                                            *)
Cut == IF p = N_PERCENTILES THEN UINT64_MAX ELSE sorted[1 + CutIndex[p]]

(* n, and mean and m2 in units of 1/Scale.                                 *)
tstat_t == [n |-> 0, mean |-> 0, m2 |-> 0]

t_push(t, x) ==
  LET d    == Scale * x - t.mean
      mean == t.mean + d \div (t.n + 1)
  IN  [n |-> t.n + 1, mean |-> mean,
       m2 |-> t.m2 + (d * (Scale * x - mean)) \div Scale]

Accumulated(c, cut) ==
  FoldLeft(LAMBDA t, i : IF cls[i] = c /\ cyc[i] <= cut THEN t_push(t, cyc[i]) ELSE t,
           tstat_t, [i \in 1 .. N_MEAS |-> i])

(* Mutation: the sign of t is kept.                                        *)
Welch_Signed(a, b) ==
  /\ a.n >= 2 /\ b.n >= 2 /\ a.mean > b.mean
  /\ LET pa == a.n * (a.n - 1)
         pb == b.n * (b.n - 1)
         v  == a.m2 * pb + b.m2 * pa
     IN  v # 0 /\ 4 * (a.mean - b.mean) * (a.mean - b.mean) * pa * pb > Scale * Threshold * v

(* fabs(welch_t(&a, &b)) > T_THRESHOLD, squared and freed of its denominators;     *)
(* t is 0 when both classes are constant.                                  *)
Welch(a, b) ==
  /\ a.n >= 2 /\ b.n >= 2
  /\ LET pa == a.n * (a.n - 1)
         pb == b.n * (b.n - 1)
         v  == a.m2 * pb + b.m2 * pa
     IN  v # 0 /\ 4 * (a.mean - b.mean) * (a.mean - b.mean) * pa * pb > Scale * Threshold * v

Crop ==
  /\ dpc = "crop"
  /\ leaked' = (leaked \/ Welch(Accumulated(0, Cut), Accumulated(1, Cut)))
  /\ p' = p + 1
  /\ dpc' = IF p = N_PERCENTILES THEN "verdict" ELSE "crop"
  /\ UNCHANGED <<target, cls, cyc, took, timed, drawn, msg_rand, sorted, verdict>>

Judge ==
  /\ dpc = "verdict"
  /\ verdict' = IF target[2] = "ct" THEN IF leaked THEN "FINDING" ELSE "OK"
                ELSE IF leaked THEN "EXPECTED_VARTIME" ELSE "OK_UNEXPECTEDLY_CT"
  /\ dpc' = "exit"
  /\ UNCHANGED <<target, cls, cyc, took, timed, drawn, msg_rand, sorted, p, leaked>>

Over == dpc = "exit" /\ UNCHANGED ctvars

Next == Enter \/ Measure \/ Sort \/ Crop \/ Judge \/ Over

Spec == Init /\ [][Next]_ctvars

-----------------------------------------------------------------------------
(* The definitions of the statistics, over all measurements.               *)
Of(c)       == {i \in 1 .. N_MEAS : cls[i] = c}
Total(S)    == MapThenSumSet(LAMBDA i : took[i], S)
Squares(S)  == MapThenSumSet(LAMBDA i : took[i] * took[i], S)

(* n^2 (n - 1) times the sample variance.                                  *)
Spread(S) == Cardinality(S) * Squares(S) - Total(S) * Total(S)

(* t^2 > T_THRESHOLD^2.                                                    *)
FarApart ==
  LET A == Of(0)   na == Cardinality(A)
      B == Of(1)   nb == Cardinality(B)
      d == Total(A) * nb - Total(B) * na
      v == Spread(A) * nb * nb * (nb - 1) + Spread(B) * na * na * (na - 1)
  IN  na >= 2 /\ nb >= 2 /\ v # 0 /\ 4 * d * d * (na - 1) * (nb - 1) > Threshold * v

SameTimes ==
  \A x \in Cycles : Cardinality({i \in Of(0) : took[i] = x})
                      = Cardinality({i \in Of(1) : took[i] = x})

(* Two classes that took the same times, each as often, are never called   *)
(* a leak, at whichever cut and in whatever order they were measured.      *)
NoFalseLeak ==
  dpc = "exit" /\ SameTimes => verdict \in {"OK", "OK_UNEXPECTEDLY_CT"}

(* Classes that Welch's test, by its definition and on all measurements,   *)
(* tells apart are called a leak, whichever is the slower one.             *)
LeakShown ==
  dpc = "exit" /\ FarApart => verdict \in {"FINDING", "EXPECTED_VARTIME"}

(* No random message is signed twice, and a signature of class 1 is never  *)
(* about the fixed one: the classes do differ.  (The first message of      *)
(* class 1 is what msg_rand holds before anything is drawn.)               *)
MessagesFresh ==
  target[1] = "sign" =>
    \A i, j \in DOMAIN timed :
      cls[i] = 1 /\ timed[i] = timed[j] => i = j
=============================================================================
