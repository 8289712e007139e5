-------------------------- MODULE DifferentialTest --------------------------
(***************************************************************************)
(* What a differential run promises, without processes, pipes, counters or *)
(* a counting loop: implementations hand in at most one answer per vector, *)
(* the answers are frozen before the first vector is judged, and the       *)
(* verdict and the blame are declared from the answers by comprehension.   *)
(*                                                                         *)
(* DiffRunner implements this specification (property Implements there).   *)
(***************************************************************************)
EXTENDS Integers, FiniteSets

CONSTANTS Vectors,      \* the vectors of the run
          Voters,       \* the implementations, the reference included
          Reference,    \* the one that is believed when there is no third voter
          Texts         \* what an implementation may print

VARIABLES kind,         \* vector -> "unset", "compute" or "verify"
          answer,       \* vector -> (implementation -> text), a partial table
          judged,       \* the vectors judged so far
          blame,        \* <<vector, implementation>> named as wrong
          split,        \* the vectors on which there is no consensus
          verdict       \* "pending", "agree", "diverge" or "error"

avars == <<kind, answer, judged, blame, split, verdict>>

(* Two answers agree when they are the same text; on a verify vector only  *)
(* the accept bit counts.                                                  *)
Agree(v, x, y) == IF kind[v] = "verify" THEN (x = "01") = (y = "01") ELSE x = y

Camp(v, w) == {u \in DOMAIN answer[v] : Agree(v, answer[v][u], answer[v][w])}

Dispute(v) == \E w, u \in DOMAIN answer[v] : ~ Agree(v, answer[v][w], answer[v][u])

(* Who is believed: the members of a strict majority when three or more    *)
(* implementations answered a compute vector, the reference otherwise.     *)
Authority(v) ==
  IF kind[v] # "verify" /\ Cardinality(DOMAIN answer[v]) >= 3
  THEN {w \in DOMAIN answer[v] :
          2 * Cardinality(Camp(v, w)) > Cardinality(DOMAIN answer[v])}
  ELSE {Reference}

Blamed(v) == {w \in DOMAIN answer[v] :
                \E a \in Authority(v) : ~ Agree(v, answer[v][w], answer[v][a])}

AInit ==
  /\ kind = [v \in Vectors |-> "unset"]
  /\ answer = [v \in Vectors |-> [w \in {} |-> ""]]
  /\ judged = {}
  /\ blame = {}
  /\ split = {}
  /\ verdict = "pending"

(* A vector is drawn and the reference answers it at once.                 *)
Draw(v) ==
  /\ verdict = "pending" /\ judged = {}
  /\ kind[v] = "unset"
  /\ \E k \in {"compute", "verify"} : kind' = [kind EXCEPT ![v] = k]
  /\ \E x \in Texts : answer' = [answer EXCEPT ![v] = [w \in {Reference} |-> x]]
  /\ UNCHANGED <<judged, blame, split, verdict>>

(* An implementation hands in all its answers, never changing another's.   *)
Deliver(w) ==
  /\ verdict = "pending" /\ judged = {}
  /\ DOMAIN answer' = Vectors
  /\ \A v \in Vectors :
       \/ answer'[v] = answer[v]
       \/ /\ kind[v] # "unset" /\ w \notin DOMAIN answer[v]
          /\ \E x \in Texts :
               answer'[v] = [u \in DOMAIN answer[v] \cup {w} |->
                               IF u = w THEN x ELSE answer[v][u]]
  /\ UNCHANGED <<kind, judged, blame, split, verdict>>

Judge(v) ==
  /\ verdict = "pending"
  /\ v \notin judged
  /\ judged' = judged \cup {v}
  /\ blame' = blame \cup {<<v, w>> : w \in Blamed(v)}
  /\ split' = IF Authority(v) = {} THEN split \cup {v} ELSE split
  /\ UNCHANGED <<kind, answer, verdict>>

Conclude ==
  /\ verdict = "pending"
  /\ judged = Vectors
  /\ verdict' = IF \E v \in Vectors : Dispute(v) THEN "diverge" ELSE "agree"
  /\ UNCHANGED <<kind, answer, judged, blame, split>>

(* A run can be given up, but only before anything was judged.             *)
GiveUp ==
  /\ verdict = "pending" /\ judged = {}
  /\ verdict' = "error"
  /\ UNCHANGED <<kind, answer, judged, blame, split>>

ANext ==
  \/ \E v \in Vectors : Draw(v) \/ Judge(v)
  \/ \E w \in Voters : Deliver(w)
  \/ Conclude
  \/ GiveUp

ASpec == AInit /\ [][ANext]_avars
=============================================================================
