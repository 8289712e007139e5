------------------------------ MODULE DiffVote ------------------------------
(***************************************************************************)
(* The per-vector oracle of the subprocess differential runner             *)
(* (harness/subproc/diff_subproc_runner.c, the loop "for (i = 0; i < N)"   *)
(* after all replies are collected), as operators on one ballot.           *)
(*                                                                         *)
(* A ballot is a function from the voters of a vector to the text each one *)
(* gave.  A voter is the slot tag vb[] of the code: Ref = -1 for the       *)
(* in-process OpenSSL reference, 0 .. nb-1 for the backends in the order   *)
(* of the command line, so the order of the integers is the slot order.    *)
(***************************************************************************)
EXTENDS Integers, FiniteSets

Ref == -1

(* The kinds of vector the oracle and the backends tell apart:             *)
(*   "digest"  the deterministic compute operations every backend has,     *)
(*   "ext"     the later compute operations (15 .. 26 and the like) some   *)
(*             backends do not implement,                                  *)
(*   "x25519"  operation 12, with a degenerate all-zero secret,            *)
(*   "verify"  operations 13 and 14, a one-byte accept/reject verdict.     *)
Kinds == {"digest", "ext", "x25519", "verify"}

(* strcmp(v, "01") == 0: everything but a clean accept is "not accepted".  *)
Accepts(x) == x = "01"

(* x25519_normalize: an all-zero shared secret is folded to "ERR".         *)
Normalize(kind, x) == IF kind = "x25519" /\ x = "ZERO" THEN "ERR" ELSE x

NumVoters(ballot) == Cardinality(DOMAIN ballot)

(* The inner loop over k: how many slots carry the same text as slot w.    *)
Support(ballot, w) == {u \in DOMAIN ballot : ballot[u] = ballot[w]}
Count(ballot, w)   == Cardinality(Support(ballot, w))

(* bestj: "if (c > bestcount)" keeps the first slot with the largest count *)
BestVoter(ballot) ==
  CHOOSE w \in DOMAIN ballot :
    /\ \A u \in DOMAIN ballot : Count(ballot, u) <= Count(ballot, w)
    /\ \A u \in DOMAIN ballot : u < w => Count(ballot, u) < Count(ballot, w)

BestCount(ballot) == Count(ballot, BestVoter(ballot))

(* Three or more voters of a compute vector are put to the vote.           *)
Polled(kind, ballot) == kind # "verify" /\ NumVoters(ballot) >= 3

(* Mutation: the split is noticed but not reported.                        *)
NoConsensus_Silent(kind, ballot) == FALSE

(* "bestcount == nv" is unanimous; else "bestcount * 2 <= nv": nobody is   *)
(* blamed, one DIFF_noconsensus line is printed.                           *)
NoConsensus(kind, ballot) ==
  /\ Polled(kind, ballot)
  /\ BestCount(ballot) # NumVoters(ballot)
  /\ BestCount(ballot) * 2 <= NumVoters(ballot)

(* Mutation: OpenSSL is trusted by fiat, whatever the number of voters.    *)
Outliers_TrustRef(kind, ballot) ==
  IF kind = "verify"
  THEN {w \in DOMAIN ballot \ {Ref} : Accepts(ballot[w]) # Accepts(ballot[Ref])}
  ELSE {w \in DOMAIN ballot \ {Ref} : ballot[w] # ballot[Ref]}

(* Mutation: verify replies are compared as strings, ERR differs from 00.  *)
Outliers_StrictVerify(kind, ballot) ==
  IF kind = "verify" \/ ~ Polled(kind, ballot)
  THEN {w \in DOMAIN ballot \ {Ref} : ballot[w] # ballot[Ref]}
  ELSE IF BestCount(ballot) * 2 <= NumVoters(ballot)
  THEN {}
  ELSE {w \in DOMAIN ballot : ballot[w] # ballot[BestVoter(ballot)]}

(* The voters a violation line of their own is printed for.                *)
Outliers(kind, ballot) ==
  IF kind = "verify"
  THEN {w \in DOMAIN ballot \ {Ref} : Accepts(ballot[w]) # Accepts(ballot[Ref])}
  ELSE IF ~ Polled(kind, ballot)
  THEN {w \in DOMAIN ballot \ {Ref} : ballot[w] # ballot[Ref]}
  ELSE IF BestCount(ballot) * 2 <= NumVoters(ballot)
  THEN {}
  ELSE {w \in DOMAIN ballot : ballot[w] # ballot[BestVoter(ballot)]}
=============================================================================
