------------------------ MODULE DiffRunnerJudgeProofs -----------------------
(*****************************************************************************)
(* What the runner says about a vector, for any number of vectors, voters  *)
(* and wrong implementations: a right majority has exactly the others      *)
(* named, a right reference has exactly the wrong verdicts named, and the  *)
(* counters of the summary are the numbers of lines printed.               *)
(*                                                                         *)
(* The second half is the refinement: the counting loop names whom         *)
(* DifferentialTest names by comprehension, and every step of the runner is*)
(* a step of that test or a stutter.                                       *)
(*                                                                         *)
(* Last, the self-test: what right CLIs and one corrupting one may say, in *)
(* the table and on its way there, has the corrupting one named.           *)
(*****************************************************************************)
EXTENDS DiffRunnerProofs, WellFoundedInduction

(* What a line says is what the oracle finds on a vector judged so far.    *)
Reported ==
  /\ IsFiniteSet(reports)
  /\ \A r : r \in reports <=> \E i \in 1 .. iv : r \in Findings(i)

(* A right reference knows which signatures are good.                      *)
RefKnows ==
  Ref \notin faulty =>
    \A k \in 1 .. Len(ops) :
      ops[k] = "verify" => (Accepts(refhex[k]) <=> Accepts(req[k].truth))

NaReplies(x) == {k \in 1 .. Len(bo[x]) : bo[x][k].v = "NA"}

Naming(x) == {r \in reports : r.who = x}

Counted ==
  /\ failures = Cardinality(reports)
  /\ refOutlier = Cardinality(Naming(Ref))
  /\ \A x \in Backends : bdiv[x] = Cardinality(Naming(x))

NaCounted == \A x \in Backends : bna[x] = Cardinality(NaReplies(x))

JInv == Reported /\ RefKnows /\ Counted /\ NaCounted

-----------------------------------------------------------------------------
(* A set of numbers that is not empty has a least one.                     *)
LEMMA LeastVoter ==
  ASSUME NEW S \in SUBSET ({Ref} \cup Nat), S # {}
  PROVE  \E a \in S : \A c \in S : ~ (c < a)
<1>1. CASE Ref \in S
  BY <1>1 DEF Ref
<1>2. CASE Ref \notin S
  <2> DEFINE R == OpToRel(<, Nat)
  <2>1. \A x, y \in Nat : x < y => <<x, y>> \in R
    BY DEF OpToRel
  <2>2. IsWellFoundedOn(R, Nat)
    BY NatLessThanWellFounded
  <2> HIDE DEF R
  <2>3. S \in SUBSET Nat
    BY <1>2
  <2>4. PICK a \in S : \A c \in S : ~ (<<c, a>> \in R)
    BY <2>2, <2>3, WFMin
  <2> QED BY <2>1, <2>3, <2>4
<1> QED BY <1>1, <1>2

(* Three slots or more, of which Good, a strict majority, carry the text.  *)
Majority(ballot, text, Good) ==
  /\ IsFiniteSet(DOMAIN ballot) /\ DOMAIN ballot \subseteq {Ref} \cup Nat
  /\ NumVoters(ballot) >= 3
  /\ Good = {w \in DOMAIN ballot : ballot[w] = text}
  /\ 2 * Cardinality(Good) > NumVoters(ballot)

(* A text that a strict majority of the slots carry is the one the count   *)
(* settles on, and the slots that carry another are the outliers.          *)
LEMMA MajorityWins ==
  ASSUME NEW kind, kind # "verify", NEW ballot, NEW text, NEW Good,
         Majority(ballot, text, Good)
  PROVE  /\ ~ NoConsensus(kind, ballot)
         /\ Outliers(kind, ballot) = DOMAIN ballot \ Good
<1> USE DEF Majority
<1>1. IsFiniteSet(Good) /\ Cardinality(Good) \in Nat
  BY FS_Subset, FS_CardinalityType
<1>2. NumVoters(ballot) \in Nat /\ \A u : Count(ballot, u) \in Nat
  BY CountType
<1>3. Good # {}
  BY <1>1, <1>2, FS_EmptySet
<1>4. PICK g \in Good : \A u \in Good : ~ (u < g)
  BY <1>3, LeastVoter
<1>5. \A w \in Good : Count(ballot, w) = Cardinality(Good)
  <2> SUFFICES ASSUME NEW w \in Good PROVE Support(ballot, w) = Good
    BY DEF Count
  <2> QED BY DEF Support
<1>6. ASSUME NEW u \in DOMAIN ballot \ Good
      PROVE  Count(ballot, u) < Cardinality(Good)
  <2>1. Support(ballot, u) \cap Good = {}
    BY <1>6 DEF Support
  <2>2. Support(ballot, u) \subseteq DOMAIN ballot /\ Good \subseteq DOMAIN ballot
    BY DEF Support
  <2>3. ~ (Cardinality(Support(ballot, u)) + Cardinality(Good) > Cardinality(DOMAIN ballot))
    BY <2>1, <2>2, FS_MajoritiesIntersect
  <2>4. /\ Count(ballot, u) + Cardinality(Good) <= NumVoters(ballot)
        /\ 2 * Cardinality(Good) > NumVoters(ballot)
    BY <1>1, <1>2, <2>3 DEF Count, NumVoters
  <2> QED BY <1>1, <1>2, <2>4
<1>7. /\ \A u \in DOMAIN ballot : Count(ballot, u) <= Count(ballot, g)
      /\ \A u \in DOMAIN ballot : u < g => Count(ballot, u) < Count(ballot, g)
  <2>1. ASSUME NEW u \in DOMAIN ballot PROVE u \in Good \/ Count(ballot, u) < Count(ballot, g)
    BY <1>4, <1>5, <1>6
  <2>2. ASSUME NEW u \in Good PROVE Count(ballot, u) = Count(ballot, g) /\ ~ (u < g)
    BY <1>4, <1>5
  <2> QED BY <1>2, <2>1, <2>2
<1> DEFINE best == BestVoter(ballot)
<1>8. /\ best \in DOMAIN ballot
      /\ \A u \in DOMAIN ballot : Count(ballot, u) <= Count(ballot, best)
  BY <1>4, <1>7 DEF BestVoter
<1>9. best \in Good
  <2>1. Count(ballot, g) <= Count(ballot, best) /\ Count(ballot, g) = Cardinality(Good)
    BY <1>4, <1>5, <1>8
  <2> HIDE DEF best
  <2> QED BY <1>1, <1>2, <1>6, <1>8, <2>1
<1>10. BestCount(ballot) = Cardinality(Good) /\ ballot[best] = text
  BY <1>5, <1>9 DEF BestCount
<1>11. ~ (BestCount(ballot) * 2 <= NumVoters(ballot))
  BY <1>1, <1>2, <1>10
<1>12. Polled(kind, ballot)
  BY DEF Polled
<1>13. Outliers(kind, ballot) = {w \in DOMAIN ballot : ballot[w] # ballot[best]}
  BY <1>11, <1>12 DEF Outliers
<1> QED BY <1>10, <1>11, <1>13 DEF NoConsensus

-----------------------------------------------------------------------------
Names(i) == Outliers(ops[i], Ballot(i)) \cup (IF NoConsensus(ops[i], Ballot(i)) THEN {Nobody} ELSE {})

LEMMA NamesOfFindings ==
  ASSUME NEW i
  PROVE  /\ \A r \in Findings(i) : r.vec = i /\ r.who \in Names(i)
         /\ \A w \in Names(i) : \E r \in Findings(i) : r.who = w
         /\ \A r, s \in Findings(i) : r.who = s.who => r = s
         /\ NoConsensus(ops[i], Ballot(i)) => Outliers(ops[i], Ballot(i)) = {}
         /\ Nobody \notin Outliers(ops[i], Ballot(i))
<1>1. NoConsensus(ops[i], Ballot(i)) => Outliers(ops[i], Ballot(i)) = {}
  BY DEF NoConsensus, Outliers, Polled
<1>2. Nobody \notin Outliers(ops[i], Ballot(i))
  <2>1. Outliers(ops[i], Ballot(i)) \subseteq Voters
    BY OutliersFinite, SeatedFinite
  <2>2. Nobody \notin Voters
    BY ConstantsOK DEF Nobody, Voters, Backends, Ref, ConstantsOK
  <2> QED BY <2>1, <2>2
<1>3. \A r \in Findings(i) : r.vec = i /\ r.who \in Names(i)
  BY DEF Findings, Line, Names
<1>4. ASSUME NEW w \in Names(i) PROVE \E r \in Findings(i) : r.who = w
  <2> DEFINE oracle == IF ops[i] = "verify" THEN "VERIFY_mismatch" ELSE "DIFF_mismatch"
  <2>1. CASE w \in Outliers(ops[i], Ballot(i))
    <3>1. Line(oracle, i, w) \in Findings(i)
      BY <2>1 DEF Findings
    <3>2. Line(oracle, i, w).who = w
      BY DEF Line
    <3> QED BY <3>1, <3>2
  <2>2. CASE NoConsensus(ops[i], Ballot(i)) /\ w = Nobody
    <3>1. Line("DIFF_noconsensus", i, w) \in Findings(i)
      BY <2>2 DEF Findings
    <3>2. Line("DIFF_noconsensus", i, w).who = w
      BY DEF Line
    <3> QED BY <3>1, <3>2
  <2> QED BY <2>1, <2>2 DEF Names
<1>5. \A r, s \in Findings(i) : r.who = s.who => r = s
  BY <1>1 DEF Findings, Line
<1> QED BY <1>1, <1>2, <1>3, <1>4, <1>5

(* As many lines as voters named, and one for a split.                     *)
LEMMA FindingsCount ==
  ASSUME NEW i
  PROVE  /\ IsFiniteSet(Findings(i))
         /\ Cardinality(Findings(i)) = Cardinality(Outliers(ops[i], Ballot(i)))
              + (IF NoConsensus(ops[i], Ballot(i)) THEN 1 ELSE 0)
<1> DEFINE bad == Outliers(ops[i], Ballot(i))
           none == NoConsensus(ops[i], Ballot(i))
           f == [r \in Findings(i) |-> r.who]
<1>1. bad \subseteq Seated(i) /\ Cardinality(bad) \in Nat /\ IsFiniteSet(bad)
  BY OutliersFinite, SeatedFinite, FS_Subset
<1>2. IsFiniteSet({Nobody}) /\ Cardinality({Nobody}) = 1 /\ IsFiniteSet({}) /\ Cardinality({}) = 0
  BY FS_Singleton, FS_EmptySet
<1>3. /\ IsFiniteSet(Names(i))
      /\ Cardinality(Names(i)) = Cardinality(bad) + (IF none THEN 1 ELSE 0)
  <2>1. CASE none
    <3>1. bad = {} /\ Names(i) = {Nobody}
      BY <2>1, NamesOfFindings DEF Names
    <3> QED BY <1>2, <2>1, <3>1
  <2>2. CASE ~ none
    <3>1. Names(i) = bad
      BY <2>2 DEF Names
    <3> QED BY <1>1, <2>2, <3>1
  <2> QED BY <2>1, <2>2
<1>4. f \in Bijection(Findings(i), Names(i))
  <2>1. f \in [Findings(i) -> Names(i)]
    BY NamesOfFindings
  <2>2. IsInjective(f)
    BY NamesOfFindings DEF IsInjective
  <2>3. \A w \in Names(i) : \E r \in Findings(i) : f[r] = w
    BY NamesOfFindings
  <2> QED BY <2>1, <2>2, <2>3 DEF Bijection, Injection, Surjection
<1>5. IsFiniteSet(Findings(i)) /\ Cardinality(Findings(i)) = Cardinality(Names(i))
  <2>1. f \in Injection(Findings(i), Names(i)) /\ f \in Surjection(Findings(i), Names(i))
    BY <1>4 DEF Bijection
  <2> HIDE DEF f
  <2>2. IsFiniteSet(Findings(i))
    BY <1>3, <2>1, FS_Injection
  <2> QED BY <1>3, <2>1, <2>2, FS_Injection
<1> QED BY <1>3, <1>5

-----------------------------------------------------------------------------
(* The steps that leave the table, the lines and the counters alone.       *)
LEMMA FindingsStay ==
  ASSUME UNCHANGED <<ops, refhex, bo, bprod>>
  PROVE  \A i : Findings(i)' = Findings(i)
BY DEF Findings, Ballot, Seated, Answering

LEMMA JudgeStays ==
  ASSUME JInv, UNCHANGED <<setupVars, bo, bna, judgeVars>>,
         bprod' = bprod \/ iv = 0
  PROVE  JInv'
<1>1. UNCHANGED <<faulty, req, ops, refhex, bo, bna, iv, bdiv, failures, refOutlier, reports>>
  BY DEF setupVars, judgeVars
<1>2. Reported'
  <2>1. CASE bprod' = bprod
    BY <1>1, <2>1, FindingsStay DEF JInv, Reported
  <2>2. CASE iv = 0
    BY <1>1, <2>2 DEF JInv, Reported
  <2> QED BY <2>1, <2>2
<1>3. RefKnows' /\ NaCounted'
  BY <1>1 DEF JInv, RefKnows, NaCounted, NaReplies
<1>4. Counted'
  BY <1>1 DEF JInv, Counted, Naming
<1> QED BY <1>2, <1>3, <1>4 DEF JInv

(* A line of the request file is drawn.                                    *)
LEMMA JudgeDraws ==
  ASSUME IInv, JInv, NEW kind \in Kinds, NEW truth \in Texts, NEW text \in Texts,
         Ref \notin faulty => (kind = "verify" => (Accepts(text) <=> Accepts(truth))),
         ops' = Append(ops, kind), refhex' = Append(refhex, text),
         req' = Append(req, [op |-> kind, truth |-> truth]),
         UNCHANGED <<faulty, bo, bprod, bna, judgeVars>>, iv = 0
  PROVE  JInv'
<1>1. UNCHANGED <<iv, bdiv, failures, refOutlier, reports>>
  BY DEF judgeVars
<1>2. /\ ops \in Seq(Kinds) /\ req \in Seq([op : Kinds, truth : Texts]) /\ refhex \in Seq(Texts)
      /\ Len(req) = Len(ops) /\ Len(refhex) = Len(ops)
  BY DEF IInv, TypeOK, TypeSetup
<1>3. Len(ops) \in Nat
  BY <1>2, LenProperties
<1> DEFINE line == [op |-> kind, truth |-> truth]
<1>4. line \in [op : Kinds, truth : Texts] /\ line.truth = truth
  OBVIOUS
<1> HIDE DEF line
<1>5. /\ Len(ops') = Len(ops) + 1 /\ ops'[Len(ops) + 1] = kind
      /\ \A k \in 1 .. Len(ops) : ops'[k] = ops[k]
  BY <1>2, AppendProperties
<1>6. /\ req'[Len(ops) + 1] = line
      /\ \A k \in 1 .. Len(ops) : req'[k] = req[k]
  BY <1>2, <1>4, AppendProperties DEF line
<1>7. /\ refhex'[Len(ops) + 1] = text
      /\ \A k \in 1 .. Len(ops) : refhex'[k] = refhex[k]
  BY <1>2, AppendProperties
<1>8. RefKnows'
  <2>1. SUFFICES ASSUME Ref \notin faulty, NEW k \in 1 .. Len(ops'), ops'[k] = "verify"
                 PROVE  Accepts(refhex'[k]) <=> Accepts(req'[k].truth)
    BY DEF RefKnows
  <2>2. CASE k \in 1 .. Len(ops)
    <3>1. ops[k] = "verify" /\ refhex'[k] = refhex[k] /\ req'[k] = req[k]
      BY <1>5, <1>6, <1>7, <2>1, <2>2
    <3> QED BY <2>1, <2>2, <3>1 DEF JInv, RefKnows
  <2>3. CASE k = Len(ops) + 1
    <3>1. kind = "verify" /\ refhex'[k] = text /\ req'[k].truth = truth
      BY <1>4, <1>5, <1>6, <1>7, <2>1, <2>3
    <3> QED BY <2>1, <3>1
  <2>4. k \in 1 .. Len(ops) \/ k = Len(ops) + 1
    <3> DEFINE n == Len(ops)
    <3>1. k \in 1 .. n + 1 /\ n \in Nat
      BY <1>3, <1>5
    <3> HIDE DEF n
    <3>2. k \in 1 .. n \/ k = n + 1
      BY <3>1
    <3> QED BY <3>2 DEF n
  <2> QED BY <2>2, <2>3, <2>4
<1>9. Reported' /\ Counted' /\ NaCounted'
  BY <1>1 DEF JInv, Reported, Counted, Naming, NaCounted, NaReplies
<1> QED BY <1>8, <1>9 DEF JInv

LEMMA JudgeBuild ==
  ASSUME IInv, JInv, Build
  PROVE  JInv'
<1>1. CASE CloseRequests
  BY <1>1, JudgeStays DEF CloseRequests, tableVars
<1>2. CASE BuildEmptyVerify
  <2>1. "verify" \in Kinds /\ "00" \in Texts /\ iv = 0
    BY <1>2 DEF Kinds, Texts, BuildEmptyVerify, IInv, Judged
  <2> QED BY <1>2, <2>1, JudgeDraws DEF BuildEmptyVerify, tableVars
<1>3. ASSUME NEW kind \in DrawnKinds, NEW truth \in Truths(kind),
             NEW x \in Answers(Ref, kind, truth), BuildVector(kind, truth, x)
      PROVE  JInv'
  <2> DEFINE text == IF kind = "verify" /\ x # "01" THEN "00" ELSE Normalize(kind, x)
  <2>1. kind \in Kinds /\ truth \in Texts /\ x \in Texts /\ iv = 0
    BY <1>3, ConstantsOK, TruthsType, AnswersType DEF ConstantsOK, BuildVector, IInv, Judged
  <2>2. text \in Texts
    BY <2>1, NormalizeType DEF Texts
  <2>3. ASSUME Ref \notin faulty, kind = "verify"
        PROVE  Accepts(text) <=> Accepts(truth)
    <3>1. truth \in {"01", "00"} /\ x \in RightAnswers(truth)
      BY <1>3, <2>3 DEF Truths, Answers
    <3>2. truth = "01" <=> x = "01"
      BY <3>1 DEF RightAnswers
    <3> QED BY <2>3, <3>1, <3>2 DEF Accepts, Normalize
  <2> HIDE DEF text
  <2>4. /\ ops' = Append(ops, kind) /\ refhex' = Append(refhex, text)
        /\ req' = Append(req, [op |-> kind, truth |-> truth])
        /\ UNCHANGED <<faulty, bo, bprod, bna, judgeVars>>
    BY <1>3 DEF BuildVector, tableVars, text
  <2> QED BY <2>1, <2>2, <2>3, <2>4, JudgeDraws
<1> QED BY <1>1, <1>2, <1>3 DEF Build

(* One reply more, and one NA more if it is one.                           *)
LEMMA JudgeReads ==
  ASSUME IInv, JInv, ReadReply
  PROVE  JInv'
<1> DEFINE i == Len(bo[b]) + 1
           x == Head(pipe)
           y == IF x.v = "NA" THEN x ELSE [x EXCEPT !.v = Normalize(ops[i], x.v)]
<1>1. /\ pc = "collect" /\ pipe # <<>>
      /\ bo' = [bo EXCEPT ![b] = Append(@, y)]
      /\ bna' = IF x.v = "NA" THEN [bna EXCEPT ![b] = @ + 1] ELSE bna
      /\ UNCHANGED <<b, faulty, req, ops, refhex, judgeVars>>
  BY DEF ReadReply, setupVars
<1>2. b \in Backends
  <2>1. b < NB /\ b \in 0 .. NB /\ NB \in Nat
    BY <1>1, ConstantsOK DEF IInv, Control, TypeOK, TypeControl, ConstantsOK
  <2> QED BY <2>1 DEF Backends
<1>3. /\ bo \in [Backends -> Seq(Reply)] /\ bna \in [Backends -> Nat]
      /\ bo[b] \in Seq(Reply) /\ Len(bo[b]) \in Nat /\ x \in Reply
  BY <1>1, <1>2, LenProperties, HeadTailProperties DEF IInv, TypeOK, TypeTable, TypeChild
<1>4. y.v = "NA" <=> x.v = "NA"
  BY <1>3 DEF Normalize, Reply
<1>5. bo'[b] = Append(bo[b], y) /\ \A z \in Backends : z # b => bo'[z] = bo[z]
  <2> HIDE DEF y
  <2>1. bo' = [bo EXCEPT ![b] = Append(bo[b], y)]
    BY <1>1
  <2> QED BY <1>2, <1>3, <2>1
<1> HIDE DEF x, y
<1>6. /\ Len(bo'[b]) = i /\ bo'[b][i] = y
      /\ \A k \in 1 .. Len(bo[b]) : bo'[b][k] = bo[b][k]
  <2>1. /\ Len(Append(bo[b], y)) = Len(bo[b]) + 1
        /\ Append(bo[b], y)[Len(bo[b]) + 1] = y
        /\ \A k \in 1 .. Len(bo[b]) : Append(bo[b], y)[k] = bo[b][k]
    BY <1>3, AppendProperties
  <2> QED BY <1>5, <2>1
<1>7. NaReplies(b)' = NaReplies(b) \cup (IF x.v = "NA" THEN {i} ELSE {}) /\ i \notin NaReplies(b)
  <2> DEFINE n == Len(bo[b])
  <2>1. n \in Nat /\ i = n + 1
    BY <1>3
  <2>2. 1 .. i = (1 .. n) \cup {i} /\ i \notin 1 .. n
    BY <2>1
  <2>3. NaReplies(b)' = {k \in 1 .. i : bo'[b][k].v = "NA"}
    BY <1>1, <1>6 DEF NaReplies, ReadReply
  <2>4. NaReplies(b) = {k \in 1 .. n : bo[b][k].v = "NA"}
    BY DEF NaReplies
  <2>5. \A k \in 1 .. n : bo'[b][k] = bo[b][k]
    BY <1>6
  <2>6. bo'[b][i].v = "NA" <=> x.v = "NA"
    BY <1>4, <1>6
  <2> HIDE DEF n, i
  <2> QED BY <2>2, <2>3, <2>4, <2>5, <2>6
<1>8. IsFiniteSet(NaReplies(b)) /\ Cardinality(NaReplies(b)) = bna[b] /\ bna[b] \in Nat
  <2>1. IsFiniteSet(1 .. Len(bo[b]))
    BY <1>3, FS_Interval
  <2>2. NaReplies(b) \in SUBSET (1 .. Len(bo[b]))
    BY DEF NaReplies
  <2>3. IsFiniteSet(NaReplies(b))
    BY <2>1, <2>2, FS_Subset
  <2>4. Cardinality(NaReplies(b)) = bna[b] /\ bna[b] \in Nat
    BY <1>2, <1>3 DEF JInv, NaCounted
  <2> QED BY <2>3, <2>4
<1>9. bna'[b] = Cardinality(NaReplies(b)')
  <2> HIDE DEF i
  <2>1. CASE x.v = "NA"
    <3>1. bna'[b] = bna[b] + 1
      BY <1>1, <1>2, <1>3, <2>1
    <3>2. NaReplies(b)' = NaReplies(b) \cup {i}
      BY <1>7, <2>1
    <3>3. Cardinality(NaReplies(b) \cup {i}) = Cardinality(NaReplies(b)) + 1
      BY <1>7, <1>8, FS_AddElement
    <3> QED BY <1>8, <3>1, <3>2, <3>3
  <2>2. CASE x.v # "NA"
    BY <1>1, <1>7, <1>8, <2>2
  <2> QED BY <2>1, <2>2
<1>10. \A z \in Backends : z # b => bna'[z] = Cardinality(NaReplies(z)')
  <2> SUFFICES ASSUME NEW z \in Backends, z # b PROVE bna'[z] = Cardinality(NaReplies(z)')
    OBVIOUS
  <2>1. bna'[z] = bna[z]
    BY <1>1, <1>3
  <2>2. NaReplies(z)' = NaReplies(z)
    BY <1>5 DEF NaReplies
  <2> QED BY <2>1, <2>2 DEF JInv, NaCounted
<1>11. NaCounted'
  <2> SUFFICES ASSUME NEW z \in Backends PROVE bna'[z] = Cardinality(NaReplies(z)')
    BY DEF NaCounted, Backends
  <2>1. CASE z = b
    BY <1>1, <1>9, <2>1 DEF NaReplies
  <2>2. CASE z # b
    BY <1>10, <2>2
  <2> QED BY <2>1, <2>2
<1>12. UNCHANGED <<iv, bdiv, failures, refOutlier, reports>> /\ iv = 0
  BY <1>1 DEF judgeVars, IInv, Judged
<1>13. Reported' /\ Counted' /\ RefKnows'
  BY <1>1, <1>12 DEF JInv, Reported, Counted, Naming, RefKnows
<1> QED BY <1>11, <1>13 DEF JInv

(* A vector is judged: its lines are new, each voter is named once.        *)
LEMMA JudgeJudges ==
  ASSUME IInv, JInv, JudgeVector
  PROVE  JInv'
<1> DEFINE i    == iv + 1
           bad  == Outliers(ops[i], Ballot(i))
           none == NoConsensus(ops[i], Ballot(i))
<1>1. /\ UNCHANGED <<faulty, req, ops, refhex, bo, bprod, bna>> /\ iv' = i
      /\ reports' = reports \cup Findings(i)
      /\ failures' = failures + Cardinality(bad) + (IF none THEN 1 ELSE 0)
      /\ bdiv' = [z \in Backends |-> bdiv[z] + (IF z \in bad THEN 1 ELSE 0)]
      /\ refOutlier' = refOutlier + (IF Ref \in bad THEN 1 ELSE 0)
  BY DEF JudgeVector, setupVars, tableVars
<1>2. iv \in Nat /\ failures \in Nat /\ refOutlier \in Nat /\ bdiv \in [Backends -> Nat]
  BY ConstantsOK DEF IInv, TypeOK, TypeJudge, ConstantsOK
<1>3. \A j : Findings(j)' = Findings(j)
  BY <1>1, FindingsStay
<1>4. IsFiniteSet(reports) /\ IsFiniteSet(Findings(i))
  BY FindingsCount DEF JInv, Reported
<1>5. \A r \in reports : r.vec # i
  <2>1. SUFFICES ASSUME NEW r \in reports PROVE r.vec # i
    OBVIOUS
  <2>2. PICK j \in 1 .. iv : r \in Findings(j)
    BY DEF JInv, Reported
  <2>3. r.vec = j
    BY <2>2, NamesOfFindings
  <2> QED BY <1>2, <2>2, <2>3
<1>6. reports \cap Findings(i) = {}
  BY <1>5, NamesOfFindings
<1>7. Reported'
  <2>1. IsFiniteSet(reports')
    BY <1>1, <1>4, FS_Union
  <2>2. 1 .. iv' = (1 .. iv) \cup {i}
    BY <1>1, <1>2
  <2> HIDE DEF i
  <2> QED BY <1>1, <1>3, <2>1, <2>2 DEF JInv, Reported
<1>8. failures' = Cardinality(reports')
  <2>1. Cardinality(reports \cup Findings(i)) = Cardinality(reports) + Cardinality(Findings(i))
    <3> HIDE DEF i
    <3>1. Cardinality(reports) \in Nat /\ Cardinality(Findings(i)) \in Nat
      BY <1>4, FS_CardinalityType
    <3>2. Cardinality(reports \cap Findings(i)) = 0
      BY <1>6, FS_EmptySet
    <3>3. Cardinality(reports \cup Findings(i))
            = Cardinality(reports) + Cardinality(Findings(i)) - Cardinality(reports \cap Findings(i))
      BY <1>4, FS_Union
    <3> QED BY <3>1, <3>2, <3>3
  <2>2. Cardinality(bad) \in Nat /\ failures = Cardinality(reports)
    BY OutliersFinite DEF JInv, Counted
  <2>3. Cardinality(Findings(i)) = Cardinality(bad) + (IF none THEN 1 ELSE 0)
    BY FindingsCount
  <2> HIDE DEF i, bad, none
  <2> QED BY <1>1, <1>2, <2>1, <2>2, <2>3
<1>9. ASSUME NEW w \in Voters
      PROVE  Cardinality(Naming(w)') = Cardinality(Naming(w)) + (IF w \in bad THEN 1 ELSE 0)
  <2>1. IsFiniteSet(Naming(w)) /\ Cardinality(Naming(w)) \in Nat
    <3>1. Naming(w) \subseteq reports
      BY DEF Naming
    <3> QED BY <1>4, <3>1, FS_Subset, FS_CardinalityType
  <2>2. w # Nobody
    BY ConstantsOK DEF Nobody, Voters, Backends, Ref, ConstantsOK
  <2>3. Naming(w)' = Naming(w) \cup {r \in Findings(i) : r.who = w}
    BY <1>1 DEF Naming
  <2>4. CASE w \in bad
    <3>1. w \in Names(i)
      BY <2>4 DEF Names
    <3>2. PICK r \in Findings(i) : r.who = w
      BY <3>1, NamesOfFindings
    <3>3. {s \in Findings(i) : s.who = w} = {r}
      BY <3>2, NamesOfFindings
    <3>4. r \notin Naming(w)
      BY <1>6, <3>2 DEF Naming
    <3>5. Cardinality(Naming(w) \cup {r}) = Cardinality(Naming(w)) + 1
      BY <2>1, <3>4, FS_AddElement
    <3> QED BY <2>3, <2>4, <3>3, <3>5
  <2>5. CASE w \notin bad
    <3>1. w \notin Names(i)
      BY <2>2, <2>5 DEF Names
    <3>2. {s \in Findings(i) : s.who = w} = {}
      BY <3>1, NamesOfFindings
    <3>3. Naming(w)' = Naming(w)
      BY <2>3, <3>2
    <3> QED BY <2>1, <2>5, <3>3
  <2> QED BY <2>4, <2>5
<1>10. Ref \in Voters /\ \A z \in Backends : z \in Voters
  BY DEF Voters
<1>11. refOutlier' = Cardinality(Naming(Ref)')
  <2>1. refOutlier = Cardinality(Naming(Ref))
    BY DEF JInv, Counted
  <2> QED BY <1>1, <1>9, <1>10, <2>1
<1>12. \A z \in Backends : bdiv'[z] = Cardinality(Naming(z)')
  <2> SUFFICES ASSUME NEW z \in Backends PROVE bdiv'[z] = Cardinality(Naming(z)')
    OBVIOUS
  <2>1. bdiv[z] = Cardinality(Naming(z))
    BY DEF JInv, Counted
  <2>2. bdiv'[z] = bdiv[z] + (IF z \in bad THEN 1 ELSE 0)
    BY <1>1
  <2> QED BY <1>9, <1>10, <2>1, <2>2
<1>13. Counted'
  <2>1. Naming(Ref)' = {r \in reports' : r.who = Ref}
    BY DEF Naming
  <2> QED BY <1>8, <1>11, <1>12 DEF Counted, Backends, Ref
<1>14. RefKnows' /\ NaCounted'
  BY <1>1 DEF JInv, RefKnows, NaCounted, NaReplies
<1> QED BY <1>7, <1>13, <1>14 DEF JInv

-----------------------------------------------------------------------------
LEMMA JudgeInit == Init => JInv
<1> SUFFICES ASSUME Init PROVE JInv
  OBVIOUS
<1>1. /\ ops = <<>> /\ iv = 0 /\ reports = {} /\ failures = 0 /\ refOutlier = 0
      /\ bo = [x \in Backends |-> <<>>]
      /\ bdiv = [x \in Backends |-> 0] /\ bna = [x \in Backends |-> 0]
  BY DEF Init
<1>2. Reported /\ RefKnows
  BY <1>1, FS_EmptySet DEF Reported, RefKnows
<1>3. \A x : Naming(x) = {}
  BY <1>1 DEF Naming
<1>4. \A x \in Backends : NaReplies(x) = {}
  BY <1>1 DEF NaReplies
<1>5. Counted /\ NaCounted
  BY <1>1, <1>3, <1>4, FS_EmptySet DEF Counted, NaCounted
<1> QED BY <1>2, <1>5 DEF JInv

LEMMA JudgeStep == IInv /\ JInv /\ [Next]_vars => JInv'
<1> SUFFICES ASSUME IInv, JInv, [Next]_vars PROVE JInv'
  OBVIOUS
<1>1. CASE Build
  BY <1>1, JudgeBuild
<1>2. CASE ReadReply
  BY <1>2, JudgeReads
<1>3. CASE JudgeVector
  BY <1>3, JudgeJudges
<1>4. CASE Reap
  <2>1. iv = 0
    BY <1>4 DEF Reap, IInv, Judged
  <2> QED BY <1>4, <2>1, JudgeStays DEF Reap
<1>5. CASE UNCHANGED <<setupVars, tableVars, judgeVars>>
  BY <1>5, JudgeStays DEF tableVars
<1> QED
  BY <1>1, <1>2, <1>3, <1>4, <1>5
  DEF Next, Parent, ChildStep, vars, Spawn, SpawnFails, CloseWriteEnd, FdopenFails,
      CloseReadEnd, ReapAndGiveUp, StartJudging, Summarise, ChildCompute, ChildWrite,
      ChildBrokenPipe, ChildChatter, ChildExit, ChildDies, ChildHangs, Halted

LEMMA JudgeAlways == Spec => []JInv
BY JudgeInit, JudgeStep, Inductive, PTL DEF Spec

(* Whom the lines about a judged vector name.                              *)
LEMMA NamedAt ==
  ASSUME IInv, JInv, NEW i \in 1 .. iv
  PROVE  {r.who : r \in {q \in reports : q.vec = i}} = Names(i)
<1>1. \A r \in reports : r.vec = i => r \in Findings(i)
  <2> SUFFICES ASSUME NEW r \in reports, r.vec = i PROVE r \in Findings(i)
    OBVIOUS
  <2>1. PICK j \in 1 .. iv : r \in Findings(j)
    BY DEF JInv, Reported
  <2> QED BY <2>1, NamesOfFindings
<1>2. \A r \in Findings(i) : r \in reports /\ r.vec = i
  BY NamesOfFindings DEF JInv, Reported
<1> QED BY <1>1, <1>2, NamesOfFindings

(* "A bug in ANY single implementation surfaces as the outlier": whenever  *)
(* a strict majority of three or more voters is right, exactly the wrong   *)
(* ones are named, OpenSSL included, however many voters there are.        *)
THEOREM MajorityJudgesRightly == Spec => []OutliersAreTheWrongOnes
<1>1. IInv /\ JInv => OutliersAreTheWrongOnes
  <2>1. SUFFICES ASSUME IInv, JInv, NEW i \in 1 .. iv, ops[i] # "verify",
                        Cardinality(Seated(i)) >= 3,
                        2 * Cardinality(RightAt(i)) > Cardinality(Seated(i))
                 PROVE  {r.who : r \in {q \in reports : q.vec = i}} = Seated(i) \ RightAt(i)
    BY DEF OutliersAreTheWrongOnes
  <2> DEFINE text == Normalize(ops[i], req[i].truth)
  <2>2. DOMAIN Ballot(i) = Seated(i) /\ IsFiniteSet(Seated(i))
    BY SeatedFinite DEF Ballot
  <2>3. Seated(i) \subseteq {Ref} \cup Nat
    BY SeatedFinite, ConstantsOK DEF Voters, Backends, ConstantsOK
  <2>4. RightAt(i) = {w \in DOMAIN Ballot(i) : Ballot(i)[w] = text}
    BY <2>2 DEF RightAt
  <2>5. NumVoters(Ballot(i)) = Cardinality(Seated(i))
    BY <2>2 DEF NumVoters
  <2> HIDE DEF text
  <2>6. /\ ~ NoConsensus(ops[i], Ballot(i))
        /\ Outliers(ops[i], Ballot(i)) = DOMAIN Ballot(i) \ RightAt(i)
    <3>1. Majority(Ballot(i), text, RightAt(i))
      BY <2>1, <2>2, <2>3, <2>4, <2>5 DEF Majority
    <3> QED BY <2>1, <3>1, MajorityWins
  <2>7. Names(i) = Seated(i) \ RightAt(i)
    BY <2>2, <2>6 DEF Names
  <2> QED BY <2>1, <2>7, NamedAt
<1> QED BY <1>1, Inductive, JudgeAlways, PTL

(* With a right reference the lines about a verify vector name the         *)
(* backends whose verdict is wrong, and raising an error to refuse a bad   *)
(* signature is not wrong.                                                 *)
THEOREM VerdictsNamed == Spec => []VerifyVerdictsJudged
<1>1. IInv /\ JInv => VerifyVerdictsJudged
  <2>1. SUFFICES ASSUME IInv, JInv, NEW i \in 1 .. iv, ops[i] = "verify", Ref \notin faulty
                 PROVE  {r.who : r \in {q \in reports : q.vec = i}}
                          = {x \in Seated(i) \ {Ref} : Accepts(bo[x][i].v) # Accepts(req[i].truth)}
    BY DEF VerifyVerdictsJudged
  <2>2. i \in 1 .. Len(ops)
    <3>1. iv \in 0 .. N /\ N \in Nat
      BY <2>1, ConstantsOK DEF ConstantsOK, IInv, TypeOK, TypeJudge
    <3>2. Len(ops) = Len(refhex)
      BY <2>1 DEF IInv, TypeOK, TypeSetup
    <3>3. iv # 0 /\ i \in 1 .. N
      BY <2>1, <3>1
    <3>4. pc # "build"
      BY <2>1, <3>3 DEF IInv, Judged
    <3>5. Len(refhex) = N
      BY <2>1, <3>4 DEF IInv, Control
    <3> QED BY <3>2, <3>3, <3>5
  <2>3. Accepts(refhex[i]) <=> Accepts(req[i].truth)
    BY <2>1, <2>2 DEF JInv, RefKnows
  <2>4. ~ NoConsensus(ops[i], Ballot(i))
    BY <2>1 DEF NoConsensus, Polled
  <2>5. DOMAIN Ballot(i) = Seated(i) /\ Ref \in Seated(i)
    BY SeatedFinite DEF Ballot
  <2>6. /\ Ballot(i)[Ref] = refhex[i]
        /\ \A x \in Seated(i) \ {Ref} : Ballot(i)[x] = bo[x][i].v
    BY <2>5 DEF Ballot
  <2>7. Outliers(ops[i], Ballot(i))
          = {x \in Seated(i) \ {Ref} : Accepts(Ballot(i)[x]) # Accepts(Ballot(i)[Ref])}
    BY <2>1, <2>5 DEF Outliers
  <2>8. Names(i) = {x \in Seated(i) \ {Ref} : Accepts(bo[x][i].v) # Accepts(req[i].truth)}
    BY <2>3, <2>4, <2>6, <2>7 DEF Names, Accepts
  <2> QED BY <2>1, <2>8, NamedAt
<1> QED BY <1>1, Inductive, JudgeAlways, PTL

(* The summary's counters are the numbers of lines printed, in all, about  *)
(* the reference and about each backend, and of NA replies.                *)
THEOREM SummaryAddsUp == Spec => []LedgerBalances
<1>1. JInv => LedgerBalances
  BY DEF JInv, Counted, NaCounted, Naming, NaReplies, LedgerBalances
<1> QED BY <1>1, JudgeAlways, PTL

-----------------------------------------------------------------------------

(* The variables of the abstract test.                                     *)
AKind == [v \in Vectors |-> IF v > Len(ops) THEN "unset"
                            ELSE IF ops[v] = "verify" THEN "verify" ELSE "compute"]
AAnswer == [v \in Vectors |-> IF v > Len(refhex) THEN [w \in {} |-> ""] ELSE Ballot(v)]
ABlame == {<<r.vec, r.who>> : r \in {q \in reports : q.who # Nobody}}
ASplit == {r.vec : r \in {q \in reports : q.who = Nobody}}
AVerdict == CASE exit = 0 -> "agree" [] exit = 1 -> "diverge"
              [] exit = 2 -> "error" [] OTHER -> "pending"

amapped == <<AKind, AAnswer, 1 .. iv, ABlame, ASplit, AVerdict>>

(* No count of replies before the backend was waited for.                  *)
NotYet ==
  /\ \A x \in Backends : x >= b => bprod[x] = 0
  /\ pc = "build" => b = 0

RInv == IInv /\ JInv /\ NotYet

-----------------------------------------------------------------------------
(* The loop "if (c > bestcount)" finds a slot of largest count.            *)
LEMMA BestExists ==
  ASSUME NEW ballot, IsFiniteSet(DOMAIN ballot), DOMAIN ballot \subseteq {Ref} \cup Nat,
         DOMAIN ballot # {}
  PROVE  BestVoter(ballot) \in DOMAIN ballot
<1> DEFINE n == NumVoters(ballot)
           short(w) == n - Count(ballot, w)
           S == {short(w) : w \in DOMAIN ballot}
<1>1. n \in Nat /\ \A w : Count(ballot, w) \in Nat /\ Count(ballot, w) <= n
  BY CountType
<1>2. \A w : short(w) \in Nat /\ Count(ballot, w) = n - short(w)
  <2> HIDE DEF n
  <2> QED BY <1>1
<1>3. S \subseteq Nat /\ S # {}
  <2> HIDE DEF short
  <2> QED BY <1>2
<1>4. PICK s \in S : \A t \in S : ~ (t < s)
  <2> HIDE DEF S
  <2> QED BY <1>3, LeastVoter
<1> DEFINE T == {w \in DOMAIN ballot : short(w) = s}
<1>5. T \subseteq {Ref} \cup Nat /\ T # {}
  BY <1>4
<1>6. PICK w \in T : \A u \in T : ~ (u < w)
  <2> HIDE DEF T
  <2> QED BY <1>5, LeastVoter
<1>7. \A u \in DOMAIN ballot : ~ (short(u) < short(w))
  BY <1>4, <1>6
<1>8. \A u \in DOMAIN ballot : short(u) = short(w) => ~ (u < w)
  BY <1>6
<1>9. ASSUME NEW u \in DOMAIN ballot
      PROVE  /\ Count(ballot, u) <= Count(ballot, w)
             /\ u < w => Count(ballot, u) < Count(ballot, w)
  <2>1. ~ (short(u) < short(w)) /\ (short(u) = short(w) => ~ (u < w))
    BY <1>7, <1>8
  <2>2. /\ Count(ballot, u) = n - short(u) /\ Count(ballot, w) = n - short(w)
        /\ short(u) \in Nat /\ short(w) \in Nat /\ n \in Nat
    BY <1>1, <1>2
  <2> HIDE DEF n, short
  <2> QED BY <2>1, <2>2
<1> QED BY <1>6, <1>9 DEF BestVoter

-----------------------------------------------------------------------------
(* Both modules count with the Cardinality of FiniteSets.                  *)
LEMMA SameCardinality ==
  ASSUME NEW S
  PROVE  Test!Cardinality(S) = Cardinality(S)
BY DEF Test!Cardinality, Cardinality

(* What the abstract test says of a vector that has been drawn.            *)
LEMMA MappedVector ==
  ASSUME IInv, NEW i \in Vectors, Len(refhex) = N
  PROVE  /\ AKind[i] = (IF ops[i] = "verify" THEN "verify" ELSE "compute")
         /\ AAnswer[i] = Ballot(i)
         /\ DOMAIN Ballot(i) = Seated(i)
<1>1. ~ (i > Len(refhex)) /\ ~ (i > Len(ops))
  BY ConstantsOK DEF ConstantsOK, Vectors, IInv, TypeOK, TypeSetup
<1> QED BY <1>1 DEF AKind, AAnswer, Ballot

LEMMA MappedDispute ==
  ASSUME IInv, NEW i \in Vectors, Len(refhex) = N
  PROVE  Test!Dispute(i) <=> Differ(i)
BY MappedVector DEF Test!Dispute, Test!Agree, AKind, AAnswer, Differ, Accepts

(* The oracle blames whom the test blames, and splits when it does.        *)
LEMMA MappedOracle ==
  ASSUME IInv, NEW i \in Vectors, Len(refhex) = N
  PROVE  /\ Test!Blamed(i) = Outliers(ops[i], Ballot(i))
         /\ Test!Authority(i) = {} <=> NoConsensus(ops[i], Ballot(i))
<1> DEFINE ballot == Ballot(i)
           kind == ops[i]
<1>1. /\ AKind[i] = (IF kind = "verify" THEN "verify" ELSE "compute")
      /\ AAnswer[i] = ballot
  BY MappedVector
<1>2. /\ IsFiniteSet(DOMAIN ballot) /\ Ref \in DOMAIN ballot
      /\ DOMAIN ballot \subseteq {Ref} \cup Nat
  <2>1. DOMAIN ballot = Seated(i)
    BY MappedVector
  <2> QED BY <2>1, SeatedFinite, ConstantsOK DEF Voters, Backends, ConstantsOK
<1>3. \A x, y : Test!Agree(i, x, y) <=> IF kind = "verify" THEN Accepts(x) = Accepts(y) ELSE x = y
  BY <1>1 DEF Test!Agree, AKind, Accepts
<1>4. Test!Blamed(i) = {w \in DOMAIN ballot :
                          \E a \in Test!Authority(i) : ~ Test!Agree(i, ballot[w], ballot[a])}
  BY <1>1 DEF Test!Blamed, AAnswer
<1>5. Test!Authority(i) =
        IF Polled(kind, ballot)
        THEN {w \in DOMAIN ballot :
                2 * Cardinality({u \in DOMAIN ballot : Test!Agree(i, ballot[u], ballot[w])})
                  > NumVoters(ballot)}
        ELSE {Ref}
  <2>1. \A w : Test!Camp(i, w) = {u \in DOMAIN ballot : Test!Agree(i, ballot[u], ballot[w])}
    BY <1>1 DEF Test!Camp, AAnswer
  <2>2. AKind[i] # "verify" /\ Cardinality(DOMAIN AAnswer[i]) >= 3 <=> Polled(kind, ballot)
    BY <1>1 DEF Polled, NumVoters
  <2>3. Cardinality(DOMAIN AAnswer[i]) = NumVoters(ballot) /\ DOMAIN AAnswer[i] = DOMAIN ballot
    BY <1>1 DEF NumVoters
  <2>4. Test!Authority(i) =
          IF AKind[i] # "verify" /\ Cardinality(DOMAIN AAnswer[i]) >= 3
          THEN {w \in DOMAIN AAnswer[i] :
                  2 * Cardinality(Test!Camp(i, w)) > Cardinality(DOMAIN AAnswer[i])}
          ELSE {Ref}
    BY SameCardinality, Zenon DEF Test!Authority, AKind, AAnswer
  <2> HIDE DEF ballot, kind
  <2> QED BY <2>1, <2>2, <2>3, <2>4
<1> HIDE DEF ballot, kind
<1>6. CASE ~ Polled(kind, ballot)
  <2>1. Test!Authority(i) = {Ref} /\ ~ NoConsensus(kind, ballot)
    BY <1>5, <1>6 DEF NoConsensus
  <2>2. Test!Blamed(i) = {w \in DOMAIN ballot : ~ Test!Agree(i, ballot[w], ballot[Ref])}
    BY <1>4, <2>1
  <2>3. CASE kind = "verify"
    <3>1. Outliers(kind, ballot) =
            {w \in DOMAIN ballot \ {Ref} : Accepts(ballot[w]) # Accepts(ballot[Ref])}
      BY <2>3 DEF Outliers
    <3>2. \A w : Test!Agree(i, ballot[w], ballot[Ref]) <=> Accepts(ballot[w]) = Accepts(ballot[Ref])
      BY <1>3, <2>3
    <3>3. Test!Blamed(i) = Outliers(kind, ballot)
      BY <2>2, <3>1, <3>2
    <3> QED BY <2>1, <3>3 DEF kind, ballot
  <2>4. CASE kind # "verify"
    <3>1. Outliers(kind, ballot) = {w \in DOMAIN ballot \ {Ref} : ballot[w] # ballot[Ref]}
      BY <1>6, <2>4 DEF Outliers
    <3>2. \A w : Test!Agree(i, ballot[w], ballot[Ref]) <=> ballot[w] = ballot[Ref]
      BY <1>3, <2>4
    <3>3. Test!Blamed(i) = Outliers(kind, ballot)
      BY <2>2, <3>1, <3>2
    <3> QED BY <2>1, <3>3 DEF kind, ballot
  <2> QED BY <2>3, <2>4
<1>7. CASE Polled(kind, ballot)
  <2>1. kind # "verify" /\ NumVoters(ballot) >= 3 /\ NumVoters(ballot) \in Nat
    BY <1>2, <1>7, CountType DEF Polled
  <2>2. \A w, u : Test!Agree(i, ballot[u], ballot[w]) <=> ballot[u] = ballot[w]
    BY <1>3, <2>1
  <2>3. \A w : {u \in DOMAIN ballot : Test!Agree(i, ballot[u], ballot[w])} = Support(ballot, w)
    BY <2>2 DEF Support
  <2>4. Test!Authority(i) = {w \in DOMAIN ballot : 2 * Count(ballot, w) > NumVoters(ballot)}
    BY <1>5, <1>7, <2>3 DEF Count
  <2>5. Test!Blamed(i) = {w \in DOMAIN ballot : \E a \in Test!Authority(i) : ballot[w] # ballot[a]}
    BY <1>4, <2>2
  <2>6. CASE Test!Authority(i) = {}
    <3>1. Test!Blamed(i) = {}
      BY <2>5, <2>6
    <3>2. BestVoter(ballot) \in DOMAIN ballot
      BY <1>2, BestExists
    <3>3. ~ (2 * Count(ballot, BestVoter(ballot)) > NumVoters(ballot))
      BY <2>4, <2>6, <3>2
    <3>4. BestCount(ballot) \in Nat /\ ~ (2 * BestCount(ballot) > NumVoters(ballot))
      BY <1>2, <3>3, CountType DEF BestCount
    <3>5. BestCount(ballot) * 2 <= NumVoters(ballot) /\ BestCount(ballot) # NumVoters(ballot)
      BY <2>1, <3>4
    <3>6. NoConsensus(kind, ballot) /\ Outliers(kind, ballot) = {}
      BY <1>7, <2>1, <3>5 DEF NoConsensus, Outliers
    <3> QED BY <2>6, <3>1, <3>6 DEF kind, ballot
  <2>7. CASE Test!Authority(i) # {}
    <3>1. PICK g \in DOMAIN ballot : 2 * Count(ballot, g) > NumVoters(ballot)
      BY <2>4, <2>7
    <3> DEFINE Good == Support(ballot, g)
    <3>2. Majority(ballot, ballot[g], Good)
      BY <1>2, <2>1, <3>1 DEF Majority, Support, Count
    <3>3. ~ NoConsensus(kind, ballot) /\ Outliers(kind, ballot) = DOMAIN ballot \ Good
      <4> HIDE DEF Good
      <4> QED BY <2>1, <3>2, MajorityWins
    <3>4. ASSUME NEW w \in Test!Authority(i) PROVE ballot[w] = ballot[g]
      <4>1. w \in DOMAIN ballot /\ 2 * Count(ballot, w) > NumVoters(ballot)
        BY <2>4
      <4>2. Count(ballot, w) \in Nat /\ Count(ballot, g) \in Nat
        BY <1>2, CountType
      <4>3. Cardinality(Support(ballot, w)) + Cardinality(Good) > Cardinality(DOMAIN ballot)
        BY <2>1, <3>1, <4>1, <4>2 DEF Count, NumVoters
      <4>4. Support(ballot, w) \subseteq DOMAIN ballot /\ Good \subseteq DOMAIN ballot
        BY DEF Support
      <4>5. Support(ballot, w) \cap Good # {}
        BY <1>2, <4>3, <4>4, FS_MajoritiesIntersect
      <4> QED BY <4>5 DEF Support
    <3>5. g \in Test!Authority(i)
      BY <2>4, <3>1
    <3>6. Test!Blamed(i) = {w \in DOMAIN ballot : ballot[w] # ballot[g]}
      BY <2>5, <3>4, <3>5
    <3>7. Test!Blamed(i) = DOMAIN ballot \ Good
      BY <3>6 DEF Support
    <3> QED BY <2>7, <3>3, <3>7 DEF kind, ballot
  <2> QED BY <2>6, <2>7
<1> QED BY <1>6, <1>7

-----------------------------------------------------------------------------
(* A ballot does not see the column that is being filled.                  *)
LEMMA BallotSame ==
  ASSUME NEW v \in Vectors, refhex'[v] = refhex[v], bprod' = bprod,
         \A x \in Backends : bprod[x] >= v => bo'[x] = bo[x]
  PROVE  Ballot(v)' = Ballot(v)
<1>1. Answering(v)' = Answering(v)
  BY DEF Answering, Backends
<1>2. Seated(v)' = Seated(v)
  BY <1>1 DEF Seated, Backends
<1>3. \A x \in Seated(v) \ {Ref} : bo'[x] = bo[x]
  BY DEF Seated, Answering
<1> QED BY <1>2, <1>3 DEF Ballot

LEMMA PhaseFacts ==
  ASSUME RInv
  PROVE  /\ N \in Nat /\ iv \in Nat /\ Len(refhex) \in Nat /\ Len(ops) = Len(refhex)
         /\ AVerdict = "pending" <=> pc # "done"
         /\ pc \notin {"judge", "done"} => 1 .. iv = {}
         /\ pc # "build" => Len(refhex) = N
<1>1. N \in Nat /\ iv \in 0 .. N /\ exit \in {-1, 0, 1, 2}
  BY ConstantsOK DEF ConstantsOK, RInv, IInv, TypeOK, TypeJudge, TypeControl
<1>2. Len(refhex) \in Nat /\ Len(ops) = Len(refhex)
  BY LenProperties DEF RInv, IInv, TypeOK, TypeSetup
<1>3. AVerdict = "pending" <=> exit = -1
  BY <1>1 DEF AVerdict
<1>4. /\ exit = -1 <=> pc # "done"
      /\ pc \notin {"judge", "done"} => iv = 0
      /\ pc # "build" => Len(refhex) = N
  BY DEF RInv, IInv, Judged, Control
<1> QED BY <1>1, <1>2, <1>3, <1>4

(* Steps the test does not see.                                            *)
LEMMA MappedStutter ==
  ASSUME RInv, UNCHANGED <<ops, refhex, bprod, iv, reports, exit>>,
         \A x \in Backends : bprod[x] > 0 => bo'[x] = bo[x]
  PROVE  UNCHANGED amapped
<1>1. \A v \in Vectors : Ballot(v)' = Ballot(v)
  <2> SUFFICES ASSUME NEW v \in Vectors PROVE Ballot(v)' = Ballot(v)
    OBVIOUS
  <2>1. ASSUME NEW x \in Backends, bprod[x] >= v PROVE bprod[x] > 0
    <3>1. bprod[x] \in 0 .. N /\ N \in Nat
      BY ConstantsOK DEF ConstantsOK, RInv, IInv, TypeOK, TypeTable
    <3> QED BY <2>1, <3>1 DEF Vectors
  <2> QED BY <2>1, BallotSame
<1>2. AAnswer' = AAnswer
  BY <1>1 DEF AAnswer, Vectors
<1> QED BY <1>2 DEF amapped, AKind, ABlame, ASplit, AVerdict

LEMMA MappedDraw ==
  ASSUME RInv, pc = "build", NEW kind \in Kinds, NEW text \in Texts, Len(refhex) < N,
         ops' = Append(ops, kind), refhex' = Append(refhex, text),
         UNCHANGED <<bo, bprod, judgeVars, exit>>
  PROVE  \E v \in Vectors : Test!Draw(v)
<1>0. PICK n \in Nat : n = Len(ops)
  BY PhaseFacts
<1>1. /\ N \in Nat /\ n \in Nat /\ Len(refhex) = n /\ n < N
      /\ AVerdict = "pending" /\ 1 .. iv = {}
  BY <1>0, PhaseFacts
<1>2. n + 1 \in Vectors
  BY <1>1 DEF Vectors
<1>3. ops \in Seq(Kinds) /\ refhex \in Seq(Texts)
  BY DEF RInv, IInv, TypeOK, TypeSetup
<1>4. /\ Len(ops') = n + 1 /\ ops'[n + 1] = kind
      /\ \A k \in 1 .. n : ops'[k] = ops[k]
  BY <1>0, <1>3, AppendProperties
<1>5. /\ Len(refhex') = n + 1 /\ refhex'[n + 1] = text
      /\ \A k \in 1 .. n : refhex'[k] = refhex[k]
  BY <1>1, <1>3, AppendProperties
<1>6. \A x \in Backends : bprod[x] = 0
  BY ConstantsOK DEF ConstantsOK, RInv, NotYet, Backends
<1>7. \A v \in Vectors : v \in 1 .. n \/ v > n
  BY <1>1 DEF Vectors
<1>8. \A v \in Vectors : v \in 1 .. n => Ballot(v)' = Ballot(v)
  BY <1>5, BallotSame
<1>9. Ballot(n + 1)' = [w \in {Ref} |-> text]
  <2>1. Answering(n + 1)' = {}
    BY <1>1, <1>6 DEF Answering, Backends
  <2>2. Seated(n + 1)' = {Ref}
    BY <2>1 DEF Seated
  <2> QED BY <1>5, <2>2 DEF Ballot
<1> DEFINE k == IF kind = "verify" THEN "verify" ELSE "compute"
<1>10. AKind' = [AKind EXCEPT ![n + 1] = k] /\ AKind[n + 1] = "unset"
  <2>1. ASSUME NEW v \in Vectors PROVE AKind'[v] = [AKind EXCEPT ![n + 1] = k][v]
    <3>1. CASE v \in 1 .. n
      <4>1. ~ (v > n) /\ ~ (v > n + 1) /\ v # n + 1
        BY <1>1, <3>1
      <4> QED BY <1>0, <1>4, <3>1, <4>1 DEF AKind, Vectors
    <3>2. CASE v = n + 1
      <4>1. ~ (v > n + 1)
        BY <1>1, <3>2
      <4> QED BY <1>2, <1>4, <3>2, <4>1 DEF AKind, Vectors
    <3>3. CASE v > n + 1
      <4>1. v > n /\ v # n + 1
        BY <1>1, <3>3 DEF Vectors
      <4> QED BY <1>0, <1>4, <3>3, <4>1 DEF AKind, Vectors
    <3> QED BY <1>1, <1>7, <3>1, <3>2, <3>3 DEF Vectors
  <2>2. AKind[n + 1] = "unset"
    <3>1. n + 1 > n
      BY <1>1
    <3> QED BY <1>0, <1>2, <3>1 DEF AKind
  <2> HIDE DEF k
  <2>3. AKind' = [v \in Vectors |-> AKind'[v]] /\ AKind = [v \in Vectors |-> AKind[v]]
    BY DEF AKind, Vectors
  <2> QED BY <2>1, <2>2, <2>3
<1>11. AAnswer' = [AAnswer EXCEPT ![n + 1] = [w \in {Ref} |-> text]]
  <2> DEFINE f == [w \in {Ref} |-> text]
  <2> HIDE DEF f
  <2>1. ASSUME NEW v \in Vectors PROVE AAnswer'[v] = [AAnswer EXCEPT ![n + 1] = f][v]
    <3>1. CASE v \in 1 .. n
      <4>1. ~ (v > n) /\ ~ (v > n + 1) /\ v # n + 1
        BY <1>1, <3>1
      <4> QED BY <1>1, <1>5, <1>8, <3>1, <4>1 DEF AAnswer, Vectors
    <3>2. CASE v = n + 1
      <4>1. ~ (v > n + 1)
        BY <1>1, <3>2
      <4> QED BY <1>2, <1>5, <1>9, <3>2, <4>1 DEF AAnswer, Vectors, f
    <3>3. CASE v > n + 1
      <4>1. v > n /\ v # n + 1
        BY <1>1, <3>3 DEF Vectors
      <4> QED BY <1>1, <1>5, <3>3, <4>1 DEF AAnswer, Vectors
    <3> QED BY <1>1, <1>7, <3>1, <3>2, <3>3 DEF Vectors
  <2>2. AAnswer' = [v \in Vectors |-> AAnswer'[v]] /\ AAnswer = [v \in Vectors |-> AAnswer[v]]
    BY DEF AAnswer, Vectors
  <2>3. AAnswer' = [AAnswer EXCEPT ![n + 1] = f]
    BY <2>1, <2>2
  <2> QED BY <2>3 DEF f
<1>12. k \in {"compute", "verify"}
  OBVIOUS
<1>13. UNCHANGED <<iv, ABlame, ASplit, AVerdict>>
  BY DEF judgeVars, ABlame, ASplit, AVerdict
<1> HIDE DEF k
<1>14. Test!Draw(n + 1)
  BY <1>1, <1>10, <1>11, <1>12, <1>13
  DEF Test!Draw, AKind, AAnswer, ABlame, ASplit, AVerdict
<1> QED BY <1>2, <1>14

(* A backend that has been waited for hands in its column.                 *)
LEMMA MappedDeliver ==
  ASSUME RInv, Reap
  PROVE  \E w \in Voters : Test!Deliver(w)
<1>1. /\ pc = "wait" /\ bprod' = [bprod EXCEPT ![b] = Len(bo[b])]
      /\ UNCHANGED <<ops, refhex, bo, iv, reports, exit>>
  BY DEF Reap, setupVars, judgeVars
<1>2. /\ b \in Backends /\ \A x \in Backends : x \in Nat
  <2>1. b < NB /\ b \in 0 .. NB /\ NB \in Nat
    BY ConstantsOK DEF ConstantsOK, Reap, RInv, IInv, Control, TypeOK, TypeControl
  <2> QED BY <2>1 DEF Backends
<1>3. /\ AVerdict = "pending" /\ 1 .. iv = {} /\ Len(refhex) = N /\ N \in Nat
  BY <1>1, PhaseFacts
<1>4. /\ bprod \in [Backends -> 0 .. N] /\ bo[b] \in Seq(Reply)
      /\ \A x \in Backends : x >= b => bprod[x] = 0
  BY <1>2 DEF RInv, NotYet, IInv, TypeOK, TypeTable
<1>5. bprod'[b] = Len(bo[b]) /\ \A x \in Backends : x # b => bprod'[x] = bprod[x]
  BY <1>1, <1>2, <1>4
<1>6. ASSUME NEW v \in Vectors
      PROVE  \/ Ballot(v)' = Ballot(v)
             \/ /\ b \notin DOMAIN Ballot(v)
                /\ \E x \in Texts :
                     Ballot(v)' = [u \in DOMAIN Ballot(v) \cup {b} |->
                                     IF u = b THEN x ELSE Ballot(v)[u]]
  <2> DEFINE voted == Len(bo[b]) >= v /\ bo[b][v].v # "NA"
  <2>1. \A x \in Answering(v) : x < b /\ x \in Backends
    <3> SUFFICES ASSUME NEW x \in Answering(v) PROVE x < b /\ x \in Backends
      OBVIOUS
    <3>1. x \in Backends /\ bprod[x] >= v /\ v >= 1 /\ v \in Nat
      BY <1>3 DEF Answering, Vectors
    <3>2. ~ (x >= b)
      BY <1>4, <3>1
    <3> QED BY <1>2, <3>1, <3>2
  <2>2. Answering(v)' = Answering(v) \cup (IF voted THEN {b} ELSE {})
    <3>1. \A x \in Backends : x # b => (x \in Answering(v)' <=> x \in Answering(v))
      BY <1>1, <1>5 DEF Answering, Backends
    <3>2. b \in Answering(v)' <=> voted
      BY <1>1, <1>2, <1>5 DEF Answering, Backends
    <3>3. b \notin Answering(v) /\ Answering(v) \subseteq Backends /\ Answering(v)' \subseteq Backends
      BY <1>2, <2>1 DEF Answering, Backends
    <3> HIDE DEF voted
    <3> QED BY <1>2, <3>1, <3>2, <3>3
  <2>3. \A x \in Answering(v) : {y \in Answering(v)' : y < x} = {y \in Answering(v) : y < x}
    <3> HIDE DEF voted
    <3> QED BY <1>2, <2>1, <2>2
  <2>4. Seated(v)' = Seated(v) \/ (voted /\ Seated(v)' = Seated(v) \cup {b})
    <3>1. \A x \in Answering(v) : x \in Answering(v)' /\ (x \in Seated(v)' <=> x \in Seated(v))
      BY <1>2, <2>1, <2>2, <2>3 DEF Seated, Ref
    <3>2. /\ Seated(v) \subseteq {Ref} \cup Answering(v) /\ Ref \in Seated(v) /\ Ref \in Seated(v)'
          /\ Seated(v)' \subseteq {Ref} \cup Answering(v)'
      BY DEF Seated, Ref
    <3> HIDE DEF voted
    <3> QED BY <2>2, <3>1, <3>2
  <2>5. b \notin Seated(v) /\ b # Ref
    BY <1>2, <2>1 DEF Seated, Ref
  <2>6. \A u \in Seated(v) : (IF u = Ref THEN refhex'[v] ELSE bo'[u][v].v) = Ballot(v)[u]
    BY <1>1 DEF Ballot
  <2>7. Ballot(v)' = [w \in Seated(v)' |-> IF w = Ref THEN refhex'[v] ELSE bo'[w][v].v]
    BY DEF Ballot
  <2>8. DOMAIN Ballot(v) = Seated(v)
    BY DEF Ballot
  <2>9. CASE Seated(v)' = Seated(v)
    BY <1>1, <2>9 DEF Ballot
  <2>10. CASE voted /\ Seated(v)' = Seated(v) \cup {b}
    <3>1. bo[b][v].v \in Texts
      <4>1. v \in 1 .. Len(bo[b])
        BY <1>3, <2>10 DEF Vectors
      <4>2. bo[b][v] \in Reply
        BY <1>4, <4>1, ElementOfSeq
      <4> QED BY <4>2 DEF Reply
    <3>2. Ballot(v)' = [u \in Seated(v) \cup {b} |-> IF u = b THEN bo[b][v].v ELSE Ballot(v)[u]]
      <4> HIDE DEF voted
      <4>1. Ballot(v)' = [w \in Seated(v) \cup {b} |-> IF w = Ref THEN refhex'[v] ELSE bo'[w][v].v]
        BY <2>7, <2>10
      <4>2. \A u \in Seated(v) \cup {b} :
              (IF u = Ref THEN refhex'[v] ELSE bo'[u][v].v)
                = (IF u = b THEN bo[b][v].v ELSE Ballot(v)[u])
        BY <1>1, <2>5, <2>6
      <4> QED BY <4>1, <4>2
    <3> QED BY <2>5, <2>8, <3>1, <3>2
  <2> QED BY <2>4, <2>9, <2>10
<1>7. ASSUME NEW v \in Vectors
      PROVE  AAnswer[v] = Ballot(v) /\ AAnswer'[v] = Ballot(v)' /\ AKind[v] # "unset"
  <2>1. ~ (v > Len(refhex)) /\ ~ (v > Len(refhex')) /\ ~ (v > Len(ops))
    BY <1>1, <1>3, PhaseFacts DEF Vectors
  <2> QED BY <2>1 DEF AAnswer, AKind, Vectors
<1>8. DOMAIN AAnswer' = Vectors
  BY DEF AAnswer, Vectors
<1>9. UNCHANGED <<AKind, ABlame, ASplit, AVerdict>>
  BY <1>1 DEF AKind, ABlame, ASplit, AVerdict, Vectors
<1>10. \A v \in Vectors :
         \/ AAnswer'[v] = AAnswer[v]
         \/ /\ AKind[v] # "unset" /\ b \notin DOMAIN AAnswer[v]
            /\ \E x \in Texts :
                 AAnswer'[v] = [u \in DOMAIN AAnswer[v] \cup {b} |->
                                  IF u = b THEN x ELSE AAnswer[v][u]]
  BY <1>6, <1>7
<1>11. PICK w \in Voters : w = b
  BY <1>2 DEF Voters
<1>12. \A v \in Vectors :
         \/ AAnswer'[v] = AAnswer[v]
         \/ /\ AKind[v] # "unset" /\ w \notin DOMAIN AAnswer[v]
            /\ \E x \in Texts :
                 AAnswer'[v] = [u \in DOMAIN AAnswer[v] \cup {w} |->
                                  IF u = w THEN x ELSE AAnswer[v][u]]
  BY <1>10, <1>11
<1>13. UNCHANGED (1 .. iv)
  BY <1>1
<1>14. Test!Deliver(w)
  BY <1>3, <1>8, <1>9, <1>12, <1>13, Zenon
  DEF Test!Deliver, AKind, AAnswer, ABlame, ASplit, AVerdict
<1> QED BY <1>14

LEMMA MappedJudge ==
  ASSUME RInv, JudgeVector
  PROVE  \E v \in Vectors : Test!Judge(v)
<1>0. PICK i \in Vectors : i = iv + 1
  BY PhaseFacts DEF JudgeVector, Vectors
<1>1. /\ pc = "judge" /\ iv < N /\ iv' = i /\ reports' = reports \cup Findings(i)
      /\ UNCHANGED <<ops, refhex, bo, bprod, exit>>
  BY <1>0 DEF JudgeVector, setupVars, tableVars
<1>2. /\ N \in Nat /\ iv \in Nat /\ Len(refhex) = N /\ AVerdict = "pending"
  BY <1>1, PhaseFacts
<1>3. i \in Vectors /\ i \notin 1 .. iv /\ 1 .. i = (1 .. iv) \cup {i}
  BY <1>0, <1>1, <1>2
<1>4. /\ Test!Blamed(i) = Outliers(ops[i], Ballot(i))
      /\ Test!Authority(i) = {} <=> NoConsensus(ops[i], Ballot(i))
  BY <1>2, <1>3, MappedOracle DEF RInv
<1>5. \A r \in Findings(i) : r.vec = i /\ r.who \in Names(i)
  BY NamesOfFindings
<1>6. \A w \in Names(i) : \E r \in Findings(i) : r.who = w
  BY NamesOfFindings
<1>7. Nobody \notin Outliers(ops[i], Ballot(i))
  BY NamesOfFindings
<1>8. ABlame' = ABlame \cup {<<i, w>> : w \in Outliers(ops[i], Ballot(i))}
  <2>1. ABlame' = ABlame \cup {<<r.vec, r.who>> : r \in {q \in Findings(i) : q.who # Nobody}}
    BY <1>1 DEF ABlame
  <2>2. {<<r.vec, r.who>> : r \in {q \in Findings(i) : q.who # Nobody}}
          = {<<i, w>> : w \in Outliers(ops[i], Ballot(i))}
    <3>1. ASSUME NEW r \in Findings(i), r.who # Nobody
          PROVE  r.vec = i /\ r.who \in Outliers(ops[i], Ballot(i))
      BY <1>5, <3>1 DEF Names
    <3>2. ASSUME NEW w \in Outliers(ops[i], Ballot(i))
          PROVE  \E r \in Findings(i) : r.who = w /\ r.who # Nobody /\ r.vec = i
      BY <1>5, <1>6, <1>7, <3>2 DEF Names
    <3> QED BY <3>1, <3>2
  <2> QED BY <2>1, <2>2
<1>9. ASplit' = IF NoConsensus(ops[i], Ballot(i)) THEN ASplit \cup {i} ELSE ASplit
  <2>1. ASplit' = ASplit \cup {r.vec : r \in {q \in Findings(i) : q.who = Nobody}}
    BY <1>1 DEF ASplit
  <2>2. CASE NoConsensus(ops[i], Ballot(i))
    <3>1. PICK r \in Findings(i) : r.who = Nobody
      BY <1>6, <2>2 DEF Names
    <3>2. {q.vec : q \in {q \in Findings(i) : q.who = Nobody}} = {i}
      BY <1>5, <3>1
    <3> QED BY <2>1, <2>2, <3>2
  <2>3. CASE ~ NoConsensus(ops[i], Ballot(i))
    <3>1. {q \in Findings(i) : q.who = Nobody} = {}
      BY <1>5, <1>7, <2>3 DEF Names
    <3> QED BY <2>1, <2>3, <3>1
  <2> QED BY <2>2, <2>3
<1>10. UNCHANGED <<AKind, AVerdict>>
  BY <1>1 DEF AKind, AVerdict, Vectors
<1>11. AAnswer' = AAnswer
  <2>1. \A v \in Vectors : Ballot(v)' = Ballot(v)
    BY <1>1 DEF Ballot, Seated, Answering, Backends
  <2> QED BY <1>1, <2>1 DEF AAnswer, Vectors
<1>12. Test!Judge(i)
  BY <1>1, <1>2, <1>3, <1>4, <1>8, <1>9, <1>10, <1>11
  DEF Test!Judge, AKind, AAnswer, ABlame, ASplit, AVerdict
<1> QED BY <1>12

LEMMA MappedConclude ==
  ASSUME RInv, Summarise
  PROVE  Test!Conclude
<1>1. /\ pc = "judge" /\ iv = N /\ exit' = (IF failures > 0 THEN 1 ELSE 0)
      /\ UNCHANGED <<ops, refhex, bo, bprod, iv, reports>>
  BY DEF Summarise, setupVars, tableVars, judgeVars
<1>2. /\ Len(refhex) = N /\ AVerdict = "pending" /\ 1 .. iv = Vectors
  BY <1>1, PhaseFacts DEF Vectors
<1>3. failures > 0 <=> \E v \in Vectors : Test!Dispute(v)
  <2>1. failures > 0 <=> \E v \in Vectors : Differ(v)
    BY <1>2 DEF RInv, IInv, Judged
  <2> QED BY <1>2, <2>1, MappedDispute DEF RInv
<1>4. AVerdict' = IF failures > 0 THEN "diverge" ELSE "agree"
  BY <1>1 DEF AVerdict
<1>5. UNCHANGED <<AKind, ABlame, ASplit>>
  BY <1>1 DEF AKind, ABlame, ASplit, Vectors
<1>6. AAnswer' = AAnswer
  <2>1. \A v \in Vectors : Ballot(v)' = Ballot(v)
    BY <1>1 DEF Ballot, Seated, Answering, Backends
  <2> QED BY <1>1, <2>1 DEF AAnswer, Vectors
<1> QED
  BY <1>1, <1>2, <1>3, <1>4, <1>5, <1>6
  DEF Test!Conclude, AKind, AAnswer, ABlame, ASplit, AVerdict

LEMMA MappedGiveUp ==
  ASSUME RInv, pc \in {"next", "giveup"}, exit' = 2,
         UNCHANGED <<ops, refhex, bo, bprod, iv, reports>>
  PROVE  Test!GiveUp
<1>1. AVerdict = "pending" /\ 1 .. iv = {}
  BY PhaseFacts
<1>2. AVerdict' = "error"
  BY DEF AVerdict
<1>3. UNCHANGED <<AKind, ABlame, ASplit>>
  BY DEF AKind, ABlame, ASplit, Vectors
<1>4. AAnswer' = AAnswer
  <2>1. \A v \in Vectors : Ballot(v)' = Ballot(v)
    BY DEF Ballot, Seated, Answering, Backends
  <2> QED BY <2>1 DEF AAnswer, Vectors
<1> QED
  BY <1>1, <1>2, <1>3, <1>4 DEF Test!GiveUp, AKind, AAnswer, ABlame, ASplit, AVerdict

-----------------------------------------------------------------------------
LEMMA NotYetStep == IInv /\ NotYet /\ [Next]_vars => NotYet'
<1> SUFFICES ASSUME IInv, NotYet, [Next]_vars PROVE NotYet'
  OBVIOUS
<1>1. CASE Reap
  <2>1. /\ b' = b + 1 /\ bprod' = [bprod EXCEPT ![b] = Len(bo[b])] /\ pc' = "next"
        /\ bprod \in [Backends -> 0 .. N] /\ b \in Nat /\ \A x \in Backends : x \in Nat
    BY <1>1, ConstantsOK
    DEF Reap, ConstantsOK, IInv, TypeOK, TypeTable, TypeControl, Backends
  <2>2. \A x \in Backends : x >= b + 1 => bprod'[x] = 0
    BY <2>1 DEF NotYet
  <2> QED BY <2>1, <2>2 DEF NotYet, Backends
<1>2. CASE UNCHANGED <<b, bprod>> /\ (pc' = pc \/ pc' # "build")
  BY <1>2 DEF NotYet, Backends
<1> QED
  BY <1>1, <1>2
  DEF Next, Parent, ChildStep, Build, vars, tableVars, BuildVector, BuildEmptyVerify,
      CloseRequests, Spawn, SpawnFails, CloseWriteEnd, FdopenFails, ReadReply, CloseReadEnd,
      ReapAndGiveUp, StartJudging, JudgeVector, Summarise, ChildCompute, ChildWrite,
      ChildBrokenPipe, ChildChatter, ChildExit, ChildDies, ChildHangs, Halted

LEMMA RInvAlways == Spec => []RInv
<1>1. Init => NotYet
  BY DEF Init, NotYet
<1>2. Spec => []NotYet
  BY <1>1, NotYetStep, Inductive, PTL DEF Spec
<1> QED BY <1>2, Inductive, JudgeAlways, PTL DEF RInv

LEMMA MappedInit == Init => Test!AInit
<1> SUFFICES ASSUME Init PROVE Test!AInit
  OBVIOUS
<1>1. ops = <<>> /\ refhex = <<>> /\ reports = {} /\ iv = 0 /\ exit = -1
  BY DEF Init
<1>2. Len(ops) = 0 /\ Len(refhex) = 0 /\ \A v \in Vectors : v > 0
  BY <1>1, ConstantsOK DEF ConstantsOK, Vectors
<1>3. AKind = [v \in Vectors |-> "unset"] /\ AAnswer = [v \in Vectors |-> [w \in {} |-> ""]]
  BY <1>2 DEF AKind, AAnswer
<1>4. ABlame = {} /\ ASplit = {} /\ AVerdict = "pending" /\ 1 .. iv = {}
  BY <1>1 DEF ABlame, ASplit, AVerdict
<1> QED BY <1>3, <1>4 DEF Test!AInit, AKind, AAnswer, ABlame, ASplit, AVerdict

LEMMA MappedStep == RInv /\ [Next]_vars => [Test!ANext]_(Test!avars)
<1> SUFFICES ASSUME RInv, [Next]_vars PROVE Test!ANext \/ UNCHANGED Test!avars
  OBVIOUS
<1>0. UNCHANGED amapped => UNCHANGED Test!avars
  BY DEF amapped, Test!avars, AKind, AAnswer, ABlame, ASplit, AVerdict
<1>1. CASE BuildEmptyVerify
  <2>1. "verify" \in Kinds /\ "00" \in Texts
    BY DEF Kinds, Texts
  <2>2. \E v \in Vectors : Test!Draw(v)
    BY <1>1, <2>1, MappedDraw DEF BuildEmptyVerify, tableVars
  <2> QED BY <2>2 DEF Test!ANext
<1>2. ASSUME NEW kind \in DrawnKinds, NEW truth \in Truths(kind),
             NEW x \in Answers(Ref, kind, truth), BuildVector(kind, truth, x)
      PROVE  Test!ANext
  <2> DEFINE text == IF kind = "verify" /\ x # "01" THEN "00" ELSE Normalize(kind, x)
  <2>1. kind \in Kinds /\ truth \in Texts /\ x \in Texts
    BY ConstantsOK, TruthsType, AnswersType DEF ConstantsOK
  <2>2. text \in Texts
    BY <2>1, NormalizeType DEF Texts
  <2>3. /\ pc = "build" /\ Len(refhex) < N /\ ops' = Append(ops, kind)
        /\ refhex' = Append(refhex, text) /\ UNCHANGED <<bo, bprod, judgeVars, exit>>
    BY <1>2 DEF BuildVector, tableVars
  <2> HIDE DEF text
  <2>4. \E v \in Vectors : Test!Draw(v)
    BY <2>1, <2>2, <2>3, MappedDraw
  <2> QED BY <2>4 DEF Test!ANext
<1>3. CASE Reap
  BY <1>3, MappedDeliver DEF Test!ANext
<1>4. CASE JudgeVector
  BY <1>4, MappedJudge DEF Test!ANext
<1>5. CASE Summarise
  BY <1>5, MappedConclude DEF Test!ANext
<1>6. CASE SpawnFails \/ ReapAndGiveUp
  <2>1. /\ pc \in {"next", "giveup"} /\ exit' = 2
        /\ UNCHANGED <<ops, refhex, bo, bprod, iv, reports>>
    BY <1>6 DEF SpawnFails, ReapAndGiveUp, setupVars, tableVars, judgeVars
  <2> QED BY <2>1, MappedGiveUp DEF Test!ANext
<1>7. CASE ReadReply
  <2>1. /\ UNCHANGED <<ops, refhex, bprod, iv, reports, exit>>
        /\ \A x \in Backends : x # b => bo'[x] = bo[x]
    <3>1. bo \in [Backends -> Seq(Reply)]
      BY DEF RInv, IInv, TypeOK, TypeTable
    <3> QED BY <1>7, <3>1 DEF ReadReply, setupVars, judgeVars
  <2>2. \A x \in Backends : bprod[x] > 0 => x # b
    BY ConstantsOK DEF ConstantsOK, RInv, NotYet, Backends
  <2> QED BY <1>0, <2>1, <2>2, MappedStutter
<1>8. CASE UNCHANGED <<ops, refhex, bo, bprod, iv, reports, exit>>
  BY <1>0, <1>8, MappedStutter
<1> QED
  BY <1>1, <1>2, <1>3, <1>4, <1>5, <1>6, <1>7, <1>8
  DEF Next, Parent, ChildStep, Build, vars, setupVars, tableVars, judgeVars, CloseRequests,
      Spawn, CloseWriteEnd, FdopenFails, CloseReadEnd, StartJudging, ChildCompute,
      ChildWrite, ChildBrokenPipe, ChildChatter, ChildExit, ChildDies, ChildHangs, Halted

(* Every behaviour of the runner, with its child processes, pipes,         *)
(* counters and error returns, is a behaviour of the abstract test.        *)
THEOREM RunnerImplementsTest == Spec => Implements
<1>1. Init => Test!AInit
  BY MappedInit
<1>2. RInv /\ [Next]_vars => [Test!ANext]_(Test!avars)
  BY MappedStep
<1> QED BY <1>1, <1>2, RInvAlways, PTL DEF Spec, Implements, Test!ASpec

-----------------------------------------------------------------------------
(* The self-test.  With right implementations there is one text for every  *)
(* implementation on a vector with a plain answer: the answer, NA, or what *)
(* a corrupting build makes of the answer; but for the head of a line that *)
(* a CLI with a big buffer leaves behind when it dies.                     *)
Plain(k) == ops[k] # "verify" /\ req[k].truth = "h1"

Says(x) == IF Inject[x] = "off" THEN "h1" ELSE "FLIP"

MaySay(x, k, v) ==
  \/ ops[k] \in Supports[x] /\ v = Says(x)
  \/ ops[k] \notin Supports[x] /\ v = "NA"
  \/ x \in died \cap Mortal /\ BufCap[x] > 1 /\ v = "CUT"

PlainLine(r) == r.n \in 1 .. Len(ops) /\ Plain(r.n) => MaySay(b, r.n, r.v)

RefPlain == \A k \in 1 .. Len(ops) : Plain(k) => refhex[k] = "h1"

TablePlain ==
  \A x \in Backends : \A k \in 1 .. Len(bo[x]) :
    k \in 1 .. Len(ops) /\ Plain(k) => MaySay(x, k, bo[x][k].v)

FlightPlain ==
  rd => /\ \A k \in 1 .. Len(pipe) : PlainLine(pipe[k])
        /\ \A k \in 1 .. Len(obuf) : PlainLine(obuf[k])

AllPlain == faulty = {} => RefPlain /\ TablePlain /\ FlightPlain

(* What main() knows of its replies, and that it has been to all backends. *)
AllAsked ==
  /\ \A x \in Backends : bprod[x] <= Len(bo[x])
  /\ exit \in {0, 1} => b = NB

(* A corrupting build of the self-tests: one CLI corrupts every reply, and *)
(* takes a slot; a right one that may die writes its lines one by one.     *)
SelfTestBuild ==
  /\ \A x, y \in Backends : Inject[x] # "off" /\ Inject[y] # "off" => x = y
  /\ \A x \in Backends : Inject[x] # "off" => Inject[x] = "every" /\ x < MaxVoters - 1
  /\ \A x \in Mortal : Inject[x] = "off" => BufCap[x] = 1

(* A death adds to what may have been said.                                *)
LEMMA MaySayStays ==
  ASSUME died \subseteq died', ops' = ops, NEW x, NEW k, NEW v, MaySay(x, k, v)
  PROVE  MaySay(x, k, v)'
BY DEF MaySay, Says

LEMMA PlainStays ==
  ASSUME AllPlain, UNCHANGED <<setupVars, bo>>, died \subseteq died',
         faulty = {} => FlightPlain'
  PROVE  AllPlain'
<1> SUFFICES ASSUME faulty = {} PROVE RefPlain' /\ TablePlain' /\ FlightPlain'
  BY DEF AllPlain, setupVars
<1>1. UNCHANGED <<faulty, req, ops, refhex, bo>> /\ RefPlain /\ TablePlain
  BY DEF AllPlain, setupVars
<1>2. RefPlain'
  BY <1>1 DEF RefPlain, Plain
<1>3. TablePlain'
  <2> SUFFICES ASSUME NEW x \in Backends, NEW k \in 1 .. Len(bo'[x]),
                      k \in 1 .. Len(ops'), Plain(k)'
               PROVE  MaySay(x, k, bo[x][k].v)'
    BY DEF TablePlain, Backends
  <2>1. MaySay(x, k, bo[x][k].v)
    BY <1>1 DEF TablePlain, Plain
  <2>2. died \subseteq died' /\ ops' = ops /\ bo' = bo
    BY <1>1
  <2> DEFINE v == bo[x][k].v
  <2>3. MaySay(x, k, v)'
    BY <1>1, <2>1, <2>2 DEF MaySay, Says
  <2> QED BY <1>1, <2>3
<1> QED BY <1>2, <1>3

(* The steps that touch no line on its way.                                *)
LEMMA PlainIdle ==
  ASSUME AllPlain, UNCHANGED <<setupVars, bo, died>>,
         ~ rd' \/ UNCHANGED <<b, pipe, obuf, rd>>
  PROVE  AllPlain'
<1>1. ASSUME faulty = {} PROVE FlightPlain'
  <2>1. FlightPlain
    BY <1>1 DEF AllPlain
  <2>2. CASE ~ rd'
    BY <2>2 DEF FlightPlain
  <2>3. CASE UNCHANGED <<b, pipe, obuf, rd>>
    BY <2>1, <2>3 DEF FlightPlain, PlainLine, MaySay, Says, Plain, setupVars
  <2> QED BY <2>2, <2>3
<1> QED BY <1>1, PlainStays

(* A line more to be asked, of which OpenSSL knows the answer.             *)
LEMMA PlainDraw ==
  ASSUME IInv, AllPlain, \A x \in Backends : bo[x] = <<>>, ~ rd,
         NEW kind \in Kinds, NEW truth \in Texts, NEW text \in Texts,
         faulty = {} /\ kind # "verify" /\ truth = "h1" => text = "h1",
         ops' = Append(ops, kind), refhex' = Append(refhex, text),
         req' = Append(req, [op |-> kind, truth |-> truth]),
         UNCHANGED <<faulty, bo, rd>>
  PROVE  AllPlain'
<1> SUFFICES ASSUME faulty = {} PROVE RefPlain'
  BY DEF AllPlain, TablePlain, FlightPlain, Backends
<1>1. /\ ops \in Seq(Kinds) /\ req \in Seq([op : Kinds, truth : Texts]) /\ refhex \in Seq(Texts)
      /\ Len(req) = Len(ops) /\ Len(refhex) = Len(ops)
  BY DEF IInv, TypeOK, TypeSetup
<1>2. Len(ops) \in Nat
  BY <1>1, LenProperties
<1> DEFINE line == [op |-> kind, truth |-> truth]
<1>3. line \in [op : Kinds, truth : Texts] /\ line.truth = truth
  OBVIOUS
<1> HIDE DEF line
<1>4. /\ Len(ops') = Len(ops) + 1 /\ ops'[Len(ops) + 1] = kind
      /\ \A k \in 1 .. Len(ops) : ops'[k] = ops[k]
  BY <1>1, AppendProperties
<1>5. /\ req'[Len(ops) + 1] = line
      /\ \A k \in 1 .. Len(ops) : req'[k] = req[k]
  BY <1>1, <1>3, AppendProperties DEF line
<1>6. /\ refhex'[Len(ops) + 1] = text
      /\ \A k \in 1 .. Len(ops) : refhex'[k] = refhex[k]
  BY <1>1, AppendProperties
<1>7. SUFFICES ASSUME NEW k \in 1 .. Len(ops'), Plain(k)' PROVE refhex'[k] = "h1"
  BY DEF RefPlain
<1>8. CASE k \in 1 .. Len(ops)
  <2>1. Plain(k)
    BY <1>4, <1>5, <1>7, <1>8 DEF Plain
  <2> QED BY <1>6, <1>8, <2>1 DEF AllPlain, RefPlain
<1>9. CASE k = Len(ops) + 1
  <2>1. kind # "verify" /\ truth = "h1"
    BY <1>3, <1>4, <1>5, <1>7, <1>9 DEF Plain
  <2> QED BY <1>6, <1>9, <2>1
<1>10. k \in 1 .. Len(ops) \/ k = Len(ops) + 1
  <2> DEFINE n == Len(ops)
  <2>1. k \in 1 .. n + 1 /\ n \in Nat
    BY <1>2, <1>4
  <2> HIDE DEF n
  <2>2. k \in 1 .. n \/ k = n + 1
    BY <2>1
  <2> QED BY <2>2 DEF n
<1> QED BY <1>8, <1>9, <1>10

LEMMA PlainBuild ==
  ASSUME IInv, Stream, NotYet, AllPlain, Build
  PROVE  AllPlain'
<1>0. /\ pc = "build" /\ ~ rd /\ UNCHANGED <<faulty, bo, rd>>
      /\ \A x \in Backends : bo[x] = <<>>
  <2>1. pc = "build" /\ UNCHANGED <<faulty, bo, rd>>
    BY DEF Build, BuildVector, BuildEmptyVerify, CloseRequests, setupVars, tableVars, ioVars
  <2>2. b = 0 /\ ~ rd
    BY <2>1 DEF NotYet, IInv, Control
  <2>3. \A x \in Backends : x \in Nat
    BY ConstantsOK DEF ConstantsOK, Backends
  <2> QED BY <2>1, <2>2, <2>3 DEF Stream, Untouched
<1>1. CASE CloseRequests
  BY <1>1, PlainIdle DEF CloseRequests, tableVars, childVars, ioVars
<1>2. CASE BuildEmptyVerify
  <2>1. "verify" \in Kinds /\ "00" \in Texts
    BY DEF Kinds, Texts
  <2> QED BY <1>0, <1>2, <2>1, PlainDraw DEF BuildEmptyVerify
<1>3. ASSUME NEW kind \in DrawnKinds, NEW truth \in Truths(kind),
             NEW x \in Answers(Ref, kind, truth), BuildVector(kind, truth, x)
      PROVE  AllPlain'
  <2> DEFINE text == IF kind = "verify" /\ x # "01" THEN "00" ELSE Normalize(kind, x)
  <2>1. kind \in Kinds /\ truth \in Texts /\ x \in Texts
    BY <1>3, ConstantsOK, TruthsType, AnswersType DEF ConstantsOK
  <2>2. text \in Texts
    BY <2>1, NormalizeType DEF Texts
  <2>3. ASSUME faulty = {}, kind # "verify", truth = "h1" PROVE text = "h1"
    <3>1. x \in RightAnswers("h1")
      BY <1>3, <2>3 DEF Answers
    <3>2. x = "h1"
      BY <3>1 DEF RightAnswers
    <3> QED BY <2>3, <3>2 DEF Normalize
  <2> HIDE DEF text
  <2>4. /\ ops' = Append(ops, kind) /\ refhex' = Append(refhex, text)
        /\ req' = Append(req, [op |-> kind, truth |-> truth])
    BY <1>3 DEF BuildVector, text
  <2> QED BY <1>0, <2>1, <2>2, <2>3, <2>4, PlainDraw
<1> QED BY <1>1, <1>2, <1>3 DEF Build

(* The line that is read carries the number of the slot it is stored in.   *)
LEMMA PlainRead ==
  ASSUME IInv, Stream, AllPlain, ReadReply
  PROVE  AllPlain'
<1> SUFFICES ASSUME faulty = {} PROVE RefPlain' /\ TablePlain' /\ FlightPlain'
  BY DEF AllPlain, ReadReply, setupVars
<1> DEFINE i == Len(bo[b]) + 1
           x == Head(pipe)
           y == IF x.v = "NA" THEN x ELSE [x EXCEPT !.v = Normalize(ops[i], x.v)]
<1>1. /\ pc = "collect" /\ pipe # <<>> /\ pipe' = Tail(pipe) /\ Len(bo[b]) < N
      /\ bo' = [bo EXCEPT ![b] = Append(@, y)]
      /\ UNCHANGED <<b, faulty, ops, req, refhex, obuf, died, rd>>
  BY DEF ReadReply, setupVars, childVars
<1>2. rd /\ b \in Backends /\ RefPlain /\ TablePlain /\ FlightPlain
  BY <1>1, StreamFacts DEF IInv, Control, AllPlain
<1>3. /\ bo \in [Backends -> Seq(Reply)] /\ bo[b] \in Seq(Reply) /\ Len(bo[b]) \in Nat
      /\ pipe \in Seq(Reply) /\ Len(pipe) \in Nat /\ N \in Nat
  BY <1>2, StreamFacts DEF IInv, TypeOK, TypeTable
<1>4. x \in Reply /\ x = pipe[1] /\ Len(pipe) >= 1 /\ 1 \in 1 .. Len(pipe)
  BY <1>1, <1>3, HeadTailProperties, EmptySeq, ElementOfSeq
<1>5. x.n = i
  <2>1. InPipe
    BY <1>2 DEF Stream, InFlight
  <2>2. i <= N
    BY <1>1, <1>3
  <2> QED BY <1>4, <2>1, <2>2 DEF InPipe
<1>6. ASSUME i \in 1 .. Len(ops), Plain(i) PROVE MaySay(b, i, y.v)
  <2>1. MaySay(b, i, x.v)
    BY <1>2, <1>4, <1>5, <1>6 DEF FlightPlain, PlainLine
  <2>2. x.v \in {"h1", "FLIP", "NA", "CUT"}
    BY <2>1 DEF MaySay, Says
  <2>3. y.v = x.v
    BY <1>4, <2>2 DEF Reply, Normalize
  <2> QED BY <2>1, <2>3
<1> HIDE DEF y
<1>7. bo'[b] = Append(bo[b], y) /\ \A z \in Backends : z # b => bo'[z] = bo[z]
  BY <1>1, <1>2, <1>3
<1>8. /\ Len(bo'[b]) = i /\ bo'[b][i] = y
      /\ \A k \in 1 .. Len(bo[b]) : bo'[b][k] = bo[b][k]
  <2>1. /\ Len(Append(bo[b], y)) = Len(bo[b]) + 1
        /\ Append(bo[b], y)[Len(bo[b]) + 1] = y
        /\ \A k \in 1 .. Len(bo[b]) : Append(bo[b], y)[k] = bo[b][k]
    BY <1>3, AppendProperties
  <2> QED BY <1>7, <2>1
<1> HIDE DEF x
<1>9. RefPlain'
  BY <1>1, <1>2 DEF RefPlain, Plain
<1>10. TablePlain'
  <2> SUFFICES ASSUME NEW z \in Backends, NEW k \in 1 .. Len(bo'[z]),
                      k \in 1 .. Len(ops'), Plain(k)'
               PROVE  MaySay(z, k, bo[z][k].v)'
    BY DEF TablePlain, Backends
  <2>0. k \in 1 .. Len(ops) /\ Plain(k)
    BY <1>1 DEF Plain
  <2>1. CASE z # b
    <3>1. bo'[z] = bo[z]
      BY <1>7, <2>1
    <3>2. MaySay(z, k, bo[z][k].v)
      BY <1>2, <2>0, <3>1 DEF TablePlain
    <3> QED BY <1>1, <3>1, <3>2 DEF MaySay, Says
  <2>2. CASE z = b /\ k \in 1 .. Len(bo[b])
    <3>1. MaySay(b, k, bo[b][k].v)
      BY <1>2, <2>0, <2>2 DEF TablePlain
    <3>2. bo'[b][k] = bo[b][k]
      BY <1>8, <2>2
    <3> QED BY <1>1, <2>2, <3>1, <3>2 DEF MaySay, Says
  <2>3. CASE z = b /\ k = i
    <3>1. MaySay(b, k, y.v)
      BY <1>6, <2>0, <2>3
    <3> QED BY <1>1, <1>8, <2>3, <3>1 DEF MaySay, Says
  <2> QED BY <1>3, <1>8, <2>1, <2>2, <2>3
<1>11. FlightPlain'
  <2>1. /\ Len(pipe') = Len(pipe) - 1
        /\ \A k \in 1 .. Len(pipe') : pipe'[k] = pipe[k + 1]
    BY <1>1, <1>3, HeadTailProperties
  <2>2. \A k \in 1 .. Len(pipe') : PlainLine(pipe'[k])
    <3> SUFFICES ASSUME NEW k \in 1 .. Len(pipe') PROVE PlainLine(pipe'[k])
      OBVIOUS
    <3>1. k + 1 \in 1 .. Len(pipe) /\ pipe'[k] = pipe[k + 1]
      BY <1>3, <2>1
    <3> QED BY <1>2, <3>1 DEF FlightPlain
  <2> QED BY <1>1, <1>2, <2>2 DEF FlightPlain, PlainLine, MaySay, Says, Plain
<1> QED BY <1>9, <1>10, <1>11

(* What the child says of a plain vector.                                  *)
LEMMA PlainCompute ==
  ASSUME IInv, Stream, SelfTestBuild, AllPlain, ChildCompute
  PROVE  AllPlain'
<1>1. /\ UNCHANGED <<setupVars, b, bo, died, pipe, rd>>
      /\ UNCHANGED <<faulty, req, ops, refhex>>
  BY DEF ChildCompute, setupVars, tableVars, ioVars
<1>2. SUFFICES ASSUME faulty = {}, rd PROVE FlightPlain'
  BY <1>1, PlainStays DEF FlightPlain
<1>3. /\ b \in Backends /\ obuf \in Seq(Reply) /\ Len(obuf) \in Nat /\ cin \in Nat
      /\ cin < Len(req) /\ Len(req) = N /\ N \in Nat /\ FlightPlain
  BY <1>2, StreamFacts DEF ChildCompute, AllPlain
<1>4. PICK v \in Replies(b, cin + 1) : obuf' = Append(obuf, [n |-> cin + 1, v |-> v])
  BY DEF ChildCompute
<1> DEFINE r == [n |-> cin + 1, v |-> v]
<1>5. cin + 1 \in 1 .. Len(req) /\ r \in Reply /\ r.n = cin + 1 /\ r.v = v
  <2>1. cin + 1 \in 1 .. Len(req) /\ cin + 1 \in 0 .. N
    BY <1>3
  <2>2. v \in Texts
    BY <1>3, <1>4, <2>1, RepliesType DEF IInv
  <2> QED BY <2>1, <2>2 DEF Reply
<1> HIDE DEF r
<1>6. ASSUME cin + 1 \in 1 .. Len(ops), Plain(cin + 1) PROVE MaySay(b, cin + 1, v)
  <2>1. req[cin + 1].op = ops[cin + 1] /\ req[cin + 1].truth = "h1"
    BY <1>6 DEF Stream, Aligned, Plain
  <2>2. CASE ops[cin + 1] \notin Supports[b]
    BY <1>4, <2>1, <2>2 DEF Replies, MaySay
  <2>3. CASE ops[cin + 1] \in Supports[b]
    <3>1. PICK x \in Answers(b, ops[cin + 1], "h1") : v = Inject1(b, cin + 1, x)
      BY <1>4, <2>1, <2>3 DEF Replies
    <3>2. x = "h1"
      BY <1>2, <3>1 DEF Answers, RightAnswers
    <3>3. Inject[b] \in {"off", "every"}
      BY <1>3, ConstantsOK DEF ConstantsOK, SelfTestBuild
    <3>4. v = Says(b)
      BY <3>1, <3>2, <3>3 DEF Inject1, Says
    <3> QED BY <2>3, <3>4 DEF MaySay
  <2> QED BY <2>2, <2>3
<1>7. PlainLine(r)
  BY <1>5, <1>6 DEF PlainLine
<1>8. /\ Len(obuf') = Len(obuf) + 1 /\ obuf'[Len(obuf) + 1] = r
      /\ \A k \in 1 .. Len(obuf) : obuf'[k] = obuf[k]
  BY <1>3, <1>4, <1>5, AppendProperties DEF r
<1>9. \A k \in 1 .. Len(obuf') : PlainLine(obuf'[k])
  <2> SUFFICES ASSUME NEW k \in 1 .. Len(obuf') PROVE PlainLine(obuf'[k])
    OBVIOUS
  <2>1. CASE k \in 1 .. Len(obuf)
    BY <1>2, <1>3, <1>8, <2>1 DEF FlightPlain
  <2>2. CASE k = Len(obuf) + 1
    BY <1>7, <1>8, <2>2
  <2> QED BY <1>3, <1>8, <2>1, <2>2
<1> QED BY <1>1, <1>2, <1>3, <1>9 DEF FlightPlain, PlainLine, MaySay, Says, Plain

(* A line in the buffer gets to the end of the pipe.                       *)
LEMMA PlainAppended ==
  ASSUME IInv, FlightPlain, rd, NEW r \in Reply, PlainLine(r)',
         pipe' = Append(pipe, r), UNCHANGED <<ops, req, b>>, died \subseteq died'
  PROVE  \A k \in 1 .. Len(pipe') : PlainLine(pipe[k])'
<1> SUFFICES ASSUME NEW k \in 1 .. Len(pipe') PROVE PlainLine(pipe[k])'
  OBVIOUS
<1>1. pipe \in Seq(Reply) /\ Len(pipe) \in Nat
  BY StreamFacts
<1>2. /\ Len(pipe') = Len(pipe) + 1 /\ pipe'[Len(pipe) + 1] = r
      /\ \A j \in 1 .. Len(pipe) : pipe'[j] = pipe[j]
  BY <1>1, AppendProperties
<1>3. CASE k \in 1 .. Len(pipe)
  <2>1. PlainLine(pipe[k]) /\ pipe'[k] = pipe[k]
    BY <1>2, <1>3 DEF FlightPlain
  <2> QED BY <2>1 DEF PlainLine, MaySay, Says, Plain
<1>4. CASE k = Len(pipe) + 1
  BY <1>2, <1>4
<1> QED BY <1>1, <1>2, <1>3, <1>4

LEMMA PlainWrite ==
  ASSUME IInv, AllPlain, ChildWrite
  PROVE  AllPlain'
<1>1. /\ UNCHANGED <<setupVars, b, bo, died, rd>> /\ UNCHANGED <<faulty, req, ops>>
      /\ rd /\ obuf # <<>> /\ pipe' = Append(pipe, Head(obuf)) /\ obuf' = Tail(obuf)
  BY DEF ChildWrite, setupVars, tableVars
<1>2. SUFFICES ASSUME faulty = {} PROVE FlightPlain'
  BY <1>1, PlainStays
<1>3. obuf \in Seq(Reply) /\ Len(obuf) \in Nat /\ FlightPlain
  BY <1>2, StreamFacts DEF AllPlain
<1>4. Head(obuf) \in Reply /\ Head(obuf) = obuf[1] /\ 1 \in 1 .. Len(obuf)
  BY <1>1, <1>3, HeadTailProperties, EmptySeq
<1>5. PlainLine(obuf[1])
  BY <1>1, <1>3, <1>4 DEF FlightPlain
<1>6. \A k \in 1 .. Len(pipe') : PlainLine(pipe[k])'
  <2> DEFINE r == obuf[1]
  <2>1. r \in Reply /\ pipe' = Append(pipe, r)
    BY <1>1, <1>4
  <2>2. PlainLine(r) /\ obuf[1] = r
    BY <1>5
  <2> QED BY <1>1, <1>3, <2>1, <2>2, PlainAppended DEF PlainLine, MaySay, Says, Plain
<1>7. /\ Len(obuf') = Len(obuf) - 1
      /\ \A k \in 1 .. Len(obuf') : obuf'[k] = obuf[k + 1]
  BY <1>1, <1>3, HeadTailProperties
<1>8. \A k \in 1 .. Len(obuf') : PlainLine(obuf'[k])
  <2> SUFFICES ASSUME NEW k \in 1 .. Len(obuf') PROVE PlainLine(obuf'[k])
    OBVIOUS
  <2>1. k + 1 \in 1 .. Len(obuf) /\ obuf'[k] = obuf[k + 1]
    BY <1>3, <1>7
  <2> QED BY <1>1, <1>3, <2>1 DEF FlightPlain
<1> QED BY <1>1, <1>6, <1>8 DEF FlightPlain, PlainLine, MaySay, Says, Plain

LEMMA PlainDies ==
  ASSUME IInv, AllPlain, ChildDies
  PROVE  AllPlain'
<1>1. /\ UNCHANGED <<setupVars, b, bo, rd>> /\ UNCHANGED <<faulty, req, ops>>
      /\ b \in Mortal /\ died' = died \cup {b} /\ obuf' = <<>>
  BY DEF ChildDies, setupVars, tableVars
<1>2. SUFFICES ASSUME faulty = {}, rd PROVE FlightPlain'
  BY <1>1, PlainStays DEF FlightPlain
<1>3. FlightPlain /\ Len(obuf') = 0
  BY <1>1, <1>2, EmptySeq DEF AllPlain
<1>4. CASE pipe' = pipe
  BY <1>1, <1>2, <1>3, <1>4 DEF FlightPlain, PlainLine, MaySay, Says, Plain
<1>5. CASE BufCap[b] > 1 /\ obuf # <<>> /\ pipe' = Append(pipe, [Head(obuf) EXCEPT !.v = "CUT"])
  <2>1. Head(obuf) \in Reply /\ BufCap[b] > 1
    BY <1>5, StreamFacts, HeadTailProperties
  <2>2. PICK r \in Reply : r.v = "CUT" /\ pipe' = Append(pipe, r)
    BY <1>5, <2>1 DEF Reply, Texts
  <2>3. MaySay(b, r.n, r.v)'
    BY <1>1, <2>1, <2>2 DEF MaySay
  <2>4. PlainLine(r)'
    BY <2>3 DEF PlainLine
  <2>5. UNCHANGED <<ops, req, b>> /\ died \subseteq died'
    BY <1>1
  <2>6. \A k \in 1 .. Len(pipe') : PlainLine(pipe[k])'
    BY <1>2, <1>3, <2>2, <2>4, <2>5, PlainAppended
  <2> QED BY <1>3, <2>6 DEF FlightPlain
<1> QED BY <1>4, <1>5 DEF ChildDies

LEMMA PlainChatter ==
  ASSUME AllPlain, ChildChatter
  PROVE  AllPlain'
<1>1. /\ UNCHANGED <<setupVars, b, bo, died, pipe, rd>> /\ UNCHANGED <<faulty, req, ops>>
      /\ obuf' = <<[n |-> 0, v |-> "EXTRA"]>>
  BY DEF ChildChatter, setupVars, tableVars, ioVars
<1>2. SUFFICES ASSUME faulty = {}, rd PROVE FlightPlain'
  BY <1>1, PlainStays DEF FlightPlain
<1>3. FlightPlain
  BY <1>2 DEF AllPlain
<1>4. \A k \in 1 .. Len(obuf') : PlainLine(obuf[k])'
  BY <1>1 DEF PlainLine
<1> QED BY <1>1, <1>2, <1>3, <1>4 DEF FlightPlain, PlainLine, MaySay, Says, Plain

LEMMA PlainStep ==
  SelfTestBuild /\ IInv /\ Stream /\ NotYet /\ AllPlain /\ [Next]_vars => AllPlain'
<1> SUFFICES ASSUME SelfTestBuild, IInv, Stream, NotYet, AllPlain, [Next]_vars
             PROVE  AllPlain'
  OBVIOUS
<1>1. CASE Build
  BY <1>1, PlainBuild
<1>2. CASE ReadReply \/ ChildCompute \/ ChildWrite
  BY <1>2, PlainRead, PlainCompute, PlainWrite
<1>3. CASE ChildDies \/ ChildChatter
  BY <1>3, PlainDies, PlainChatter
<1>4. CASE Spawn
  <2>1. pipe' = <<>> /\ obuf' = <<>> /\ Len(<<>>) = 0
    BY <1>4 DEF Spawn
  <2>2. FlightPlain'
    BY <2>1 DEF FlightPlain
  <2> QED BY <1>4, <2>2, PlainStays DEF Spawn, tableVars
<1>5. CASE ReapAndGiveUp \/ Reap
  <2>1. ~ rd'
    BY <1>5 DEF ReapAndGiveUp, Reap, IInv, Control, ioVars
  <2> QED BY <1>5, <2>1, PlainIdle DEF ReapAndGiveUp, Reap, tableVars
<1>6. CASE UNCHANGED <<setupVars, bo, died>> /\ (~ rd' \/ UNCHANGED <<b, pipe, obuf, rd>>)
  BY <1>6, PlainIdle
<1>7. CASE ChildBrokenPipe
  BY <1>7, PlainIdle DEF ChildBrokenPipe, tableVars
<1> QED
  BY <1>1, <1>2, <1>3, <1>4, <1>5, <1>6, <1>7
  DEF Next, Parent, ChildStep, vars, tableVars, childVars, ioVars, SpawnFails, CloseWriteEnd,
      FdopenFails, CloseReadEnd, StartJudging, JudgeVector, Summarise, ChildExit, ChildHangs,
      Halted

LEMMA AllAskedStep == IInv /\ AllAsked /\ [Next]_vars => AllAsked'
<1> SUFFICES ASSUME IInv, AllAsked, [Next]_vars PROVE AllAsked'
  OBVIOUS
<1>1. CASE Reap
  <2>1. /\ bprod' = [bprod EXCEPT ![b] = Len(bo[b])] /\ UNCHANGED <<bo, exit>>
        /\ bprod \in [Backends -> 0 .. N] /\ exit = -1
    BY <1>1 DEF Reap, IInv, TypeOK, TypeTable, Judged
  <2>2. \A x \in Backends : Len(bo[x]) \in Nat
    BY StreamFacts
  <2>3. \A x \in Backends : bprod'[x] <= Len(bo[x])
    BY <2>1, <2>2 DEF AllAsked
  <2> QED BY <2>1, <2>3 DEF AllAsked, Backends
<1>2. CASE ReadReply
  <2>1. PICK y : bo' = [bo EXCEPT ![b] = Append(@, y)] /\ y \in Reply
    <3> DEFINE i == Len(bo[b]) + 1
               x == Head(pipe)
    <3>1. x \in Reply
      BY <1>2, StreamFacts, HeadTailProperties DEF ReadReply
    <3>2. [x EXCEPT !.v = Normalize(ops[i], x.v)] \in Reply
      BY <3>1 DEF Reply, Normalize, Texts
    <3> QED BY <1>2, <3>1, <3>2 DEF ReadReply
  <2>2. bo \in [Backends -> Seq(Reply)] /\ UNCHANGED <<bprod, exit, b>> /\ bprod \in [Backends -> 0 .. N]
    BY <1>2 DEF ReadReply, IInv, TypeOK, TypeTable
  <2>3. \A x \in Backends : Len(bo'[x]) >= Len(bo[x]) /\ Len(bo[x]) \in Nat /\ Len(bo'[x]) \in Nat
    <3> SUFFICES ASSUME NEW x \in Backends
                 PROVE  Len(bo'[x]) >= Len(bo[x]) /\ Len(bo[x]) \in Nat /\ Len(bo'[x]) \in Nat
      OBVIOUS
    <3>1. bo[x] \in Seq(Reply) /\ Len(bo[x]) \in Nat
      BY <2>2, LenProperties
    <3>2. bo'[x] = bo[x] \/ bo'[x] = Append(bo[x], y)
      BY <2>1, <2>2
    <3>3. Len(Append(bo[x], y)) = Len(bo[x]) + 1
      BY <2>1, <3>1, AppendProperties
    <3> QED BY <3>1, <3>2, <3>3
  <2>4. \A x \in Backends : bprod'[x] <= Len(bo'[x])
    BY <2>2, <2>3, ConstantsOK DEF AllAsked, ConstantsOK
  <2> QED BY <2>2, <2>4 DEF AllAsked, Backends
<1>3. CASE Summarise
  <2>1. b = NB /\ UNCHANGED <<b, bo, bprod>>
    BY <1>3 DEF Summarise, IInv, Judged, tableVars
  <2> QED BY <2>1 DEF AllAsked, Backends
<1>4. CASE UNCHANGED <<b, bo, bprod>> /\ (exit' = exit \/ exit' = 2)
  BY <1>4 DEF AllAsked, Backends
<1> QED
  BY <1>1, <1>2, <1>3, <1>4
  DEF Next, Parent, ChildStep, Build, vars, tableVars, BuildVector, BuildEmptyVerify,
      CloseRequests, Spawn, SpawnFails, CloseWriteEnd, FdopenFails, CloseReadEnd,
      ReapAndGiveUp, StartJudging, JudgeVector, ChildCompute, ChildWrite,
      ChildBrokenPipe, ChildChatter, ChildExit, ChildDies, ChildHangs, Halted

LEMMA PlainAlways ==
  ASSUME SelfTestBuild
  PROVE  Spec => []AllPlain /\ []AllAsked
<1>1. Init => AllPlain /\ AllAsked
  <2> SUFFICES ASSUME Init PROVE AllPlain /\ AllAsked
    OBVIOUS
  <2>1. /\ ops = <<>> /\ ~ rd /\ exit = -1 /\ Len(<<>>) = 0
        /\ \A x \in Backends : bo[x] = <<>> /\ bprod[x] = 0
    BY DEF Init
  <2> QED BY <2>1 DEF AllPlain, RefPlain, TablePlain, FlightPlain, AllAsked
<1>2. AllPlain /\ IInv /\ Stream /\ NotYet /\ [Next]_vars => AllPlain'
  BY PlainStep
<1>3. RInv => NotYet
  BY DEF RInv
<1>4. Spec => []AllAsked
  BY <1>1, AllAskedStep, Inductive, PTL DEF Spec
<1> QED BY <1>1, <1>2, <1>3, <1>4, Inductive, StreamAlways, RInvAlways, PTL DEF Spec

(* The one voter that differs from all others is named.                    *)
LEMMA OddOneNamed ==
  ASSUME NEW kind, kind # "verify", NEW ballot, NEW x \in DOMAIN ballot \ {Ref},
         IsFiniteSet(DOMAIN ballot), DOMAIN ballot \subseteq {Ref} \cup Nat,
         Ref \in DOMAIN ballot, ballot[x] # "h1",
         \A w \in DOMAIN ballot \ {x} : ballot[w] = "h1"
  PROVE  x \in Outliers(kind, ballot)
<1> DEFINE Good == {w \in DOMAIN ballot : ballot[w] = "h1"}
<1>1. Good = DOMAIN ballot \ {x}
  OBVIOUS
<1>2. /\ NumVoters(ballot) \in Nat /\ Cardinality(Good) = NumVoters(ballot) - 1
  BY <1>1, FS_CardinalityType, FS_RemoveElement DEF NumVoters
<1>3. CASE Polled(kind, ballot)
  <2>1. NumVoters(ballot) >= 3
    BY <1>3 DEF Polled
  <2> HIDE DEF Good
  <2>2. 2 * Cardinality(Good) > NumVoters(ballot)
    BY <1>2, <2>1
  <2>3. Majority(ballot, "h1", Good)
    BY <2>1, <2>2 DEF Majority, Good
  <2>4. Outliers(kind, ballot) = DOMAIN ballot \ Good
    BY <2>3, MajorityWins
  <2> QED BY <1>1, <2>4
<1>4. CASE ~ Polled(kind, ballot)
  <2>1. Outliers(kind, ballot) = {w \in DOMAIN ballot \ {Ref} : ballot[w] # ballot[Ref]}
    BY <1>4, Zenon DEF Outliers
  <2> QED BY <2>1
<1> QED BY <1>3, <1>4

(* tests/negative_tests.sh greps for a DIFF_mismatch of the CLI it built   *)
(* to corrupt: a run of it with right implementations prints that line, as *)
(* soon as one compute vector has a plain answer and the CLI implements    *)
(* it, for any number of vectors and backends, whatever deaths and hangs   *)
(* of others SelfTestBuild leaves.                                         *)
THEOREM SelfTestNamesIt ==
  ASSUME SelfTestBuild
  PROVE  Spec => []SelfTestFires
<1>1. RInv /\ Stream /\ AllPlain /\ AllAsked => SelfTestFires
  <2> SUFFICES ASSUME RInv, Stream, AllPlain, AllAsked, exit \in {0, 1}, faulty = {},
                      NEW x \in Backends \ died, Inject[x] # "off",
                      NEW i \in Vectors, ops[i] \in Supports[x] \ {"verify"},
                      req[i].truth = "h1"
               PROVE  \E r \in reports : r.oracle = "DIFF_mismatch" /\ r.who = x
    BY DEF SelfTestFires
  <2>1. /\ iv = N /\ N \in Nat /\ b = NB /\ NB \in Nat /\ MaxVoters \in Nat
        /\ i \in 1 .. iv /\ i \in 1 .. Len(ops) /\ Ref # x
        /\ \A y \in Backends : y \in Nat /\ y < NB
    <3>1. iv = N /\ b = NB /\ pc = "done"
      BY DEF RInv, IInv, Judged, AllAsked
    <3>2. N \in Nat /\ NB \in Nat /\ MaxVoters \in Nat
      BY ConstantsOK DEF ConstantsOK
    <3>3. Len(ops) = N
      BY <3>1, PhaseFacts
    <3> QED BY <3>1, <3>2, <3>3 DEF Vectors, Backends, Ref
  <2>2. Plain(i) /\ RefPlain /\ TablePlain
    BY DEF Plain, AllPlain
  <2>3. Inject[x] = "every" /\ x < MaxVoters - 1
    BY DEF SelfTestBuild
  <2>4. \A y \in Backends : bprod[y] >= i => MaySay(y, i, bo[y][i].v)
    <3> SUFFICES ASSUME NEW y \in Backends, bprod[y] >= i PROVE MaySay(y, i, bo[y][i].v)
      OBVIOUS
    <3>1. bprod[y] \in 0 .. N /\ bprod[y] <= Len(bo[y]) /\ Len(bo[y]) \in Nat
      BY StreamFacts DEF AllAsked, RInv, IInv, TypeOK, TypeTable
    <3>2. i \in 1 .. Len(bo[y])
      BY <2>1, <3>1
    <3> QED BY <2>1, <2>2, <3>2 DEF TablePlain
  <2>5. bprod[x] = N /\ bo[x][i].v = "FLIP"
    <3>1. bprod[x] = N
      BY <2>1 DEF Stream, Collected
    <3> QED BY <2>1, <2>4, <3>1 DEF MaySay, Says
  <2>6. \A y \in Answering(i) \ {x} : bo[y][i].v = "h1"
    <3> SUFFICES ASSUME NEW y \in Answering(i) \ {x} PROVE bo[y][i].v = "h1"
      OBVIOUS
    <3>1. y \in Backends /\ bprod[y] >= i /\ bo[y][i].v # "NA" /\ Inject[y] = "off"
      BY DEF Answering, SelfTestBuild
    <3>2. MaySay(y, i, bo[y][i].v)
      BY <2>4, <3>1
    <3>3. ~ (y \in Mortal /\ BufCap[y] > 1)
      BY <3>1 DEF SelfTestBuild
    <3> QED BY <3>1, <3>2, <3>3 DEF MaySay, Says
  <2>7. x \in Seated(i)
    <3>1. x \in Answering(i)
      BY <2>1, <2>5 DEF Answering
    <3> DEFINE Before == {y \in Answering(i) : y < x}
    <3>2. Before \subseteq 0 .. x - 1 /\ x \in Nat
      BY <2>1 DEF Answering
    <3>3. /\ IsFiniteSet(0 .. x - 1)
          /\ Cardinality(0 .. x - 1) = x
      BY <3>2, FS_Interval
    <3>4. Cardinality(Before) <= x /\ Cardinality(Before) \in Nat
      BY <3>2, <3>3, FS_Subset, FS_CardinalityType
    <3> HIDE DEF Before
    <3>5. Cardinality(Before) < MaxVoters - 1
      BY <2>1, <2>3, <3>2, <3>4
    <3> QED BY <3>1, <3>5 DEF Seated, Before
  <2>8. /\ DOMAIN Ballot(i) = Seated(i) /\ Ref \in Seated(i) /\ IsFiniteSet(Seated(i))
        /\ Seated(i) \subseteq {Ref} \cup Nat
    BY <2>1, SeatedFinite DEF Ballot, Voters
  <2>9. /\ Ballot(i)[x] = "FLIP"
        /\ \A w \in Seated(i) \ {x} : Ballot(i)[w] = "h1"
    <3>1. refhex[i] = "h1"
      BY <2>1, <2>2 DEF RefPlain
    <3>2. \A w \in Seated(i) \ {Ref} : w \in Answering(i)
      BY DEF Seated
    <3> QED BY <2>1, <2>5, <2>6, <2>7, <3>1, <3>2 DEF Ballot
  <2>10. x \in Outliers(ops[i], Ballot(i))
    <3> DEFINE ballot == Ballot(i)
               kind == ops[i]
    <3>1. /\ kind # "verify" /\ x \in DOMAIN ballot \ {Ref} /\ IsFiniteSet(DOMAIN ballot)
          /\ DOMAIN ballot \subseteq {Ref} \cup Nat /\ Ref \in DOMAIN ballot
          /\ ballot[x] # "h1" /\ \A w \in DOMAIN ballot \ {x} : ballot[w] = "h1"
      BY <2>1, <2>7, <2>8, <2>9
    <3> HIDE DEF ballot, kind
    <3>2. x \in Outliers(kind, ballot)
      BY <3>1, OddOneNamed
    <3> QED BY <3>2 DEF ballot, kind
  <2>11. Line("DIFF_mismatch", i, x) \in Findings(i)
    BY <2>10 DEF Findings
  <2>12. Line("DIFF_mismatch", i, x) \in reports
    BY <2>1, <2>11 DEF RInv, JInv, Reported
  <2> QED BY <2>12 DEF Line
<1> QED BY <1>1, RInvAlways, StreamAlways, PlainAlways, PTL
=============================================================================
