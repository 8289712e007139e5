-------------------------- MODULE DiffRunnerProofs --------------------------
(*****************************************************************************)
(* Theorems about the subprocess differential runner, for any number of    *)
(* vectors and backends, any slot limit, pipe and buffer capacity, any set *)
(* of wrong, dying, hanging or talkative backends.                         *)
(*                                                                         *)
(* The inductive invariant has three parts: the types; Control, which ties *)
(* the program counter of main() to the child and to the descriptors of    *)
(* its pipe; and Judged, which ties the failure counter and the exit       *)
(* status to the table of answers.                                         *)
(*                                                                         *)
(* The second half follows the stream of replies from a child to the table:*)
(* replies are stored under the number of their request line, and a child  *)
(* that ran to completion had all of them stored.  What a child has        *)
(* computed is in three places, bo[b], the pipe and its stdio buffer, and  *)
(* these are one sequence numbered from 1 (InFlight).                      *)
(*                                                                         *)
(* The last part is about the runner ending: somebody can always take a    *)
(* step, and every step leaves less to do.                                 *)
(*****************************************************************************)
EXTENDS DiffRunner, FiniteSetTheorems, SequenceTheorems, WellFoundedInduction, TLAPS

(* While a child exists the runner is between its fork and its waitpid;    *)
(* the read end is open from pipe() to fclose(), the parent holds the      *)
(* write end until it closes its copy, the child until it is gone.         *)
Control ==
  /\ pc \in {"forked", "collect", "giveup", "wait"} <=> child # "none"
  /\ child # "none" => b < NB
  /\ rd <=> pc \in {"forked", "collect"}
  /\ "parent" \in wr <=> pc = "forked"
  /\ "child" \in wr <=> child \in {"run", "flush", "bye", "hung"}
  /\ pc # "build" => Len(refhex) = N

(* Nothing is judged before all replies are in, and from then on the       *)
(* failure counter is positive exactly when a judged vector shows a        *)
(* difference.                                                             *)
Judged ==
  /\ pc \notin {"judge", "done"} => iv = 0
  /\ pc = "judge" => b = NB
  /\ exit = -1 <=> pc # "done"
  /\ exit = 2 => iv = 0
  /\ failures > 0 <=> \E i \in 1 .. iv : Differ(i)
  /\ exit \in {0, 1} => iv = N /\ (exit = 1 <=> failures > 0)

IInv == TypeOK /\ Control /\ Judged

-----------------------------------------------------------------------------
(* What a reply can be.                                                    *)
LEMMA NormalizeType ==
  ASSUME NEW kind \in Kinds, NEW x \in Texts
  PROVE  Normalize(kind, x) \in Texts
BY DEF Normalize, Texts

LEMMA AnswersType ==
  ASSUME NEW who, NEW kind \in Kinds, NEW truth \in Texts
  PROVE  Answers(who, kind, truth) \subseteq Texts
<1>1. WrongAnswers(kind) \subseteq Texts
  BY DEF WrongAnswers, Texts, Kinds
<1>2. RightAnswers(truth) \subseteq Texts
  BY DEF RightAnswers, Texts
<1> QED BY <1>1, <1>2 DEF Answers

LEMMA TruthsType ==
  ASSUME NEW kind \in Kinds
  PROVE  Truths(kind) \subseteq Texts
BY DEF Truths, Texts, Kinds

LEMMA RepliesType ==
  ASSUME TypeOK, NEW who \in Backends, NEW n \in 1 .. Len(req)
  PROVE  Replies(who, n) \subseteq Texts
<1>1. req[n].op \in Kinds /\ req[n].truth \in Texts
  <2>1. req \in Seq([op : Kinds, truth : Texts])
    BY DEF TypeOK, TypeSetup
  <2>2. req[n] \in [op : Kinds, truth : Texts]
    BY <2>1, ElementOfSeq
  <2> QED BY <2>2
<1>2. Answers(who, req[n].op, req[n].truth) \subseteq Texts
  BY <1>1, AnswersType
<1>3. \A x \in Texts : Inject1(who, n, x) \in Texts
  BY DEF Inject1, Texts
<1>4. "NA" \in Texts
  BY DEF Texts
<1> QED BY <1>2, <1>3, <1>4 DEF Replies

(* The voters of a vector are finitely many and the reference is one.      *)
LEMMA VotersFinite ==
  /\ IsFiniteSet(Backends)
  /\ IsFiniteSet(Voters)
<1>1. IsFiniteSet(Backends)
  BY ConstantsOK, FS_Interval DEF Backends
<1>2. IsFiniteSet({Ref})
  BY FS_Singleton
<1> QED BY <1>1, <1>2, FS_Union DEF Voters

LEMMA SeatedFinite ==
  ASSUME NEW i
  PROVE  /\ Ref \in Seated(i)
         /\ Seated(i) \subseteq Voters
         /\ IsFiniteSet(Seated(i))
<1>1. Ref \in Seated(i) /\ Seated(i) \subseteq Voters
  BY DEF Seated, Answering, Voters
<1> QED BY <1>1, VotersFinite, FS_Subset

-----------------------------------------------------------------------------
(* A ballot puts at least one voter on the line, or splits the poll, just  *)
(* when two voters differ.  The reference is the lowest voter, so a        *)
(* unanimous ballot has a first voter of largest support.                  *)
Differs(kind, ballot) ==
  \E w, u \in DOMAIN ballot :
    IF kind = "verify" THEN Accepts(ballot[w]) # Accepts(ballot[u])
                       ELSE ballot[w] # ballot[u]

LEMMA CountType ==
  ASSUME NEW ballot, NEW w, IsFiniteSet(DOMAIN ballot)
  PROVE  /\ Count(ballot, w) \in Nat
         /\ NumVoters(ballot) \in Nat
         /\ Count(ballot, w) <= NumVoters(ballot)
<1>1. Support(ballot, w) \in SUBSET DOMAIN ballot
  BY DEF Support
<1>2. /\ IsFiniteSet(Support(ballot, w))
      /\ Cardinality(Support(ballot, w)) <= Cardinality(DOMAIN ballot)
  BY <1>1, FS_Subset
<1>3. Cardinality(Support(ballot, w)) \in Nat /\ Cardinality(DOMAIN ballot) \in Nat
  BY <1>2, FS_CardinalityType
<1> QED BY <1>2, <1>3 DEF Count, NumVoters

LEMMA UnanimousCount ==
  ASSUME NEW ballot, IsFiniteSet(DOMAIN ballot),
         DOMAIN ballot \subseteq {Ref} \cup Nat, Ref \in DOMAIN ballot,
         \A w, u \in DOMAIN ballot : ballot[w] = ballot[u]
  PROVE  BestCount(ballot) = NumVoters(ballot)
<1>1. \A w \in DOMAIN ballot : Count(ballot, w) = NumVoters(ballot)
  <2> SUFFICES ASSUME NEW w \in DOMAIN ballot
               PROVE  Count(ballot, w) = NumVoters(ballot)
    OBVIOUS
  <2>1. Support(ballot, w) = DOMAIN ballot
    BY DEF Support
  <2> QED BY <2>1 DEF Count, NumVoters
<1>2. NumVoters(ballot) \in Nat
  BY CountType
<1>3. \A u \in DOMAIN ballot : ~ (u < Ref)
  BY DEF Ref
<1>4. \E w \in DOMAIN ballot :
        /\ \A u \in DOMAIN ballot : Count(ballot, u) <= Count(ballot, w)
        /\ \A u \in DOMAIN ballot : u < w => Count(ballot, u) < Count(ballot, w)
  <2> WITNESS Ref \in DOMAIN ballot
  <2> QED BY <1>1, <1>2, <1>3
<1>5. BestVoter(ballot) \in DOMAIN ballot
  BY <1>4 DEF BestVoter
<1> QED BY <1>1, <1>5 DEF BestCount

LEMMA LineIffDiffers ==
  ASSUME NEW kind, NEW ballot, IsFiniteSet(DOMAIN ballot),
         DOMAIN ballot \subseteq {Ref} \cup Nat, Ref \in DOMAIN ballot
  PROVE  (Outliers(kind, ballot) # {} \/ NoConsensus(kind, ballot))
            <=> Differs(kind, ballot)
<1>0. /\ NumVoters(ballot) \in Nat /\ BestCount(ballot) \in Nat
  BY CountType DEF BestCount
<1>1. CASE kind = "verify"
  BY <1>1 DEF Outliers, NoConsensus, Differs, Polled
<1>2. CASE kind # "verify" /\ ~ Polled(kind, ballot)
  BY <1>2 DEF Outliers, NoConsensus, Differs, Polled
<1>3. CASE kind # "verify" /\ Polled(kind, ballot) /\ BestCount(ballot) * 2 <= NumVoters(ballot)
  <2>1. NumVoters(ballot) >= 3
    BY <1>3 DEF Polled
  <2>2. BestCount(ballot) # NumVoters(ballot)
    BY <1>0, <1>3, <2>1
  <2>3. NoConsensus(kind, ballot)
    BY <1>3, <2>2 DEF NoConsensus
  <2>4. \E w, u \in DOMAIN ballot : ballot[w] # ballot[u]
    BY <2>2, UnanimousCount
  <2> QED BY <1>3, <2>3, <2>4 DEF Differs
<1>4. CASE kind # "verify" /\ Polled(kind, ballot) /\ ~ (BestCount(ballot) * 2 <= NumVoters(ballot))
  <2>1. ~ NoConsensus(kind, ballot)
    BY <1>4 DEF NoConsensus
  <2>2. Outliers(kind, ballot) = {w \in DOMAIN ballot : ballot[w] # ballot[BestVoter(ballot)]}
    BY <1>4 DEF Outliers
  <2>3. ASSUME Differs(kind, ballot) PROVE Outliers(kind, ballot) # {}
    BY <1>4, <2>2, <2>3 DEF Differs
  <2>4. ASSUME NEW w \in Outliers(kind, ballot) PROVE Differs(kind, ballot)
    <3> SUFFICES ASSUME \A x, y \in DOMAIN ballot : ballot[x] = ballot[y] PROVE FALSE
      BY <1>4 DEF Differs
    <3>1. Support(ballot, BestVoter(ballot)) = {}
      BY <2>2 DEF Support
    <3>2. BestCount(ballot) = 0
      BY <3>1, FS_EmptySet DEF BestCount, Count
    <3>3. BestCount(ballot) = NumVoters(ballot)
      BY UnanimousCount
    <3> QED BY <1>0, <1>4, <3>2, <3>3
  <2> QED BY <2>1, <2>3, <2>4
<1> QED BY <1>1, <1>2, <1>3, <1>4
-----------------------------------------------------------------------------
(* Types, one lemma per group of variables.                                *)
THEOREM InitTypeOK == Init => TypeOK
<1> SUFFICES ASSUME Init PROVE TypeOK
  OBVIOUS
<1> USE ConstantsOK
<1>1. TypeControl
  BY DEF Init, TypeControl
<1>2. TypeSetup
  BY DEF Init, TypeSetup
<1>3. TypeTable
  BY DEF Init, TypeTable
<1>4. TypeChild
  <2>1. pipe \in Seq(Reply) /\ obuf \in Seq(Reply) /\ Len(pipe) = 0
    BY EmptySeq DEF Init
  <2>2. Len(pipe) <= PipeCap /\ 0 \in 0 .. N
    BY <2>1 DEF ConstantsOK
  <2>3. died \subseteq Backends /\ wr \subseteq {"parent", "child"} /\ rd \in BOOLEAN
    BY DEF Init
  <2>4. child = "none" /\ cin \in 0 .. N
    BY <2>2 DEF Init
  <2> QED BY <2>1, <2>2, <2>3, <2>4 DEF TypeChild
<1>5. TypeJudge
  BY DEF Init, TypeJudge
<1> QED BY <1>1, <1>2, <1>3, <1>4, <1>5 DEF TypeOK

LEMMA StepTypeSetup ==
  ASSUME TypeOK, [Next]_vars PROVE TypeSetup'
<1> USE DEF TypeOK
<1>1. CASE UNCHANGED setupVars
  BY <1>1 DEF TypeSetup, setupVars
<1>2. ASSUME NEW kind \in DrawnKinds, NEW truth \in Truths(kind),
             NEW x \in Answers(Ref, kind, truth), BuildVector(kind, truth, x)
      PROVE  TypeSetup'
  <2>1. kind \in Kinds /\ truth \in Texts /\ x \in Texts
    BY ConstantsOK, TruthsType, AnswersType DEF ConstantsOK
  <2>2. (IF kind = "verify" /\ x # "01" THEN "00" ELSE Normalize(kind, x)) \in Texts
    BY <2>1, NormalizeType DEF Texts
  <2>3. [op |-> kind, truth |-> truth] \in [op : Kinds, truth : Texts]
    BY <2>1
  <2> QED BY <1>2, <2>1, <2>2, <2>3, ConstantsOK, AppendProperties DEF BuildVector, TypeSetup, ConstantsOK
<1>3. CASE BuildEmptyVerify
  <2>1. "verify" \in Kinds /\ "00" \in Texts
    BY DEF Kinds, Texts
  <2>2. [op |-> "verify", truth |-> "00"] \in [op : Kinds, truth : Texts]
    BY <2>1
  <2> QED BY <1>3, <2>1, <2>2, ConstantsOK, AppendProperties DEF BuildEmptyVerify, TypeSetup, ConstantsOK
<1> QED
  BY <1>1, <1>2, <1>3
  DEF Next, Parent, ChildStep, Build, vars, CloseRequests, Spawn, SpawnFails,
      CloseWriteEnd, FdopenFails, ReadReply, CloseReadEnd, Reap, ReapAndGiveUp, StartJudging,
      JudgeVector, Summarise, ChildCompute, ChildWrite, ChildBrokenPipe,
      ChildChatter, ChildExit, ChildDies, ChildHangs, Halted

(* One step of the collecting loop keeps the table typed and bounded.      *)
LEMMA StepTypeTable ==
  ASSUME TypeOK, Control, [Next]_vars PROVE TypeTable'
<1> USE DEF TypeOK
<1>1. CASE UNCHANGED tableVars
  BY <1>1 DEF TypeTable, tableVars
<1>2. CASE ReadReply
  <2> DEFINE x == Head(pipe)
             i == Len(bo[b]) + 1
  <2>1. b \in Backends
    BY <1>2, ConstantsOK DEF ReadReply, Control, Backends, TypeControl, ConstantsOK
  <2>2. bo[b] \in Seq(Reply) /\ Len(bo[b]) < N /\ Len(bo[b]) \in Nat /\ N \in Nat
    BY <1>2, <2>1, LenProperties, ConstantsOK DEF ReadReply, TypeTable, ConstantsOK
  <2>3. pipe \in Seq(Reply) /\ pipe # <<>>
    BY <1>2 DEF ReadReply, TypeChild
  <2>4. x \in Reply
    BY <2>3, HeadTailProperties
  <2>5. x.v \in Texts /\ x.n \in 0 .. N /\ x = [n |-> x.n, v |-> x.v]
    BY <2>4 DEF Reply
  <2>6. ops[i] \in Kinds
    <3>1. Len(ops) = N
      BY <1>2 DEF ReadReply, Control, TypeSetup
    <3> QED BY <2>2, <3>1, ElementOfSeq DEF TypeSetup
  <2>7. [x EXCEPT !.v = Normalize(ops[i], x.v)] \in Reply
    <3>1. Normalize(ops[i], x.v) \in Texts
      BY <2>5, <2>6, NormalizeType
    <3> QED BY <2>4, <3>1 DEF Reply
  <2>8. ASSUME NEW y \in Reply, bo' = [bo EXCEPT ![b] = Append(@, y)]
        PROVE  bo' \in [Backends -> Seq(Reply)] /\ \A z \in Backends : Len(bo'[z]) <= N
    <3>1. Append(bo[b], y) \in Seq(Reply) /\ Len(Append(bo[b], y)) <= N
      BY <2>2, AppendProperties
    <3> QED BY <2>8, <3>1, <2>1 DEF TypeTable
  <2>9. bo' \in [Backends -> Seq(Reply)] /\ \A z \in Backends : Len(bo'[z]) <= N
    <3>1. \/ bo' = [bo EXCEPT ![b] = Append(@, x)]
          \/ bo' = [bo EXCEPT ![b] = Append(@, [x EXCEPT !.v = Normalize(ops[i], x.v)])]
      BY <1>2 DEF ReadReply
    <3> QED BY <3>1, <2>4, <2>7, <2>8
  <2>10. bna' \in [Backends -> Nat]
    <3>1. bna' = bna \/ bna' = [bna EXCEPT ![b] = bna[b] + 1]
      BY <1>2 DEF ReadReply
    <3>2. bna \in [Backends -> Nat] /\ bna[b] + 1 \in Nat
      BY <2>1 DEF TypeTable
    <3> QED BY <3>1, <3>2, <2>1
  <2>11. bprod' \in [Backends -> 0 .. N]
    BY <1>2 DEF ReadReply, TypeTable
  <2> QED BY <2>9, <2>10, <2>11 DEF TypeTable
<1>3. CASE Reap
  <2>1. b \in Backends
    BY <1>3, ConstantsOK DEF Reap, Control, Backends, TypeControl, ConstantsOK
  <2>2. Len(bo[b]) \in 0 .. N
    BY <2>1, LenProperties, ConstantsOK DEF TypeTable, ConstantsOK
  <2>3. bprod' \in [Backends -> 0 .. N] /\ bo' = bo /\ bna' = bna
    BY <1>3, <2>2 DEF Reap, TypeTable
  <2> QED BY <2>3 DEF TypeTable
<1> QED
  BY <1>1, <1>2, <1>3
  DEF Next, Parent, ChildStep, Build, vars, BuildVector, BuildEmptyVerify,
      CloseRequests, Spawn, SpawnFails, CloseWriteEnd, FdopenFails, CloseReadEnd,
      ReapAndGiveUp, StartJudging, JudgeVector, Summarise, ChildCompute,
      ChildWrite, ChildBrokenPipe, ChildChatter, ChildExit, ChildDies,
      ChildHangs, Halted

LEMMA StepTypeChild ==
  ASSUME TypeOK, Control, [Next]_vars PROVE TypeChild'
<1> USE DEF TypeOK
<1>0. /\ child # "none" => b \in Backends
      /\ N \in Nat /\ NB \in Nat /\ PipeCap \in Nat \ {0}
      /\ Len(req) \in Nat /\ Len(req) <= N
      /\ <<>> \in Seq(Reply) /\ Len(<<>>) = 0
      /\ Len(obuf) \in Nat /\ Len(pipe) \in Nat
  <2>1. N \in Nat /\ NB \in Nat /\ PipeCap \in Nat \ {0}
    BY ConstantsOK DEF ConstantsOK
  <2>2. Len(req) \in Nat /\ Len(req) <= N
    BY LenProperties DEF TypeSetup
  <2>3. Len(obuf) \in Nat /\ Len(pipe) \in Nat
    BY LenProperties DEF TypeChild
  <2>4. child # "none" => b \in Backends
    BY <2>1 DEF Control, Backends, TypeControl
  <2> QED BY <2>1, <2>2, <2>3, <2>4, EmptySeq
<1>1. CASE UNCHANGED childVars /\ UNCHANGED ioVars
  BY <1>1 DEF TypeChild, childVars, ioVars
<1>2. CASE Spawn
  BY <1>2, <1>0 DEF Spawn, TypeChild
<1>3. CASE CloseWriteEnd
  BY <1>3 DEF CloseWriteEnd, TypeChild, childVars
<1>4. CASE ReadReply
  <2>1. Tail(pipe) \in Seq(Reply) /\ Len(Tail(pipe)) <= PipeCap
    BY <1>4, <1>0, HeadTailProperties DEF ReadReply, TypeChild
  <2> QED BY <1>4, <2>1 DEF ReadReply, TypeChild, childVars
<1>5. CASE FdopenFails \/ CloseReadEnd
  <2>1. pipe' \in Seq(Reply) /\ Len(pipe') <= PipeCap
    <3>1. pipe' = <<>>
      BY <1>5 DEF FdopenFails, CloseReadEnd
    <3> QED BY <1>0, <3>1
  <2>2. rd' \in BOOLEAN /\ wr' \subseteq {"parent", "child"} /\ UNCHANGED childVars
    BY <1>5 DEF FdopenFails, CloseReadEnd, TypeChild
  <2> QED BY <2>1, <2>2 DEF TypeChild, childVars
<1>6. CASE Reap \/ ReapAndGiveUp
  BY <1>6 DEF Reap, ReapAndGiveUp, TypeChild, ioVars
<1>7. CASE ChildCompute
  <2>1. cin \in Nat /\ cin + 1 \in 1 .. Len(req) /\ cin + 1 \in 0 .. N
    BY <1>7, <1>0 DEF ChildCompute, TypeChild
  <2>2. PICK x \in Replies(b, cin + 1) : obuf' = Append(obuf, [n |-> cin + 1, v |-> x])
    BY <1>7 DEF ChildCompute
  <2>3. b \in Backends
    BY <1>7, <1>0 DEF ChildCompute
  <2>4. x \in Texts
    BY <2>1, <2>2, <2>3, RepliesType
  <2>5. [n |-> cin + 1, v |-> x] \in Reply
    BY <2>1, <2>4 DEF Reply
  <2>6. obuf' \in Seq(Reply)
    BY <2>2, <2>5, AppendProperties DEF TypeChild
  <2>7. cin' \in 0 .. N /\ child' \in {"run", "flush"} /\ died' = died
        /\ pipe' = pipe /\ rd' = rd /\ wr' = wr
    BY <1>7, <2>1 DEF ChildCompute, ioVars
  <2> QED BY <2>6, <2>7 DEF TypeChild
<1>8. CASE ChildWrite
  <2>1. Head(obuf) \in Reply /\ Tail(obuf) \in Seq(Reply)
    BY <1>8, HeadTailProperties DEF ChildWrite, TypeChild
  <2>2. pipe' \in Seq(Reply) /\ Len(pipe') <= PipeCap
    BY <1>8, <1>0, <2>1, AppendProperties DEF ChildWrite, TypeChild
  <2> QED BY <1>8, <2>1, <2>2 DEF ChildWrite, TypeChild
<1>9. CASE ChildBrokenPipe
  BY <1>9, <1>0 DEF ChildBrokenPipe, TypeChild
<1>10. CASE ChildChatter
  <2>1. [n |-> 0, v |-> "EXTRA"] \in Reply
    BY <1>0 DEF Reply, Texts
  <2>2. obuf' \in Seq(Reply)
    BY <1>10, <2>1, <1>0, AppendProperties DEF ChildChatter
  <2> QED BY <1>10, <2>2 DEF ChildChatter, TypeChild, ioVars
<1>11. CASE ChildExit
  BY <1>11 DEF ChildExit, TypeChild
<1>12. CASE ChildDies
  <2>1. b \in Backends
    BY <1>12, <1>0 DEF ChildDies
  <2>2. pipe' \in Seq(Reply) /\ Len(pipe') <= PipeCap
    <3>1. CASE pipe' = pipe
      BY <3>1 DEF TypeChild
    <3>2. CASE obuf # <<>> /\ Len(pipe) < PipeCap
               /\ pipe' = Append(pipe, [Head(obuf) EXCEPT !.v = "CUT"])
      <4>1. Head(obuf) \in Reply
        BY <3>2, HeadTailProperties DEF TypeChild
      <4>2. [Head(obuf) EXCEPT !.v = "CUT"] \in Reply
        BY <4>1 DEF Reply, Texts
      <4> QED BY <3>2, <4>2, <1>0, AppendProperties DEF TypeChild
    <3> QED BY <1>12, <3>1, <3>2 DEF ChildDies
  <2> QED BY <1>12, <1>0, <2>1, <2>2 DEF ChildDies, TypeChild
<1>13. CASE ChildHangs
  BY <1>13 DEF ChildHangs, TypeChild, ioVars
<1> QED
  BY <1>1, <1>2, <1>3, <1>4, <1>5, <1>6, <1>7, <1>8, <1>9, <1>10, <1>11, <1>12, <1>13
  DEF Next, Parent, ChildStep, Build, vars, BuildVector, BuildEmptyVerify,
      CloseRequests, SpawnFails, StartJudging, JudgeVector, Summarise, Halted

(* The voters named on a vector are finitely many of its voters.           *)
LEMMA OutliersFinite ==
  ASSUME NEW i
  PROVE  /\ Outliers(ops[i], Ballot(i)) \subseteq Seated(i)
         /\ Cardinality(Outliers(ops[i], Ballot(i))) \in Nat
         /\ Cardinality(Outliers(ops[i], Ballot(i))) > 0
              <=> Outliers(ops[i], Ballot(i)) # {}
<1> DEFINE out == Outliers(ops[i], Ballot(i))
<1>1. DOMAIN Ballot(i) = Seated(i)
  BY DEF Ballot
<1>2. out \subseteq Seated(i)
  BY <1>1 DEF Outliers
<1>3. IsFiniteSet(out)
  BY <1>2, SeatedFinite, FS_Subset
<1> QED BY <1>2, <1>3, FS_CardinalityType, FS_EmptySet

LEMMA FindingsType ==
  ASSUME NEW i \in Vectors
  PROVE  Findings(i) \subseteq
           [oracle : {"DIFF_mismatch", "VERIFY_mismatch", "DIFF_noconsensus"},
            vec : Vectors, who : Voters \cup {Nobody}]
<1>1. Outliers(ops[i], Ballot(i)) \subseteq Voters
  BY OutliersFinite, SeatedFinite
<1> QED BY <1>1 DEF Findings, Line

LEMMA StepTypeJudge ==
  ASSUME TypeOK, [Next]_vars PROVE TypeJudge'
<1> USE DEF TypeOK
<1>1. CASE UNCHANGED judgeVars
  BY <1>1 DEF TypeJudge, judgeVars
<1>2. CASE JudgeVector
  <2> DEFINE i   == iv + 1
             bad == Outliers(ops[i], Ballot(i))
  <2>1. i \in Vectors /\ iv' = i /\ iv' \in 0 .. N
    BY <1>2, ConstantsOK DEF JudgeVector, TypeJudge, Vectors, ConstantsOK
  <2>2. reports' = reports \cup Findings(i)
    BY <1>2 DEF JudgeVector
  <2>3. failures' \in Nat
    BY <1>2, OutliersFinite DEF JudgeVector, TypeJudge
  <2>4. refOutlier' \in Nat
    BY <1>2 DEF JudgeVector, TypeJudge
  <2>5. bdiv' \in [Backends -> Nat]
    BY <1>2 DEF JudgeVector, TypeJudge
  <2> QED BY <2>1, <2>2, <2>3, <2>4, <2>5, FindingsType DEF TypeJudge
<1> QED
  BY <1>1, <1>2
  DEF Next, Parent, ChildStep, Build, vars, BuildVector, BuildEmptyVerify,
      CloseRequests, Spawn, SpawnFails, CloseWriteEnd, FdopenFails, ReadReply, CloseReadEnd,
      Reap, ReapAndGiveUp, StartJudging, Summarise, ChildCompute, ChildWrite,
      ChildBrokenPipe, ChildChatter, ChildExit, ChildDies, ChildHangs, Halted

(* The program counter, the loop variable and the exit status.             *)
LEMMA StepTypeControl ==
  ASSUME TypeOK, Control, [Next]_vars PROVE TypeControl'
<1> USE DEF TypeOK
<1>0. N \in Nat /\ NB \in Nat
  BY ConstantsOK DEF ConstantsOK
<1>1. CASE UNCHANGED <<pc, tmpfile, b, exit>>
  BY <1>1 DEF TypeControl
<1>2. CASE CloseRequests \/ Spawn \/ SpawnFails \/ CloseReadEnd \/ StartJudging
  BY <1>2 DEF CloseRequests, Spawn, SpawnFails, CloseReadEnd, StartJudging, TypeControl
<1>3. CASE CloseWriteEnd \/ FdopenFails
  BY <1>3 DEF CloseWriteEnd, FdopenFails, TypeControl
<1>4. CASE Reap
  <2>1. b < NB
    BY <1>4 DEF Reap, Control
  <2> QED BY <1>0, <1>4, <2>1 DEF Reap, TypeControl
<1>5. CASE ReapAndGiveUp \/ Summarise
  BY <1>5 DEF ReapAndGiveUp, Summarise, TypeControl
<1> QED
  BY <1>1, <1>2, <1>3, <1>4, <1>5
  DEF Next, Parent, ChildStep, Build, vars, BuildVector, BuildEmptyVerify,
      ReadReply, JudgeVector, ChildCompute, ChildWrite, ChildBrokenPipe,
      ChildChatter, ChildExit, ChildDies, ChildHangs, Halted

-----------------------------------------------------------------------------
(* The child and the descriptors of its pipe follow the program counter.   *)
LEMMA StepControl ==
  ASSUME TypeOK, Control, [Next]_vars PROVE Control'
<1> USE DEF TypeOK
<1>0. N \in Nat /\ NB \in Nat /\ b \in 0 .. NB
  BY ConstantsOK DEF ConstantsOK, TypeControl
<1>1. CASE UNCHANGED <<pc, b, refhex, child, rd, wr>>
  BY <1>1 DEF Control
<1>2. ASSUME NEW kind, NEW truth, NEW x, BuildVector(kind, truth, x)
      PROVE  Control'
  BY <1>2 DEF BuildVector, Control, childVars, ioVars
<1>3. CASE BuildEmptyVerify
  BY <1>3 DEF BuildEmptyVerify, Control, childVars, ioVars
<1>4. CASE CloseRequests
  BY <1>4 DEF CloseRequests, Control, childVars, ioVars, setupVars
<1>5. CASE Spawn
  BY <1>5, <1>0 DEF Spawn, Control, setupVars
<1>6. CASE SpawnFails \/ StartJudging
  BY <1>6 DEF SpawnFails, StartJudging, Control, setupVars, childVars, ioVars
<1>7. CASE CloseWriteEnd \/ FdopenFails
  BY <1>7 DEF CloseWriteEnd, FdopenFails, Control, setupVars, childVars
<1>8. CASE CloseReadEnd
  BY <1>8 DEF CloseReadEnd, Control, setupVars, childVars
<1>9. CASE Reap
  BY <1>9, <1>0 DEF Reap, Control, setupVars, ioVars
<1>10. CASE ReapAndGiveUp
  BY <1>10 DEF ReapAndGiveUp, Control, setupVars, ioVars
<1>11. CASE Summarise
  BY <1>11 DEF Summarise, Control, setupVars, childVars, ioVars
<1>12. CASE ChildCompute \/ ChildChatter \/ ChildHangs
  BY <1>12 DEF ChildCompute, ChildChatter, ChildHangs, Control, setupVars, ioVars
<1>13. CASE ChildWrite
  BY <1>13 DEF ChildWrite, Control, setupVars
<1>14. CASE ChildBrokenPipe
  BY <1>14 DEF ChildBrokenPipe, Control, setupVars
<1>15. CASE ChildExit
  BY <1>15 DEF ChildExit, Control, setupVars
<1>16. CASE ChildDies
  BY <1>16 DEF ChildDies, Control, setupVars
<1> QED
  BY <1>1, <1>2, <1>3, <1>4, <1>5, <1>6, <1>7, <1>8, <1>9, <1>10, <1>11,
     <1>12, <1>13, <1>14, <1>15, <1>16
  DEF Next, Parent, ChildStep, Build, vars, setupVars, childVars, ioVars,
      ReadReply, JudgeVector, Halted

-----------------------------------------------------------------------------
(* A difference between the seated voters of a vector is what the oracle   *)
(* prints a line for.                                                      *)
LEMMA LineIffDiffer ==
  ASSUME NEW i
  PROVE  (Outliers(ops[i], Ballot(i)) # {} \/ NoConsensus(ops[i], Ballot(i)))
            <=> Differ(i)
<1>1. DOMAIN Ballot(i) = Seated(i)
  BY DEF Ballot
<1>2. Seated(i) \subseteq {Ref} \cup Nat
  BY SeatedFinite, ConstantsOK DEF Voters, Backends, ConstantsOK
<1>3. (Outliers(ops[i], Ballot(i)) # {} \/ NoConsensus(ops[i], Ballot(i)))
         <=> Differs(ops[i], Ballot(i))
  BY <1>1, <1>2, SeatedFinite, LineIffDiffers
<1> QED BY <1>1, <1>3 DEF Differs, Differ

(* The failure counter and the exit status follow the table.               *)
LEMMA StepJudged ==
  ASSUME TypeOK, Control, Judged, [Next]_vars PROVE Judged'
<1> USE DEF TypeOK
<1>0. N \in Nat /\ NB \in Nat /\ failures \in Nat /\ iv \in 0 .. N
  BY ConstantsOK DEF ConstantsOK, TypeJudge
<1>1. ASSUME UNCHANGED <<ops, refhex, bo, bprod>>
      PROVE  \A i : Differ(i)' <=> Differ(i)
  BY <1>1 DEF Differ, Seated, Answering, Ballot
<1>2. ASSUME pc \in {"build", "next", "forked", "collect", "giveup", "wait"},
             pc' = pc \/ pc' \in {"build", "next", "forked", "collect", "giveup", "wait"},
             UNCHANGED <<judgeVars, exit>>
      PROVE  Judged'
  BY <1>0, <1>2 DEF Judged, judgeVars
<1>3. CASE UNCHANGED <<pc, b, judgeVars, exit, setupVars, tableVars>>
  BY <1>1, <1>3 DEF Judged, judgeVars, setupVars, tableVars
<1>4. CASE StartJudging
  BY <1>0, <1>4 DEF StartJudging, Judged, judgeVars
<1>5. CASE SpawnFails \/ ReapAndGiveUp
  BY <1>0, <1>5 DEF SpawnFails, ReapAndGiveUp, Judged, judgeVars
<1>6. CASE JudgeVector
  <2> DEFINE i   == iv + 1
             bad == Outliers(ops[i], Ballot(i))
             none == NoConsensus(ops[i], Ballot(i))
  <2>1. /\ pc = "judge" /\ pc' = pc /\ b' = b /\ exit' = exit /\ iv' = i
        /\ UNCHANGED <<ops, refhex, bo, bprod>>
    BY <1>6 DEF JudgeVector, setupVars, tableVars
  <2>2. failures' = failures + Cardinality(bad) + (IF none THEN 1 ELSE 0)
    BY <1>6 DEF JudgeVector
  <2>3. failures' > 0 <=> failures > 0 \/ Cardinality(bad) > 0 \/ none
    BY <1>0, <2>2, OutliersFinite
  <2>4. failures' > 0 <=> failures > 0 \/ Differ(i)
    BY <2>3, OutliersFinite, LineIffDiffer
  <2>5. failures' > 0 <=> \E j \in 1 .. iv' : Differ(j)
    <3>1. 1 .. iv' = (1 .. iv) \cup {i}
      BY <1>0, <2>1
    <3> QED BY <2>4, <3>1 DEF Judged
  <2>6. failures' > 0 <=> \E j \in 1 .. iv' : Differ(j)'
    BY <1>1, <2>1, <2>5
  <2>7. exit' = -1 /\ b' = NB /\ pc' = "judge"
    BY <2>1 DEF Judged
  <2> QED BY <2>6, <2>7 DEF Judged
<1>7. CASE Summarise
  <2>1. pc = "judge" /\ iv = N /\ pc' = "done" /\ iv' = iv /\ failures' = failures
        /\ exit' = (IF failures > 0 THEN 1 ELSE 0)
        /\ UNCHANGED <<ops, refhex, bo, bprod>>
    BY <1>7 DEF Summarise, judgeVars, setupVars, tableVars
  <2>2. failures' > 0 <=> \E j \in 1 .. iv' : Differ(j)'
    BY <1>1, <2>1 DEF Judged
  <2> QED BY <1>0, <2>1, <2>2 DEF Judged
<1> QED
  BY <1>2, <1>3, <1>4, <1>5, <1>6, <1>7
  DEF Next, Parent, ChildStep, Build, vars, BuildVector, BuildEmptyVerify,
      CloseRequests, Spawn, CloseWriteEnd, FdopenFails, ReadReply, CloseReadEnd,
      Reap, ChildCompute, ChildWrite, ChildBrokenPipe, ChildChatter, ChildExit,
      ChildDies, ChildHangs, Halted

-----------------------------------------------------------------------------
(* IInv is inductive.                                                      *)
LEMMA InitIInv == Init => IInv
<1> SUFFICES ASSUME Init PROVE IInv
  OBVIOUS
<1>1. TypeOK
  BY InitTypeOK
<1>2. Control
  BY DEF Init, Control
<1>3. Judged
  <2>1. 1 .. iv = {}
    BY DEF Init
  <2> QED BY <2>1 DEF Init, Judged
<1> QED BY <1>1, <1>2, <1>3 DEF IInv

LEMMA StepIInv == IInv /\ [Next]_vars => IInv'
<1> SUFFICES ASSUME IInv, [Next]_vars PROVE IInv'
  OBVIOUS
<1>1. TypeOK /\ Control /\ Judged
  BY DEF IInv
<1>2. TypeOK'
  BY <1>1, StepTypeControl, StepTypeSetup, StepTypeTable, StepTypeChild,
     StepTypeJudge DEF TypeOK
<1> QED BY <1>1, <1>2, StepControl, StepJudged DEF IInv

THEOREM Inductive == Spec => []IInv
BY InitIInv, StepIInv, PTL DEF Spec

(* The arrays, the pipe and the counters keep to their types and bounds,   *)
(* for any number of vectors and backends and any pipe capacity.           *)
THEOREM TypeCorrect == Spec => []TypeOK
<1>1. IInv => TypeOK
  BY DEF IInv
<1> QED BY <1>1, Inductive, PTL

(* No path out of main(), the failing fdopen included, leaves a child      *)
(* process or an end of its pipe behind.                                   *)
THEOREM NoOrphans == Spec => []NoChildLeftBehind
<1>1. IInv => NoChildLeftBehind
  <2> SUFFICES ASSUME IInv, pc \in {"next", "judge", "done"}
               PROVE  child = "none" /\ ~ rd /\ wr = {}
    BY DEF NoChildLeftBehind
  <2>1. wr \subseteq {"parent", "child"}
    BY DEF IInv, TypeOK, TypeChild
  <2>2. child = "none" /\ ~ rd /\ "parent" \notin wr /\ "child" \notin wr
    BY DEF IInv, Control
  <2> QED BY <2>1, <2>2
<1> QED BY <1>1, Inductive, PTL

(* Whatever the voters answer and however many there are, the runner exits *)
(* with 0 only if no two seated voters differ on any vector, and with 1    *)
(* only if two of them do: the vote decides whom to blame and hides        *)
(* nothing.                                                                *)
THEOREM ExitSound == Spec => []ExitTellsDifference
<1>1. IInv => ExitTellsDifference
  <2> SUFFICES ASSUME IInv PROVE ExitTellsDifference
    OBVIOUS
  <2>1. /\ failures > 0 <=> \E i \in 1 .. iv : Differ(i)
        /\ exit \in {0, 1} => iv = N /\ (exit = 1 <=> failures > 0)
    BY DEF IInv, Judged
  <2> QED BY <2>1 DEF ExitTellsDifference, Vectors
<1> QED BY <1>1, Inductive, PTL

-----------------------------------------------------------------------------

Numbered == \A x \in Backends : \A k \in 1 .. Len(bo[x]) : bo[x][k].n = k

Aligned == \A k \in 1 .. Len(ops) : req[k].op = ops[k]

(* The columns of the backends still to come.                              *)
Untouched ==
  \A x \in Backends :
    x > b \/ (x = b /\ pc \notin {"collect", "wait"}) => bo[x] = <<>>

(* What has left the child.                                                *)
Passed == Len(bo[b]) + Len(pipe)

InPipe == \A k \in 1 .. Len(pipe) : Len(bo[b]) + k <= N => pipe[k].n = Len(bo[b]) + k

InBuffer == \A k \in 1 .. Len(obuf) : Passed + k <= N => obuf[k].n = Passed + k

(* A child that is gone had passed on everything, unless it died.          *)
InFull ==
  /\ child \in {"run", "flush"} => cin = Passed + Len(obuf)
  /\ child = "bye" => Passed + Len(obuf) >= N
  /\ child = "zombie" /\ b \notin died => Passed >= N

InFlight == rd => InPipe /\ InBuffer /\ InFull

Collected ==
  /\ pc = "wait" /\ b \notin died => Len(bo[b]) = N
  /\ \A x \in Backends : x < b /\ x \notin died => bprod[x] = N

Stream == Numbered /\ Aligned /\ Untouched /\ InFlight /\ Collected

-----------------------------------------------------------------------------
(* What the types and Control say of the things a step looks at.           *)
LEMMA StreamFacts ==
  ASSUME IInv
  PROVE  /\ N \in Nat /\ NB \in Nat /\ b \in 0 .. NB
         /\ \A x \in Backends : x \in Nat /\ Len(bo[x]) \in Nat /\ bo[x] \in Seq(Reply)
         /\ pipe \in Seq(Reply) /\ obuf \in Seq(Reply)
         /\ Len(pipe) \in Nat /\ Len(obuf) \in Nat /\ cin \in Nat
         /\ child # "none" \/ rd => b \in Backends
         /\ child # "none" \/ rd => Len(req) = N
<1>1. N \in Nat /\ NB \in Nat
  BY ConstantsOK DEF ConstantsOK
<1>2. b \in 0 .. NB
  BY DEF IInv, TypeOK, TypeControl
<1>3. bo \in [Backends -> Seq(Reply)]
  BY DEF IInv, TypeOK, TypeTable
<1>4. \A x \in Backends : x \in Nat /\ Len(bo[x]) \in Nat /\ bo[x] \in Seq(Reply)
  <2>1. \A x \in Backends : bo[x] \in Seq(Reply)
    BY <1>3
  <2> QED BY <1>1, <2>1, LenProperties DEF Backends
<1>5. pipe \in Seq(Reply) /\ obuf \in Seq(Reply) /\ cin \in 0 .. N
  BY DEF IInv, TypeOK, TypeChild
<1>6. Len(pipe) \in Nat /\ Len(obuf) \in Nat /\ cin \in Nat
  BY <1>1, <1>5, LenProperties
<1>7. rd => child # "none"
  BY DEF IInv, Control
<1>8. child # "none" => b \in Backends
  BY <1>1, <1>2 DEF IInv, Control, Backends
<1>9. child # "none" => Len(req) = N
  BY DEF IInv, Control, TypeOK, TypeSetup
<1> QED BY <1>1, <1>2, <1>4, <1>5, <1>6, <1>7, <1>8, <1>9

(* The steps that leave the replies where they are.                        *)
LEMMA StreamStays ==
  ASSUME Stream,
         UNCHANGED <<pc, b, ops, req, bo, bprod, pipe, obuf, child, cin, died, rd>>
  PROVE  Stream'
<1>1. Numbered' /\ Aligned' /\ Untouched'
  BY DEF Stream, Numbered, Aligned, Untouched
<1>2. InFlight'
  BY DEF Stream, InFlight, InPipe, InBuffer, InFull, Passed
<1>3. Collected'
  BY DEF Stream, Collected
<1> QED BY <1>1, <1>2, <1>3 DEF Stream

(* The runner's own phases, while no read end is open.                     *)
LEMMA StreamIdle ==
  ASSUME Stream, ~ rd, ~ rd',
         UNCHANGED <<b, ops, req, bo, bprod, died>>,
         pc \notin {"collect", "wait"}, pc' \notin {"collect", "wait"}
  PROVE  Stream'
BY DEF Stream, Numbered, Aligned, Untouched, InFlight, Collected

LEMMA StreamBuild ==
  ASSUME IInv, Stream, Build
  PROVE  Stream'
<1>1. CASE CloseRequests
  BY <1>1, StreamIdle DEF CloseRequests, IInv, Control, setupVars, tableVars, ioVars, childVars
<1>2. ASSUME NEW kind, NEW truth, ops' = Append(ops, kind), kind \in Kinds, truth \in Texts,
             req' = Append(req, [op |-> kind, truth |-> truth])
      PROVE  Aligned'
  <2>1. /\ ops \in Seq(Kinds) /\ req \in Seq([op : Kinds, truth : Texts])
        /\ Len(req) = Len(ops)
    BY DEF IInv, TypeOK, TypeSetup
  <2>2. Len(ops) \in Nat
    BY <2>1, LenProperties
  <2> DEFINE line == [op |-> kind, truth |-> truth]
  <2>3. line \in [op : Kinds, truth : Texts] /\ line.op = kind
    BY <1>2
  <2> HIDE DEF line
  <2>4. /\ Len(ops') = Len(ops) + 1 /\ ops'[Len(ops) + 1] = kind
        /\ \A k \in 1 .. Len(ops) : ops'[k] = ops[k]
    BY <1>2, <2>1, AppendProperties
  <2>5. /\ req'[Len(req) + 1] = line
        /\ \A k \in 1 .. Len(req) : req'[k] = req[k]
    BY <1>2, <2>1, <2>3, AppendProperties DEF line
  <2>6. SUFFICES ASSUME NEW k \in 1 .. Len(ops')
                 PROVE  req'[k].op = ops'[k]
    BY DEF Aligned
  <2>7. CASE k \in 1 .. Len(ops)
    BY <2>1, <2>4, <2>5, <2>7 DEF Stream, Aligned
  <2>8. CASE k = Len(ops) + 1
    BY <2>1, <2>3, <2>4, <2>5, <2>8
  <2> QED BY <2>2, <2>4, <2>7, <2>8
<1>3. ASSUME Aligned', ~ rd, ~ rd', UNCHANGED <<b, bo, bprod, died>>,
             pc = "build", pc' = "build"
      PROVE  Stream'
  BY <1>3 DEF Stream, Numbered, Untouched, InFlight, Collected
<1>4. CASE BuildEmptyVerify
  <2>1. "verify" \in Kinds /\ "00" \in Texts
    BY DEF Kinds, Texts
  <2> QED BY <1>2, <1>3, <1>4, <2>1
       DEF BuildEmptyVerify, IInv, Control, tableVars, ioVars, childVars
<1>5. ASSUME NEW kind \in DrawnKinds, NEW truth \in Truths(kind),
             NEW x \in Answers(Ref, kind, truth), BuildVector(kind, truth, x)
      PROVE  Stream'
  <2>1. kind \in Kinds
    BY ConstantsOK DEF ConstantsOK
  <2>2. truth \in Texts
    BY <2>1, TruthsType
  <2> QED BY <1>2, <1>3, <1>5, <2>1, <2>2
       DEF BuildVector, IInv, Control, tableVars, ioVars, childVars
<1> QED BY <1>1, <1>4, <1>5 DEF Build

LEMMA StreamSpawn ==
  ASSUME IInv, Stream, Spawn
  PROVE  Stream'
<1>1. /\ pc = "next" /\ pc' = "forked" /\ child' = "run" /\ cin' = 0 /\ obuf' = <<>>
      /\ pipe' = <<>> /\ rd' /\ UNCHANGED <<b, ops, req, bo, bprod, died>>
  BY DEF Spawn, setupVars, tableVars
<1>2. b \in Backends
  BY StreamFacts DEF Spawn, Backends
<1>3. bo[b] = <<>>
  BY <1>1, <1>2 DEF Stream, Untouched
<1>4. Len(<<>>) = 0
  OBVIOUS
<1>5. InFlight'
  BY <1>1, <1>3, <1>4 DEF InFlight, InPipe, InBuffer, InFull, Passed
<1> QED BY <1>1, <1>5 DEF Stream, Numbered, Aligned, Untouched, Collected

LEMMA StreamCloseWriteEnd ==
  ASSUME IInv, Stream, CloseWriteEnd
  PROVE  Stream'
<1>1. /\ pc = "forked" /\ pc' = "collect"
      /\ UNCHANGED <<b, ops, req, bo, bprod, pipe, obuf, child, cin, died, rd>>
  BY DEF CloseWriteEnd, setupVars, tableVars, childVars
<1>2. InFlight'
  BY <1>1 DEF Stream, InFlight, InPipe, InBuffer, InFull, Passed
<1> QED BY <1>1, <1>2 DEF Stream, Numbered, Aligned, Untouched, Collected

LEMMA StreamFdopenFails ==
  ASSUME IInv, Stream, FdopenFails
  PROVE  Stream'
<1>1. /\ pc = "forked" /\ pc' = "giveup" /\ ~ rd'
      /\ UNCHANGED <<b, ops, req, bo, bprod, died>>
  BY DEF FdopenFails, setupVars, tableVars, childVars
<1> QED BY <1>1 DEF Stream, Numbered, Aligned, Untouched, InFlight, Collected

(* The head of the pipe becomes the last line of the column.               *)
LEMMA StreamReadReply ==
  ASSUME IInv, Stream, ReadReply
  PROVE  Stream'
<1> DEFINE i == Len(bo[b]) + 1
           x == Head(pipe)
           y == IF x.v = "NA" THEN x ELSE [x EXCEPT !.v = Normalize(ops[i], x.v)]
<1>1. /\ pc = "collect" /\ pipe # <<>> /\ pipe' = Tail(pipe) /\ Len(bo[b]) < N
      /\ bo' = [bo EXCEPT ![b] = Append(@, y)]
      /\ UNCHANGED <<pc, b, ops, req, bprod, obuf, child, cin, died, rd>>
  BY DEF ReadReply, setupVars, childVars
<1>2. rd /\ b \in Backends
  BY <1>1, StreamFacts DEF IInv, Control
<1>3. /\ N \in Nat /\ bo[b] \in Seq(Reply) /\ Len(bo[b]) \in Nat
      /\ pipe \in Seq(Reply) /\ Len(pipe) \in Nat
  BY <1>2, StreamFacts
<1>4. x \in Reply /\ x = pipe[1] /\ Len(pipe) >= 1
  BY <1>1, <1>3, HeadTailProperties, EmptySeq, ElementOfSeq
<1>5. x.n = i
  BY <1>1, <1>2, <1>3, <1>4 DEF Stream, InFlight, InPipe
<1>6. y.n = i
  BY <1>4, <1>5 DEF Reply
<1>7. bo' = [bo EXCEPT ![b] = Append(bo[b], y)]
  BY <1>1
<1>8. bo'[b] = Append(bo[b], y) /\ \A z \in Backends : z # b => bo'[z] = bo[z]
  <2> HIDE DEF y
  <2> QED BY <1>2, <1>7 DEF IInv, TypeOK, TypeTable
<1>9. /\ Len(bo'[b]) = i /\ bo'[b][i] = y
      /\ \A k \in 1 .. Len(bo[b]) : bo'[b][k] = bo[b][k]
  <2> HIDE DEF y
  <2>1. /\ Len(Append(bo[b], y)) = Len(bo[b]) + 1
        /\ Append(bo[b], y)[Len(bo[b]) + 1] = y
        /\ \A k \in 1 .. Len(bo[b]) : Append(bo[b], y)[k] = bo[b][k]
    BY <1>3, AppendProperties
  <2> QED BY <1>8, <2>1
<1> HIDE DEF x, y
<1>10. Numbered'
  <2>1. SUFFICES ASSUME NEW z \in Backends, NEW k \in 1 .. Len(bo'[z])
                 PROVE  bo'[z][k].n = k
    BY DEF Numbered, Backends
  <2>2. CASE z # b
    BY <1>8, <2>1, <2>2 DEF Stream, Numbered
  <2>3. CASE z = b /\ k \in 1 .. Len(bo[b])
    BY <1>9, <2>3 DEF Stream, Numbered
  <2>4. CASE z = b /\ k = i
    BY <1>6, <1>9, <2>4
  <2> QED BY <1>3, <1>9, <2>2, <2>3, <2>4
<1>11. /\ Len(pipe') = Len(pipe) - 1
       /\ \A k \in 1 .. Len(pipe') : pipe'[k] = pipe[k + 1]
  <2>1. /\ Len(Tail(pipe)) = Len(pipe) - 1
        /\ \A k \in 1 .. Len(pipe) - 1 : Tail(pipe)[k] = pipe[k + 1]
    BY <1>1, <1>3, HeadTailProperties
  <2> QED BY <1>1, <2>1
<1>12. Passed' = Passed
  BY <1>1, <1>3, <1>9, <1>11 DEF Passed
<1>13. InPipe'
  <2>1. SUFFICES ASSUME NEW k \in 1 .. Len(pipe'), i + k <= N
                 PROVE  pipe'[k].n = i + k
    BY <1>1, <1>9 DEF InPipe
  <2> DEFINE n == Len(bo[b])
  <2>a. n \in Nat /\ N \in Nat
    BY <1>3
  <2>0. k \in Nat /\ k + 1 <= Len(pipe) /\ k + 1 \in 1 .. Len(pipe)
    BY <1>3, <1>11
  <2>2. n + (k + 1) <= N
    <3>1. n + 1 + k <= N
      BY <2>1
    <3> HIDE DEF n
    <3> QED BY <2>a, <2>0, <3>1
  <2>3. pipe[k + 1].n = Len(bo[b]) + (k + 1)
    BY <1>2, <2>0, <2>2 DEF Stream, InFlight, InPipe
  <2>4. pipe'[k] = pipe[k + 1]
    BY <1>11, <2>1
  <2>5. pipe'[k].n = n + (k + 1) /\ i + k = n + 1 + k
    BY <2>3, <2>4
  <2> HIDE DEF n
  <2> QED BY <2>a, <2>0, <2>5
<1>14. InBuffer'
  BY <1>1, <1>2, <1>12 DEF Stream, InFlight, InBuffer
<1>15. InFull'
  BY <1>1, <1>2, <1>12 DEF Stream, InFlight, InFull
<1>16. Untouched'
  BY <1>1, <1>2, <1>8, StreamFacts DEF Stream, Untouched
<1>17. Aligned' /\ Collected'
  BY <1>1 DEF Stream, Aligned, Collected
<1> QED BY <1>10, <1>13, <1>14, <1>15, <1>16, <1>17 DEF Stream, InFlight

(* End of file means that the child is gone.                               *)
LEMMA StreamCloseReadEnd ==
  ASSUME IInv, Stream, CloseReadEnd
  PROVE  Stream'
<1>1. /\ pc = "collect" /\ pc' = "wait" /\ ~ rd'
      /\ UNCHANGED <<b, ops, req, bo, bprod, died>>
  BY DEF CloseReadEnd, setupVars, tableVars, childVars
<1>2. rd /\ b \in Backends /\ Len(bo[b]) \in Nat /\ N \in Nat /\ child # "none"
  BY <1>1, StreamFacts DEF IInv, Control
<1>3. b \notin died => Len(bo[b]) = N
  <2>1. CASE Len(bo[b]) = N
    BY <2>1
  <2>2. CASE EndOfFile
    <3>1. child = "zombie" /\ Len(pipe) = 0
      BY <1>2, <2>2 DEF EndOfFile, IInv, Control, TypeOK, TypeChild
    <3>2. Len(bo[b]) <= N
      BY <1>2 DEF IInv, TypeOK, TypeTable
    <3> QED BY <1>2, <3>1, <3>2 DEF Stream, InFlight, InFull, Passed
  <2> QED BY <2>1, <2>2 DEF CloseReadEnd
<1> QED BY <1>1, <1>3 DEF Stream, Numbered, Aligned, Untouched, InFlight, Collected

LEMMA StreamReap ==
  ASSUME IInv, Stream, Reap
  PROVE  Stream'
<1>1. /\ pc = "wait" /\ pc' = "next" /\ b' = b + 1
      /\ bprod' = [bprod EXCEPT ![b] = Len(bo[b])]
      /\ UNCHANGED <<ops, req, bo, died, rd>>
  BY DEF Reap, setupVars, ioVars
<1>2. ~ rd /\ b \in Backends /\ \A z \in Backends : z \in Nat
  BY <1>1, StreamFacts DEF IInv, Control, Reap
<1>3. bprod \in [Backends -> 0 .. N]
  BY DEF IInv, TypeOK, TypeTable
<1>4. Collected'
  <2>1. SUFFICES ASSUME NEW z \in Backends, z < b + 1, z \notin died
                 PROVE  bprod'[z] = N
    BY <1>1 DEF Collected, Backends
  <2>2. CASE z = b
    BY <1>1, <1>2, <1>3, <2>1, <2>2 DEF Stream, Collected
  <2>3. CASE z # b
    BY <1>1, <1>2, <1>3, <2>1, <2>3 DEF Stream, Collected
  <2> QED BY <2>2, <2>3
<1>5. Untouched'
  BY <1>1, <1>2 DEF Stream, Untouched
<1> QED BY <1>1, <1>2, <1>4, <1>5 DEF Stream, Numbered, Aligned, InFlight

-----------------------------------------------------------------------------
(* A step of the child that keeps InFlight keeps the rest.                 *)
LEMMA StreamChild ==
  ASSUME Stream, UNCHANGED <<pc, b, ops, req, bo, bprod>>, died \subseteq died',
         InFlight'
  PROVE  Stream'
BY DEF Stream, Numbered, Aligned, Untouched, Collected

LEMMA StreamCompute ==
  ASSUME IInv, Stream, ChildCompute
  PROVE  Stream'
<1>1. /\ UNCHANGED <<pc, b, ops, req, bo, bprod, died, pipe, rd>>
      /\ child = "run" /\ child' \in {"run", "flush"} /\ cin' = cin + 1
  BY DEF ChildCompute, setupVars, tableVars, ioVars
<1>2. SUFFICES ASSUME rd PROVE InPipe' /\ InBuffer' /\ InFull'
  BY <1>1, StreamChild DEF InFlight
<1>3. /\ b \in Backends /\ Len(bo[b]) \in Nat /\ Len(pipe) \in Nat /\ Len(obuf) \in Nat
      /\ obuf \in Seq(Reply) /\ cin \in Nat /\ cin < Len(req) /\ Len(req) = N /\ N \in Nat
  BY <1>2, StreamFacts DEF ChildCompute
<1>4. PICK v \in Replies(b, cin + 1) : obuf' = Append(obuf, [n |-> cin + 1, v |-> v])
  BY DEF ChildCompute
<1> DEFINE r == [n |-> cin + 1, v |-> v]
<1>5. r \in Reply /\ r.n = cin + 1
  <2>1. cin + 1 \in 1 .. Len(req) /\ cin + 1 \in 0 .. N
    BY <1>3
  <2>2. v \in Texts
    BY <1>3, <1>4, <2>1, RepliesType DEF IInv
  <2> QED BY <2>1, <2>2 DEF Reply
<1> HIDE DEF r
<1>6. /\ Len(obuf') = Len(obuf) + 1 /\ obuf'[Len(obuf) + 1] = r
      /\ \A k \in 1 .. Len(obuf) : obuf'[k] = obuf[k]
  BY <1>3, <1>4, <1>5, AppendProperties DEF r
<1>7. Passed' = Passed /\ Passed \in Nat /\ cin = Passed + Len(obuf)
  BY <1>1, <1>2, <1>3 DEF Passed, Stream, InFlight, InFull
<1>8. InPipe'
  BY <1>1, <1>2 DEF Stream, InFlight, InPipe
<1>9. InBuffer'
  <2>1. SUFFICES ASSUME NEW k \in 1 .. Len(obuf'), Passed + k <= N
                 PROVE  obuf'[k].n = Passed + k
    BY <1>1, <1>7 DEF InBuffer
  <2>2. CASE k \in 1 .. Len(obuf)
    BY <1>2, <1>6, <2>1, <2>2 DEF Stream, InFlight, InBuffer
  <2>3. CASE k = Len(obuf) + 1
    BY <1>3, <1>5, <1>6, <1>7, <2>3
  <2> QED BY <1>3, <1>6, <2>2, <2>3
<1>10. InFull'
  BY <1>1, <1>3, <1>6, <1>7 DEF InFull
<1> QED BY <1>8, <1>9, <1>10

(* A line moves from the buffer to the end of the pipe; the one a dying    *)
(* child leaves behind keeps its number.                                   *)
LEMMA LineWritten ==
  ASSUME IInv, Stream, rd, obuf # <<>>, NEW r \in Reply, r.n = Head(obuf).n,
         pipe' = Append(pipe, r), UNCHANGED <<b, bo>>
  PROVE  /\ InPipe' /\ Passed' = Passed + 1 /\ Len(obuf) >= 1
         /\ Len(Tail(obuf)) = Len(obuf) - 1
         /\ \A k \in 1 .. Len(obuf) - 1 : Tail(obuf)[k] = obuf[k + 1]
<1>1. /\ b \in Backends /\ Len(bo[b]) \in Nat /\ Len(pipe) \in Nat /\ Len(obuf) \in Nat
      /\ pipe \in Seq(Reply) /\ obuf \in Seq(Reply) /\ N \in Nat
  BY StreamFacts
<1>2. /\ Len(obuf) >= 1 /\ Head(obuf) = obuf[1] /\ Len(Tail(obuf)) = Len(obuf) - 1
      /\ \A k \in 1 .. Len(obuf) - 1 : Tail(obuf)[k] = obuf[k + 1]
  BY <1>1, HeadTailProperties, EmptySeq
<1>3. /\ Len(pipe') = Len(pipe) + 1 /\ pipe'[Len(pipe) + 1] = r
      /\ \A k \in 1 .. Len(pipe) : pipe'[k] = pipe[k]
  BY <1>1, AppendProperties
<1>4. Passed' = Passed + 1 /\ Passed \in Nat
  <2>1. Len(bo'[b']) = Len(bo[b])
    OBVIOUS
  <2>2. Len(pipe') = Len(pipe) + 1
    BY <1>3
  <2> DEFINE n == Len(bo[b])
             m == Len(pipe)
  <2>3. Passed = n + m /\ Passed' = n + (m + 1) /\ n \in Nat /\ m \in Nat
    BY <1>1, <2>1, <2>2 DEF Passed
  <2> HIDE DEF n, m
  <2> QED BY <2>3
<1>5. Passed + 1 <= N => r.n = Passed + 1
  <2>1. 1 \in 1 .. Len(obuf)
    BY <1>1, <1>2
  <2> QED BY <1>2, <2>1 DEF Stream, InFlight, InBuffer
<1>6. InPipe'
  <2>1. SUFFICES ASSUME NEW k \in 1 .. Len(pipe'), Len(bo[b]) + k <= N
                 PROVE  pipe'[k].n = Len(bo[b]) + k
    BY DEF InPipe
  <2> k \in Nat
    BY <1>1, <1>3, <2>1
  <2>2. CASE k \in 1 .. Len(pipe)
    BY <1>3, <2>1, <2>2 DEF Stream, InFlight, InPipe
  <2>3. CASE k = Len(pipe) + 1
    <3> DEFINE n == Len(bo[b])
               m == Len(pipe)
    <3>1. pipe'[k] = r /\ k = m + 1 /\ n + k <= N /\ n \in Nat /\ m \in Nat /\ Passed = n + m
      BY <1>1, <1>3, <2>1, <2>3 DEF Passed
    <3> HIDE DEF n, m
    <3>2. Passed + 1 <= N /\ n + k = Passed + 1
      BY <1>1, <3>1
    <3>3. pipe'[k].n = n + k
      BY <1>5, <3>1, <3>2
    <3> QED BY <3>3 DEF n
  <2> QED BY <1>1, <1>3, <2>2, <2>3
<1> QED BY <1>2, <1>4, <1>6

LEMMA StreamWrite ==
  ASSUME IInv, Stream, ChildWrite
  PROVE  Stream'
<1>1. /\ UNCHANGED <<pc, b, ops, req, bo, bprod, died, rd, cin>>
      /\ rd /\ child \in {"flush", "bye"} /\ obuf # <<>>
      /\ pipe' = Append(pipe, Head(obuf)) /\ obuf' = Tail(obuf)
      /\ child' = IF child = "flush" /\ obuf' = <<>> THEN "run" ELSE child
  BY DEF ChildWrite, setupVars, tableVars
<1>2. SUFFICES InPipe' /\ InBuffer' /\ InFull'
  BY <1>1, StreamChild DEF InFlight
<1>3. /\ b \in Backends /\ Len(bo[b]) \in Nat /\ Len(pipe) \in Nat /\ Len(obuf) \in Nat
      /\ obuf \in Seq(Reply) /\ cin \in Nat /\ N \in Nat /\ Passed \in Nat
  BY <1>1, StreamFacts DEF Passed
<1>4. Head(obuf) \in Reply
  BY <1>1, <1>3, HeadTailProperties
<1>5. /\ InPipe' /\ Passed' = Passed + 1 /\ Len(obuf) >= 1
      /\ Len(obuf') = Len(obuf) - 1
      /\ \A k \in 1 .. Len(obuf) - 1 : obuf'[k] = obuf[k + 1]
  BY <1>1, <1>4, LineWritten
<1>6. InBuffer'
  <2>1. SUFFICES ASSUME NEW k \in 1 .. Len(obuf'), Passed + 1 + k <= N
                 PROVE  obuf'[k].n = Passed + 1 + k
    BY <1>5 DEF InBuffer
  <2>2. k + 1 \in 1 .. Len(obuf) /\ Passed + (k + 1) <= N /\ k \in 1 .. Len(obuf) - 1
    BY <1>3, <1>5, <2>1
  <2>3. obuf[k + 1].n = Passed + (k + 1)
    BY <1>1, <2>2 DEF Stream, InFlight, InBuffer
  <2> QED BY <1>3, <1>5, <2>2, <2>3
<1>7. InFull'
  BY <1>1, <1>3, <1>5 DEF Stream, InFlight, InFull
<1> QED BY <1>5, <1>6, <1>7

LEMMA StreamDies ==
  ASSUME IInv, Stream, ChildDies
  PROVE  Stream'
<1>1. /\ UNCHANGED <<pc, b, ops, req, bo, bprod, rd>>
      /\ child' = "zombie" /\ died' = died \cup {b} /\ obuf' = <<>>
  BY DEF ChildDies, setupVars, tableVars
<1>2. SUFFICES ASSUME rd PROVE InPipe' /\ InBuffer' /\ InFull'
  BY <1>1, StreamChild DEF InFlight
<1>3. InBuffer' /\ InFull'
  BY <1>1 DEF InBuffer, InFull
<1>4. CASE pipe' = pipe
  BY <1>1, <1>2, <1>3, <1>4 DEF Stream, InFlight, InPipe
<1>5. CASE obuf # <<>> /\ pipe' = Append(pipe, [Head(obuf) EXCEPT !.v = "CUT"])
  <2>1. Head(obuf) \in Reply
    BY <1>5, StreamFacts, HeadTailProperties
  <2>2. /\ [Head(obuf) EXCEPT !.v = "CUT"] \in Reply
        /\ [Head(obuf) EXCEPT !.v = "CUT"].n = Head(obuf).n
    BY <2>1 DEF Reply, Texts
  <2>3. InPipe'
    BY <1>1, <1>2, <1>5, <2>2, LineWritten
  <2> QED BY <1>3, <2>3
<1> QED BY <1>4, <1>5 DEF ChildDies

LEMMA StreamExit ==
  ASSUME IInv, Stream, ChildExit
  PROVE  Stream'
<1>1. /\ UNCHANGED <<pc, b, ops, req, bo, bprod, died, rd, cin, pipe, obuf>>
      /\ child \in {"run", "bye"} /\ child' = "zombie" /\ cin = Len(req) /\ obuf = <<>>
  BY DEF ChildExit, setupVars, tableVars
<1>2. SUFFICES ASSUME rd PROVE InPipe' /\ InBuffer' /\ InFull'
  BY <1>1, StreamChild DEF InFlight
<1>3. Len(obuf) = 0 /\ Passed \in Nat /\ Len(req) = N /\ N \in Nat
  BY <1>1, <1>2, StreamFacts, EmptySeq DEF Passed
<1>4. InPipe' /\ InBuffer'
  BY <1>1, <1>2 DEF Stream, InFlight, InPipe, InBuffer, Passed
<1>5. Passed' = Passed
  BY <1>1 DEF Passed
<1>6. Passed >= N
  BY <1>1, <1>2, <1>3 DEF Stream, InFlight, InFull
<1> QED BY <1>1, <1>4, <1>5, <1>6 DEF InFull

LEMMA StreamChatter ==
  ASSUME IInv, Stream, ChildChatter
  PROVE  Stream'
<1>1. /\ UNCHANGED <<pc, b, ops, req, bo, bprod, died, rd, cin, pipe>>
      /\ child = "run" /\ child' = "bye" /\ cin = Len(req) /\ obuf = <<>>
      /\ obuf' = <<[n |-> 0, v |-> "EXTRA"]>>
  BY DEF ChildChatter, setupVars, tableVars, ioVars
<1>2. SUFFICES ASSUME rd PROVE InPipe' /\ InBuffer' /\ InFull'
  BY <1>1, StreamChild DEF InFlight
<1>3. Len(obuf) = 0 /\ Passed \in Nat /\ Len(req) = N /\ N \in Nat /\ Len(obuf') = 1
  BY <1>1, <1>2, StreamFacts, EmptySeq DEF Passed
<1>4. Passed' = Passed /\ Passed = N
  BY <1>1, <1>2, <1>3 DEF Passed, Stream, InFlight, InFull
<1>5. InPipe'
  BY <1>1, <1>2 DEF Stream, InFlight, InPipe
<1>6. InBuffer'
  BY <1>3, <1>4 DEF InBuffer
<1> QED BY <1>1, <1>3, <1>4, <1>5, <1>6 DEF InFull

LEMMA StreamHangs ==
  ASSUME Stream, ChildHangs
  PROVE  Stream'
<1>1. /\ UNCHANGED <<pc, b, ops, req, bo, bprod, died, rd, cin, pipe, obuf>>
      /\ child' = "hung"
  BY DEF ChildHangs, setupVars, tableVars, ioVars
<1>2. InFlight'
  BY <1>1 DEF Stream, InFlight, InPipe, InBuffer, InFull, Passed
<1> QED BY <1>1, <1>2, StreamChild

-----------------------------------------------------------------------------
LEMMA StreamInit == Init => Stream
<1> SUFFICES ASSUME Init PROVE Stream
  OBVIOUS
<1>1. /\ pc = "build" /\ req = <<>> /\ ops = <<>> /\ b = 0 /\ ~ rd
      /\ bo = [x \in Backends |-> <<>>]
  BY DEF Init
<1>2. \A x \in Backends : bo[x] = <<>> /\ x \in Nat
  BY <1>1, ConstantsOK DEF Backends, ConstantsOK
<1>3. Numbered /\ Aligned /\ Untouched
  BY <1>1, <1>2 DEF Numbered, Aligned, Untouched
<1> QED BY <1>1, <1>2, <1>3 DEF Stream, InFlight, Collected

LEMMA StreamStep == IInv /\ Stream /\ [Next]_vars => Stream'
<1> SUFFICES ASSUME IInv, Stream, [Next]_vars PROVE Stream'
  OBVIOUS
<1>1. CASE Build
  BY <1>1, StreamBuild
<1>2. CASE Spawn \/ CloseWriteEnd \/ FdopenFails
  BY <1>2, StreamSpawn, StreamCloseWriteEnd, StreamFdopenFails
<1>3. CASE ReadReply \/ CloseReadEnd \/ Reap
  BY <1>3, StreamReadReply, StreamCloseReadEnd, StreamReap
<1>4. CASE SpawnFails \/ StartJudging \/ Summarise
  BY <1>4, StreamIdle
  DEF SpawnFails, StartJudging, Summarise, IInv, Control, setupVars, tableVars, childVars, ioVars
<1>5. CASE ReapAndGiveUp
  BY <1>5, StreamIdle DEF ReapAndGiveUp, IInv, Control, setupVars, tableVars, ioVars
<1>6. CASE JudgeVector \/ UNCHANGED vars
  BY <1>6, StreamStays DEF JudgeVector, vars, setupVars, tableVars, childVars, ioVars
<1>7. CASE ChildCompute \/ ChildWrite \/ ChildChatter
  BY <1>7, StreamCompute, StreamWrite, StreamChatter
<1>8. CASE ChildBrokenPipe
  <2>1. ~ rd' /\ UNCHANGED <<pc, b, ops, req, bo, bprod, died>>
    BY <1>8 DEF ChildBrokenPipe, setupVars, tableVars
  <2> QED BY <2>1, StreamChild DEF InFlight
<1>9. CASE ChildExit \/ ChildDies \/ ChildHangs
  BY <1>9, StreamExit, StreamDies, StreamHangs
<1> QED
  BY <1>1, <1>2, <1>3, <1>4, <1>5, <1>6, <1>7, <1>8, <1>9
  DEF Next, Parent, ChildStep, Halted

LEMMA StreamAlways == Spec => []Stream
BY StreamInit, StreamStep, Inductive, PTL DEF Spec

(* Draws that fail, buffering, deaths and chatter do not shift a column:   *)
(* slot i of every backend holds its reply to line i, which asked for the  *)
(* operation that ops[] and refhex[] have at i.                            *)
THEOREM RepliesInLockstep == Spec => []Lockstep
<1>1. IInv /\ Stream => Lockstep
  <2> SUFFICES ASSUME IInv, Stream PROVE Lockstep
    OBVIOUS
  <2>1. Len(req) = Len(refhex) /\ Len(ops) = Len(refhex) /\ Len(refhex) \in Nat
    BY LenProperties DEF IInv, TypeOK, TypeSetup
  <2>2. pc # "build" => Len(refhex) = N
    BY DEF IInv, Control
  <2> QED BY <2>1, <2>2 DEF Stream, Numbered, Aligned, Lockstep
<1> QED BY <1>1, Inductive, StreamAlways, PTL

(* Closing the write end, reading to the end of file and waiting for the   *)
(* child loses no reply of a child that did not die, for any capacity of   *)
(* the pipe and of its buffer.                                             *)
THEOREM NothingLost == Spec => []CompleteUnlessDied
<1>1. Stream => CompleteUnlessDied
  BY DEF Stream, Collected, CompleteUnlessDied
<1> QED BY <1>1, StreamAlways, PTL

-----------------------------------------------------------------------------
(* Between two actions a child that writes has something to write, one     *)
(* that has read everything has written everything, and only a chatty one  *)
(* is saying goodbye.                                                      *)
ChildTidy ==
  /\ child = "flush" => obuf # <<>>
  /\ child = "run" /\ cin = Len(req) => obuf = <<>>
  /\ child = "bye" => b \in Chatty /\ cin = Len(req)

LEMMA ChildTidyInit == Init => ChildTidy
BY DEF Init, ChildTidy

LEMMA ChildTidyStep == IInv /\ ChildTidy /\ [Next]_vars => ChildTidy'
<1> SUFFICES ASSUME IInv, ChildTidy, [Next]_vars PROVE ChildTidy'
  OBVIOUS
<1>1. CASE UNCHANGED <<child, obuf, cin, req, b>>
  BY <1>1 DEF ChildTidy
<1>2. CASE child' \in {"none", "zombie", "hung"}
  BY <1>2 DEF ChildTidy
<1>3. CASE Build
  <2>1. pc = "build" /\ UNCHANGED childVars
    BY <1>3 DEF Build, BuildVector, BuildEmptyVerify, CloseRequests
  <2>2. child = "none"
    BY <2>1 DEF IInv, Control
  <2> QED BY <1>2, <2>1, <2>2 DEF childVars
<1>4. CASE Spawn
  BY <1>4 DEF Spawn, ChildTidy
<1>5. CASE ChildCompute
  <2>1. PICK r : obuf' = Append(obuf, r)
    BY <1>5 DEF ChildCompute
  <2>2. obuf' # <<>>
    <3>1. obuf \in Seq(Reply)
      BY StreamFacts
    <3> QED BY <2>1, <3>1
  <2>3. /\ child' \in {"run", "flush"} /\ req' = req
        /\ child' = "run" => cin' # Len(req)
    BY <1>5 DEF ChildCompute, setupVars
  <2> QED BY <2>2, <2>3 DEF ChildTidy
<1>6. CASE ChildWrite
  <2>1. /\ child \in {"flush", "bye"} /\ UNCHANGED <<cin, req, b>>
        /\ child' = IF child = "flush" /\ obuf' = <<>> THEN "run" ELSE child
    BY <1>6 DEF ChildWrite, setupVars
  <2> QED BY <2>1 DEF ChildTidy
<1>7. CASE ChildBrokenPipe
  <2>1. /\ child \in {"flush", "bye"} /\ UNCHANGED <<cin, req, b>> /\ obuf' = <<>>
        /\ child' = "zombie" \/ child' = IF child = "flush" THEN "run" ELSE "bye"
    BY <1>7 DEF ChildBrokenPipe, setupVars
  <2> QED BY <2>1 DEF ChildTidy
<1>8. CASE ChildChatter
  BY <1>8 DEF ChildChatter, ChildTidy, setupVars
<1>9. CASE Reap \/ ReapAndGiveUp \/ ChildExit \/ ChildDies \/ ChildHangs
  BY <1>2, <1>9 DEF Reap, ReapAndGiveUp, ChildExit, ChildDies, ChildHangs
<1>10. CASE SpawnFails \/ CloseWriteEnd \/ FdopenFails \/ ReadReply \/ CloseReadEnd
  BY <1>1, <1>10
  DEF SpawnFails, CloseWriteEnd, FdopenFails, ReadReply, CloseReadEnd, childVars, setupVars
<1>11. CASE StartJudging \/ JudgeVector \/ Summarise \/ Halted \/ UNCHANGED vars
  BY <1>1, <1>11 DEF StartJudging, JudgeVector, Summarise, Halted, vars, childVars, setupVars
<1> QED
  BY <1>3, <1>4, <1>5, <1>6, <1>7, <1>8, <1>9, <1>10, <1>11 DEF Next, Parent, ChildStep

LEMMA ChildTidyAlways == Spec => []ChildTidy
BY ChildTidyInit, ChildTidyStep, Inductive, PTL DEF Spec

(* The guards of the actions of Parent: BuildVector, CloseRequests, Spawn, *)
(* StartJudging, CloseWriteEnd, ReadReply, CloseReadEnd, Reap or           *)
(* ReapAndGiveUp, JudgeVector, Summarise.                                  *)
ParentMay ==
  \/ /\ pc = "build" /\ Len(refhex) < N
     /\ \E kind \in DrawnKinds : \E truth \in Truths(kind) : Answers(Ref, kind, truth) # {}
  \/ pc = "build" /\ Len(refhex) = N
  \/ pc = "next" /\ b < NB
  \/ pc = "next" /\ b = NB
  \/ pc = "forked"
  \/ pc = "collect" /\ Len(bo[b]) < N /\ pipe # <<>>
  \/ pc = "collect" /\ (Len(bo[b]) = N \/ EndOfFile)
  \/ pc \in {"wait", "giveup"} /\ child = "zombie"
  \/ pc = "judge" /\ iv < N
  \/ pc = "judge" /\ iv = N

(* The guards of the actions of ChildStep: ChildCompute, ChildWrite,       *)
(* ChildBrokenPipe, ChildChatter, ChildExit.                               *)
ChildMay ==
  \/ child = "run" /\ cin < Len(req) /\ Replies(b, cin + 1) # {}
  \/ child \in {"flush", "bye"} /\ obuf # <<>> /\ rd /\ Len(pipe) < PipeCap
  \/ child \in {"flush", "bye"} /\ obuf # <<>> /\ ~ rd
  \/ child = "run" /\ cin = Len(req) /\ obuf = <<>> /\ b \in Chatty
  \/ cin = Len(req) /\ obuf = <<>> /\ child = (IF b \in Chatty THEN "bye" ELSE "run")

LEMMA AnswersExist ==
  ASSUME NEW who, NEW kind, NEW truth
  PROVE  Answers(who, kind, truth) # {}
<1>1. WrongAnswers(kind) # {}
  BY DEF WrongAnswers
<1>2. RightAnswers(truth) # {}
  BY DEF RightAnswers
<1> QED BY <1>1, <1>2 DEF Answers

LEMMA RepliesExist ==
  ASSUME NEW who, NEW n
  PROVE  Replies(who, n) # {}
<1>1. PICK x : x \in Answers(who, req[n].op, req[n].truth)
  BY AnswersExist
<1> QED BY <1>1 DEF Replies

(* A child that neither is gone nor hangs can go on while nobody fills the *)
(* pipe it writes to, and when nobody reads any more.                      *)
LEMMA ChildGoesOn ==
  ASSUME IInv, ChildTidy, child \in {"run", "flush", "bye"}, rd => pipe = <<>>
  PROVE  ChildMay
<1>1. cin \in 0 .. N /\ Len(req) = N /\ N \in Nat /\ PipeCap > 0 /\ rd \in BOOLEAN
  BY StreamFacts, ConstantsOK DEF ConstantsOK, IInv, TypeOK, TypeChild
<1>2. rd => Len(pipe) < PipeCap
  <2>1. Len(<<>>) = 0
    OBVIOUS
  <2> QED BY <1>1, <2>1
<1>3. CASE child = "run" /\ cin < Len(req)
  BY <1>3, RepliesExist DEF ChildMay
<1>4. CASE child = "run" /\ cin = Len(req)
  BY <1>4 DEF ChildMay, ChildTidy
<1>5. CASE child \in {"flush", "bye"} /\ obuf # <<>>
  BY <1>1, <1>2, <1>5 DEF ChildMay
<1>6. CASE child \in {"flush", "bye"} /\ obuf = <<>>
  BY <1>6 DEF ChildMay, ChildTidy
<1> QED BY <1>1, <1>3, <1>4, <1>5, <1>6

(* Nobody waits for nobody: until main() has returned or the child hangs,  *)
(* the runner or its child can take its next step.  The parent closes its  *)
(* copy of the write end before it reads and the read end before it waits, *)
(* so that neither an open pipe nor a full one holds both up               *)
(* (diff_subproc_runner.c:484, 499-500).                                   *)
THEOREM NeverStuck ==
  Spec => [](pc = "done" \/ child = "hung" \/ ParentMay \/ ChildMay)
<1>1. IInv /\ ChildTidy => pc = "done" \/ child = "hung" \/ ParentMay \/ ChildMay
  <2> SUFFICES ASSUME IInv, ChildTidy, pc # "done", child # "hung", ~ ChildMay
               PROVE  ParentMay
    OBVIOUS
  <2>1. /\ N \in Nat /\ NB \in Nat /\ b \in 0 .. NB /\ iv \in 0 .. N
        /\ Len(refhex) \in Nat /\ Len(refhex) <= N
        /\ pc \in {"build", "next", "forked", "collect", "giveup", "wait", "judge"}
        /\ child \in {"none", "run", "flush", "bye", "zombie"}
        /\ rd \in BOOLEAN /\ wr \subseteq {"parent", "child"}
    BY ConstantsOK, LenProperties
    DEF ConstantsOK, IInv, TypeOK, TypeControl, TypeSetup, TypeChild, TypeJudge
  <2>2. CASE pc = "build"
    <3>1. PICK kind \in DrawnKinds : TRUE
      BY ConstantsOK DEF ConstantsOK
    <3>2. PICK truth \in Truths(kind) : TRUE
      BY DEF Truths
    <3>3. Answers(Ref, kind, truth) # {}
      BY AnswersExist
    <3> QED BY <2>1, <2>2, <3>3 DEF ParentMay
  <2>3. CASE pc = "next" \/ pc = "forked" \/ pc = "judge"
    BY <2>1, <2>3 DEF ParentMay
  <2>4. CASE pc = "collect"
    <3>1. b \in Backends /\ Len(bo[b]) \in Nat /\ Len(bo[b]) <= N
      <4>1. b \in Backends
        BY <2>4, StreamFacts DEF IInv, Control
      <4> QED BY <4>1, StreamFacts DEF IInv, TypeOK, TypeTable
    <3>2. CASE pipe # <<>>
      BY <2>1, <2>4, <3>1, <3>2 DEF ParentMay
    <3>3. CASE pipe = <<>>
      <4>1. child \notin {"run", "flush", "bye"}
        BY <3>3, ChildGoesOn
      <4>2. wr = {}
        BY <2>1, <2>4, <4>1 DEF IInv, Control
      <4> QED BY <2>4, <3>3, <4>2 DEF ParentMay, EndOfFile
    <3> QED BY <3>2, <3>3
  <2>5. CASE pc \in {"wait", "giveup"}
    <3>1. ~ rd /\ child # "none"
      BY <2>1, <2>5 DEF IInv, Control
    <3>2. child \notin {"run", "flush", "bye"}
      BY <3>1, ChildGoesOn
    <3> QED BY <2>1, <2>5, <3>1, <3>2 DEF ParentMay
  <2> QED BY <2>1, <2>2, <2>3, <2>4, <2>5
<1> QED BY <1>1, Inductive, ChildTidyAlways, PTL

-----------------------------------------------------------------------------
(* What is left to do: vectors to draw and to judge, and backends to run;  *)
(* and of the present child, lines to read, to write and to be read.       *)
Phase ==
  CASE pc = "build"   -> 6
    [] pc = "next"    -> 5
    [] pc = "forked"  -> 4
    [] pc = "collect" -> 3
    [] pc \in {"wait", "giveup"} -> 2
    [] pc = "judge"   -> 1
    [] OTHER          -> 0

Stage ==
  CASE child \in {"run", "flush"} -> 5
    [] child = "bye"              -> 2
    [] OTHER                      -> 0

Major == (N - Len(refhex)) + (N - iv) + 4 * (NB - b) + Phase
Minor == 4 * (N - cin) + 2 * Len(obuf) + Len(pipe) + Stage

Rank  == <<Major, Minor>>
Order == LexPairOrdering(OpToRel(<, Nat), OpToRel(<, Nat), Nat, Nat)

Lower == Major' < Major \/ (Major' = Major /\ Minor' < Minor)

LEMMA RankFacts ==
  ASSUME IInv
  PROVE  /\ N \in Nat /\ NB \in Nat /\ b \in Nat /\ b <= NB /\ iv \in Nat /\ iv <= N
         /\ Len(refhex) \in Nat /\ Len(refhex) <= N /\ refhex \in Seq(Texts)
         /\ cin \in Nat /\ cin <= N
         /\ Len(obuf) \in Nat /\ Len(pipe) \in Nat /\ obuf \in Seq(Reply) /\ pipe \in Seq(Reply)
<1>1. b \in 0 .. NB /\ iv \in 0 .. N /\ cin \in 0 .. N
  BY DEF IInv, TypeOK, TypeControl, TypeJudge, TypeChild
<1>2. refhex \in Seq(Texts) /\ Len(refhex) <= N
  BY DEF IInv, TypeOK, TypeSetup
<1>3. Len(refhex) \in Nat
  BY <1>2, LenProperties
<1> QED BY <1>1, <1>2, <1>3, StreamFacts

LEMMA RankType == IInv => Major \in Nat /\ Minor \in Nat
<1> SUFFICES ASSUME IInv PROVE Major \in Nat /\ Minor \in Nat
  OBVIOUS
<1>1. Phase \in Nat /\ Stage \in Nat
  BY DEF Phase, Stage
<1>2. /\ N - Len(refhex) \in Nat /\ N - iv \in Nat /\ 4 * (NB - b) \in Nat
      /\ 4 * (N - cin) \in Nat /\ 2 * Len(obuf) \in Nat /\ Len(pipe) \in Nat
  BY RankFacts
<1> QED BY <1>1, <1>2 DEF Major, Minor

(* Steps of the parent use up vectors, backends or phases.                 *)
LEMMA ParentLowers ==
  ASSUME IInv, Parent
  PROVE  Lower
<1>0. /\ N \in Nat /\ NB \in Nat /\ b \in Nat /\ b <= NB /\ iv \in Nat /\ iv <= N
      /\ Len(refhex) \in Nat /\ Len(refhex) <= N /\ refhex \in Seq(Texts)
      /\ cin \in Nat /\ Len(obuf) \in Nat /\ Len(pipe) \in Nat
  BY RankFacts
<1>1. CASE Build
  <2>1. CASE CloseRequests
    <3>1. pc = "build" /\ pc' = "next" /\ UNCHANGED <<refhex, iv, b>>
      BY <2>1 DEF CloseRequests, setupVars, judgeVars
    <3> QED BY <1>0, <3>1 DEF Lower, Major, Phase
  <2>2. CASE ~ CloseRequests
    <3>1. PICK x : refhex' = Append(refhex, x)
      BY <1>1, <2>2 DEF Build, BuildVector, BuildEmptyVerify
    <3>2. UNCHANGED <<pc, iv, b>>
      BY <1>1, <2>2 DEF Build, BuildVector, BuildEmptyVerify, judgeVars
    <3>3. Len(refhex') = Len(refhex) + 1
      BY <1>0, <3>1
    <3>4. Phase' = Phase /\ Phase \in Nat
      BY <3>2 DEF Phase
    <3> QED BY <1>0, <3>2, <3>3, <3>4 DEF Lower, Major
  <2> QED BY <2>1, <2>2
<1>2. CASE \/ Spawn \/ SpawnFails \/ CloseWriteEnd \/ FdopenFails \/ CloseReadEnd
           \/ ReapAndGiveUp \/ StartJudging \/ Summarise
  <2>1. UNCHANGED <<refhex, iv, b>>
    BY <1>2
    DEF Spawn, SpawnFails, CloseWriteEnd, FdopenFails, CloseReadEnd, ReapAndGiveUp,
        StartJudging, Summarise, setupVars, judgeVars
  <2>2. Phase' < Phase
    BY <1>2
    DEF Spawn, SpawnFails, CloseWriteEnd, FdopenFails, CloseReadEnd, ReapAndGiveUp,
        StartJudging, Summarise, Phase
  <2>3. Phase \in Nat /\ Phase' \in Nat
    BY DEF Phase
  <2> QED BY <1>0, <2>1, <2>2, <2>3 DEF Lower, Major
<1>3. CASE ReadReply
  <2>1. /\ pipe # <<>> /\ pipe' = Tail(pipe)
        /\ UNCHANGED <<pc, refhex, iv, b, child, cin, obuf>>
    BY <1>3 DEF ReadReply, setupVars, judgeVars, childVars
  <2>2. Len(pipe') = Len(pipe) - 1
    BY <2>1, RankFacts
  <2>3. Phase' = Phase /\ Stage' = Stage /\ Stage \in Nat
    BY <2>1 DEF Phase, Stage
  <2>4. Major' = Major
    BY <2>1, <2>3 DEF Major
  <2>5. Minor' < Minor
    BY <1>0, <2>1, <2>2, <2>3 DEF Minor
  <2> QED BY <2>4, <2>5 DEF Lower
<1>4. CASE Reap
  <2>1. UNCHANGED <<refhex, iv>> /\ b' = b + 1 /\ pc = "wait" /\ pc' = "next"
    BY <1>4 DEF Reap, setupVars, judgeVars
  <2> QED BY <1>0, <2>1 DEF Lower, Major, Phase
<1>5. CASE JudgeVector
  <2>1. UNCHANGED <<pc, refhex, b>> /\ iv' = iv + 1
    BY <1>5 DEF JudgeVector, setupVars
  <2>2. Phase' = Phase /\ Phase \in Nat
    BY <2>1 DEF Phase
  <2> QED BY <1>0, <2>1, <2>2 DEF Lower, Major
<1> QED BY <1>1, <1>2, <1>3, <1>4, <1>5 DEF Parent

(* Steps of the child use up lines: each is read, then written, then taken *)
(* out of the pipe; dying and hanging end it.                              *)
LEMMA ChildLowers ==
  ASSUME IInv, ChildStep \/ ChildDies \/ ChildHangs
  PROVE  Lower
<1>0. /\ N \in Nat /\ cin \in Nat /\ cin <= N
      /\ Len(obuf) \in Nat /\ Len(pipe) \in Nat /\ obuf \in Seq(Reply) /\ pipe \in Seq(Reply)
      /\ Len(<<>>) = 0
  BY RankFacts
<1>1. Major' = Major
  <2>1. UNCHANGED <<pc, refhex, iv, b>>
    BY DEF ChildStep, ChildCompute, ChildWrite, ChildBrokenPipe, ChildChatter, ChildExit,
           ChildDies, ChildHangs, setupVars, judgeVars
  <2> QED BY <2>1 DEF Major, Phase
<1>2. obuf # <<>> => Len(obuf) >= 1
  BY <1>0, EmptySeq
<1>3. CASE ChildCompute
  <2>1. PICK r : obuf' = Append(obuf, r)
    BY <1>3 DEF ChildCompute
  <2>2. /\ cin' = cin + 1 /\ pipe' = pipe
        /\ child = "run" /\ child' \in {"run", "flush"}
    BY <1>3 DEF ChildCompute, ioVars
  <2>3. Len(obuf') = Len(obuf) + 1
    BY <1>0, <2>1
  <2>4. Stage' = 5 /\ Stage = 5
    BY <2>2 DEF Stage
  <2>5. Minor' < Minor
    BY <1>0, <2>2, <2>3, <2>4 DEF Minor
  <2> QED BY <1>1, <2>5 DEF Lower
<1>4. CASE ChildWrite
  <2>1. /\ child \in {"flush", "bye"} /\ obuf # <<>> /\ cin' = cin
        /\ pipe' = Append(pipe, Head(obuf)) /\ obuf' = Tail(obuf)
        /\ child' = IF child = "flush" /\ obuf' = <<>> THEN "run" ELSE child
    BY <1>4 DEF ChildWrite
  <2>2. Len(pipe') = Len(pipe) + 1 /\ Len(obuf') = Len(obuf) - 1
    BY <1>0, <2>1
  <2>3. Stage' = Stage /\ Stage \in Nat
    BY <2>1 DEF Stage
  <2>4. Minor' < Minor
    BY <1>0, <2>1, <2>2, <2>3 DEF Minor
  <2> QED BY <1>1, <2>4 DEF Lower
<1>5. CASE ChildBrokenPipe
  <2>1. /\ child \in {"flush", "bye"} /\ obuf # <<>> /\ cin' = cin /\ pipe' = pipe
        /\ obuf' = <<>>
        /\ child' = "zombie" \/ child' = IF child = "flush" THEN "run" ELSE "bye"
    BY <1>5 DEF ChildBrokenPipe
  <2>2. Stage' <= Stage /\ Stage \in Nat /\ Stage' \in Nat
    BY <2>1 DEF Stage
  <2>3. Minor' < Minor
    BY <1>0, <1>2, <2>1, <2>2 DEF Minor
  <2> QED BY <1>1, <2>3 DEF Lower
<1>6. CASE ChildChatter
  <2>1. /\ child = "run" /\ child' = "bye" /\ cin' = cin /\ pipe' = pipe /\ obuf = <<>>
        /\ obuf' = <<[n |-> 0, v |-> "EXTRA"]>>
    BY <1>6 DEF ChildChatter, ioVars
  <2>2. Len(obuf') = 1
    BY <2>1
  <2>3. Stage' = 2 /\ Stage = 5
    BY <2>1 DEF Stage
  <2>4. Minor' < Minor
    BY <1>0, <2>1, <2>2, <2>3 DEF Minor
  <2> QED BY <1>1, <2>4 DEF Lower
<1>7. CASE ChildExit \/ ChildHangs
  <2>1. /\ child \in {"run", "flush", "bye"} /\ child' \in {"zombie", "hung"}
        /\ UNCHANGED <<cin, pipe, obuf>>
    BY <1>7 DEF ChildExit, ChildHangs, ioVars
  <2>2. Stage' = 0 /\ Stage \in {2, 5}
    BY <2>1 DEF Stage
  <2>3. Minor' < Minor
    BY <1>0, <2>1, <2>2 DEF Minor
  <2> QED BY <1>1, <2>3 DEF Lower
<1>8. CASE ChildDies
  <2>1. /\ child \in {"run", "flush"} /\ child' = "zombie" /\ cin' = cin /\ obuf' = <<>>
        /\ pipe' = pipe \/ \E r : pipe' = Append(pipe, r)
    BY <1>8 DEF ChildDies
  <2>2. Stage' = 0 /\ Stage = 5
    BY <2>1 DEF Stage
  <2>3. Len(pipe') \in Nat /\ Len(pipe') <= Len(pipe) + 1
    BY <1>0, <2>1
  <2>4. Minor' < Minor
    BY <1>0, <2>1, <2>2, <2>3 DEF Minor
  <2> QED BY <1>1, <2>4 DEF Lower
<1> QED BY <1>3, <1>4, <1>5, <1>6, <1>7, <1>8 DEF ChildStep

Descends == <<Rank', Rank>> \in Order

LEMMA OrderWellFounded == IsWellFoundedOn(Order, Nat \X Nat)
BY NatLessThanWellFounded, WFLexPairOrdering DEF Order

LEMMA LowerIsOrder ==
  ASSUME Major \in Nat, Minor \in Nat, Major' \in Nat, Minor' \in Nat, Lower
  PROVE  <<Rank', Rank>> \in Order
BY DEF Lower, Rank, Order, LexPairOrdering, OpToRel

(* The runner cannot go on for ever: every step of it or of its child      *)
(* lowers a pair of numbers in an order without infinite descents.  With   *)
(* NeverStuck, and a scheduler that runs what can run, this is why main()  *)
(* returns unless a child hangs.                                           *)
THEOREM StepsRunOut ==
  /\ IsWellFoundedOn(Order, Nat \X Nat)
  /\ Spec => [](Rank \in Nat \X Nat)
  /\ Spec => [][Descends]_vars
<1>1. IInv => Rank \in Nat \X Nat
  BY RankType DEF Rank
<1>2. (IInv => Major \in Nat /\ Minor \in Nat)'
  BY RankType, PTL
<1>3. IInv /\ IInv' /\ [Next]_vars => [Descends]_vars
  <2> SUFFICES ASSUME IInv, IInv', Next, vars' # vars PROVE Descends
    OBVIOUS
  <2>1. Lower
    BY ParentLowers, ChildLowers DEF Next, Halted
  <2> QED BY <1>2, <2>1, RankType, LowerIsOrder DEF Descends
<1> QED BY <1>1, <1>3, OrderWellFounded, Inductive, PTL DEF Spec
=============================================================================
