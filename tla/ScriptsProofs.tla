---------------------------- MODULE ScriptsProofs ---------------------------
(***************************************************************************)
(* Theorems about the scripts around the harnesses: the summary of a       *)
(* campaign, the specs, the clean and fault-injected programs, and of the  *)
(* constant-time engine the messages it signs and the leaks it calls.      *)
(***************************************************************************)
EXTENDS Scripts, FiniteSetTheorems, SequenceTheorems, WellFoundedInduction, TLAPS

-----------------------------------------------------------------------------
(* run_campaign.sh: the summary of a campaign, for any programs in         *)
(* build/harness, any number of campaigns and of lines of help.            *)

ProgramNumbers == DOMAIN Binaries

RowType == [bin : ProgramNumbers, status : {"VIOLATION", "CRASH", "ok"}, violated : BOOLEAN]

CampaignTypes ==
  /\ campaign \in Nat /\ taken \in Nat
  /\ cpc \in {"idle", "probe", "fuzz", "report"}
  /\ cpc # "idle" => bin \in ProgramNumbers
  /\ artifacts \in [ProgramNumbers -> SUBSET Nat]
  /\ log \in [ProgramNumbers -> SUBSET Nat]
  /\ summary \in Seq(RowType)
  /\ violated \in BOOLEAN

(* A program is only fuzzed when grep has read the line it looks for, and  *)
(* the log then tells what this run printed.                               *)
AtWork ==
  /\ cpc = "probe" /\ grep = "match" => taken = Binaries[bin] /\ taken # 0
  /\ cpc \in {"fuzz", "report"} => Binaries[bin] # 0
  /\ cpc = "report" => (log[bin] # {} <=> violated)

(* The rows are in the order of the programs, all of them before the one   *)
(* the campaign is at.                                                     *)
Ascending == \A j, k \in DOMAIN summary : j < k => summary[j].bin < summary[k].bin

Behind == cpc # "idle" => \A k \in DOMAIN summary : summary[k].bin < bin

TrueRow(r) ==
  /\ Binaries[r.bin] # 0
  /\ r.status = "VIOLATION" <=> r.violated
  /\ campaign \in artifacts[r.bin] => r.status # "ok"

RowsTrue == \A k \in DOMAIN summary : TrueRow(summary[k])

CampaignInv == CampaignTypes /\ AtWork /\ Ascending /\ Behind /\ RowsTrue

-----------------------------------------------------------------------------
LEMMA ProgramNumbersAre ==
  ASSUME C!CampaignConstantsOK
  PROVE  /\ ProgramNumbers = 1 .. Len(Binaries)
         /\ Len(Binaries) \in Nat /\ Len(Binaries) > 0
         /\ \A i \in ProgramNumbers : Binaries[i] \in Nat
<1>1. Binaries \in Seq(0 .. HelpLines) /\ HelpLines \in Nat
  BY DEF C!CampaignConstantsOK
<1>2. Binaries # <<>>
  BY DEF C!CampaignConstantsOK
<1>3. Len(Binaries) \in Nat /\ DOMAIN Binaries = 1 .. Len(Binaries)
  BY <1>1, LenProperties
<1>4. Len(Binaries) # 0
  BY <1>1, <1>2, EmptySeq
<1>5. \A i \in 1 .. Len(Binaries) : Binaries[i] \in 0 .. HelpLines
  BY <1>1, ElementOfSeq
<1> QED BY <1>1, <1>3, <1>4, <1>5 DEF ProgramNumbers

(* What is known of the rows that are there.                               *)
LEMMA RowsTyped ==
  ASSUME CampaignTypes
  PROVE  /\ Len(summary) \in Nat /\ DOMAIN summary = 1 .. Len(summary)
         /\ \A k \in DOMAIN summary : summary[k] \in RowType
BY LenProperties, ElementOfSeq DEF CampaignTypes

LEMMA CampaignInit ==
  ASSUME C!CampaignConstantsOK, C!Init
  PROVE  CampaignInv
<1>1. /\ campaign = 0 /\ cpc = "idle" /\ taken = 0 /\ grep = "reads"
      /\ summary = <<>> /\ violated = FALSE
      /\ artifacts = [i \in DOMAIN Binaries |-> {}]
      /\ log = [i \in DOMAIN Binaries |-> {}]
  BY DEF C!Init
<1>2. summary \in Seq(RowType) /\ DOMAIN summary = {}
  BY <1>1
<1>3. CampaignTypes
  BY <1>1, <1>2 DEF CampaignTypes, ProgramNumbers
<1> QED BY <1>1, <1>2, <1>3 DEF CampaignInv, AtWork, Ascending, Behind, RowsTrue

(* The steps that leave the rows, the artifacts and the campaign alone.    *)
LEMMA RowsKept ==
  ASSUME CampaignInv, UNCHANGED <<campaign, artifacts, summary>>
  PROVE  Ascending' /\ RowsTrue'
BY DEF CampaignInv, Ascending, RowsTrue, TrueRow

(* The next program comes after the one the campaign is at.                *)
LEMMA NextOne ==
  ASSUME C!CampaignConstantsOK, CampaignTypes, cpc # "idle", C!NextBinary
  PROVE  /\ bin \in ProgramNumbers /\ bin \in Nat /\ bin' = bin + 1
         /\ cpc' \in {"idle", "probe"} /\ grep' = "reads" /\ taken' = 0
         /\ cpc' # "idle" => bin' \in ProgramNumbers
BY ProgramNumbersAre DEF CampaignTypes, C!NextBinary, C!NewProbe

LEMMA StartStep ==
  ASSUME C!CampaignConstantsOK, CampaignInv, C!Start
  PROVE  CampaignInv'
<1>1. 1 \in ProgramNumbers
  BY ProgramNumbersAre
<1>2. CampaignTypes'
  BY <1>1 DEF C!Start, C!NewProbe, CampaignInv, CampaignTypes, ProgramNumbers
<1>3. AtWork'
  BY DEF C!Start, C!NewProbe, AtWork
<1>4. Ascending' /\ Behind' /\ RowsTrue'
  BY DEF C!Start, Ascending, Behind, RowsTrue
<1> QED BY <1>2, <1>3, <1>4 DEF CampaignInv

LEMMA ProbePrintsStep ==
  ASSUME CampaignInv, C!ProbePrints
  PROVE  CampaignInv'
<1>1. UNCHANGED <<campaign, cpc, bin, taken, grep, artifacts, log, summary, violated>>
  BY DEF C!ProbePrints
<1>2. CampaignTypes' /\ AtWork' /\ Behind'
  BY <1>1 DEF CampaignInv, CampaignTypes, AtWork, Behind, ProgramNumbers
<1> QED BY <1>1, <1>2, RowsKept DEF CampaignInv

LEMMA ProbeReadsStep ==
  ASSUME CampaignInv, C!ProbeReads
  PROVE  CampaignInv'
<1>1. UNCHANGED <<campaign, cpc, bin, artifacts, log, summary, violated>> /\ cpc = "probe"
  BY DEF C!ProbeReads
<1>2. taken \in Nat
  BY DEF CampaignInv, CampaignTypes
<1>3. taken' \in Nat
  BY <1>2 DEF C!ProbeReads
<1>4. CampaignTypes' /\ Behind'
  BY <1>1, <1>3 DEF CampaignInv, CampaignTypes, Behind, ProgramNumbers
<1>5. AtWork'
  <2>1. grep' = "match" => taken' = Binaries[bin] /\ taken' # 0
    BY <1>2 DEF C!ProbeReads
  <2> QED BY <1>1, <2>1 DEF AtWork
<1> QED BY <1>1, <1>4, <1>5, RowsKept DEF CampaignInv

LEMMA ProbedStep ==
  ASSUME C!CampaignConstantsOK, CampaignInv, C!Probed
  PROVE  CampaignInv'
<1>1. UNCHANGED <<campaign, artifacts, log, summary, violated>> /\ cpc = "probe"
  BY DEF C!Probed
<1>2. Ascending' /\ RowsTrue'
  BY <1>1, RowsKept
<1>3. CASE C!PipelineSucceeds
  <2>1. UNCHANGED <<bin, taken, grep>> /\ cpc' = "fuzz"
    BY <1>3 DEF C!Probed
  <2>2. CampaignTypes' /\ Behind'
    BY <1>1, <2>1 DEF CampaignInv, CampaignTypes, Behind, ProgramNumbers
  <2>3. AtWork'
    BY <1>1, <1>3, <2>1 DEF CampaignInv, AtWork, C!PipelineSucceeds
  <2> QED BY <1>2, <2>2, <2>3 DEF CampaignInv
<1>4. CASE ~ C!PipelineSucceeds
  <2>1. C!NextBinary
    BY <1>4 DEF C!Probed
  <2>2. CampaignTypes
    BY DEF CampaignInv
  <2>3. /\ bin \in ProgramNumbers /\ bin \in Nat /\ bin' = bin + 1
        /\ cpc' \in {"idle", "probe"} /\ grep' = "reads" /\ taken' = 0
        /\ cpc' # "idle" => bin' \in ProgramNumbers
    BY <1>1, <2>1, <2>2, NextOne
  <2>4. CampaignTypes'
    BY <1>1, <2>2, <2>3 DEF CampaignTypes, ProgramNumbers
  <2>5. AtWork'
    BY <2>3 DEF AtWork
  <2>6. \A k \in DOMAIN summary : summary[k].bin < bin /\ summary[k].bin \in Nat
    <3>1. \A k \in DOMAIN summary : summary[k].bin \in ProgramNumbers
      BY <2>2, RowsTyped DEF RowType
    <3> QED BY <1>1, <3>1, ProgramNumbersAre DEF CampaignInv, Behind
  <2>7. Behind'
    BY <1>1, <2>3, <2>6 DEF Behind
  <2> QED BY <1>2, <2>4, <2>5, <2>7 DEF CampaignInv
<1> QED BY <1>3, <1>4

LEMMA FuzzStep ==
  ASSUME C!CampaignConstantsOK, CampaignInv, C!Fuzz
  PROVE  CampaignInv'
<1>1. /\ UNCHANGED <<campaign, bin, taken, grep, summary>>
      /\ cpc = "fuzz" /\ cpc' = "report" /\ bin \in ProgramNumbers
  BY DEF C!Fuzz, CampaignInv, CampaignTypes
<1>2. PICK violation, artifact \in BOOLEAN :
        /\ log' = [log EXCEPT ![bin] = IF violation THEN {campaign} ELSE {}]
        /\ artifacts' = [artifacts EXCEPT ![bin] = @ \cup (IF artifact THEN {campaign} ELSE {})]
        /\ violated' = violation
  BY DEF C!Fuzz
<1>3. /\ campaign \in Nat /\ log \in [ProgramNumbers -> SUBSET Nat]
      /\ artifacts \in [ProgramNumbers -> SUBSET Nat]
  BY DEF CampaignInv, CampaignTypes
<1>4. log' \in [ProgramNumbers -> SUBSET Nat] /\ (log'[bin] # {} <=> violated')
  BY <1>1, <1>2, <1>3
<1>5. /\ artifacts' \in [ProgramNumbers -> SUBSET Nat]
      /\ \A i \in ProgramNumbers : i # bin => artifacts'[i] = artifacts[i]
  BY <1>1, <1>2, <1>3
<1>6. CampaignTypes'
  BY <1>1, <1>2, <1>4, <1>5 DEF CampaignInv, CampaignTypes, ProgramNumbers
<1>7. AtWork'
  BY <1>1, <1>4 DEF CampaignInv, AtWork
<1>8. Ascending' /\ Behind'
  BY <1>1 DEF CampaignInv, Ascending, Behind
<1>9. RowsTrue'
  <2>1. SUFFICES ASSUME NEW k \in DOMAIN summary
                 PROVE  TrueRow(summary[k])'
    BY <1>1 DEF RowsTrue
  <2>2. TrueRow(summary[k])
    BY DEF CampaignInv, RowsTrue
  <2>3. summary[k].bin \in ProgramNumbers
    BY RowsTyped DEF CampaignInv, RowType
  <2>4. summary[k].bin < bin
    BY <1>1 DEF CampaignInv, Behind
  <2>5. summary[k].bin # bin
    BY <1>1, <2>3, <2>4, ProgramNumbersAre
  <2> QED BY <1>1, <1>5, <2>2, <2>3, <2>5 DEF TrueRow
<1> QED BY <1>6, <1>7, <1>8, <1>9 DEF CampaignInv

LEMMA ReportStep ==
  ASSUME C!CampaignConstantsOK, CampaignInv, C!Report
  PROVE  CampaignInv'
<1> DEFINE row == [bin |-> bin, status |-> C!Status, violated |-> violated]
<1>1. /\ UNCHANGED <<campaign, artifacts, log, violated>>
      /\ cpc = "report" /\ C!NextBinary /\ summary' = Append(summary, row)
  BY DEF C!Report
<1>2. CampaignTypes
  BY DEF CampaignInv
<1>3. /\ bin \in ProgramNumbers /\ bin \in Nat /\ bin' = bin + 1
      /\ cpc' \in {"idle", "probe"} /\ grep' = "reads" /\ taken' = 0
      /\ cpc' # "idle" => bin' \in ProgramNumbers
  BY <1>1, <1>2, NextOne
<1>4. row \in RowType
  BY <1>2, <1>3 DEF CampaignTypes, RowType, C!Status
<1>5. /\ summary' \in Seq(RowType) /\ Len(summary') = Len(summary) + 1
      /\ \A k \in 1 .. Len(summary) : summary'[k] = summary[k]
      /\ summary'[Len(summary) + 1] = row
  <2> HIDE DEF row
  <2>1. summary \in Seq(RowType)
    BY <1>2 DEF CampaignTypes
  <2> QED BY <1>1, <1>4, <2>1, AppendProperties
<1>6. /\ Len(summary) \in Nat /\ DOMAIN summary = 1 .. Len(summary)
      /\ \A k \in DOMAIN summary : summary[k] \in RowType
  BY <1>2, RowsTyped
<1>7. DOMAIN summary' = 1 .. Len(summary) + 1
  BY <1>5, LenProperties
<1>8. \A k \in DOMAIN summary : summary[k].bin \in Nat /\ summary[k].bin < bin
  <2>1. \A k \in DOMAIN summary : summary[k].bin \in ProgramNumbers
    BY <1>6 DEF RowType
  <2> QED BY <1>1, <2>1, ProgramNumbersAre DEF CampaignInv, Behind
<1>9. \A k \in DOMAIN summary' :
        \/ k \in DOMAIN summary /\ summary'[k] = summary[k]
        \/ k = Len(summary) + 1 /\ summary'[k] = row
  <2> HIDE DEF row
  <2> QED BY <1>5, <1>6, <1>7
<1>10. CampaignTypes'
  <2> HIDE DEF row
  <2> QED BY <1>1, <1>2, <1>3, <1>5 DEF CampaignTypes, ProgramNumbers
<1>11. AtWork'
  BY <1>3 DEF AtWork
<1>12. Behind'
  BY <1>3, <1>8, <1>9 DEF Behind
<1>13. Ascending'
  <2>1. SUFFICES ASSUME NEW j \in DOMAIN summary', NEW k \in DOMAIN summary', j < k
                 PROVE  summary'[j].bin < summary'[k].bin
    BY DEF Ascending
  <2>2. j \in DOMAIN summary /\ summary'[j] = summary[j]
    <3> HIDE DEF row
    <3> QED BY <1>6, <1>7, <1>9, <2>1
  <2>3. CASE k \in DOMAIN summary /\ summary'[k] = summary[k]
    BY <2>1, <2>2, <2>3 DEF CampaignInv, Ascending
  <2>4. CASE k = Len(summary) + 1 /\ summary'[k] = row
    BY <1>8, <2>2, <2>4
  <2> QED BY <1>9, <2>3, <2>4
<1>14. RowsTrue'
  <2>1. SUFFICES ASSUME NEW k \in DOMAIN summary'
                 PROVE  TrueRow(summary[k])'
    BY DEF RowsTrue
  <2>2. CASE k \in DOMAIN summary /\ summary'[k] = summary[k]
    BY <1>1, <2>2 DEF CampaignInv, RowsTrue, TrueRow
  <2>3. CASE k = Len(summary) + 1 /\ summary'[k] = row
    BY <1>1, <2>3 DEF CampaignInv, AtWork, TrueRow, C!Status
  <2> QED BY <1>9, <2>2, <2>3
<1> QED BY <1>10, <1>11, <1>12, <1>13, <1>14 DEF CampaignInv

LEMMA InterruptStep ==
  ASSUME CampaignInv, C!Interrupt
  PROVE  CampaignInv'
<1>1. /\ UNCHANGED <<campaign, artifacts, log, summary, violated>>
      /\ cpc' = "idle" /\ taken' = 0
  BY DEF C!Interrupt, C!NewProbe
<1>2. CampaignTypes' /\ AtWork' /\ Behind'
  BY <1>1 DEF CampaignInv, CampaignTypes, AtWork, Behind, ProgramNumbers
<1> QED BY <1>1, <1>2, RowsKept DEF CampaignInv

LEMMA CampaignStep ==
  ASSUME C!CampaignConstantsOK, CampaignInv, [C!Next]_C!campaignvars
  PROVE  CampaignInv'
<1>1. CASE C!Start
  BY <1>1, StartStep
<1>2. CASE C!ProbePrints
  BY <1>2, ProbePrintsStep
<1>3. CASE C!ProbeReads
  BY <1>3, ProbeReadsStep
<1>4. CASE C!Probed
  BY <1>4, ProbedStep
<1>5. CASE C!Fuzz
  BY <1>5, FuzzStep
<1>6. CASE C!Report
  BY <1>6, ReportStep
<1>7. CASE C!Interrupt
  BY <1>7, InterruptStep
<1>8. CASE UNCHANGED C!campaignvars
  <2>1. UNCHANGED <<campaign, cpc, bin, taken, grep, artifacts, log, summary, violated>>
    BY <1>8 DEF C!campaignvars
  <2>2. CampaignTypes' /\ AtWork' /\ Behind'
    BY <2>1 DEF CampaignInv, CampaignTypes, AtWork, Behind, ProgramNumbers
  <2> QED BY <2>1, <2>2, RowsKept DEF CampaignInv
<1> QED BY <1>1, <1>2, <1>3, <1>4, <1>5, <1>6, <1>7, <1>8 DEF C!Next, C!Over

(* The rows are what the property says they are.                           *)
LEMMA RowsTell ==
  ASSUME C!CampaignConstantsOK, CampaignInv
  PROVE  C!RowTellsTheRun
<1>1. \A r \in C!Rows : TrueRow(r)
  BY DEF CampaignInv, RowsTrue, C!Rows
<1>2. ASSUME NEW j \in DOMAIN summary, NEW k \in DOMAIN summary,
             summary[j].bin = summary[k].bin
      PROVE  j = k
  <2>1. j \in Nat /\ k \in Nat
    BY RowsTyped DEF CampaignInv
  <2>2. summary[j].bin \in ProgramNumbers
    BY RowsTyped DEF CampaignInv, RowType
  <2>3. ~ (summary[j].bin < summary[k].bin) /\ ~ (summary[k].bin < summary[j].bin)
    BY <1>2, <2>2, ProgramNumbersAre
  <2> QED BY <2>1, <2>3 DEF CampaignInv, Ascending
<1> QED BY <1>1, <1>2 DEF C!RowTellsTheRun, TrueRow

(* The summary of a campaign (run_campaign.sh) tells the run it is about:  *)
(* one row for a libFuzzer target, VIOLATION if and only if this run       *)
(* printed one, never "ok" when it left an artifact.                       *)
THEOREM RowsTellTheRun ==
  ASSUME C!CampaignConstantsOK
  PROVE  C!Spec => []C!RowTellsTheRun
<1>1. C!Init => CampaignInv
  BY CampaignInit
<1>2. CampaignInv /\ [C!Next]_C!campaignvars => CampaignInv'
  BY CampaignStep
<1>3. CampaignInv => C!RowTellsTheRun
  BY RowsTell
<1> QED BY <1>1, <1>2, <1>3, PTL DEF C!Spec

-----------------------------------------------------------------------------
(* generate_specs.py: whole specs, for any number of algorithms and of     *)
(* runs, wherever earlier runs have ended.                                 *)

Specs == [from : G!Sources, run : Nat, of : Nat]

(* What SpecsWhole says of one algorithm.                                  *)
Written(a) ==
  IF FileOf[a] \in lost
  THEN specs[FileOf[a]] = G!Truncated
  ELSE /\ specs[FileOf[a]].run = run
       /\ specs[FileOf[a]].from \in {"llm", "template"}
       /\ ~llm => specs[FileOf[a]].from = "template"
       /\ specs[FileOf[a]].of \in header /\ specs[FileOf[a]].of >= a
       /\ FileOf[specs[FileOf[a]].of] = FileOf[a]

GenTypes ==
  /\ run \in Nat /\ llm \in BOOLEAN
  /\ header \in SUBSET G!Algs /\ todo \in SUBSET header
  /\ spec \in Specs /\ specs \in [G!Files -> Specs] /\ count \in Nat

(* The loops have done the algorithms that are in the headers and no       *)
(* longer to do, in order; the file that is open may be one of theirs; the *)
(* spec in memory is one of this run and of the algorithm at hand.         *)
Progress ==
  /\ gpc \in {"extract", "open", "dump", "exit0"} =>
       /\ \A a \in header \ todo :
            Written(a) \/ (gpc = "dump" /\ FileOf[a] = FileOf[G!name])
       /\ \A a \in header \ todo, b \in todo : a < b
       /\ count + Cardinality(todo) = Cardinality(header)
  /\ gpc \in {"extract", "open", "dump"} => todo # {}
  /\ gpc = "exit0" => todo = {}
  /\ gpc \in {"open", "dump"} =>
       /\ spec.run = run /\ spec.from \in {"llm", "template"} /\ spec.of = G!name
       /\ ~llm => spec.from = "template"
  /\ gpc = "dump" => specs[FileOf[G!name]] = G!Truncated /\ FileOf[G!name] \notin lost

GenInv == GenTypes /\ Progress

-----------------------------------------------------------------------------
(* The loops end: what they have to do is finite, and they do one of it.   *)
LEMMA TodoFinite ==
  ASSUME G!GenConstantsOK, GenTypes
  PROVE  /\ IsFiniteSet(header) /\ IsFiniteSet(todo)
         /\ Cardinality(header) \in Nat /\ Cardinality(todo) \in Nat
<1>1. IsFiniteSet(G!Algs)
  BY FS_Interval DEF G!Algs, G!GenConstantsOK
<1>2. IsFiniteSet(header) /\ IsFiniteSet(todo)
  BY <1>1, FS_Subset DEF GenTypes
<1> QED BY <1>2, FS_CardinalityType

(* A set of numbers that is not empty has a least one.                     *)
LEMMA LeastExists ==
  ASSUME NEW S \in SUBSET Nat, S # {}
  PROVE  \E a \in S : \A b \in S : a <= b
<1> DEFINE R == OpToRel(<, Nat)
<1>1. \A x, y \in Nat : x < y => <<x, y>> \in R
  BY DEF OpToRel
<1>2. IsWellFoundedOn(R, Nat)
  BY NatLessThanWellFounded
<1> HIDE DEF R
<1>3. PICK a \in S : \A b \in S : ~ (<<b, a>> \in R)
  BY <1>2, WFMin
<1>4. \A b \in S : ~ (b < a)
  BY <1>1, <1>3
<1> QED BY <1>3, <1>4

LEMMA NameInTodo ==
  ASSUME G!GenConstantsOK, GenTypes, todo # {}
  PROVE  /\ G!name \in todo /\ G!name \in G!Algs /\ G!name \in Nat
         /\ \A b \in todo : G!name <= b
         /\ FileOf[G!name] \in G!Files
<1>1. todo \in SUBSET Nat /\ todo \in SUBSET G!Algs
  BY DEF GenTypes, G!Algs, G!GenConstantsOK
<1>2. \E a \in todo : \A b \in todo : a <= b
  BY <1>1, LeastExists
<1>3. G!name \in todo /\ \A b \in todo : G!name <= b
  BY <1>2 DEF G!name
<1> QED BY <1>1, <1>3 DEF G!Files

-----------------------------------------------------------------------------
LEMMA GenInit ==
  ASSUME G!Init
  PROVE  GenInv
BY DEF G!Init, GenInv, GenTypes, Progress, G!NoSpec, G!Absent, Specs, G!Sources

LEMMA GenTypesStep ==
  ASSUME G!GenConstantsOK, GenInv, [G!Next]_G!genvars
  PROVE  GenTypes'
<1> USE DEF GenInv, GenTypes, Specs, G!Sources
<1>1. CASE G!Parse
  BY <1>1 DEF G!Parse, G!NoSpec
<1>2. CASE G!Extract
  <2>1. G!name \in Nat
    BY <1>2, NameInTodo DEF G!Extract, Progress
  <2> QED BY <1>2, <2>1 DEF G!Extract
<1>3. CASE G!Open
  BY <1>3 DEF G!Open, G!Truncated
<1>4. CASE G!Dump
  <2>1. specs' \in [G!Files -> Specs]
    BY <1>4 DEF G!Dump
  <2>2. todo' \in SUBSET header' /\ count' \in Nat
    BY <1>4 DEF G!Dump
  <2>3. UNCHANGED <<run, llm, header, spec>>
    BY <1>4 DEF G!Dump
  <2> QED BY <2>1, <2>2, <2>3
<1>5. CASE G!Die
  BY <1>5 DEF G!Die
<1>6. CASE UNCHANGED G!genvars
  BY <1>6 DEF G!genvars
<1> QED BY <1>1, <1>2, <1>3, <1>4, <1>5, <1>6 DEF G!Next, G!Over

(* The write of the spec at hand settles the file for every algorithm that *)
(* shares it.                                                              *)
LEMMA DumpWrites ==
  ASSUME G!GenConstantsOK, GenInv, G!Dump, NEW a \in header' \ todo'
  PROVE  Written(a)'
<1> USE DEF GenInv
<1>1. /\ gpc = "dump" /\ todo # {} /\ UNCHANGED <<run, llm, header>>
      /\ todo' = todo \ {G!name}
      /\ \/ specs' = [specs EXCEPT ![FileOf[G!name]] = spec] /\ lost' = lost
         \/ specs' = specs /\ lost' = lost \cup {FileOf[G!name]}
  BY DEF G!Dump, Progress
<1>2. /\ G!name \in todo /\ G!name \in header /\ G!name \in Nat
      /\ FileOf[G!name] \in G!Files /\ DOMAIN specs = G!Files
  BY <1>1, NameInTodo DEF GenTypes
<1>3. a \in header /\ a \in Nat /\ FileOf[a] \in G!Files
  BY <1>1 DEF GenTypes, G!Algs, G!GenConstantsOK, G!Files
<1>4. a <= G!name
  BY <1>1, <1>2, <1>3 DEF Progress
<1>5. CASE FileOf[a] = FileOf[G!name]
  <2>1. CASE specs' = [specs EXCEPT ![FileOf[G!name]] = spec] /\ lost' = lost
    <3>1. specs'[FileOf[a]] = spec /\ FileOf[a] \notin lost'
      BY <1>1, <1>2, <1>5, <2>1 DEF Progress
    <3>2. /\ spec.run = run /\ spec.from \in {"llm", "template"} /\ spec.of = G!name
          /\ ~llm => spec.from = "template"
      BY <1>1 DEF Progress
    <3> QED BY <1>1, <1>2, <1>3, <1>4, <1>5, <3>1, <3>2 DEF Written
  <2>2. CASE specs' = specs /\ lost' = lost \cup {FileOf[G!name]}
    BY <1>1, <1>5, <2>2 DEF Written, Progress, G!Truncated
  <2> QED BY <1>1, <2>1, <2>2
<1>6. CASE FileOf[a] # FileOf[G!name]
  <2>1. a # G!name /\ a \in header \ todo
    BY <1>1, <1>6
  <2>2. Written(a)
    BY <1>1, <1>6, <2>1 DEF Progress
  <2>3. specs'[FileOf[a]] = specs[FileOf[a]] /\ (FileOf[a] \in lost' <=> FileOf[a] \in lost)
    BY <1>1, <1>2, <1>3, <1>6 DEF GenTypes
  <2> QED BY <1>1, <2>2, <2>3 DEF Written, G!Truncated
<1> QED BY <1>5, <1>6

LEMMA GenStep ==
  ASSUME G!GenConstantsOK, GenInv, [G!Next]_G!genvars
  PROVE  GenInv'
<1> USE DEF GenInv
<1>0. GenTypes'
  BY GenTypesStep
<1>7. todo' = todo => G!name' = G!name
  BY DEF G!name
<1>1. CASE G!Parse
  <2>1. header' \ todo' = {} /\ count' + Cardinality(todo') = Cardinality(header')
    <3>1. IsFiniteSet(G!Algs)
      BY FS_Interval DEF G!Algs, G!GenConstantsOK
    <3>2. todo' = header' /\ header' \in SUBSET G!Algs /\ count' = 0
      BY <1>1 DEF G!Parse
    <3>3. Cardinality(header') \in Nat
      BY <3>1, <3>2, FS_Subset, FS_CardinalityType
    <3> QED BY <3>2, <3>3
  <2>2. /\ gpc' \in {"exit1", "exit0", "extract"}
        /\ gpc' = "extract" => todo' # {}
        /\ gpc' = "exit0" => todo' = {}
    BY <1>1 DEF G!Parse
  <2> QED BY <1>0, <2>1, <2>2 DEF Progress
<1>2. CASE G!Extract
  <2>1. \A a : Written(a)' = Written(a)
    BY <1>2 DEF G!Extract, Written, G!Truncated
  <2>2. /\ gpc = "extract" /\ gpc' = "open" /\ UNCHANGED <<run, llm, header, todo, count>>
        /\ spec'.run = run /\ spec'.of = G!name /\ spec'.from \in {"llm", "template"}
        /\ ~llm => spec'.from = "template"
    BY <1>2 DEF G!Extract
  <2> QED BY <1>0, <1>7, <2>1, <2>2 DEF Progress
<1>3. CASE G!Open
  <2>1. /\ gpc = "open" /\ gpc' = "dump" /\ UNCHANGED <<run, llm, header, todo, count, spec>>
        /\ specs' = [specs EXCEPT ![FileOf[G!name]] = G!Truncated]
        /\ lost' = lost \ {FileOf[G!name]} /\ todo # {}
    BY <1>3 DEF G!Open, Progress
  <2>2. FileOf[G!name] \in G!Files /\ DOMAIN specs = G!Files
    BY <2>1, NameInTodo DEF GenTypes
  <2>3. specs'[FileOf[G!name]] = G!Truncated /\ FileOf[G!name] \notin lost'
    BY <2>1, <2>2
  <2>4. ASSUME NEW a \in header \ todo, FileOf[a] # FileOf[G!name]
        PROVE  Written(a)'
    <3>1. Written(a)
      BY <2>1, <2>4 DEF Progress
    <3>2. FileOf[a] \in G!Files
      BY <2>4 DEF GenTypes, G!Files
    <3>3. specs'[FileOf[a]] = specs[FileOf[a]] /\ (FileOf[a] \in lost' <=> FileOf[a] \in lost)
      BY <2>1, <2>2, <2>4, <3>2 DEF GenTypes
    <3> QED BY <2>1, <3>1, <3>3 DEF Written, G!Truncated
  <2>5. G!Truncated' = G!Truncated
    BY DEF G!Truncated
  <2> QED BY <1>0, <1>7, <2>1, <2>3, <2>4, <2>5 DEF Progress
<1>4. CASE G!Dump
  <2>1. G!name \in todo /\ gpc = "dump" /\ gpc' \in {"exit0", "extract"}
    BY <1>4, NameInTodo DEF G!Dump, Progress
  <2>2. \A a \in header' \ todo' : Written(a)'
    BY <1>4, DumpWrites
  <2>3. \A a \in header' \ todo', b \in todo' : a < b
    <3> SUFFICES ASSUME NEW a \in header' \ todo', NEW b \in todo' PROVE a < b
      OBVIOUS
    <3>1. /\ header' = header /\ todo' = todo \ {G!name} /\ todo # {}
          /\ header \in SUBSET Nat
      BY <1>4, <2>1 DEF G!Dump, GenTypes, G!Algs, G!GenConstantsOK
    <3>2. CASE a = G!name
      BY <3>1, <3>2, NameInTodo DEF GenTypes
    <3>3. CASE a # G!name
      BY <2>1, <3>1, <3>3 DEF Progress
    <3> QED BY <3>2, <3>3
  <2>4. count' + Cardinality(todo') = Cardinality(header')
    <3>1. Cardinality(todo \ {G!name}) = Cardinality(todo) - 1
      BY <2>1, TodoFinite, FS_RemoveElement
    <3>2. count + Cardinality(todo) = Cardinality(header)
      BY <1>4 DEF G!Dump, Progress
    <3> QED BY <1>4, <3>1, <3>2, TodoFinite DEF G!Dump, GenTypes
  <2>5. todo' = {} <=> todo = {G!name}
    BY <1>4, <2>1 DEF G!Dump
  <2> QED BY <1>0, <1>4, <2>1, <2>2, <2>3, <2>4, <2>5 DEF G!Dump, Progress
<1>5. CASE G!Die
  BY <1>0, <1>5 DEF G!Die, Progress
<1>6. CASE UNCHANGED G!genvars
  <2>1. \A a : Written(a)' = Written(a)
    BY <1>6 DEF G!genvars, Written, G!Truncated
  <2>2. /\ UNCHANGED <<run, gpc, llm, header, todo, spec, count, specs, lost>>
        /\ G!Truncated' = G!Truncated
    BY <1>6 DEF G!genvars, G!Truncated
  <2> QED BY <1>0, <1>7, <2>1, <2>2 DEF Progress
<1> QED BY <1>1, <1>2, <1>3, <1>4, <1>5, <1>6 DEF G!Next, G!Over

LEMMA GenWhole ==
  ASSUME G!GenConstantsOK, GenInv
  PROVE  G!SpecsWhole
<1> SUFFICES ASSUME gpc = "exit0" PROVE G!SpecsWhole
  BY DEF G!SpecsWhole
<1>1. todo = {} /\ count + Cardinality(todo) = Cardinality(header)
  BY DEF GenInv, Progress
<1>2. Cardinality(todo) = 0
  BY <1>1, FS_EmptySet
<1>3. count = Cardinality(header)
  BY <1>1, <1>2, TodoFinite DEF GenInv, GenTypes
<1>4. G!Cardinality(header) = Cardinality(header)
  BY DEF G!Cardinality, Cardinality
<1> QED BY <1>1, <1>3, <1>4 DEF GenInv, Progress, Written, G!SpecsWhole

(* A run of generate_specs.py that returns 0 leaves in the file of every   *)
(* algorithm of the headers a whole spec of its own, or what the disk took *)
(* of one before it refused the rest unseen, and has counted the           *)
(* algorithms: whatever truncated or older files it found, and whichever   *)
(* names share a file (generate_specs.py:116-138).                         *)
THEOREM SpecsAreWhole ==
  ASSUME G!GenConstantsOK
  PROVE  G!Spec => []G!SpecsWhole
<1>1. G!Init => GenInv
  BY GenInit
<1>2. GenInv /\ [G!Next]_G!genvars => GenInv'
  BY GenStep
<1>3. GenInv => G!SpecsWhole
  BY GenWhole
<1> QED BY <1>1, <1>2, <1>3, PTL DEF G!Spec

-----------------------------------------------------------------------------
(* The builds and the self-tests: clean and fault-injected programs, for   *)
(* any number of scripts and of revisions, whatever fails in between.      *)
(* First the sequences of commands the scripts come down to.               *)

(* A command as it stands in a script with "set -e".                       *)
In(id, cmd) == [cmd EXCEPT !.in = id]

LEMMA StrictOne ==
  ASSUME NEW id, NEW a PROVE B!Strict(id, <<a>>) = <<In(id, a)>>
BY DEF B!Strict, In

LEMMA StrictTwo ==
  ASSUME NEW id, NEW a, NEW b PROVE B!Strict(id, <<a, b>>) = <<In(id, a), In(id, b)>>
BY DEF B!Strict, In

LEMMA StrictSix ==
  ASSUME NEW id, NEW a, NEW b, NEW c, NEW d, NEW e, NEW f
  PROVE B!Strict(id, <<a, b, c, d, e, f>>)
          = <<In(id, a), In(id, b), In(id, c), In(id, d), In(id, e), In(id, f)>>
BY DEF B!Strict, In

LEMMA ConcatIs ==
  ASSUME NEW S, NEW l \in Seq(S), NEW r \in Seq(S), NEW w \in Seq(S),
         Len(w) = Len(l) + Len(r),
         \A i \in 1 .. Len(l) : w[i] = l[i],
         \A i \in 1 .. Len(r) : w[Len(l) + i] = r[i]
  PROVE  l \o r = w
<1>1. /\ l \o r \in Seq(S) /\ Len(l \o r) = Len(l) + Len(r)
      /\ \A i \in 1 .. Len(l) + Len(r) : (l \o r)[i] = IF i <= Len(l) THEN l[i] ELSE r[i - Len(l)]
  BY ConcatProperties
<1>2. Len(l) \in Nat /\ Len(r) \in Nat
  OBVIOUS
<1>3. \A i \in 1 .. Len(l \o r) : (l \o r)[i] = w[i]
  <2> SUFFICES ASSUME NEW i \in 1 .. Len(l \o r) PROVE (l \o r)[i] = w[i]
    OBVIOUS
  <2>1. CASE i <= Len(l)
    BY <1>1, <1>2, <2>1
  <2>2. CASE ~ (i <= Len(l))
    <3>1. i - Len(l) \in 1 .. Len(r) /\ Len(l) + (i - Len(l)) = i
      BY <1>1, <1>2, <2>2
    <3> QED BY <1>1, <1>2, <2>2, <3>1
  <2> QED BY <2>1, <2>2
<1> QED BY <1>1, <1>3, SeqEqual

LEMMA TwoAndFour ==
  ASSUME NEW a, NEW b, NEW c, NEW d, NEW e, NEW f
  PROVE  <<a, b>> \o <<c, d, e, f>> = <<a, b, c, d, e, f>>
<1> DEFINE S == {a, b, c, d, e, f}
           l == <<a, b>>
           r == <<c, d, e, f>>
           w == <<a, b, c, d, e, f>>
<1>1. /\ l \in Seq(S) /\ r \in Seq(S) /\ w \in Seq(S) /\ Len(l) = 2 /\ Len(r) = 4 /\ Len(w) = 6
      /\ w[1] = l[1] /\ w[2] = l[2]
      /\ w[3] = r[1] /\ w[4] = r[2] /\ w[5] = r[3] /\ w[6] = r[4]
  OBVIOUS
<1> HIDE DEF l, r, w, S
<1>2. /\ \A i \in 1 .. Len(l) : w[i] = l[i]
      /\ \A i \in 1 .. Len(r) : w[Len(l) + i] = r[i]
  BY <1>1
<1>3. Len(w) = Len(l) + Len(r)
  BY <1>1
<1>4. l \o r = w
  BY <1>1, <1>2, <1>3, ConcatIs
<1> QED BY <1>4 DEF l, r, w

LEMMA SixAndOne ==
  ASSUME NEW a, NEW b, NEW c, NEW d, NEW e, NEW f, NEW g
  PROVE  <<a, b, c, d, e, f>> \o <<g>> = <<a, b, c, d, e, f, g>>
<1> DEFINE S == {a, b, c, d, e, f, g}
           l == <<a, b, c, d, e, f>>
           r == <<g>>
           w == <<a, b, c, d, e, f, g>>
<1>1. /\ l \in Seq(S) /\ r \in Seq(S) /\ w \in Seq(S) /\ Len(l) = 6 /\ Len(r) = 1 /\ Len(w) = 7
      /\ w[1] = l[1] /\ w[2] = l[2] /\ w[3] = l[3] /\ w[4] = l[4] /\ w[5] = l[5] /\ w[6] = l[6]
      /\ w[7] = r[1]
  OBVIOUS
<1> HIDE DEF l, r, w, S
<1>2. /\ \A i \in 1 .. Len(l) : w[i] = l[i]
      /\ \A i \in 1 .. Len(r) : w[Len(l) + i] = r[i]
  BY <1>1
<1>3. Len(w) = Len(l) + Len(r)
  BY <1>1
<1>4. l \o r = w
  BY <1>1, <1>2, <1>3, ConcatIs
<1> QED BY <1>4 DEF l, r, w

LEMMA OneAndOne ==
  ASSUME NEW a, NEW b
  PROVE  <<a>> \o <<b>> = <<a, b>>
<1> DEFINE S == {a, b}
           l == <<a>>
           r == <<b>>
           w == <<a, b>>
<1>1. /\ l \in Seq(S) /\ r \in Seq(S) /\ w \in Seq(S)
      /\ Len(l) = 1 /\ Len(r) = 1 /\ Len(w) = 2
      /\ w[1] = l[1]
      /\ w[2] = r[1]
  OBVIOUS
<1> HIDE DEF l, r, w, S
<1>2. /\ \A i \in 1 .. Len(l) : w[i] = l[i]
      /\ \A i \in 1 .. Len(r) : w[Len(l) + i] = r[i]
  BY <1>1
<1>3. Len(w) = Len(l) + Len(r)
  BY <1>1
<1>4. l \o r = w
  BY <1>1, <1>2, <1>3, ConcatIs
<1> QED BY <1>4 DEF l, r, w

LEMMA TwoAndOne ==
  ASSUME NEW a, NEW b, NEW c
  PROVE  <<a, b>> \o <<c>> = <<a, b, c>>
<1> DEFINE S == {a, b, c}
           l == <<a, b>>
           r == <<c>>
           w == <<a, b, c>>
<1>1. /\ l \in Seq(S) /\ r \in Seq(S) /\ w \in Seq(S)
      /\ Len(l) = 2 /\ Len(r) = 1 /\ Len(w) = 3
      /\ w[1] = l[1] /\ w[2] = l[2]
      /\ w[3] = r[1]
  OBVIOUS
<1> HIDE DEF l, r, w, S
<1>2. /\ \A i \in 1 .. Len(l) : w[i] = l[i]
      /\ \A i \in 1 .. Len(r) : w[Len(l) + i] = r[i]
  BY <1>1
<1>3. Len(w) = Len(l) + Len(r)
  BY <1>1
<1>4. l \o r = w
  BY <1>1, <1>2, <1>3, ConcatIs
<1> QED BY <1>4 DEF l, r, w

LEMMA TwoAndNone ==
  ASSUME NEW a, NEW b PROVE <<a, b>> \o <<>> = <<a, b>>
OBVIOUS

LEMMA OneAndOneAndOne ==
  ASSUME NEW a, NEW b, NEW c
  PROVE  <<a>> \o <<b>> \o <<c>> = <<a, b, c>>
<1>1. <<a>> \o <<b>> = <<a, b>>
  BY OneAndOne
<1>2. <<a, b>> \o <<c>> = <<a, b, c>>
  BY TwoAndOne
<1> QED BY <1>1, <1>2, Zenon

-----------------------------------------------------------------------------
(* The commands, with the script with "set -e" they are of, or 0.          *)
Mk(to, faulty, id) == [do |-> "make", from |-> to, to |-> to, fault |-> faulty, in |-> id]
Cp(from, to, id)   == [do |-> "copy", from |-> from, to |-> to, fault |-> FALSE, in |-> id]

LEMMA Ids ==
  ASSUME NEW id, NEW to, NEW faulty, NEW from
  PROVE  /\ In(id, B!Make(to, faulty)) = Mk(to, faulty, id)
         /\ In(id, B!Copy(from, to)) = Cp(from, to, id)
         /\ B!Make(to, faulty) = Mk(to, faulty, 0)
         /\ B!Copy(from, to) = Cp(from, to, 0)
<1>1. B!Make(to, faulty) = Mk(to, faulty, 0) /\ B!Copy(from, to) = Cp(from, to, 0)
  BY DEF B!Make, B!Copy, Mk, Cp
<1>3. In(id, Mk(to, faulty, 0)) = Mk(to, faulty, id)
  BY DEF In, Mk
<1>4. In(id, Cp(from, to, 0)) = Cp(from, to, id)
  <2>1. \A f : In(id, [do |-> "copy", from |-> from, to |-> to, fault |-> f, in |-> 0])
                 = [do |-> "copy", from |-> from, to |-> to, fault |-> f, in |-> id]
    BY DEF In
  <2> QED BY <2>1 DEF Cp
<1> QED BY <1>1, <1>3, <1>4

LEMMA TheScripts ==
  /\ B!Script("tmp", "selftest") = <<Mk("test", TRUE, 0), B!Run("test")>>
  /\ B!Script("go", "selftest") = <<Mk("test", TRUE, 0), B!Run("test")>>
  /\ \A s \in {"build", "buildfault"} : B!Script("tmp", s) = <<Mk("clean", FALSE, 1)>>
  /\ B!Script("go", "build") = <<Mk("clean", FALSE, 1)>>
  /\ B!Script("go", "buildfault") = <<Mk("fault", TRUE, 1)>>
  /\ B!Script("kat", "selftest") = <<Mk("fault", TRUE, 1), B!Run("fault"), Mk("clean", FALSE, 2)>>
  /\ B!Script("kat", "build") = <<Mk("clean", FALSE, 1)>>
  /\ B!Script("kat", "buildfault") = <<Mk("fault", TRUE, 1)>>
  /\ B!Script("rust", "selftest") =
       <<Mk("release", TRUE, 0), Cp("release", "test", 0), B!Run("test"), Mk("release", FALSE, 0)>>
  /\ B!Script("rust", "build") = <<Mk("release", FALSE, 1), Cp("release", "clean", 1)>>
  /\ B!Script("rust", "buildfault") = <<Mk("release", TRUE, 1), Cp("release", "fault", 1)>>
  /\ B!Script("tfhe", "build") = <<Mk("release", FALSE, 1), Cp("release", "clean", 1)>>
  /\ B!Script("tfhe", "buildfault") =
       <<Mk("release", FALSE, 1), Cp("release", "clean", 1), Mk("release", TRUE, 1),
         Cp("release", "fault", 1), Mk("release", FALSE, 1), Cp("release", "clean", 1)>>
  /\ B!Script("tfhe", "selftest") =
       <<Mk("release", FALSE, 1), Cp("release", "clean", 1), Mk("release", TRUE, 1),
         Cp("release", "fault", 1), Mk("release", FALSE, 1), Cp("release", "clean", 1),
         B!Run("fault")>>
<1>1. \A f : /\ B!Script(f, "selftest") = B!SelfTest(f)
             /\ B!Script(f, "build") = B!Strict(1, B!Build(f, FALSE))
             /\ B!Script(f, "buildfault") = B!Strict(1, B!Build(f, TRUE))
  BY Zenon DEF B!Script
<1>2. \A faulty : /\ B!Build("tmp", faulty) = <<B!Make("clean", FALSE)>>
                  /\ B!Build("kat", faulty) = B!BuildKat(faulty)
                  /\ B!Build("go", faulty) = B!BuildKat(faulty)
                  /\ B!Build("rust", faulty) = B!BuildRust(faulty)
                  /\ B!Build("tfhe", faulty) = B!BuildTfhe(faulty)
  BY Zenon DEF B!Build
<1>3. /\ B!SelfTest("tmp") = <<B!Make("test", TRUE), B!Run("test")>>
      /\ B!SelfTest("go") = <<B!Make("test", TRUE), B!Run("test")>>
      /\ B!SelfTest("kat") = B!Strict(1, B!BuildKat(TRUE)) \o <<B!Run("fault")>>
                               \o B!Strict(2, B!BuildKat(FALSE))
      /\ B!SelfTest("rust") = <<B!Make("release", TRUE), B!Copy("release", "test"),
                                B!Run("test"), B!Make("release", FALSE)>>
      /\ B!SelfTest("tfhe") = B!Strict(1, B!BuildTfhe(TRUE)) \o <<B!Run("fault")>>
  BY Zenon DEF B!SelfTest
<1>4. /\ B!BuildKat(TRUE) = <<B!Make("fault", TRUE)>>
      /\ B!BuildKat(FALSE) = <<B!Make("clean", FALSE)>>
      /\ B!BuildRust(TRUE) = <<B!Make("release", TRUE), B!Copy("release", "fault")>>
      /\ B!BuildRust(FALSE) = <<B!Make("release", FALSE), B!Copy("release", "clean")>>
  BY DEF B!BuildKat, B!BuildRust
<1>5. B!BuildTfhe(FALSE) = <<B!Make("release", FALSE), B!Copy("release", "clean")>>
  BY TwoAndNone DEF B!BuildTfhe
<1> DEFINE mc == B!Make("release", FALSE)   cc == B!Copy("release", "clean")
           mf == B!Make("release", TRUE)    cf == B!Copy("release", "fault")
<1>6. B!BuildTfhe(TRUE) = <<mc, cc, mf, cf, mc, cc>>
  <2>1. B!BuildTfhe(TRUE) = <<mc, cc>> \o <<mf, cf, mc, cc>>
    BY Zenon DEF B!BuildTfhe
  <2> HIDE DEF mc, cc, mf, cf
  <2>2. <<mc, cc>> \o <<mf, cf, mc, cc>> = <<mc, cc, mf, cf, mc, cc>>
    BY TwoAndFour
  <2> QED BY <2>1, <2>2, Zenon
<1>7. /\ \A id, faulty, to : B!Strict(id, <<B!Make(to, faulty)>>) = <<Mk(to, faulty, id)>>
      /\ \A to : B!Strict(1, <<B!Make("release", TRUE), B!Copy("release", to)>>)
                    = <<Mk("release", TRUE, 1), Cp("release", to, 1)>>
      /\ \A to : B!Strict(1, <<B!Make("release", FALSE), B!Copy("release", to)>>)
                    = <<Mk("release", FALSE, 1), Cp("release", to, 1)>>
      /\ B!Strict(1, B!BuildTfhe(TRUE)) =
           <<Mk("release", FALSE, 1), Cp("release", "clean", 1), Mk("release", TRUE, 1),
             Cp("release", "fault", 1), Mk("release", FALSE, 1), Cp("release", "clean", 1)>>
  <2>1. \A id, faulty, to : B!Strict(id, <<B!Make(to, faulty)>>) = <<Mk(to, faulty, id)>>
    BY StrictOne, Ids
  <2>2. \A faulty, to : B!Strict(1, <<B!Make("release", faulty), B!Copy("release", to)>>)
                    = <<Mk("release", faulty, 1), Cp("release", to, 1)>>
    <3> SUFFICES ASSUME NEW faulty, NEW to
                 PROVE  B!Strict(1, <<B!Make("release", faulty), B!Copy("release", to)>>)
                          = <<Mk("release", faulty, 1), Cp("release", to, 1)>>
      OBVIOUS
    <3> DEFINE a == B!Make("release", faulty)   b == B!Copy("release", to)
    <3>1. In(1, a) = Mk("release", faulty, 1) /\ In(1, b) = Cp("release", to, 1)
      BY Ids, Zenon
    <3> HIDE DEF a, b
    <3>2. B!Strict(1, <<a, b>>) = <<In(1, a), In(1, b)>>
      BY StrictTwo
    <3> QED BY <3>1, <3>2, Zenon DEF a, b
  <2>3. B!Strict(1, B!BuildTfhe(TRUE)) =
           <<Mk("release", FALSE, 1), Cp("release", "clean", 1), Mk("release", TRUE, 1),
             Cp("release", "fault", 1), Mk("release", FALSE, 1), Cp("release", "clean", 1)>>
    <3>1. B!Strict(1, <<mc, cc, mf, cf, mc, cc>>)
            = <<In(1, mc), In(1, cc), In(1, mf), In(1, cf), In(1, mc), In(1, cc)>>
      <4> HIDE DEF mc, cc, mf, cf
      <4> QED BY StrictSix
    <3>2. /\ In(1, mc) = Mk("release", FALSE, 1) /\ In(1, cc) = Cp("release", "clean", 1)
          /\ In(1, mf) = Mk("release", TRUE, 1) /\ In(1, cf) = Cp("release", "fault", 1)
      BY Ids, Zenon
    <3> QED BY <1>6, <3>1, <3>2, Zenon
  <2> QED BY <2>1, <2>2, <2>3, Zenon
<1>8. /\ B!Script("tmp", "selftest") = <<Mk("test", TRUE, 0), B!Run("test")>>
      /\ B!Script("go", "selftest") = <<Mk("test", TRUE, 0), B!Run("test")>>
  BY <1>1, <1>3, Ids, Zenon
<1>9. \A s \in {"build", "buildfault"} : B!Script("tmp", s) = <<Mk("clean", FALSE, 1)>>
  BY <1>1, <1>2, <1>7, Zenon
<1>10. B!Script("kat", "selftest") = <<Mk("fault", TRUE, 1), B!Run("fault"), Mk("clean", FALSE, 2)>>
  <2>1. B!Script("kat", "selftest")
          = <<Mk("fault", TRUE, 1)>> \o <<B!Run("fault")>> \o <<Mk("clean", FALSE, 2)>>
    BY <1>1, <1>3, <1>4, <1>7, Zenon
  <2> QED BY <2>1, OneAndOneAndOne
<1>11. /\ B!Script("kat", "build") = <<Mk("clean", FALSE, 1)>>
       /\ B!Script("kat", "buildfault") = <<Mk("fault", TRUE, 1)>>
       /\ B!Script("go", "build") = <<Mk("clean", FALSE, 1)>>
       /\ B!Script("go", "buildfault") = <<Mk("fault", TRUE, 1)>>
  BY <1>1, <1>2, <1>4, <1>7, Zenon
<1>12. B!Script("rust", "selftest") =
         <<Mk("release", TRUE, 0), Cp("release", "test", 0), B!Run("test"), Mk("release", FALSE, 0)>>
  BY <1>1, <1>3, Ids, Zenon
<1>13. /\ B!Script("rust", "build") = <<Mk("release", FALSE, 1), Cp("release", "clean", 1)>>
       /\ B!Script("rust", "buildfault") = <<Mk("release", TRUE, 1), Cp("release", "fault", 1)>>
  BY <1>1, <1>2, <1>4, <1>7, Zenon
<1>14. B!Script("tfhe", "build") = <<Mk("release", FALSE, 1), Cp("release", "clean", 1)>>
  BY <1>1, <1>2, <1>5, <1>7, Zenon
<1>15. B!Script("tfhe", "buildfault") = B!Strict(1, B!BuildTfhe(TRUE))
  BY <1>1, <1>2, Zenon
<1> DEFINE mk == Mk("release", FALSE, 1)   ck == Cp("release", "clean", 1)
           mfk == Mk("release", TRUE, 1)   cfk == Cp("release", "fault", 1)
<1>16. B!Script("tfhe", "selftest") =
         <<Mk("release", FALSE, 1), Cp("release", "clean", 1), Mk("release", TRUE, 1),
           Cp("release", "fault", 1), Mk("release", FALSE, 1), Cp("release", "clean", 1),
           B!Run("fault")>>
  <2> DEFINE t == B!Run("fault")
  <2>1. B!Script("tfhe", "selftest") = <<mk, ck, mfk, cfk, mk, ck>> \o <<t>>
    BY <1>1, <1>3, <1>7, Zenon
  <2> HIDE DEF mk, ck, mfk, cfk, t
  <2>2. <<mk, ck, mfk, cfk, mk, ck>> \o <<t>> = <<mk, ck, mfk, cfk, mk, ck, t>>
    BY SixAndOne
  <2> QED BY <2>1, <2>2, Zenon DEF mk, ck, mfk, cfk, t
<1> QED BY <1>7, <1>8, <1>9, <1>10, <1>11, <1>12, <1>13, <1>14, <1>15, <1>16, Zenon

-----------------------------------------------------------------------------
(* What a program built from the present sources with the fault is.        *)
Faulty == [rev |-> rev, fault |-> TRUE]
Sound  == [rev |-> rev, fault |-> FALSE]

BuildsTypes ==
  /\ disk \in [B!Paths -> [rev : Nat, fault : BOOLEAN]]
  /\ smooth \in BOOLEAN /\ rev \in Nat
  /\ family \in Families \cup {"none"}
  /\ script \in {"none", "selftest", "build", "buildfault"}
  /\ script # "none" => family \in Families /\ at \in 1 .. Len(B!Commands)

(* A program about to be copied to the clean path is a clean one: a script *)
(* that copies stops at a build that fails.                                *)
CleanSource ==
  /\ family = "rust" /\ script = "build" /\ at = 2 => ~ disk["release"].fault
  /\ family = "tfhe" /\ script # "none" /\ at \in {2, 6} => ~ disk["release"].fault

(* As long as no command has failed, a self-test is about a program with   *)
(* the fault, and has put target/release right when it ends.               *)
TestSource ==
  script = "selftest" /\ smooth =>
    /\ family \in {"tmp", "go"} /\ at = 2 => disk["test"] = Faulty
    /\ family = "kat" /\ at = 2 => disk["fault"] = Faulty
    /\ family = "rust" /\ at = 2 => disk["release"] = Faulty
    /\ family = "rust" /\ at = 3 => disk["test"] = Faulty
    /\ family = "tfhe" /\ at = 4 => disk["release"] = Faulty
    /\ family = "tfhe" /\ at \in {5, 6, 7} => disk["fault"] = Faulty
    /\ family = "tfhe" /\ at \in {6, 7} => ~ disk["release"].fault

(* $TMP is new, so that even after a failure no older program is in it.    *)
TmpSource ==
  family \in {"tmp", "go"} /\ script = "selftest" =>
    disk["test"] = B!Nothing \/ (at = 2 /\ disk["test"] = Faulty)

Untouched == family \notin {"rust", "tfhe"} => ~ disk["release"].fault

NoResultOfBuilds == script \in {"build", "buildfault"} => result = B!NoResult

BuildsInv ==
  /\ BuildsTypes /\ CleanSource /\ TestSource /\ TmpSource /\ Untouched
  /\ NoResultOfBuilds /\ B!CleanMeansClean /\ B!SelfTestHonest

-----------------------------------------------------------------------------
(* What the commands do.                                                   *)
LEMMA FailureGoesOn ==
  ASSUME Len(B!Commands) \in Nat, at \in 1 .. Len(B!Commands), B!Command.in = 0
  PROVE  B!AfterFailure = at + 1
<1> DEFINE Is(k) == /\ k = Len(B!Commands) + 1 \/ B!Command.in = 0
                       \/ B!Commands[k].in # B!Command.in
                    /\ \A j \in (at + 1) .. (k - 1) :
                         B!Command.in # 0 /\ B!Commands[j].in = B!Command.in
<1>1. at + 1 \in (at + 1) .. (Len(B!Commands) + 1) /\ Is(at + 1)
  OBVIOUS
<1>2. \A k \in (at + 1) .. (Len(B!Commands) + 1) : Is(k) => k = at + 1
  OBVIOUS
<1> HIDE DEF Is
<1>3. (CHOOSE k \in (at + 1) .. (Len(B!Commands) + 1) : Is(k)) = at + 1
  BY <1>1, <1>2
<1> QED BY <1>3 DEF B!AfterFailure, Is

LEMMA FailureLeaves ==
  ASSUME Len(B!Commands) \in Nat, at \in 1 .. Len(B!Commands), B!Command.in # 0,
         NEW n \in (at + 1) .. (Len(B!Commands) + 1),
         \A j \in (at + 1) .. (n - 1) : B!Commands[j].in = B!Command.in,
         n = Len(B!Commands) + 1 \/ B!Commands[n].in # B!Command.in
  PROVE  B!AfterFailure = n
<1> DEFINE Is(k) == /\ k = Len(B!Commands) + 1 \/ B!Command.in = 0
                       \/ B!Commands[k].in # B!Command.in
                    /\ \A j \in (at + 1) .. (k - 1) :
                         B!Command.in # 0 /\ B!Commands[j].in = B!Command.in
<1>1. Is(n)
  OBVIOUS
<1>2. \A k \in (at + 1) .. (Len(B!Commands) + 1) : Is(k) => k = n
  OBVIOUS
<1> HIDE DEF Is
<1>3. (CHOOSE k \in (at + 1) .. (Len(B!Commands) + 1) : Is(k)) = n
  BY <1>1, <1>2
<1> QED BY <1>3 DEF B!AfterFailure, Is

Program == [rev : Nat, fault : BOOLEAN]

(* The disk after a command: v is what is now at path `to`.                *)
Wrote(to, v) ==
  /\ disk'[to] = v
  /\ \A path \in B!Paths : path # to => disk'[path] = disk[path]

(* The script goes on with command n, or ends.                             *)
Goes(n) == \/ n <= Len(B!Commands) /\ script' = script /\ at' = n
           \/ n > Len(B!Commands) /\ script' = "none"

OneCommand == B!Succeeds \/ B!Fails \/ B!Judge \/ B!Interrupt

LEMMA GoesOn ==
  ASSUME NEW n, B!Proceed(n), n \in Nat, Len(B!Commands) \in Nat PROVE Goes(n)
BY DEF B!Proceed, Goes

LEMMA Writes ==
  ASSUME BuildsTypes, NEW to \in B!Paths, NEW v \in Program, disk' = [disk EXCEPT ![to] = v]
  PROVE  Wrote(to, v) /\ disk' \in [B!Paths -> Program]
BY DEF Wrote, BuildsTypes, Program

LEMMA WritesNot ==
  ASSUME BuildsTypes, NEW to \in B!Paths, disk' = disk
  PROVE  Wrote(to, disk[to]) /\ disk' \in [B!Paths -> Program]
BY DEF Wrote, BuildsTypes, Program

LEMMA TypesKept ==
  ASSUME BuildsTypes, script # "none", UNCHANGED <<family, rev>>, smooth' \in BOOLEAN,
         disk' \in [B!Paths -> Program],
         script' = "none" \/ \E n \in Nat \ {0} : Goes(n)
  PROVE  BuildsTypes'
<1>1. Len(B!Commands) \in Nat
  BY DEF BuildsTypes
<1>2. CASE script' = "none"
  BY <1>2 DEF BuildsTypes, Program
<1>3. CASE script' # "none"
  <2>1. script' = script /\ at' \in 1 .. Len(B!Commands)
    BY <1>1, <1>3 DEF Goes
  <2>2. B!Commands' = B!Commands
    BY <2>1 DEF B!Commands
  <2> QED BY <2>1, <2>2 DEF BuildsTypes, Program
<1> QED BY <1>2, <1>3

(* What a command that builds or copies does.                              *)
LEMMA WriteEffects ==
  ASSUME BuildsTypes, script # "none", OneCommand, B!Command.do \in {"make", "copy"},
         NEW to \in B!Paths, B!Command.to = to, NEW good \in Program, B!Produced = good,
         B!AfterFailure \in Nat \ {0}
  PROVE  /\ BuildsTypes' /\ UNCHANGED <<family, rev, result>>
         /\ \E v : /\ Wrote(to, v)
                   /\ \/ v = good /\ Goes(at + 1) /\ smooth' = smooth
                      \/ /\ v \in {disk[to], B!Nothing} /\ smooth' = FALSE
                         /\ Goes(B!AfterFailure) \/ script' = "none"
<1>1. /\ Len(B!Commands) \in Nat /\ at \in Nat /\ smooth \in BOOLEAN
      /\ B!Nothing \in Program /\ disk[to] \in Program
  BY DEF BuildsTypes, B!Nothing, Program
<1>2. CASE B!Succeeds
  <2>1. /\ disk' = [disk EXCEPT ![to] = good] /\ B!Proceed(at + 1)
        /\ UNCHANGED <<family, rev, result, smooth>>
    BY <1>2 DEF B!Succeeds
  <2>2. Goes(at + 1) /\ at + 1 \in Nat \ {0}
    BY <1>1, <2>1, GoesOn
  <2>3. Wrote(to, good) /\ disk' \in [B!Paths -> Program]
    BY <2>1, Writes
  <2> QED BY <1>1, <2>1, <2>2, <2>3, TypesKept
<1>3. CASE B!Fails \/ B!Interrupt
  <2>1. /\ disk' = disk \/ disk' = [disk EXCEPT ![to] = B!Nothing]
        /\ UNCHANGED <<family, rev, result>> /\ smooth' = FALSE
        /\ B!Proceed(B!AfterFailure) \/ script' = "none"
    BY <1>3 DEF B!Fails, B!Interrupt
  <2>2. Goes(B!AfterFailure) \/ script' = "none"
    BY <1>1, <2>1, GoesOn
  <2>3. PICK v \in {disk[to], B!Nothing} : Wrote(to, v) /\ disk' \in [B!Paths -> Program]
    <3>1. CASE disk' = disk
      BY <3>1, WritesNot
    <3>2. CASE disk' = [disk EXCEPT ![to] = B!Nothing]
      BY <1>1, <3>2, Writes
    <3> QED BY <2>1, <3>1, <3>2
  <2>4. BuildsTypes'
    BY <2>1, <2>2, <2>3, TypesKept
  <2> QED BY <2>1, <2>2, <2>3, <2>4
<1>4. CASE B!Judge
  BY <1>4 DEF B!Judge
<1> QED BY <1>2, <1>3, <1>4 DEF OneCommand

(* A command that succeeds leaves good and goes on with k; one that does   *)
(* not leaves or spoils what is there, and goes on with n or not at all.   *)
Effects(to, good, k, n) ==
  /\ UNCHANGED <<family, rev, result>>
  /\ \A path \in B!Paths : path # to => disk'[path] = disk[path]
  /\ \/ disk'[to] = good /\ Goes(k) /\ (smooth' => smooth)
     \/ /\ disk'[to] = disk[to] \/ disk'[to] = B!Nothing
        /\ ~ smooth' /\ (Goes(n) \/ script' = "none")

LEMMA GoodEffects ==
  ASSUME BuildsTypes, script # "none", OneCommand, B!Command.do \in {"make", "copy"},
         NEW to \in B!Paths, B!Command.to = to, NEW good \in Program, B!Produced = good,
         NEW k, at + 1 = k, NEW n \in Nat \ {0}, B!AfterFailure = n
  PROVE  BuildsTypes' /\ Effects(to, good, k, n)
<1>1. /\ BuildsTypes' /\ UNCHANGED <<family, rev, result>>
      /\ \E v : /\ Wrote(to, v)
                /\ \/ v = good /\ Goes(at + 1) /\ smooth' = smooth
                   \/ /\ v \in {disk[to], B!Nothing} /\ smooth' = FALSE
                      /\ Goes(B!AfterFailure) \/ script' = "none"
  BY WriteEffects
<1> QED BY <1>1 DEF Effects, Wrote

LEMMA Makes ==
  ASSUME BuildsTypes, script # "none", OneCommand,
         NEW to \in B!Paths, NEW faulty \in BOOLEAN, NEW id, B!Command = Mk(to, faulty, id),
         NEW k, at + 1 = k, NEW n \in Nat \ {0}, B!AfterFailure = n
  PROVE  BuildsTypes' /\ Effects(to, [rev |-> rev, fault |-> faulty], k, n)
<1> DEFINE good == [rev |-> rev, fault |-> faulty]
<1>1. B!Command.do = "make" /\ B!Command.to = to /\ B!Command.fault = faulty
  BY DEF Mk
<1>2. B!Produced = good /\ good \in Program
  BY <1>1 DEF B!Produced, BuildsTypes, Program
<1> HIDE DEF good
<1>3. BuildsTypes' /\ Effects(to, good, k, n)
  BY <1>1, <1>2, GoodEffects
<1> QED BY <1>3 DEF good

LEMMA MakesFaulty ==
  ASSUME BuildsTypes, script # "none", OneCommand,
         NEW to \in B!Paths, NEW id, B!Command = Mk(to, TRUE, id),
         NEW k, at + 1 = k, NEW n \in Nat \ {0}, B!AfterFailure = n
  PROVE  BuildsTypes' /\ Effects(to, Faulty, k, n)
BY Makes, Zenon DEF Faulty

LEMMA MakesSound ==
  ASSUME BuildsTypes, script # "none", OneCommand,
         NEW to \in B!Paths, NEW id, B!Command = Mk(to, FALSE, id),
         NEW k, at + 1 = k, NEW n \in Nat \ {0}, B!AfterFailure = n
  PROVE  BuildsTypes' /\ Effects(to, Sound, k, n)
BY Makes, Zenon DEF Sound

LEMMA Copies ==
  ASSUME BuildsTypes, script # "none", OneCommand,
         NEW to \in B!Paths, NEW from \in B!Paths, NEW id, B!Command = Cp(from, to, id),
         NEW k, at + 1 = k, NEW n \in Nat \ {0}, B!AfterFailure = n
  PROVE  BuildsTypes' /\ Effects(to, disk[from], k, n)
<1>1. B!Command.do = "copy" /\ B!Command.to = to /\ B!Command.from = from
  BY DEF Cp
<1>2. B!Produced = disk[from] /\ B!Produced \in Program
  BY <1>1 DEF B!Produced, BuildsTypes, Program
<1> QED BY <1>1, <1>2, GoodEffects

(* The verdict after a run of a program.                                   *)
TellsOf(ran) ==
  /\ result'.ran = ran
  /\ result'.says = "PASS" => ran.fault
  /\ result'.says = "FAIL" => ~ ran.fault \/ family \in B!FirstReplyOnly

LEMMA RunEffects ==
  ASSUME BuildsTypes, script # "none", OneCommand, NEW path, B!Command = B!Run(path)
  PROVE  /\ BuildsTypes' /\ UNCHANGED <<family, rev, disk>>
         /\ \/ /\ TellsOf(disk[path])
               /\ Goes(at + 1) /\ smooth' = smooth
            \/ script' = "none" /\ smooth' = FALSE /\ UNCHANGED result
<1>1. B!Command.do = "run" /\ B!Command.from = path
  BY DEF B!Run
<1>2. /\ UNCHANGED <<family, rev, disk>>
      /\ \/ /\ TellsOf(disk[path])
            /\ B!Proceed(at + 1) /\ UNCHANGED smooth
         \/ script' = "none" /\ smooth' = FALSE /\ UNCHANGED result
  BY <1>1 DEF OneCommand, B!Succeeds, B!Fails, B!Judge, B!Interrupt, TellsOf
<1>3. Len(B!Commands) \in Nat /\ at \in Nat /\ smooth \in BOOLEAN /\ disk \in [B!Paths -> Program]
  BY DEF BuildsTypes, Program
<1>4. script' = "none" \/ (Goes(at + 1) /\ at + 1 \in Nat \ {0})
  BY <1>2, <1>3, GoesOn
<1>5. BuildsTypes'
  BY <1>2, <1>3, <1>4, TypesKept
<1> QED BY <1>2, <1>3, <1>5, GoesOn

LEMMA ProgramsBuilt ==
  ~ Sound.fault /\ Faulty.fault /\ Faulty.rev = rev /\ ~ B!Nothing.fault
BY DEF Faulty, Sound, B!Nothing

-----------------------------------------------------------------------------
(* Every script keeps the invariant: for each command, the command that    *)
(* comes next when it fails, what it leaves on the disk either way, and    *)
(* the parts of the invariant.                                             *)

LEMMA TmpSelfTest ==
  ASSUME BuildsInv, family \in {"tmp", "go"}, script = "selftest", OneCommand
  PROVE  BuildsInv'
<1>1. B!Commands = <<Mk("test", TRUE, 0), B!Run("test")>>
  BY TheScripts, Zenon DEF B!Commands
<1>2. /\ Len(B!Commands) = 2
      /\ B!Commands[1] = Mk("test", TRUE, 0)
      /\ B!Commands[2] = B!Run("test")
  BY <1>1
<1>3. /\ at \in 1 .. 2 /\ script # "none" /\ BuildsTypes
      /\ "clean" \in B!Paths /\ "fault" \in B!Paths /\ "release" \in B!Paths /\ "test" \in B!Paths
  BY <1>2 DEF BuildsInv, BuildsTypes, B!Paths
<1>4. CASE at = 1
  <2>1. B!Command = Mk("test", TRUE, 0)
    BY <1>2, <1>4, Zenon DEF B!Command
  <2>2. B!AfterFailure = 2 /\ 2 \in Nat \ {0} /\ at + 1 = 2
    BY <1>2, <1>4, <2>1, FailureGoesOn DEF Mk, Cp, B!Run
  <2>3. BuildsTypes' /\ Effects("test", Faulty, 2, 2)
    BY <1>3, <2>1, <2>2, MakesFaulty, Zenon
  <2>4. /\ UNCHANGED <<family, rev, result>>
        /\ \A path \in B!Paths : path # "test" => disk'[path] = disk[path]
        /\ \/ disk'["test"] = Faulty /\ (smooth' => smooth) /\ script' = script /\ at' = 2
           \/ /\ disk'["test"] = disk["test"] \/ disk'["test"] = B!Nothing
              /\ ~ smooth' /\ ((script' = script /\ at' = 2) \/ script' = "none")
    BY <1>2, <2>3 DEF Effects, Goes
  <2> QED
    BY <1>3, <1>4, <2>3, <2>4, ProgramsBuilt
    DEF BuildsInv, CleanSource, TestSource, TmpSource, Untouched, NoResultOfBuilds,
        B!CleanMeansClean, B!SelfTestHonest, B!Idle, Faulty
<1>5. CASE at = 2
  <2>1. B!Command = B!Run("test")
    BY <1>2, <1>5, Zenon DEF B!Command
  <2>2. at + 1 = 3
    BY <1>5
  <2>3. /\ BuildsTypes' /\ UNCHANGED <<family, rev, disk>>
        /\ \/ /\ TellsOf(disk["test"])
              /\ Goes(3) /\ (smooth' => smooth)
           \/ script' = "none" /\ ~ smooth' /\ result' = result
    BY <1>3, <2>1, <2>2, RunEffects
  <2>4. \/ /\ result'.says = "PASS" => disk["test"].fault
           /\ result'.says = "FAIL" => ~ disk["test"].fault \/ family \in B!FirstReplyOnly
           /\ result'.ran = disk["test"] /\ (smooth' => smooth) /\ script' = "none"
        \/ script' = "none" /\ ~ smooth' /\ result' = result
    BY <1>2, <2>3 DEF Goes, TellsOf
  <2> QED
    BY <1>3, <1>5, <2>3, <2>4, ProgramsBuilt
    DEF BuildsInv, CleanSource, TestSource, TmpSource, Untouched, NoResultOfBuilds,
        B!CleanMeansClean, B!SelfTestHonest, B!Idle, Faulty
<1> QED BY <1>3, <1>4, <1>5

LEMMA KatSelfTest ==
  ASSUME BuildsInv, family = "kat", script = "selftest", OneCommand
  PROVE  BuildsInv'
<1>1. B!Commands = <<Mk("fault", TRUE, 1), B!Run("fault"), Mk("clean", FALSE, 2)>>
  BY TheScripts, Zenon DEF B!Commands
<1>2. /\ Len(B!Commands) = 3
      /\ B!Commands[1] = Mk("fault", TRUE, 1)
      /\ B!Commands[2] = B!Run("fault")
      /\ B!Commands[3] = Mk("clean", FALSE, 2)
  BY <1>1
<1>3. /\ at \in 1 .. 3 /\ script # "none" /\ BuildsTypes
      /\ "clean" \in B!Paths /\ "fault" \in B!Paths /\ "release" \in B!Paths /\ "test" \in B!Paths
  BY <1>2 DEF BuildsInv, BuildsTypes, B!Paths
<1>4. CASE at = 1
  <2>1. B!Command = Mk("fault", TRUE, 1)
    BY <1>2, <1>4, Zenon DEF B!Command
  <2>2. B!AfterFailure = 2 /\ 2 \in Nat \ {0} /\ at + 1 = 2
    BY <1>2, <1>4, <2>1, FailureLeaves DEF Mk, Cp, B!Run
  <2>3. BuildsTypes' /\ Effects("fault", Faulty, 2, 2)
    BY <1>3, <2>1, <2>2, MakesFaulty, Zenon
  <2>4. /\ UNCHANGED <<family, rev, result>>
        /\ \A path \in B!Paths : path # "fault" => disk'[path] = disk[path]
        /\ \/ disk'["fault"] = Faulty /\ (smooth' => smooth) /\ script' = script /\ at' = 2
           \/ /\ disk'["fault"] = disk["fault"] \/ disk'["fault"] = B!Nothing
              /\ ~ smooth' /\ ((script' = script /\ at' = 2) \/ script' = "none")
    BY <1>2, <2>3 DEF Effects, Goes
  <2> QED
    BY <1>3, <1>4, <2>3, <2>4, ProgramsBuilt
    DEF BuildsInv, CleanSource, TestSource, TmpSource, Untouched, NoResultOfBuilds,
        B!CleanMeansClean, B!SelfTestHonest, B!Idle, Faulty
<1>5. CASE at = 2
  <2>1. B!Command = B!Run("fault")
    BY <1>2, <1>5, Zenon DEF B!Command
  <2>2. at + 1 = 3
    BY <1>5
  <2>3. /\ BuildsTypes' /\ UNCHANGED <<family, rev, disk>>
        /\ \/ /\ TellsOf(disk["fault"])
              /\ Goes(3) /\ (smooth' => smooth)
           \/ script' = "none" /\ ~ smooth' /\ result' = result
    BY <1>3, <2>1, <2>2, RunEffects
  <2>4. \/ /\ result'.says = "PASS" => disk["fault"].fault
           /\ result'.says = "FAIL" => ~ disk["fault"].fault \/ family \in B!FirstReplyOnly
           /\ result'.ran = disk["fault"] /\ (smooth' => smooth) /\ script' = script /\ at' = 3
        \/ script' = "none" /\ ~ smooth' /\ result' = result
    BY <1>2, <2>3 DEF Goes, TellsOf
  <2> QED
    BY <1>3, <1>5, <2>3, <2>4, ProgramsBuilt
    DEF BuildsInv, CleanSource, TestSource, TmpSource, Untouched, NoResultOfBuilds,
        B!CleanMeansClean, B!SelfTestHonest, B!Idle, Faulty
<1>6. CASE at = 3
  <2>1. B!Command = Mk("clean", FALSE, 2)
    BY <1>2, <1>6, Zenon DEF B!Command
  <2>2. B!AfterFailure = 4 /\ 4 \in Nat \ {0} /\ at + 1 = 4
    BY <1>2, <1>6, <2>1, FailureLeaves DEF Mk, Cp, B!Run
  <2>3. BuildsTypes' /\ Effects("clean", Sound, 4, 4)
    BY <1>3, <2>1, <2>2, MakesSound, Zenon
  <2>4. /\ UNCHANGED <<family, rev, result>>
        /\ \A path \in B!Paths : path # "clean" => disk'[path] = disk[path]
        /\ \/ disk'["clean"] = Sound /\ (smooth' => smooth) /\ script' = "none"
           \/ /\ disk'["clean"] = disk["clean"] \/ disk'["clean"] = B!Nothing
              /\ ~ smooth' /\ script' = "none"
    BY <1>2, <2>3 DEF Effects, Goes
  <2> QED
    BY <1>3, <1>6, <2>3, <2>4, ProgramsBuilt
    DEF BuildsInv, CleanSource, TestSource, TmpSource, Untouched, NoResultOfBuilds,
        B!CleanMeansClean, B!SelfTestHonest, B!Idle, Faulty
<1> QED BY <1>3, <1>4, <1>5, <1>6

LEMMA KatBuild ==
  ASSUME BuildsInv, family \in {"kat", "go"}, script = "build", OneCommand
  PROVE  BuildsInv'
<1>1. B!Commands = <<Mk("clean", FALSE, 1)>>
  BY TheScripts, Zenon DEF B!Commands
<1>2. Len(B!Commands) = 1 /\ B!Commands[1] = Mk("clean", FALSE, 1)
  BY <1>1
<1>3. /\ at \in 1 .. 1 /\ script # "none" /\ BuildsTypes
      /\ "clean" \in B!Paths /\ "fault" \in B!Paths /\ "release" \in B!Paths /\ "test" \in B!Paths
  BY <1>2 DEF BuildsInv, BuildsTypes, B!Paths
<1>4. CASE at = 1
  <2>1. B!Command = Mk("clean", FALSE, 1)
    BY <1>2, <1>4, Zenon DEF B!Command
  <2>2. B!AfterFailure = 2 /\ 2 \in Nat \ {0} /\ at + 1 = 2
    BY <1>2, <1>4, <2>1, FailureLeaves DEF Mk, Cp, B!Run
  <2>3. BuildsTypes' /\ Effects("clean", Sound, 2, 2)
    BY <1>3, <2>1, <2>2, MakesSound, Zenon
  <2>4. /\ UNCHANGED <<family, rev, result>>
        /\ \A path \in B!Paths : path # "clean" => disk'[path] = disk[path]
        /\ \/ disk'["clean"] = Sound /\ (smooth' => smooth) /\ script' = "none"
           \/ /\ disk'["clean"] = disk["clean"] \/ disk'["clean"] = B!Nothing
              /\ ~ smooth' /\ script' = "none"
    BY <1>2, <2>3 DEF Effects, Goes
  <2> QED
    BY <1>3, <1>4, <2>3, <2>4, ProgramsBuilt
    DEF BuildsInv, CleanSource, TestSource, TmpSource, Untouched, NoResultOfBuilds,
        B!CleanMeansClean, B!SelfTestHonest, B!Idle, Faulty
<1> QED BY <1>3, <1>4

LEMMA KatBuildFault ==
  ASSUME BuildsInv, family \in {"kat", "go"}, script = "buildfault", OneCommand
  PROVE  BuildsInv'
<1>1. B!Commands = <<Mk("fault", TRUE, 1)>>
  BY TheScripts, Zenon DEF B!Commands
<1>2. Len(B!Commands) = 1 /\ B!Commands[1] = Mk("fault", TRUE, 1)
  BY <1>1
<1>3. /\ at \in 1 .. 1 /\ script # "none" /\ BuildsTypes
      /\ "clean" \in B!Paths /\ "fault" \in B!Paths /\ "release" \in B!Paths /\ "test" \in B!Paths
  BY <1>2 DEF BuildsInv, BuildsTypes, B!Paths
<1>4. CASE at = 1
  <2>1. B!Command = Mk("fault", TRUE, 1)
    BY <1>2, <1>4, Zenon DEF B!Command
  <2>2. B!AfterFailure = 2 /\ 2 \in Nat \ {0} /\ at + 1 = 2
    BY <1>2, <1>4, <2>1, FailureLeaves DEF Mk, Cp, B!Run
  <2>3. BuildsTypes' /\ Effects("fault", Faulty, 2, 2)
    BY <1>3, <2>1, <2>2, MakesFaulty, Zenon
  <2>4. /\ UNCHANGED <<family, rev, result>>
        /\ \A path \in B!Paths : path # "fault" => disk'[path] = disk[path]
        /\ \/ disk'["fault"] = Faulty /\ (smooth' => smooth) /\ script' = "none"
           \/ /\ disk'["fault"] = disk["fault"] \/ disk'["fault"] = B!Nothing
              /\ ~ smooth' /\ script' = "none"
    BY <1>2, <2>3 DEF Effects, Goes
  <2> QED
    BY <1>3, <1>4, <2>3, <2>4, ProgramsBuilt
    DEF BuildsInv, CleanSource, TestSource, TmpSource, Untouched, NoResultOfBuilds,
        B!CleanMeansClean, B!SelfTestHonest, B!Idle, Faulty
<1> QED BY <1>3, <1>4

LEMMA RustSelfTest ==
  ASSUME BuildsInv, family = "rust", script = "selftest", OneCommand
  PROVE  BuildsInv'
<1>1. B!Commands = <<Mk("release", TRUE, 0), Cp("release", "test", 0), B!Run("test"),
                     Mk("release", FALSE, 0)>>
  BY TheScripts, Zenon DEF B!Commands
<1>2. /\ Len(B!Commands) = 4
      /\ B!Commands[1] = Mk("release", TRUE, 0)
      /\ B!Commands[2] = Cp("release", "test", 0)
      /\ B!Commands[3] = B!Run("test")
      /\ B!Commands[4] = Mk("release", FALSE, 0)
  BY <1>1
<1>3. /\ at \in 1 .. 4 /\ script # "none" /\ BuildsTypes
      /\ "clean" \in B!Paths /\ "fault" \in B!Paths /\ "release" \in B!Paths /\ "test" \in B!Paths
  BY <1>2 DEF BuildsInv, BuildsTypes, B!Paths
<1>4. CASE at = 1
  <2>1. B!Command = Mk("release", TRUE, 0)
    BY <1>2, <1>4, Zenon DEF B!Command
  <2>2. B!AfterFailure = 2 /\ 2 \in Nat \ {0} /\ at + 1 = 2
    BY <1>2, <1>4, <2>1, FailureGoesOn DEF Mk, Cp, B!Run
  <2>3. BuildsTypes' /\ Effects("release", Faulty, 2, 2)
    BY <1>3, <2>1, <2>2, MakesFaulty, Zenon
  <2>4. /\ UNCHANGED <<family, rev, result>>
        /\ \A path \in B!Paths : path # "release" => disk'[path] = disk[path]
        /\ \/ disk'["release"] = Faulty /\ (smooth' => smooth) /\ script' = script /\ at' = 2
           \/ /\ disk'["release"] = disk["release"] \/ disk'["release"] = B!Nothing
              /\ ~ smooth' /\ ((script' = script /\ at' = 2) \/ script' = "none")
    BY <1>2, <2>3 DEF Effects, Goes
  <2> QED
    BY <1>3, <1>4, <2>3, <2>4, ProgramsBuilt
    DEF BuildsInv, CleanSource, TestSource, TmpSource, Untouched, NoResultOfBuilds,
        B!CleanMeansClean, B!SelfTestHonest, B!Idle, Faulty
<1>5. CASE at = 2
  <2>1. B!Command = Cp("release", "test", 0)
    BY <1>2, <1>5, Zenon DEF B!Command
  <2>2. B!AfterFailure = 3 /\ 3 \in Nat \ {0} /\ at + 1 = 3
    BY <1>2, <1>5, <2>1, FailureGoesOn DEF Mk, Cp, B!Run
  <2>3. BuildsTypes' /\ Effects("test", disk["release"], 3, 3)
    BY <1>3, <2>1, <2>2, Copies, Zenon
  <2>4. /\ UNCHANGED <<family, rev, result>>
        /\ \A path \in B!Paths : path # "test" => disk'[path] = disk[path]
        /\ \/ disk'["test"] = disk["release"] /\ (smooth' => smooth) /\ script' = script /\ at' = 3
           \/ /\ disk'["test"] = disk["test"] \/ disk'["test"] = B!Nothing
              /\ ~ smooth' /\ ((script' = script /\ at' = 3) \/ script' = "none")
    BY <1>2, <2>3 DEF Effects, Goes
  <2> QED
    BY <1>3, <1>5, <2>3, <2>4, ProgramsBuilt
    DEF BuildsInv, CleanSource, TestSource, TmpSource, Untouched, NoResultOfBuilds,
        B!CleanMeansClean, B!SelfTestHonest, B!Idle, Faulty
<1>6. CASE at = 3
  <2>1. B!Command = B!Run("test")
    BY <1>2, <1>6, Zenon DEF B!Command
  <2>2. at + 1 = 4
    BY <1>6
  <2>3. /\ BuildsTypes' /\ UNCHANGED <<family, rev, disk>>
        /\ \/ /\ TellsOf(disk["test"])
              /\ Goes(4) /\ (smooth' => smooth)
           \/ script' = "none" /\ ~ smooth' /\ result' = result
    BY <1>3, <2>1, <2>2, RunEffects
  <2>4. \/ /\ result'.says = "PASS" => disk["test"].fault
           /\ result'.says = "FAIL" => ~ disk["test"].fault \/ family \in B!FirstReplyOnly
           /\ result'.ran = disk["test"] /\ (smooth' => smooth) /\ script' = script /\ at' = 4
        \/ script' = "none" /\ ~ smooth' /\ result' = result
    BY <1>2, <2>3 DEF Goes, TellsOf
  <2> QED
    BY <1>3, <1>6, <2>3, <2>4, ProgramsBuilt
    DEF BuildsInv, CleanSource, TestSource, TmpSource, Untouched, NoResultOfBuilds,
        B!CleanMeansClean, B!SelfTestHonest, B!Idle, Faulty
<1>7. CASE at = 4
  <2>1. B!Command = Mk("release", FALSE, 0)
    BY <1>2, <1>7, Zenon DEF B!Command
  <2>2. B!AfterFailure = 5 /\ 5 \in Nat \ {0} /\ at + 1 = 5
    BY <1>2, <1>7, <2>1, FailureGoesOn DEF Mk, Cp, B!Run
  <2>3. BuildsTypes' /\ Effects("release", Sound, 5, 5)
    BY <1>3, <2>1, <2>2, MakesSound, Zenon
  <2>4. /\ UNCHANGED <<family, rev, result>>
        /\ \A path \in B!Paths : path # "release" => disk'[path] = disk[path]
        /\ \/ disk'["release"] = Sound /\ (smooth' => smooth) /\ script' = "none"
           \/ /\ disk'["release"] = disk["release"] \/ disk'["release"] = B!Nothing
              /\ ~ smooth' /\ script' = "none"
    BY <1>2, <2>3 DEF Effects, Goes
  <2> QED
    BY <1>3, <1>7, <2>3, <2>4, ProgramsBuilt
    DEF BuildsInv, CleanSource, TestSource, TmpSource, Untouched, NoResultOfBuilds,
        B!CleanMeansClean, B!SelfTestHonest, B!Idle, Faulty
<1> QED BY <1>3, <1>4, <1>5, <1>6, <1>7

LEMMA RustBuild ==
  ASSUME BuildsInv, family = "rust", script = "build", OneCommand
  PROVE  BuildsInv'
<1>1. B!Commands = <<Mk("release", FALSE, 1), Cp("release", "clean", 1)>>
  BY TheScripts, Zenon DEF B!Commands
<1>2. /\ Len(B!Commands) = 2
      /\ B!Commands[1] = Mk("release", FALSE, 1)
      /\ B!Commands[2] = Cp("release", "clean", 1)
  BY <1>1
<1>3. /\ at \in 1 .. 2 /\ script # "none" /\ BuildsTypes
      /\ "clean" \in B!Paths /\ "fault" \in B!Paths /\ "release" \in B!Paths /\ "test" \in B!Paths
  BY <1>2 DEF BuildsInv, BuildsTypes, B!Paths
<1>4. CASE at = 1
  <2>1. B!Command = Mk("release", FALSE, 1)
    BY <1>2, <1>4, Zenon DEF B!Command
  <2>2. B!AfterFailure = 3 /\ 3 \in Nat \ {0} /\ at + 1 = 2
    BY <1>2, <1>4, <2>1, FailureLeaves DEF Mk, Cp, B!Run
  <2>3. BuildsTypes' /\ Effects("release", Sound, 2, 3)
    BY <1>3, <2>1, <2>2, MakesSound, Zenon
  <2>4. /\ UNCHANGED <<family, rev, result>>
        /\ \A path \in B!Paths : path # "release" => disk'[path] = disk[path]
        /\ \/ disk'["release"] = Sound /\ (smooth' => smooth) /\ script' = script /\ at' = 2
           \/ /\ disk'["release"] = disk["release"] \/ disk'["release"] = B!Nothing
              /\ ~ smooth' /\ script' = "none"
    BY <1>2, <2>3 DEF Effects, Goes
  <2> QED
    BY <1>3, <1>4, <2>3, <2>4, ProgramsBuilt
    DEF BuildsInv, CleanSource, TestSource, TmpSource, Untouched, NoResultOfBuilds,
        B!CleanMeansClean, B!SelfTestHonest, B!Idle, Faulty
<1>5. CASE at = 2
  <2>1. B!Command = Cp("release", "clean", 1)
    BY <1>2, <1>5, Zenon DEF B!Command
  <2>2. B!AfterFailure = 3 /\ 3 \in Nat \ {0} /\ at + 1 = 3
    BY <1>2, <1>5, <2>1, FailureLeaves DEF Mk, Cp, B!Run
  <2>3. BuildsTypes' /\ Effects("clean", disk["release"], 3, 3)
    BY <1>3, <2>1, <2>2, Copies, Zenon
  <2>4. /\ UNCHANGED <<family, rev, result>>
        /\ \A path \in B!Paths : path # "clean" => disk'[path] = disk[path]
        /\ \/ disk'["clean"] = disk["release"] /\ (smooth' => smooth) /\ script' = "none"
           \/ /\ disk'["clean"] = disk["clean"] \/ disk'["clean"] = B!Nothing
              /\ ~ smooth' /\ script' = "none"
    BY <1>2, <2>3 DEF Effects, Goes
  <2> QED
    BY <1>3, <1>5, <2>3, <2>4, ProgramsBuilt
    DEF BuildsInv, CleanSource, TestSource, TmpSource, Untouched, NoResultOfBuilds,
        B!CleanMeansClean, B!SelfTestHonest, B!Idle, Faulty
<1> QED BY <1>3, <1>4, <1>5

LEMMA RustBuildFault ==
  ASSUME BuildsInv, family = "rust", script = "buildfault", OneCommand
  PROVE  BuildsInv'
<1>1. B!Commands = <<Mk("release", TRUE, 1), Cp("release", "fault", 1)>>
  BY TheScripts, Zenon DEF B!Commands
<1>2. /\ Len(B!Commands) = 2
      /\ B!Commands[1] = Mk("release", TRUE, 1)
      /\ B!Commands[2] = Cp("release", "fault", 1)
  BY <1>1
<1>3. /\ at \in 1 .. 2 /\ script # "none" /\ BuildsTypes
      /\ "clean" \in B!Paths /\ "fault" \in B!Paths /\ "release" \in B!Paths /\ "test" \in B!Paths
  BY <1>2 DEF BuildsInv, BuildsTypes, B!Paths
<1>4. CASE at = 1
  <2>1. B!Command = Mk("release", TRUE, 1)
    BY <1>2, <1>4, Zenon DEF B!Command
  <2>2. B!AfterFailure = 3 /\ 3 \in Nat \ {0} /\ at + 1 = 2
    BY <1>2, <1>4, <2>1, FailureLeaves DEF Mk, Cp, B!Run
  <2>3. BuildsTypes' /\ Effects("release", Faulty, 2, 3)
    BY <1>3, <2>1, <2>2, MakesFaulty, Zenon
  <2>4. /\ UNCHANGED <<family, rev, result>>
        /\ \A path \in B!Paths : path # "release" => disk'[path] = disk[path]
        /\ \/ disk'["release"] = Faulty /\ (smooth' => smooth) /\ script' = script /\ at' = 2
           \/ /\ disk'["release"] = disk["release"] \/ disk'["release"] = B!Nothing
              /\ ~ smooth' /\ script' = "none"
    BY <1>2, <2>3 DEF Effects, Goes
  <2> QED
    BY <1>3, <1>4, <2>3, <2>4, ProgramsBuilt
    DEF BuildsInv, CleanSource, TestSource, TmpSource, Untouched, NoResultOfBuilds,
        B!CleanMeansClean, B!SelfTestHonest, B!Idle, Faulty
<1>5. CASE at = 2
  <2>1. B!Command = Cp("release", "fault", 1)
    BY <1>2, <1>5, Zenon DEF B!Command
  <2>2. B!AfterFailure = 3 /\ 3 \in Nat \ {0} /\ at + 1 = 3
    BY <1>2, <1>5, <2>1, FailureLeaves DEF Mk, Cp, B!Run
  <2>3. BuildsTypes' /\ Effects("fault", disk["release"], 3, 3)
    BY <1>3, <2>1, <2>2, Copies, Zenon
  <2>4. /\ UNCHANGED <<family, rev, result>>
        /\ \A path \in B!Paths : path # "fault" => disk'[path] = disk[path]
        /\ \/ disk'["fault"] = disk["release"] /\ (smooth' => smooth) /\ script' = "none"
           \/ /\ disk'["fault"] = disk["fault"] \/ disk'["fault"] = B!Nothing
              /\ ~ smooth' /\ script' = "none"
    BY <1>2, <2>3 DEF Effects, Goes
  <2> QED
    BY <1>3, <1>5, <2>3, <2>4, ProgramsBuilt
    DEF BuildsInv, CleanSource, TestSource, TmpSource, Untouched, NoResultOfBuilds,
        B!CleanMeansClean, B!SelfTestHonest, B!Idle, Faulty
<1> QED BY <1>3, <1>4, <1>5

LEMMA TfheSelfTest ==
  ASSUME BuildsInv, family = "tfhe", script = "selftest", OneCommand
  PROVE  BuildsInv'
<1>1. B!Commands = <<Mk("release", FALSE, 1), Cp("release", "clean", 1),
                     Mk("release", TRUE, 1), Cp("release", "fault", 1),
                     Mk("release", FALSE, 1), Cp("release", "clean", 1),
                     B!Run("fault")>>
  BY TheScripts, Zenon DEF B!Commands
<1>2. /\ Len(B!Commands) = 7
      /\ B!Commands[1] = Mk("release", FALSE, 1)
      /\ B!Commands[2] = Cp("release", "clean", 1)
      /\ B!Commands[3] = Mk("release", TRUE, 1)
      /\ B!Commands[4] = Cp("release", "fault", 1)
      /\ B!Commands[5] = Mk("release", FALSE, 1)
      /\ B!Commands[6] = Cp("release", "clean", 1)
      /\ B!Commands[7] = B!Run("fault")
  BY <1>1
<1>3. /\ at \in 1 .. 7 /\ script # "none" /\ BuildsTypes
      /\ "clean" \in B!Paths /\ "fault" \in B!Paths /\ "release" \in B!Paths /\ "test" \in B!Paths
  BY <1>2 DEF BuildsInv, BuildsTypes, B!Paths
<1>4. CASE at = 1
  <2>1. B!Command = Mk("release", FALSE, 1)
    BY <1>2, <1>4, Zenon DEF B!Command
  <2>2. B!AfterFailure = 7 /\ 7 \in Nat \ {0} /\ at + 1 = 2
    BY <1>2, <1>4, <2>1, FailureLeaves DEF Mk, Cp, B!Run
  <2>3. BuildsTypes' /\ Effects("release", Sound, 2, 7)
    BY <1>3, <2>1, <2>2, MakesSound, Zenon
  <2>4. /\ UNCHANGED <<family, rev, result>>
        /\ \A path \in B!Paths : path # "release" => disk'[path] = disk[path]
        /\ \/ disk'["release"] = Sound /\ (smooth' => smooth) /\ script' = script /\ at' = 2
           \/ /\ disk'["release"] = disk["release"] \/ disk'["release"] = B!Nothing
              /\ ~ smooth' /\ ((script' = script /\ at' = 7) \/ script' = "none")
    BY <1>2, <2>3 DEF Effects, Goes
  <2> QED
    BY <1>3, <1>4, <2>3, <2>4, ProgramsBuilt
    DEF BuildsInv, CleanSource, TestSource, TmpSource, Untouched, NoResultOfBuilds,
        B!CleanMeansClean, B!SelfTestHonest, B!Idle, Faulty
<1>5. CASE at = 2
  <2>1. B!Command = Cp("release", "clean", 1)
    BY <1>2, <1>5, Zenon DEF B!Command
  <2>2. B!AfterFailure = 7 /\ 7 \in Nat \ {0} /\ at + 1 = 3
    BY <1>2, <1>5, <2>1, FailureLeaves DEF Mk, Cp, B!Run
  <2>3. BuildsTypes' /\ Effects("clean", disk["release"], 3, 7)
    BY <1>3, <2>1, <2>2, Copies, Zenon
  <2>4. /\ UNCHANGED <<family, rev, result>>
        /\ \A path \in B!Paths : path # "clean" => disk'[path] = disk[path]
        /\ \/ disk'["clean"] = disk["release"] /\ (smooth' => smooth) /\ script' = script /\ at' = 3
           \/ /\ disk'["clean"] = disk["clean"] \/ disk'["clean"] = B!Nothing
              /\ ~ smooth' /\ ((script' = script /\ at' = 7) \/ script' = "none")
    BY <1>2, <2>3 DEF Effects, Goes
  <2> QED
    BY <1>3, <1>5, <2>3, <2>4, ProgramsBuilt
    DEF BuildsInv, CleanSource, TestSource, TmpSource, Untouched, NoResultOfBuilds,
        B!CleanMeansClean, B!SelfTestHonest, B!Idle, Faulty
<1>6. CASE at = 3
  <2>1. B!Command = Mk("release", TRUE, 1)
    BY <1>2, <1>6, Zenon DEF B!Command
  <2>2. B!AfterFailure = 7 /\ 7 \in Nat \ {0} /\ at + 1 = 4
    BY <1>2, <1>6, <2>1, FailureLeaves DEF Mk, Cp, B!Run
  <2>3. BuildsTypes' /\ Effects("release", Faulty, 4, 7)
    BY <1>3, <2>1, <2>2, MakesFaulty, Zenon
  <2>4. /\ UNCHANGED <<family, rev, result>>
        /\ \A path \in B!Paths : path # "release" => disk'[path] = disk[path]
        /\ \/ disk'["release"] = Faulty /\ (smooth' => smooth) /\ script' = script /\ at' = 4
           \/ /\ disk'["release"] = disk["release"] \/ disk'["release"] = B!Nothing
              /\ ~ smooth' /\ ((script' = script /\ at' = 7) \/ script' = "none")
    BY <1>2, <2>3 DEF Effects, Goes
  <2> QED
    BY <1>3, <1>6, <2>3, <2>4, ProgramsBuilt
    DEF BuildsInv, CleanSource, TestSource, TmpSource, Untouched, NoResultOfBuilds,
        B!CleanMeansClean, B!SelfTestHonest, B!Idle, Faulty
<1>7. CASE at = 4
  <2>1. B!Command = Cp("release", "fault", 1)
    BY <1>2, <1>7, Zenon DEF B!Command
  <2>2. B!AfterFailure = 7 /\ 7 \in Nat \ {0} /\ at + 1 = 5
    BY <1>2, <1>7, <2>1, FailureLeaves DEF Mk, Cp, B!Run
  <2>3. BuildsTypes' /\ Effects("fault", disk["release"], 5, 7)
    BY <1>3, <2>1, <2>2, Copies, Zenon
  <2>4. /\ UNCHANGED <<family, rev, result>>
        /\ \A path \in B!Paths : path # "fault" => disk'[path] = disk[path]
        /\ \/ disk'["fault"] = disk["release"] /\ (smooth' => smooth) /\ script' = script /\ at' = 5
           \/ /\ disk'["fault"] = disk["fault"] \/ disk'["fault"] = B!Nothing
              /\ ~ smooth' /\ ((script' = script /\ at' = 7) \/ script' = "none")
    BY <1>2, <2>3 DEF Effects, Goes
  <2> QED
    BY <1>3, <1>7, <2>3, <2>4, ProgramsBuilt
    DEF BuildsInv, CleanSource, TestSource, TmpSource, Untouched, NoResultOfBuilds,
        B!CleanMeansClean, B!SelfTestHonest, B!Idle, Faulty
<1>8. CASE at = 5
  <2>1. B!Command = Mk("release", FALSE, 1)
    BY <1>2, <1>8, Zenon DEF B!Command
  <2>2. B!AfterFailure = 7 /\ 7 \in Nat \ {0} /\ at + 1 = 6
    BY <1>2, <1>8, <2>1, FailureLeaves DEF Mk, Cp, B!Run
  <2>3. BuildsTypes' /\ Effects("release", Sound, 6, 7)
    BY <1>3, <2>1, <2>2, MakesSound, Zenon
  <2>4. /\ UNCHANGED <<family, rev, result>>
        /\ \A path \in B!Paths : path # "release" => disk'[path] = disk[path]
        /\ \/ disk'["release"] = Sound /\ (smooth' => smooth) /\ script' = script /\ at' = 6
           \/ /\ disk'["release"] = disk["release"] \/ disk'["release"] = B!Nothing
              /\ ~ smooth' /\ ((script' = script /\ at' = 7) \/ script' = "none")
    BY <1>2, <2>3 DEF Effects, Goes
  <2> QED
    BY <1>3, <1>8, <2>3, <2>4, ProgramsBuilt
    DEF BuildsInv, CleanSource, TestSource, TmpSource, Untouched, NoResultOfBuilds,
        B!CleanMeansClean, B!SelfTestHonest, B!Idle, Faulty
<1>9. CASE at = 6
  <2>1. B!Command = Cp("release", "clean", 1)
    BY <1>2, <1>9, Zenon DEF B!Command
  <2>2. B!AfterFailure = 7 /\ 7 \in Nat \ {0} /\ at + 1 = 7
    BY <1>2, <1>9, <2>1, FailureLeaves DEF Mk, Cp, B!Run
  <2>3. BuildsTypes' /\ Effects("clean", disk["release"], 7, 7)
    BY <1>3, <2>1, <2>2, Copies, Zenon
  <2>4. /\ UNCHANGED <<family, rev, result>>
        /\ \A path \in B!Paths : path # "clean" => disk'[path] = disk[path]
        /\ \/ disk'["clean"] = disk["release"] /\ (smooth' => smooth) /\ script' = script /\ at' = 7
           \/ /\ disk'["clean"] = disk["clean"] \/ disk'["clean"] = B!Nothing
              /\ ~ smooth' /\ ((script' = script /\ at' = 7) \/ script' = "none")
    BY <1>2, <2>3 DEF Effects, Goes
  <2> QED
    BY <1>3, <1>9, <2>3, <2>4, ProgramsBuilt
    DEF BuildsInv, CleanSource, TestSource, TmpSource, Untouched, NoResultOfBuilds,
        B!CleanMeansClean, B!SelfTestHonest, B!Idle, Faulty
<1>10. CASE at = 7
  <2>1. B!Command = B!Run("fault")
    BY <1>2, <1>10, Zenon DEF B!Command
  <2>2. at + 1 = 8
    BY <1>10
  <2>3. /\ BuildsTypes' /\ UNCHANGED <<family, rev, disk>>
        /\ \/ /\ TellsOf(disk["fault"])
              /\ Goes(8) /\ (smooth' => smooth)
           \/ script' = "none" /\ ~ smooth' /\ result' = result
    BY <1>3, <2>1, <2>2, RunEffects
  <2>4. \/ /\ result'.says = "PASS" => disk["fault"].fault
           /\ result'.says = "FAIL" => ~ disk["fault"].fault \/ family \in B!FirstReplyOnly
           /\ result'.ran = disk["fault"] /\ (smooth' => smooth) /\ script' = "none"
        \/ script' = "none" /\ ~ smooth' /\ result' = result
    BY <1>2, <2>3 DEF Goes, TellsOf
  <2> QED
    BY <1>3, <1>10, <2>3, <2>4, ProgramsBuilt
    DEF BuildsInv, CleanSource, TestSource, TmpSource, Untouched, NoResultOfBuilds,
        B!CleanMeansClean, B!SelfTestHonest, B!Idle, Faulty
<1> QED BY <1>3, <1>4, <1>5, <1>6, <1>7, <1>8, <1>9, <1>10

LEMMA TfheBuild ==
  ASSUME BuildsInv, family = "tfhe", script = "build", OneCommand
  PROVE  BuildsInv'
<1>1. B!Commands = <<Mk("release", FALSE, 1), Cp("release", "clean", 1)>>
  BY TheScripts, Zenon DEF B!Commands
<1>2. /\ Len(B!Commands) = 2
      /\ B!Commands[1] = Mk("release", FALSE, 1)
      /\ B!Commands[2] = Cp("release", "clean", 1)
  BY <1>1
<1>3. /\ at \in 1 .. 2 /\ script # "none" /\ BuildsTypes
      /\ "clean" \in B!Paths /\ "fault" \in B!Paths /\ "release" \in B!Paths /\ "test" \in B!Paths
  BY <1>2 DEF BuildsInv, BuildsTypes, B!Paths
<1>4. CASE at = 1
  <2>1. B!Command = Mk("release", FALSE, 1)
    BY <1>2, <1>4, Zenon DEF B!Command
  <2>2. B!AfterFailure = 3 /\ 3 \in Nat \ {0} /\ at + 1 = 2
    BY <1>2, <1>4, <2>1, FailureLeaves DEF Mk, Cp, B!Run
  <2>3. BuildsTypes' /\ Effects("release", Sound, 2, 3)
    BY <1>3, <2>1, <2>2, MakesSound, Zenon
  <2>4. /\ UNCHANGED <<family, rev, result>>
        /\ \A path \in B!Paths : path # "release" => disk'[path] = disk[path]
        /\ \/ disk'["release"] = Sound /\ (smooth' => smooth) /\ script' = script /\ at' = 2
           \/ /\ disk'["release"] = disk["release"] \/ disk'["release"] = B!Nothing
              /\ ~ smooth' /\ script' = "none"
    BY <1>2, <2>3 DEF Effects, Goes
  <2> QED
    BY <1>3, <1>4, <2>3, <2>4, ProgramsBuilt
    DEF BuildsInv, CleanSource, TestSource, TmpSource, Untouched, NoResultOfBuilds,
        B!CleanMeansClean, B!SelfTestHonest, B!Idle, Faulty
<1>5. CASE at = 2
  <2>1. B!Command = Cp("release", "clean", 1)
    BY <1>2, <1>5, Zenon DEF B!Command
  <2>2. B!AfterFailure = 3 /\ 3 \in Nat \ {0} /\ at + 1 = 3
    BY <1>2, <1>5, <2>1, FailureLeaves DEF Mk, Cp, B!Run
  <2>3. BuildsTypes' /\ Effects("clean", disk["release"], 3, 3)
    BY <1>3, <2>1, <2>2, Copies, Zenon
  <2>4. /\ UNCHANGED <<family, rev, result>>
        /\ \A path \in B!Paths : path # "clean" => disk'[path] = disk[path]
        /\ \/ disk'["clean"] = disk["release"] /\ (smooth' => smooth) /\ script' = "none"
           \/ /\ disk'["clean"] = disk["clean"] \/ disk'["clean"] = B!Nothing
              /\ ~ smooth' /\ script' = "none"
    BY <1>2, <2>3 DEF Effects, Goes
  <2> QED
    BY <1>3, <1>5, <2>3, <2>4, ProgramsBuilt
    DEF BuildsInv, CleanSource, TestSource, TmpSource, Untouched, NoResultOfBuilds,
        B!CleanMeansClean, B!SelfTestHonest, B!Idle, Faulty
<1> QED BY <1>3, <1>4, <1>5

LEMMA TfheBuildFault ==
  ASSUME BuildsInv, family = "tfhe", script = "buildfault", OneCommand
  PROVE  BuildsInv'
<1>1. B!Commands = <<Mk("release", FALSE, 1), Cp("release", "clean", 1),
                     Mk("release", TRUE, 1), Cp("release", "fault", 1),
                     Mk("release", FALSE, 1), Cp("release", "clean", 1)>>
  BY TheScripts, Zenon DEF B!Commands
<1>2. /\ Len(B!Commands) = 6
      /\ B!Commands[1] = Mk("release", FALSE, 1)
      /\ B!Commands[2] = Cp("release", "clean", 1)
      /\ B!Commands[3] = Mk("release", TRUE, 1)
      /\ B!Commands[4] = Cp("release", "fault", 1)
      /\ B!Commands[5] = Mk("release", FALSE, 1)
      /\ B!Commands[6] = Cp("release", "clean", 1)
  BY <1>1
<1>3. /\ at \in 1 .. 6 /\ script # "none" /\ BuildsTypes
      /\ "clean" \in B!Paths /\ "fault" \in B!Paths /\ "release" \in B!Paths /\ "test" \in B!Paths
  BY <1>2 DEF BuildsInv, BuildsTypes, B!Paths
<1>4. CASE at = 1
  <2>1. B!Command = Mk("release", FALSE, 1)
    BY <1>2, <1>4, Zenon DEF B!Command
  <2>2. B!AfterFailure = 7 /\ 7 \in Nat \ {0} /\ at + 1 = 2
    BY <1>2, <1>4, <2>1, FailureLeaves DEF Mk, Cp, B!Run
  <2>3. BuildsTypes' /\ Effects("release", Sound, 2, 7)
    BY <1>3, <2>1, <2>2, MakesSound, Zenon
  <2>4. /\ UNCHANGED <<family, rev, result>>
        /\ \A path \in B!Paths : path # "release" => disk'[path] = disk[path]
        /\ \/ disk'["release"] = Sound /\ (smooth' => smooth) /\ script' = script /\ at' = 2
           \/ /\ disk'["release"] = disk["release"] \/ disk'["release"] = B!Nothing
              /\ ~ smooth' /\ script' = "none"
    BY <1>2, <2>3 DEF Effects, Goes
  <2> QED
    BY <1>3, <1>4, <2>3, <2>4, ProgramsBuilt
    DEF BuildsInv, CleanSource, TestSource, TmpSource, Untouched, NoResultOfBuilds,
        B!CleanMeansClean, B!SelfTestHonest, B!Idle, Faulty
<1>5. CASE at = 2
  <2>1. B!Command = Cp("release", "clean", 1)
    BY <1>2, <1>5, Zenon DEF B!Command
  <2>2. B!AfterFailure = 7 /\ 7 \in Nat \ {0} /\ at + 1 = 3
    BY <1>2, <1>5, <2>1, FailureLeaves DEF Mk, Cp, B!Run
  <2>3. BuildsTypes' /\ Effects("clean", disk["release"], 3, 7)
    BY <1>3, <2>1, <2>2, Copies, Zenon
  <2>4. /\ UNCHANGED <<family, rev, result>>
        /\ \A path \in B!Paths : path # "clean" => disk'[path] = disk[path]
        /\ \/ disk'["clean"] = disk["release"] /\ (smooth' => smooth) /\ script' = script /\ at' = 3
           \/ /\ disk'["clean"] = disk["clean"] \/ disk'["clean"] = B!Nothing
              /\ ~ smooth' /\ script' = "none"
    BY <1>2, <2>3 DEF Effects, Goes
  <2> QED
    BY <1>3, <1>5, <2>3, <2>4, ProgramsBuilt
    DEF BuildsInv, CleanSource, TestSource, TmpSource, Untouched, NoResultOfBuilds,
        B!CleanMeansClean, B!SelfTestHonest, B!Idle, Faulty
<1>6. CASE at = 3
  <2>1. B!Command = Mk("release", TRUE, 1)
    BY <1>2, <1>6, Zenon DEF B!Command
  <2>2. B!AfterFailure = 7 /\ 7 \in Nat \ {0} /\ at + 1 = 4
    BY <1>2, <1>6, <2>1, FailureLeaves DEF Mk, Cp, B!Run
  <2>3. BuildsTypes' /\ Effects("release", Faulty, 4, 7)
    BY <1>3, <2>1, <2>2, MakesFaulty, Zenon
  <2>4. /\ UNCHANGED <<family, rev, result>>
        /\ \A path \in B!Paths : path # "release" => disk'[path] = disk[path]
        /\ \/ disk'["release"] = Faulty /\ (smooth' => smooth) /\ script' = script /\ at' = 4
           \/ /\ disk'["release"] = disk["release"] \/ disk'["release"] = B!Nothing
              /\ ~ smooth' /\ script' = "none"
    BY <1>2, <2>3 DEF Effects, Goes
  <2> QED
    BY <1>3, <1>6, <2>3, <2>4, ProgramsBuilt
    DEF BuildsInv, CleanSource, TestSource, TmpSource, Untouched, NoResultOfBuilds,
        B!CleanMeansClean, B!SelfTestHonest, B!Idle, Faulty
<1>7. CASE at = 4
  <2>1. B!Command = Cp("release", "fault", 1)
    BY <1>2, <1>7, Zenon DEF B!Command
  <2>2. B!AfterFailure = 7 /\ 7 \in Nat \ {0} /\ at + 1 = 5
    BY <1>2, <1>7, <2>1, FailureLeaves DEF Mk, Cp, B!Run
  <2>3. BuildsTypes' /\ Effects("fault", disk["release"], 5, 7)
    BY <1>3, <2>1, <2>2, Copies, Zenon
  <2>4. /\ UNCHANGED <<family, rev, result>>
        /\ \A path \in B!Paths : path # "fault" => disk'[path] = disk[path]
        /\ \/ disk'["fault"] = disk["release"] /\ (smooth' => smooth) /\ script' = script /\ at' = 5
           \/ /\ disk'["fault"] = disk["fault"] \/ disk'["fault"] = B!Nothing
              /\ ~ smooth' /\ script' = "none"
    BY <1>2, <2>3 DEF Effects, Goes
  <2> QED
    BY <1>3, <1>7, <2>3, <2>4, ProgramsBuilt
    DEF BuildsInv, CleanSource, TestSource, TmpSource, Untouched, NoResultOfBuilds,
        B!CleanMeansClean, B!SelfTestHonest, B!Idle, Faulty
<1>8. CASE at = 5
  <2>1. B!Command = Mk("release", FALSE, 1)
    BY <1>2, <1>8, Zenon DEF B!Command
  <2>2. B!AfterFailure = 7 /\ 7 \in Nat \ {0} /\ at + 1 = 6
    BY <1>2, <1>8, <2>1, FailureLeaves DEF Mk, Cp, B!Run
  <2>3. BuildsTypes' /\ Effects("release", Sound, 6, 7)
    BY <1>3, <2>1, <2>2, MakesSound, Zenon
  <2>4. /\ UNCHANGED <<family, rev, result>>
        /\ \A path \in B!Paths : path # "release" => disk'[path] = disk[path]
        /\ \/ disk'["release"] = Sound /\ (smooth' => smooth) /\ script' = script /\ at' = 6
           \/ /\ disk'["release"] = disk["release"] \/ disk'["release"] = B!Nothing
              /\ ~ smooth' /\ script' = "none"
    BY <1>2, <2>3 DEF Effects, Goes
  <2> QED
    BY <1>3, <1>8, <2>3, <2>4, ProgramsBuilt
    DEF BuildsInv, CleanSource, TestSource, TmpSource, Untouched, NoResultOfBuilds,
        B!CleanMeansClean, B!SelfTestHonest, B!Idle, Faulty
<1>9. CASE at = 6
  <2>1. B!Command = Cp("release", "clean", 1)
    BY <1>2, <1>9, Zenon DEF B!Command
  <2>2. B!AfterFailure = 7 /\ 7 \in Nat \ {0} /\ at + 1 = 7
    BY <1>2, <1>9, <2>1, FailureLeaves DEF Mk, Cp, B!Run
  <2>3. BuildsTypes' /\ Effects("clean", disk["release"], 7, 7)
    BY <1>3, <2>1, <2>2, Copies, Zenon
  <2>4. /\ UNCHANGED <<family, rev, result>>
        /\ \A path \in B!Paths : path # "clean" => disk'[path] = disk[path]
        /\ \/ disk'["clean"] = disk["release"] /\ (smooth' => smooth) /\ script' = "none"
           \/ /\ disk'["clean"] = disk["clean"] \/ disk'["clean"] = B!Nothing
              /\ ~ smooth' /\ script' = "none"
    BY <1>2, <2>3 DEF Effects, Goes
  <2> QED
    BY <1>3, <1>9, <2>3, <2>4, ProgramsBuilt
    DEF BuildsInv, CleanSource, TestSource, TmpSource, Untouched, NoResultOfBuilds,
        B!CleanMeansClean, B!SelfTestHonest, B!Idle, Faulty
<1> QED BY <1>3, <1>4, <1>5, <1>6, <1>7, <1>8, <1>9

LEMMA TmpBuild ==
  ASSUME BuildsInv, family = "tmp", script \in {"build", "buildfault"}, OneCommand
  PROVE  BuildsInv'
<1>1. B!Commands = <<Mk("clean", FALSE, 1)>>
  BY TheScripts, Zenon DEF B!Commands
<1>2. Len(B!Commands) = 1 /\ B!Commands[1] = Mk("clean", FALSE, 1)
  BY <1>1
<1>3. /\ at \in 1 .. 1 /\ script # "none" /\ BuildsTypes
      /\ "clean" \in B!Paths /\ "fault" \in B!Paths /\ "release" \in B!Paths /\ "test" \in B!Paths
  BY <1>2 DEF BuildsInv, BuildsTypes, B!Paths
<1>4. CASE at = 1
  <2>1. B!Command = Mk("clean", FALSE, 1)
    BY <1>2, <1>4, Zenon DEF B!Command
  <2>2. B!AfterFailure = 2 /\ 2 \in Nat \ {0} /\ at + 1 = 2
    BY <1>2, <1>4, <2>1, FailureLeaves DEF Mk, Cp, B!Run
  <2>3. BuildsTypes' /\ Effects("clean", Sound, 2, 2)
    BY <1>3, <2>1, <2>2, MakesSound, Zenon
  <2>4. /\ UNCHANGED <<family, rev, result>>
        /\ \A path \in B!Paths : path # "clean" => disk'[path] = disk[path]
        /\ \/ disk'["clean"] = Sound /\ (smooth' => smooth) /\ script' = "none"
           \/ /\ disk'["clean"] = disk["clean"] \/ disk'["clean"] = B!Nothing
              /\ ~ smooth' /\ script' = "none"
    BY <1>2, <2>3 DEF Effects, Goes
  <2> QED
    BY <1>3, <1>4, <2>3, <2>4, ProgramsBuilt
    DEF BuildsInv, CleanSource, TestSource, TmpSource, Untouched, NoResultOfBuilds,
        B!CleanMeansClean, B!SelfTestHonest, B!Idle, Faulty
<1> QED BY <1>3, <1>4

-----------------------------------------------------------------------------
LEMMA ScriptLengths ==
  ASSUME NEW f \in Families, NEW s \in {"selftest", "build", "buildfault"}
  PROVE  Len(B!Script(f, s)) \in Nat \ {0}
<1>1. f \in {"tmp", "go", "kat", "rust", "tfhe"}
  BY ScriptsConstantsOK DEF ScriptsConstantsOK
<1>2. /\ \A a : Len(<<a>>) = 1
      /\ \A a, b : Len(<<a, b>>) = 2
      /\ \A a, b, c : Len(<<a, b, c>>) = 3
      /\ \A a, b, c, d : Len(<<a, b, c, d>>) = 4
      /\ \A a, b, c, d, e, g : Len(<<a, b, c, d, e, g>>) = 6
      /\ \A a, b, c, d, e, g, h : Len(<<a, b, c, d, e, g, h>>) = 7
  OBVIOUS
<1>3. CASE s = "selftest"
  <2>1. Len(B!Script("tmp", "selftest")) = 2 /\ Len(B!Script("go", "selftest")) = 2
    BY <1>2, TheScripts, Zenon
  <2>2. Len(B!Script("kat", "selftest")) = 3
    BY <1>2, TheScripts, Zenon
  <2>3. Len(B!Script("rust", "selftest")) = 4
    BY <1>2, TheScripts, Zenon
  <2>4. Len(B!Script("tfhe", "selftest")) = 7
    BY <1>2, TheScripts, Zenon
  <2> QED BY <1>1, <1>3, <2>1, <2>2, <2>3, <2>4
<1>4. CASE s \in {"build", "buildfault"}
  <2>1. Len(B!Script("tmp", s)) = 1
    BY <1>2, <1>4, TheScripts, Zenon
  <2>2. /\ Len(B!Script("kat", "build")) = 1 /\ Len(B!Script("kat", "buildfault")) = 1
        /\ Len(B!Script("go", "build")) = 1 /\ Len(B!Script("go", "buildfault")) = 1
    BY <1>2, TheScripts, Zenon
  <2>3. Len(B!Script("rust", "build")) = 2 /\ Len(B!Script("rust", "buildfault")) = 2
    BY <1>2, TheScripts, Zenon
  <2>4. Len(B!Script("tfhe", "build")) = 2
    BY <1>2, TheScripts, Zenon
  <2>5. Len(B!Script("tfhe", "buildfault")) = 6
    BY <1>2, TheScripts, Zenon
  <2> QED BY <1>1, <1>4, <2>1, <2>2, <2>3, <2>4, <2>5
<1> QED BY <1>3, <1>4

LEMMA BuildsInit == B!Init => BuildsInv
<1> SUFFICES ASSUME B!Init PROVE BuildsInv
  OBVIOUS
<1>1. /\ family = "none" /\ script = "none" /\ at = 1 /\ rev = 1 /\ smooth = TRUE
      /\ result = B!NoResult /\ disk = [path \in B!Paths |-> B!Nothing]
      /\ B!NoResult.says = "none"
  BY DEF B!Init, B!NoResult
<1>2. BuildsTypes
  BY <1>1 DEF BuildsTypes, B!Nothing
<1>3. ~ disk["release"].fault /\ ~ disk["clean"].fault
  BY <1>1, ProgramsBuilt DEF B!Paths
<1> QED BY <1>1, <1>2, <1>3 DEF BuildsInv, CleanSource, TestSource, TmpSource, Untouched,
          NoResultOfBuilds, B!CleanMeansClean, B!SelfTestHonest

LEMMA BuildsBegin ==
  ASSUME BuildsInv, B!Begin PROVE BuildsInv'
<1>1. PICK f \in IF family = "none" THEN Families ELSE {family},
           s \in {"selftest", "build", "buildfault"} :
        family' = f /\ script' = s /\ disk' = [disk EXCEPT !["test"] = B!Nothing]
  BY DEF B!Begin
<1>2. /\ script = "none" /\ at' = 1 /\ result' = B!NoResult /\ smooth' = TRUE /\ rev' = rev
      /\ B!NoResult.says = "none" /\ f \in Families
      /\ family \notin {"rust", "tfhe"} \/ family' = family
  BY <1>1 DEF B!Begin, B!Idle, B!NoResult, BuildsInv, BuildsTypes
<1>3. /\ disk'["release"] = disk["release"] /\ disk'["clean"] = disk["clean"]
      /\ disk'["test"] = B!Nothing
      /\ disk' \in [B!Paths -> Program]
  BY <1>1 DEF BuildsInv, BuildsTypes, B!Paths, B!Nothing, Program
<1>4. B!Commands' = B!Script(f, s)
  BY <1>1 DEF B!Commands
<1>5. BuildsTypes'
  BY <1>1, <1>2, <1>3, <1>4, ScriptLengths DEF BuildsInv, BuildsTypes, Program
<1> QED BY <1>1, <1>2, <1>3, <1>5 DEF BuildsInv, CleanSource, TestSource, TmpSource, Untouched,
          NoResultOfBuilds, B!CleanMeansClean, B!SelfTestHonest, B!Idle

LEMMA BuildsEdit ==
  ASSUME BuildsInv, B!Edit PROVE BuildsInv'
<1>1. /\ script = "none" /\ script' = "none" /\ family' = family /\ disk' = disk
      /\ rev' = rev + 1 /\ result' = B!NoResult /\ smooth' = TRUE
      /\ B!NoResult.says = "none"
  BY DEF B!Edit, B!Idle, B!NoResult
<1>2. BuildsTypes'
  BY <1>1 DEF BuildsInv, BuildsTypes
<1> QED BY <1>1, <1>2 DEF BuildsInv, CleanSource, TestSource, TmpSource, Untouched,
          NoResultOfBuilds, B!CleanMeansClean, B!SelfTestHonest

LEMMA BuildsUnchanged ==
  ASSUME BuildsInv, UNCHANGED buildvars PROVE BuildsInv'
BY Zenon DEF buildvars, BuildsInv, BuildsTypes, Faulty, CleanSource, TestSource, TmpSource,
   Untouched, NoResultOfBuilds, B!CleanMeansClean, B!SelfTestHonest, B!Idle, B!Commands

(* Every step of the builds keeps the invariant.                           *)
LEMMA BuildsStep ==
  ASSUME BuildsInv, B!Next PROVE BuildsInv'
<1>1. CASE OneCommand
  <2>1. script # "none" /\ family \in {"tmp", "go", "kat", "rust", "tfhe"}
    BY <1>1, ScriptsConstantsOK DEF OneCommand, B!Succeeds, B!Fails, B!Judge, B!Interrupt,
       B!Idle, BuildsInv, BuildsTypes, ScriptsConstantsOK
  <2>2. script \in {"selftest", "build", "buildfault"}
    BY <2>1 DEF BuildsInv, BuildsTypes
  <2>3. CASE script = "selftest"
    BY <1>1, <2>1, <2>3, TmpSelfTest, KatSelfTest, RustSelfTest, TfheSelfTest, Zenon
  <2>4. CASE script = "build"
    BY <1>1, <2>1, <2>4, TmpBuild, KatBuild, RustBuild, TfheBuild, Zenon
  <2>5. CASE script = "buildfault"
    BY <1>1, <2>1, <2>5, TmpBuild, KatBuildFault, RustBuildFault, TfheBuildFault, Zenon
  <2> QED BY <2>2, <2>3, <2>4, <2>5
<1>2. CASE B!Over
  <2>1. UNCHANGED buildvars
    BY <1>2 DEF B!Over, B!buildvars, buildvars
  <2> QED BY <2>1, BuildsUnchanged
<1> QED BY <1>1, <1>2, BuildsBegin, BuildsEdit DEF B!Next, OneCommand

-----------------------------------------------------------------------------
(* What has been timed: as long as signatures are, msg_rand is the last    *)
(* message drawn, and what class 1 signed before is older.                 *)
Inputs == {"random", "fixed", "pool"} \X Nat

TimedTypes ==
  /\ cls \in Seq({0, 1}) /\ timed \in Seq(Inputs) /\ Len(timed) = Len(cls)
  /\ drawn \in Nat /\ msg_rand \in Nat
  /\ dpc = "new" => Len(timed) = 0 /\ msg_rand = drawn

SignedBefore ==
  target[1] = "sign" =>
    /\ msg_rand = drawn
    /\ \A i \in 1 .. Len(timed) :
         IF cls[i] = 1 THEN timed[i][1] = "random" /\ timed[i][2] < drawn
                       ELSE timed[i][1] = "fixed"

TimedInv == TimedTypes /\ SignedBefore /\ D!MessagesFresh

LEMMA TimedInit == D!Init => TimedInv
BY DEF D!Init, TimedInv, TimedTypes, SignedBefore, D!MessagesFresh

LEMMA TimedUnchanged ==
  ASSUME TimedInv, UNCHANGED <<target, cls, timed, drawn, msg_rand>>,
         dpc' # "new" \/ dpc' = dpc
  PROVE  TimedInv'
BY DEF TimedInv, TimedTypes, SignedBefore, D!MessagesFresh

LEMMA TimedMeasure ==
  ASSUME TimedInv, D!Measure
  PROVE  TimedInv'
<1>1. PICK c \in {0, 1} : cls' = Append(cls, c) /\ D!Prologue(c)
  BY DEF D!Measure
<1> DEFINE n == Len(timed)
<1>2. /\ target' = target /\ dpc' # "new" /\ n \in Nat /\ Len(cls) = n
      /\ cls \in Seq({0, 1}) /\ timed \in Seq(Inputs) /\ drawn \in Nat /\ msg_rand \in Nat
  BY DEF D!Measure, TimedInv, TimedTypes
<1>3. PICK x \in Inputs :
        /\ timed' = Append(timed, x)
        /\ target[1] = "sign" => x = IF c = 1 THEN <<"random", msg_rand>> ELSE <<"fixed", 0>>
  BY <1>1, <1>2 DEF D!Prologue, Inputs
<1>4. /\ drawn' \in Nat /\ msg_rand' \in Nat
      /\ target[1] = "sign" => IF c = 1 THEN drawn' = drawn + 1 /\ msg_rand' = drawn'
                                        ELSE drawn' = drawn /\ msg_rand' = msg_rand
  BY <1>1, <1>2 DEF D!Prologue
<1>5. /\ cls' \in Seq({0, 1}) /\ Len(cls') = n + 1 /\ cls'[n + 1] = c
      /\ \A i \in 1 .. n : cls'[i] = cls[i]
  BY <1>1, <1>2
<1>6. /\ timed' \in Seq(Inputs) /\ Len(timed') = n + 1 /\ timed'[n + 1] = x
      /\ \A i \in 1 .. n : timed'[i] = timed[i]
  BY <1>2, <1>3
<1>7. TimedTypes'
  BY <1>2, <1>4, <1>5, <1>6 DEF TimedTypes
<1>8. ASSUME target[1] = "sign"
      PROVE  SignedBefore' /\ D!MessagesFresh'
  <2>1. /\ msg_rand = drawn /\ msg_rand' = drawn'
        /\ IF c = 1 THEN x[1] = "random" /\ x[2] = drawn /\ drawn' = drawn + 1
                    ELSE x[1] = "fixed" /\ drawn' = drawn
    BY <1>3, <1>4, <1>8 DEF TimedInv, SignedBefore
  <2>2. \A i \in 1 .. n :
          IF cls[i] = 1 THEN timed[i][1] = "random" /\ timed[i][2] < drawn
                        ELSE timed[i][1] = "fixed"
    BY <1>8 DEF TimedInv, SignedBefore
  <2>3. \A i \in 1 .. n : timed[i][2] \in Nat
    BY <1>2 DEF Inputs
  <2>4. \A i \in 1 .. (n + 1) : i = n + 1 \/ i \in 1 .. n
    BY <1>2
  <2>5. \A i \in 1 .. (n + 1) :
          IF cls'[i] = 1 THEN timed'[i][1] = "random" /\ timed'[i][2] < drawn'
                         ELSE timed'[i][1] = "fixed"
    BY <1>2, <1>5, <1>6, <2>1, <2>2, <2>3, <2>4
  <2>6. SignedBefore'
    BY <1>6, <2>1, <2>5 DEF SignedBefore
  <2>7. ASSUME NEW i \in 1 .. (n + 1), NEW j \in 1 .. (n + 1),
               cls'[i] = 1, timed'[i] = timed'[j]
        PROVE  i = j
    <3>1. CASE i = n + 1 /\ j \in 1 .. n
      BY <1>2, <1>5, <1>6, <2>1, <2>2, <2>3, <2>7, <3>1
    <3>2. CASE i \in 1 .. n /\ j = n + 1
      BY <1>2, <1>5, <1>6, <2>1, <2>2, <2>3, <2>7, <3>2
    <3>3. CASE i \in 1 .. n /\ j \in 1 .. n
      <4>1. DOMAIN timed = 1 .. n
        BY <1>2
      <4>2. cls[i] = 1 /\ timed[i] = timed[j]
        BY <1>5, <1>6, <2>7, <3>3
      <4> QED BY <1>8, <3>3, <4>1, <4>2 DEF TimedInv, D!MessagesFresh
    <3> QED BY <2>4, <3>1, <3>2, <3>3
  <2>8. DOMAIN timed' = 1 .. (n + 1)
    BY <1>6
  <2> QED BY <2>6, <2>7, <2>8 DEF D!MessagesFresh
<1>9. CASE target[1] # "sign"
  BY <1>2, <1>7, <1>9 DEF TimedInv, SignedBefore, D!MessagesFresh
<1> QED BY <1>7, <1>8, <1>9 DEF TimedInv

LEMMA TimedStep ==
  ASSUME TimedInv, D!Next
  PROVE  TimedInv'
<1>1. CASE D!Enter
  <2>1. /\ UNCHANGED <<cls, timed, drawn, msg_rand>> /\ dpc' = "measure" /\ dpc = "new"
    BY <1>1 DEF D!Enter
  <2>2. Len(timed) = 0 /\ msg_rand = drawn /\ timed \in Seq(Inputs)
    BY <2>1 DEF TimedInv, TimedTypes
  <2>3. TimedTypes'
    BY <2>1 DEF TimedInv, TimedTypes
  <2>4. DOMAIN timed' = {} /\ Len(timed') = 0
    BY <2>1, <2>2
  <2>5. SignedBefore' /\ D!MessagesFresh'
    BY <2>1, <2>2, <2>4 DEF SignedBefore, D!MessagesFresh
  <2> QED BY <2>3, <2>5 DEF TimedInv
<1>2. CASE D!Sort \/ D!Crop \/ D!Judge \/ D!Over
  <2>1. UNCHANGED <<target, cls, timed, drawn, msg_rand>> /\ (dpc' # "new" \/ dpc' = dpc)
    BY <1>2 DEF D!Sort, D!Crop, D!Judge, D!Over, D!ctvars
  <2> QED BY <2>1, TimedUnchanged
<1> QED BY <1>1, <1>2, TimedMeasure DEF D!Next

-----------------------------------------------------------------------------
(* Welch's test.  t_push's running mean and sum of squares are those of    *)
(* the definition, for any number of measurements, so that welch_t is.     *)

(* Statements about all numbers, or about all subsets of a finite set, by  *)
(* their least counterexample: Good is the set of which they hold.         *)
LEMMA CountUp ==
  ASSUME NEW Good, 0 \in Good, \A k \in Nat : k \in Good => k + 1 \in Good
  PROVE  Nat \subseteq Good
<1> SUFFICES ASSUME Nat \ Good # {} PROVE FALSE
  OBVIOUS
<1>1. PICK k \in Nat \ Good : \A j \in Nat \ Good : k <= j
  BY LeastExists
<1>2. k - 1 \in Nat /\ k - 1 \notin Nat \ Good
  BY <1>1
<1> QED BY <1>1, <1>2

LEMMA SmallerSets ==
  ASSUME NEW S, IsFiniteSet(S), NEW Good,
         \A T \in SUBSET S : (\A U \in SUBSET T : U # T => U \in Good) => T \in Good
  PROVE  SUBSET S \subseteq Good
<1> SUFFICES ASSUME NEW W \in SUBSET S, W \notin Good PROVE FALSE
  OBVIOUS
<1> DEFINE Bad == (SUBSET S) \ Good
           Sizes == {Cardinality(T) : T \in Bad}
<1>1. \A T \in SUBSET S : IsFiniteSet(T) /\ Cardinality(T) \in Nat
  BY FS_Subset, FS_CardinalityType
<1>2. Sizes \in SUBSET Nat /\ Sizes # {}
  BY <1>1
<1>3. PICK n \in Sizes : \A m \in Sizes : n <= m
  BY <1>2, LeastExists
<1>4. PICK T \in Bad : Cardinality(T) = n
  BY <1>3
<1>5. PICK U \in SUBSET T : U # T /\ U \in Bad
  BY <1>4
<1>6. Cardinality(U) <= Cardinality(T) /\ (Cardinality(U) = Cardinality(T) => U = T)
  BY <1>1, <1>4, FS_Subset
<1>7. n <= Cardinality(U)
  BY <1>3, <1>5
<1> QED BY <1>1, <1>4, <1>5, <1>6, <1>7

(* MapThenSumSet is the value, at S, of a function of the subsets of S     *)
(* that is chosen by its own equation.  The equation has a solution, and   *)
(* all its solutions agree at S, so that a sum is that of its parts        *)
(* (SumTake).                                                              *)
First(s) == CHOOSE x \in s : TRUE

SumBody(g, f, s) ==
  IF s = {} THEN 0
  ELSE g[First(s)] + f[s \ {First(s)}]
SumTable(g, S) == CHOOSE f : f = [s \in SUBSET S |-> SumBody(g, f, s)]
SumOf(g, S) == SumTable(g, S)[S]

LEMMA TotalIsSum == ASSUME NEW S PROVE D!Total(S) = SumOf(took, S)
BY DEF D!Total, D!MapThenSumSet, D!MapThenFoldSet, SumOf, SumTable, SumBody, First

SquareOf(t) == [i \in 1 .. N_MEAS |-> t[i] * t[i]]

SumSolved(g, T) ==
  /\ SumTable(g, T) = [s \in SUBSET T |-> SumBody(g, SumTable(g, T), s)]
  /\ \A f : f = [s \in SUBSET T |-> SumBody(g, f, s)] => f[T] = SumOf(g, T)
  /\ SumOf(g, T) = IF T = {} THEN 0
                   ELSE g[First(T)] + SumOf(g, T \ {First(T)})

LEMMA SumSolution ==
  ASSUME NEW g, NEW S, IsFiniteSet(S)
  PROVE  SumSolved(g, S)
<1> DEFINE Good == {T \in SUBSET S : SumSolved(g, T)}
<1>1. ASSUME NEW T \in SUBSET S, \A U \in SUBSET T : U # T => U \in Good
      PROVE  T \in Good
  <2> DEFINE h == [s \in SUBSET T |-> IF s = {} THEN 0
                     ELSE g[First(s)] + SumOf(g, s \ {First(s)})]
  <2>1. \A s \in SUBSET T : s # {} => /\ First(s) \in s
                                      /\ s \ {First(s)} \in SUBSET T
                                      /\ s \ {First(s)} # T
    BY DEF First
  <2>2. \A U \in SUBSET T : U # T => h[U] = SumOf(g, U)
    BY <1>1 DEF SumSolved
  <2>3. h = [s \in SUBSET T |-> SumBody(g, h, s)]
    <3>1. \A s \in SUBSET T : h[s] = SumBody(g, h, s)
      BY <2>1, <2>2 DEF SumBody
    <3>2. h = [s \in SUBSET T |-> h[s]]
      OBVIOUS
    <3> HIDE DEF h
    <3> QED BY <3>1, <3>2
  <2>4. ASSUME NEW f, f = [s \in SUBSET T |-> SumBody(g, f, s)]
        PROVE  f[T] = h[T]
    <3>1. \A U \in SUBSET T : U # T => f[U] = SumOf(g, U)
      <4> SUFFICES ASSUME NEW U \in SUBSET T, U # T PROVE f[U] = SumOf(g, U)
        OBVIOUS
      <4> DEFINE r == [s \in SUBSET U |-> f[s]]
      <4>1. \A s \in SUBSET U : s \in SUBSET T /\ f[s] = SumBody(g, f, s)
        BY <2>4
      <4>2. \A s \in SUBSET U : SumBody(g, f, s) = SumBody(g, r, s)
        <5> SUFFICES ASSUME NEW s \in SUBSET U PROVE SumBody(g, f, s) = SumBody(g, r, s)
          OBVIOUS
        <5>1. s \ {First(s)} \in SUBSET U
          OBVIOUS
        <5>2. r[s \ {First(s)}] = f[s \ {First(s)}]
          BY <5>1
        <5> QED BY <5>2 DEF SumBody
      <4>3. r = [s \in SUBSET U |-> SumBody(g, r, s)]
        BY <4>1, <4>2
      <4>4. U \in Good
        BY <1>1
      <4>5. r[U] = SumOf(g, U)
        BY <4>3, <4>4 DEF SumSolved
      <4> QED BY <4>5
    <3>2. f[T] = SumBody(g, f, T)
      BY <2>4
    <3> QED BY <2>1, <3>1, <3>2 DEF SumBody
  <2>5. SumTable(g, T) = [s \in SUBSET T |-> SumBody(g, SumTable(g, T), s)]
    <3> HIDE DEF h
    <3> QED BY <2>3 DEF SumTable
  <2>6. SumOf(g, T) = h[T]
    <3> HIDE DEF h
    <3> QED BY <2>4, <2>5 DEF SumOf
  <2>7. \A f : f = [s \in SUBSET T |-> SumBody(g, f, s)] => f[T] = SumOf(g, T)
    <3> HIDE DEF h
    <3> QED BY <2>4, <2>6
  <2> QED
    <3> HIDE DEF h
    <3>1. SumOf(g, T) = IF T = {} THEN 0 ELSE g[First(T)] + SumOf(g, T \ {First(T)})
      BY <2>6 DEF h
    <3> QED BY <2>5, <2>7, <3>1 DEF SumSolved
<1> HIDE DEF Good
<1>2. SUBSET S \subseteq Good
  BY <1>1, SmallerSets
<1>3. S \in Good
  BY <1>2
<1> QED BY <1>3 DEF Good

LEMMA SquaresIsSum ==
  ASSUME NEW S \in SUBSET (1 .. N_MEAS), IsFiniteSet(S)
  PROVE  D!Squares(S) = SumOf(SquareOf(took), S)
<1> DEFINE Body(f, s) == IF s = {} THEN 0
                         ELSE took[First(s)] * took[First(s)] + f[s \ {First(s)}]
           table == CHOOSE f : f = [s \in SUBSET S |-> Body(f, s)]
           g == SquareOf(took)
<1>1. D!Squares(S) = table[S]
  BY DEF D!Squares, D!MapThenSumSet, D!MapThenFoldSet, First
<1>2. \A f, s : s \in SUBSET S => Body(f, s) = SumBody(g, f, s)
  <2> SUFFICES ASSUME NEW f, NEW s \in SUBSET S, s # {} PROVE Body(f, s) = SumBody(g, f, s)
    BY DEF SumBody
  <2>1. First(s) \in 1 .. N_MEAS
    BY DEF First
  <2> QED BY <2>1 DEF SumBody, SquareOf
<1>3. \A f : [s \in SUBSET S |-> Body(f, s)] = [s \in SUBSET S |-> SumBody(g, f, s)]
  <2> HIDE DEF Body, g
  <2> QED BY <1>2
<1>4. SumSolved(g, S)
  BY SumSolution
<1>5. table = [s \in SUBSET S |-> Body(table, s)]
  <2> HIDE DEF Body, g
  <2>1. SumTable(g, S) = [s \in SUBSET S |-> Body(SumTable(g, S), s)]
    BY <1>3, <1>4 DEF SumSolved
  <2> QED BY <2>1
<1> HIDE DEF Body, g, table
<1>6. table[S] = SumOf(g, S)
  BY <1>3, <1>4, <1>5 DEF SumSolved
<1> QED BY <1>1, <1>6 DEF g

(* The empty sum, and a sum with any one of its elements taken out.        *)
LEMMA SumEmpty ==
  ASSUME NEW g
  PROVE  SumOf(g, {}) = 0
BY SumSolution, FS_EmptySet DEF SumSolved

LEMMA SumTake ==
  ASSUME NEW g, NEW S, IsFiniteSet(S), \A i \in S : g[i] \in Int
  PROVE  /\ SumOf(g, S) \in Int
         /\ \A a \in S : SumOf(g, S) = g[a] + SumOf(g, S \ {a})
<1> DEFINE Fine(T) == /\ SumOf(g, T) \in Int
                      /\ \A a \in T : SumOf(g, T) = g[a] + SumOf(g, T \ {a})
           Good == {T \in SUBSET S : Fine(T)}
<1>1. ASSUME NEW T \in SUBSET S, \A U \in SUBSET T : U # T => U \in Good
      PROVE  T \in Good
  <2>1. CASE T = {}
    BY <2>1, SumEmpty
  <2>2. CASE T # {}
    <3> DEFINE c == First(T)
    <3>1. c \in T /\ IsFiniteSet(T)
      BY <2>2, FS_Subset DEF First
    <3>2. SumOf(g, T) = g[c] + SumOf(g, T \ {c})
      BY <2>2, <3>1, SumSolution DEF SumSolved
    <3> HIDE DEF c
    <3>3. \A a \in T : T \ {a} \in SUBSET T /\ T \ {a} # T /\ g[a] \in Int
      OBVIOUS
    <3>4. \A a \in T : Fine(T \ {a})
      BY <1>1, <3>3
    <3>5. SumOf(g, T) \in Int
      BY <3>1, <3>2, <3>3, <3>4
    <3>6. ASSUME NEW a \in T PROVE SumOf(g, T) = g[a] + SumOf(g, T \ {a})
      <4>1. CASE a = c
        BY <3>2, <4>1
      <4>2. CASE a # c
        <5>1. a \in T \ {c} /\ c \in T \ {a}
          BY <3>1, <4>2
        <5> DEFINE R == T \ {a, c}
        <5>2. (T \ {c}) \ {a} = R /\ (T \ {a}) \ {c} = R /\ R \in SUBSET T /\ R # T
          BY <3>1
        <5>3. SumOf(g, T \ {c}) = g[a] + SumOf(g, R)
          BY <3>1, <3>4, <5>1, <5>2
        <5>4. SumOf(g, T \ {a}) = g[c] + SumOf(g, R)
          BY <3>4, <5>1, <5>2
        <5>5. Fine(R)
          BY <1>1, <5>2
        <5>6. SumOf(g, R) \in Int /\ g[a] \in Int /\ g[c] \in Int
          BY <3>1, <3>3, <5>5
        <5> HIDE DEF R
        <5> QED BY <3>2, <5>3, <5>4, <5>6
      <4> QED BY <4>1, <4>2
    <3> QED BY <3>5, <3>6
  <2> QED BY <2>1, <2>2
<1> HIDE DEF Good
<1>2. S \in Good
  BY <1>1, SmallerSets
<1> QED BY <1>2 DEF Good

(* Two sets on which g has the same values, each as often, have the same   *)
(* sum and the same size.                                                  *)
At(g, S, x) == {i \in S : g[i] = x}

SameCounts(g, A, H) == \A x \in Int : Cardinality(At(g, A, x)) = Cardinality(At(g, H, x))

LEMMA SameSums ==
  ASSUME NEW g, NEW A, NEW H, IsFiniteSet(A), IsFiniteSet(H),
         \A i \in A \cup H : g[i] \in Int, SameCounts(g, A, H)
  PROVE  SumOf(g, A) = SumOf(g, H) /\ Cardinality(A) = Cardinality(H)
<1> DEFINE Equal(T, U) == SumOf(g, T) = SumOf(g, U) /\ Cardinality(T) = Cardinality(U)
           Good == {T \in SUBSET A : \A U \in SUBSET H : SameCounts(g, T, U) => Equal(T, U)}
<1>0. \A T : T \subseteq A \/ T \subseteq H => IsFiniteSet(T) /\ Cardinality(T) \in Nat
  BY FS_Subset, FS_CardinalityType
<1>1. ASSUME NEW T \in SUBSET A, \A V \in SUBSET T : V # T => V \in Good
      PROVE  T \in Good
  <2> SUFFICES ASSUME NEW U \in SUBSET H, SameCounts(g, T, U) PROVE Equal(T, U)
    OBVIOUS
  <2>1. \A x \in Int : Cardinality(At(g, T, x)) = Cardinality(At(g, U, x))
    BY DEF SameCounts
  <2>2. \A S, x : S \subseteq A \/ S \subseteq H =>
          IsFiniteSet(At(g, S, x)) /\ (Cardinality(At(g, S, x)) = 0 <=> At(g, S, x) = {})
    <3> SUFFICES ASSUME NEW S, NEW x, S \subseteq A \/ S \subseteq H
                 PROVE  IsFiniteSet(At(g, S, x)) /\ (Cardinality(At(g, S, x)) = 0 <=> At(g, S, x) = {})
      OBVIOUS
    <3>1. IsFiniteSet(At(g, S, x))
      BY <1>0, FS_Subset DEF At
    <3> QED BY <3>1, FS_EmptySet
  <2>3. CASE T = {}
    <3>1. \A i \in U : FALSE
      <4> SUFFICES ASSUME NEW i \in U PROVE FALSE
        OBVIOUS
      <4>1. g[i] \in Int /\ At(g, T, g[i]) = {} /\ i \in At(g, U, g[i])
        BY <2>3 DEF At
      <4> QED BY <2>1, <2>2, <4>1
    <3> QED BY <2>3, <3>1
  <2>4. CASE T # {}
    <3>1. PICK a \in T : TRUE
      BY <2>4
    <3>2. g[a] \in Int /\ a \in At(g, T, g[a])
      BY <3>1 DEF At
    <3>3. At(g, U, g[a]) # {}
      BY <2>1, <2>2, <3>2
    <3>4. PICK b \in U : g[b] = g[a]
      BY <3>3 DEF At
    <3> DEFINE V == T \ {a}
               W == U \ {b}
    <3>5. V \in SUBSET T /\ V # T /\ W \in SUBSET H
      BY <3>1
    <3>6. SameCounts(g, V, W)
      <4> SUFFICES ASSUME NEW x \in Int PROVE Cardinality(At(g, V, x)) = Cardinality(At(g, W, x))
        BY DEF SameCounts
      <4>1. CASE x = g[a]
        <5>1. At(g, V, x) = At(g, T, x) \ {a} /\ At(g, W, x) = At(g, U, x) \ {b}
          BY DEF At
        <5>2. a \in At(g, T, x) /\ b \in At(g, U, x)
          BY <3>1, <3>4, <4>1 DEF At
        <5>3. /\ Cardinality(At(g, T, x) \ {a}) = Cardinality(At(g, T, x)) - 1
              /\ Cardinality(At(g, U, x) \ {b}) = Cardinality(At(g, U, x)) - 1
          BY <2>2, <5>2, FS_RemoveElement
        <5> QED BY <2>1, <5>1, <5>3
      <4>2. CASE x # g[a]
        <5>1. At(g, V, x) = At(g, T, x) /\ At(g, W, x) = At(g, U, x)
          BY <3>4, <4>2 DEF At
        <5> QED BY <2>1, <5>1
      <4> QED BY <4>1, <4>2
    <3>7. Equal(V, W)
      <4>1. V \in Good
        BY <1>1, <3>5
      <4> QED BY <3>5, <3>6, <4>1
    <3>8. SumOf(g, T) = g[a] + SumOf(g, V) /\ SumOf(g, U) = g[b] + SumOf(g, W)
      <4>1. IsFiniteSet(T) /\ IsFiniteSet(U)
        BY <1>0
      <4> QED BY <3>1, <3>4, <4>1, SumTake
    <3>9. Cardinality(V) = Cardinality(T) - 1 /\ Cardinality(W) = Cardinality(U) - 1
      BY <1>0, <3>1, <3>4, FS_RemoveElement
    <3>10. Cardinality(T) \in Nat /\ Cardinality(U) \in Nat
      BY <1>0
    <3> HIDE DEF V, W
    <3>11. SumOf(g, T) = SumOf(g, U)
      BY <3>4, <3>7, <3>8
    <3>12. Cardinality(T) = Cardinality(U)
      <4>1. Cardinality(V) = Cardinality(W)
        BY <3>7
      <4> QED BY <3>9, <3>10, <4>1
    <3> QED BY <3>11, <3>12
  <2> QED BY <2>3, <2>4
<1> HIDE DEF Good
<1>2. A \in Good
  BY <1>1, SmallerSets
<1> QED BY <1>2 DEF Good

-----------------------------------------------------------------------------
(* Two neighbours that divide s do so together: u - w times n (n + 1).     *)
LEMMA Multiples ==
  ASSUME NEW n \in Nat, n > 0, NEW u \in Int, NEW w \in Int, NEW s \in Int,
         s = n * u, s = (n + 1) * w
  PROVE  /\ w = n * (u - w)
         /\ u = (n + 1) * (u - w)
         /\ s = n * (n + 1) * (u - w)
<1>1. n * u = n * w + w
  OBVIOUS
<1>2. w = n * (u - w)
  BY <1>1
<1>3. u = (n + 1) * (u - w)
  <2>1. (n + 1) * (u - w) = n * (u - w) + (u - w)
    OBVIOUS
  <2> QED BY <1>2, <2>1
<1>4. n * (n + 1) * (u - w) = n * u
  <2>1. n * (n + 1) * (u - w) = n * ((n + 1) * (u - w))
    OBVIOUS
  <2> QED BY <1>3, <2>1
<1> QED BY <1>2, <1>3, <1>4

LEMMA ExactQuotient ==
  ASSUME NEW k \in Nat, k > 0, NEW q \in Int
  PROVE  (k * q) \div k = q
OBVIOUS

(* t_push in units of 1/Scale, with Scale = n (n + 1) e: the difference to *)
(* the mean, the new mean and the new difference; and the sum of squares.  *)
LEMMA MeanStep ==
  ASSUME NEW n \in Nat, NEW e \in Int, NEW S \in Int, NEW x \in Int
  PROVE  /\ n * (n + 1) * e * x - ((n + 1) * e) * S = (n + 1) * (e * (n * x - S))
         /\ ((n + 1) * e) * S + e * (n * x - S) = (n * e) * (S + x)
         /\ n * (n + 1) * e * x - (n * e) * (S + x) = n * (e * (n * x - S))
OBVIOUS

LEMMA SquareStep ==
  ASSUME NEW n \in Nat, NEW e \in Int, NEW S \in Int, NEW x \in Int, NEW Q \in Int
  PROVE  /\ ((n + 1) * (e * (n * x - S))) * (n * (e * (n * x - S)))
              = (n * (n + 1) * e) * (e * ((n * x - S) * (n * x - S)))
         /\ (n * (n + 1) * e) * Q - ((n + 1) * e) * (S * S) + e * ((n * x - S) * (n * x - S))
              = (n * (n + 1) * e) * (Q + x * x) - (n * e) * ((S + x) * (S + x))
OBVIOUS

(* t is what t_push makes of n numbers of sum S and of squares' sum Q: the *)
(* mean is S / n, and m2 the sum of the squared distances to it.           *)
Shares(t, n, S, Q) ==
  \E u \in Nat : Scale = n * u /\ t.mean = u * S /\ t.m2 = Scale * Q - u * (S * S)

Moments(t, n, S, Q) ==
  /\ t.n = n /\ t.mean \in Int /\ t.m2 \in Int /\ t.m2 >= 0
  /\ n = 0 => t.mean = 0 /\ t.m2 = 0
  /\ n > 0 => Shares(t, n, S, Q)

(* One more number, after none and after some.  The divisions of t_push    *)
(* are exact because Scale is a multiple of n (n + 1).                     *)
LEMMA FirstPush ==
  ASSUME ScriptsConstantsOK, NEW t, NEW x \in Int, Moments(t, 0, 0, 0)
  PROVE  Moments(D!t_push(t, x), 1, x, x * x)
<1>1. t.n = 0 /\ t.mean = 0 /\ t.m2 = 0
  BY DEF Moments
<1>2. Scale \in Nat /\ Scale > 0
  BY DEF ScriptsConstantsOK
<1> DEFINE d == Scale * x - t.mean
           mean == t.mean + d \div (t.n + 1)
<1>3. d = Scale * x /\ d \in Int
  BY <1>1, <1>2
<1>4. mean = Scale * x
  <2> HIDE DEF d
  <2>1. (Scale * x) \div 1 = Scale * x
    <3>1. Scale * x \in Int /\ 1 * (Scale * x) = Scale * x
      BY <1>2
    <3> HIDE <1>2
    <3> QED BY <3>1, ExactQuotient
  <2>2. Scale * x \in Int
    BY <1>2
  <2> QED BY <1>1, <1>3, <2>1, <2>2
<1>5. (d * (Scale * x - mean)) \div Scale = 0
  <2> HIDE DEF mean, d
  <2>1. d * (Scale * x - mean) = Scale * 0
    BY <1>2, <1>3, <1>4
  <2> QED BY <1>2, <2>1, ExactQuotient
<1>6. D!t_push(t, x) = [n |-> t.n + 1, mean |-> mean, m2 |-> t.m2 + (d * (Scale * x - mean)) \div Scale]
  BY DEF D!t_push
<1> HIDE DEF mean, d
<1>7. D!t_push(t, x) = [n |-> 1, mean |-> Scale * x, m2 |-> 0]
  BY <1>1, <1>4, <1>5, <1>6
<1>8. Scale * (x * x) - Scale * (x * x) = 0 /\ Scale = 1 * Scale /\ Scale * x \in Int
  BY <1>2
<1>9. \E u \in Nat : Scale = 1 * u /\ Scale * x = u * x /\ 0 = Scale * (x * x) - u * (x * x)
  BY <1>2, <1>8
<1>10. Shares(D!t_push(t, x), 1, x, x * x)
  BY <1>7, <1>9 DEF Shares
<1> QED BY <1>7, <1>8, <1>10 DEF Moments

LEMMA NextPush ==
  ASSUME ScriptsConstantsOK, NEW t, NEW n \in Nat, n > 0, n + 1 <= N_MEAS,
         NEW S \in Int, NEW Q \in Int, NEW x \in Int, Moments(t, n, S, Q)
  PROVE  Moments(D!t_push(t, x), n + 1, S + x, Q + x * x)
<1>0. Shares(t, n, S, Q)
  BY DEF Moments
<1>1. PICK u \in Nat : Scale = n * u /\ t.mean = u * S /\ t.m2 = Scale * Q - u * (S * S)
  BY <1>0 DEF Shares
<1>2. Scale \in Nat /\ Scale > 0
  BY DEF ScriptsConstantsOK
<1>3. PICK w \in Nat : Scale = (n + 1) * w
  <2>1. n + 1 \in 1 .. N_MEAS
    BY DEF ScriptsConstantsOK
  <2>2. \A k \in 1 .. N_MEAS : \E v \in 1 .. Scale : Scale = k * v
    BY DEF ScriptsConstantsOK
  <2>3. PICK v \in 1 .. Scale : Scale = (n + 1) * v
    BY <2>1, <2>2
  <2> QED BY <1>2, <2>3
<1> DEFINE e == u - w
           z == n * x - S
<1>4. e \in Int /\ z \in Int /\ w = n * e /\ u = (n + 1) * e /\ Scale = n * (n + 1) * e
  BY <1>1, <1>2, <1>3, Multiples
<1>5. e >= 0
  <2>1. ASSUME e < 0 PROVE FALSE
    <3>1. n * e < 0
      BY <1>4, <2>1
    <3> QED BY <1>4, <3>1
  <2> QED BY <1>4, <2>1
<1> DEFINE d == Scale * x - t.mean
           mean == t.mean + d \div (t.n + 1)
           m2 == t.m2 + (d * (Scale * x - mean)) \div Scale
<1>6. D!t_push(t, x) = [n |-> t.n + 1, mean |-> mean, m2 |-> m2]
  BY DEF D!t_push
<1>7. t.n = n /\ t.m2 \in Int /\ t.m2 >= 0
  BY DEF Moments
<1> HIDE DEF e, z
<1>8. d = (n + 1) * (e * z)
  BY <1>1, <1>4, MeanStep DEF z
<1>9. mean = w * (S + x)
  <2>1. d \div (n + 1) = e * z
    <3>1. e * z \in Int /\ n + 1 \in Nat /\ n + 1 > 0
      BY <1>4
    <3> HIDE DEF d
    <3> QED BY <1>8, <3>1, ExactQuotient
  <2>2. mean = ((n + 1) * e) * S + e * z
    BY <1>1, <1>4, <1>7, <2>1
  <2> QED BY <1>4, <2>2, MeanStep DEF z
<1>10. m2 = t.m2 + e * (z * z)
  <2>1. Scale * x - mean = n * (e * z)
    BY <1>4, <1>9, MeanStep DEF z
  <2>2. d * (Scale * x - mean) = Scale * (e * (z * z))
    <3> HIDE DEF d, mean
    <3> QED BY <1>4, <1>8, <2>1, SquareStep DEF z
  <2>3. e * (z * z) \in Int
    BY <1>4
  <2> HIDE DEF d, mean
  <2> QED BY <1>2, <2>2, <2>3, ExactQuotient DEF m2
<1> HIDE DEF d, mean, m2
<1>11. m2 = Scale * (Q + x * x) - w * ((S + x) * (S + x))
  BY <1>1, <1>4, <1>10, SquareStep DEF z
<1>12. m2 \in Int /\ m2 >= 0
  <2>1. z * z \in Int /\ z * z >= 0
    BY <1>4
  <2>2. e * (z * z) \in Int /\ e * (z * z) >= 0
    <3> DEFINE q == z * z
    <3> HIDE DEF q
    <3> QED BY <1>4, <1>5, <2>1 DEF q
  <2> QED BY <1>7, <1>10, <2>2
<1>13. mean \in Int
  BY <1>9
<1>14. D!t_push(t, x) = [n |-> n + 1, mean |-> mean, m2 |-> m2]
  BY <1>6, <1>7
<1>15. Shares(D!t_push(t, x), n + 1, S + x, Q + x * x)
  BY <1>3, <1>9, <1>11, <1>14 DEF Shares
<1> QED BY <1>12, <1>13, <1>14, <1>15 DEF Moments

-----------------------------------------------------------------------------
(* Accumulated is a fold, once more a function chosen by its equation:     *)
(* over the sets of measurements, the last one taken first.                *)
Index == [i \in 1 .. N_MEAS |-> i]

AccBody(c, cut, f, s) ==
  IF s = {} THEN D!tstat_t
  ELSE LET m == Index[D!Max(s)]
       IN  IF cls[m] = c /\ cyc[m] <= cut THEN D!t_push(f[s \ {D!Max(s)}], cyc[m])
                                          ELSE f[s \ {D!Max(s)}]
AccTable(c, cut) == CHOOSE f : f = [s \in SUBSET DOMAIN Index |-> AccBody(c, cut, f, s)]

LEMMA AccumulatedIsTable ==
  ASSUME NEW c, NEW cut
  PROVE  D!Accumulated(c, cut) = AccTable(c, cut)[DOMAIN Index]
BY DEF D!Accumulated, D!FoldLeft, D!MapThenFoldSet, AccTable, AccBody, Index

LEMMA MaxIn ==
  ASSUME NEW n \in Nat, NEW s \in SUBSET (1 .. n), s # {}
  PROVE  D!Max(s) \in s
<1> DEFINE R == {n - x : x \in s}
<1>1. R \in SUBSET Nat /\ R # {}
  <2>1. \A x \in s : x \in Nat /\ x <= n /\ n - x \in Nat
    OBVIOUS
  <2>2. PICK x \in s : TRUE
    OBVIOUS
  <2>3. n - x \in R
    BY <2>2
  <2> QED BY <2>1, <2>3
<1>2. PICK r \in R : \A q \in R : r <= q
  BY <1>1, LeastExists
<1>3. PICK x \in s : r = n - x
  BY <1>2
<1>4. \A y \in s : x >= y
  <2> SUFFICES ASSUME NEW y \in s PROVE x >= y
    OBVIOUS
  <2>1. n - y \in R
    OBVIOUS
  <2> HIDE DEF R
  <2>2. n - x <= n - y
    BY <1>2, <1>3, <2>1
  <2> QED BY <2>2
<1> QED BY <1>4 DEF D!Max

LEMMA MeasurementsFinite ==
  ASSUME N_MEAS \in Nat
  PROVE  IsFiniteSet(1 .. N_MEAS) /\ Cardinality(1 .. N_MEAS) = N_MEAS
BY FS_Interval

(* That equation has a solution: one for the sets of at most k             *)
(* measurements extends to those of k + 1.                                 *)
LEMMA AccExists ==
  ASSUME N_MEAS \in Nat, NEW c, NEW cut
  PROVE  AccTable(c, cut) = [s \in SUBSET (1 .. N_MEAS) |-> AccBody(c, cut, AccTable(c, cut), s)]
<1> DEFINE Small(k) == {s \in SUBSET (1 .. N_MEAS) : Cardinality(s) <= k}
           Good == {k \in Nat : \E f : f = [s \in Small(k) |-> AccBody(c, cut, f, s)]}
<1>0. \A s \in SUBSET (1 .. N_MEAS) :
         /\ IsFiniteSet(s) /\ Cardinality(s) \in Nat /\ Cardinality(s) <= N_MEAS
         /\ Cardinality(s) = 0 => s = {}
  <2>1. IsFiniteSet(1 .. N_MEAS) /\ Cardinality(1 .. N_MEAS) = N_MEAS
    BY MeasurementsFinite
  <2> SUFFICES ASSUME NEW s \in SUBSET (1 .. N_MEAS)
               PROVE  /\ IsFiniteSet(s) /\ Cardinality(s) \in Nat /\ Cardinality(s) <= N_MEAS
                      /\ Cardinality(s) = 0 => s = {}
    OBVIOUS
  <2>2. IsFiniteSet(s) /\ Cardinality(s) <= N_MEAS
    BY <2>1, FS_Subset
  <2> QED BY <2>2, FS_CardinalityType, FS_EmptySet
<1>1. 0 \in Good
  <2> DEFINE f == [s \in Small(0) |-> D!tstat_t]
  <2>1. \A s \in Small(0) : s = {}
    BY <1>0
  <2>2. f = [s \in Small(0) |-> AccBody(c, cut, f, s)]
    BY <2>1 DEF AccBody
  <2> QED BY <2>2
<1>2. ASSUME NEW k \in Nat, k \in Good PROVE k + 1 \in Good
  <2>1. PICK f : f = [s \in Small(k) |-> AccBody(c, cut, f, s)]
    BY <1>2
  <2> DEFINE h == [s \in Small(k + 1) |-> AccBody(c, cut, f, s)]
  <2>2. \A s \in Small(k) : s \in Small(k + 1) /\ h[s] = f[s]
    <3>1. \A s \in Small(k) : f[s] = AccBody(c, cut, f, s)
      BY <2>1
    <3>2. \A s \in Small(k) : s \in Small(k + 1)
      BY <1>0
    <3> QED BY <3>1, <3>2
  <2>3. \A s \in Small(k + 1) : s # {} => s \ {D!Max(s)} \in Small(k)
    <3> SUFFICES ASSUME NEW s \in Small(k + 1), s # {} PROVE s \ {D!Max(s)} \in Small(k)
      OBVIOUS
    <3>1. D!Max(s) \in s
      BY MaxIn
    <3>2. Cardinality(s \ {D!Max(s)}) = Cardinality(s) - 1
      BY <1>0, <3>1, FS_RemoveElement
    <3>3. s \in SUBSET (1 .. N_MEAS) /\ Cardinality(s) <= k + 1 /\ Cardinality(s) \in Nat
      BY <1>0
    <3> DEFINE r == s \ {D!Max(s)}
    <3>4. r \in SUBSET (1 .. N_MEAS)
      BY <3>3
    <3> HIDE DEF r
    <3>6. Cardinality(r) <= k
      BY <3>2, <3>3 DEF r
    <3>5. r \in Small(k)
      BY <3>4, <3>6
    <3> QED BY <3>5 DEF r
  <2>4. \A s \in Small(k + 1) : AccBody(c, cut, f, s) = AccBody(c, cut, h, s)
    <3> HIDE DEF h, Small
    <3> QED BY <2>2, <2>3 DEF AccBody
  <2>5. h = [s \in Small(k + 1) |-> AccBody(c, cut, h, s)]
    <3>1. \A s \in Small(k + 1) : h[s] = AccBody(c, cut, h, s)
      BY <2>4
    <3>2. h = [s \in Small(k + 1) |-> h[s]]
      OBVIOUS
    <3> HIDE DEF h
    <3> QED BY <3>1, <3>2
  <2> HIDE DEF h
  <2> QED BY <2>5
<1> HIDE DEF Good
<1>3. N_MEAS \in Good
  BY <1>1, <1>2, CountUp
<1>4. Small(N_MEAS) = SUBSET (1 .. N_MEAS) /\ DOMAIN Index = 1 .. N_MEAS
  BY <1>0 DEF Index
<1>5. \E f : f = [s \in SUBSET DOMAIN Index |-> AccBody(c, cut, f, s)]
  BY <1>3, <1>4 DEF Good
<1>6. AccTable(c, cut) = [s \in SUBSET DOMAIN Index |-> AccBody(c, cut, AccTable(c, cut), s)]
  BY <1>5 DEF AccTable
<1> QED BY <1>4, <1>6

(* The measurements of class c in T up to the cut, and their sums.         *)
Tally(c, cut, T) == {i \in T : cls[i] = c /\ cyc[i] <= cut}
SumTo(T) == SumOf(cyc, T)
SquaresTo(T) == SumOf(SquareOf(cyc), T)

LEMMA SumsOfTally ==
  ASSUME N_MEAS \in Nat, cyc \in [1 .. N_MEAS -> Nat], NEW A \in SUBSET (1 .. N_MEAS)
  PROVE  /\ IsFiniteSet(A) /\ Cardinality(A) \in Nat /\ Cardinality(A) <= N_MEAS
         /\ Cardinality(A) = 0 <=> A = {}
         /\ SumTo(A) \in Int /\ SquaresTo(A) \in Int
         /\ A = {} => SumTo(A) = 0 /\ SquaresTo(A) = 0
         /\ \A m \in (1 .. N_MEAS) \ A :
              /\ Cardinality(A \cup {m}) = Cardinality(A) + 1
              /\ SumTo(A \cup {m}) = SumTo(A) + cyc[m]
              /\ SquaresTo(A \cup {m}) = SquaresTo(A) + cyc[m] * cyc[m]
<1>1. IsFiniteSet(1 .. N_MEAS) /\ Cardinality(1 .. N_MEAS) = N_MEAS
  BY MeasurementsFinite
<1>2. \A H \in SUBSET (1 .. N_MEAS) :
         IsFiniteSet(H) /\ Cardinality(H) \in Nat /\ Cardinality(H) <= N_MEAS
  BY <1>1, FS_Subset, FS_CardinalityType
<1>3. \A i \in 1 .. N_MEAS : cyc[i] \in Int /\ SquareOf(cyc)[i] = cyc[i] * cyc[i]
                             /\ SquareOf(cyc)[i] \in Int
  BY DEF SquareOf
<1>4. \A H \in SUBSET (1 .. N_MEAS) : SumTo(H) \in Int /\ SquaresTo(H) \in Int
  BY <1>2, <1>3, SumTake DEF SumTo, SquaresTo
<1>5. A = {} => SumTo(A) = 0 /\ SquaresTo(A) = 0
  BY SumEmpty DEF SumTo, SquaresTo
<1>6. ASSUME NEW m \in (1 .. N_MEAS) \ A
      PROVE  /\ Cardinality(A \cup {m}) = Cardinality(A) + 1
             /\ SumTo(A \cup {m}) = SumTo(A) + cyc[m]
             /\ SquaresTo(A \cup {m}) = SquaresTo(A) + cyc[m] * cyc[m]
  <2>1. Cardinality(A \cup {m}) = Cardinality(A) + 1
    BY <1>2, FS_AddElement
  <2> DEFINE H == A \cup {m}
  <2>2. H \in SUBSET (1 .. N_MEAS) /\ m \in H /\ H \ {m} = A
    OBVIOUS
  <2>3. SumTo(H) = cyc[m] + SumTo(A) /\ SquaresTo(H) = cyc[m] * cyc[m] + SquaresTo(A)
    <3>1. \A g : (\A i \in H : g[i] \in Int) => SumOf(g, H) = g[m] + SumOf(g, A)
      <4> HIDE DEF H
      <4> QED BY <1>2, <2>2, SumTake
    <3>2. \A i \in H : cyc[i] \in Int /\ SquareOf(cyc)[i] \in Int
      BY <1>3, <2>2
    <3> HIDE DEF H
    <3> QED BY <1>3, <3>1, <3>2 DEF SumTo, SquaresTo
  <2>4. cyc[m] \in Int /\ cyc[m] * cyc[m] \in Int
    BY <1>3
  <2> QED BY <1>4, <2>1, <2>3, <2>4
<1>7. Cardinality(A) = 0 <=> A = {}
  BY <1>2, FS_EmptySet
<1> QED BY <1>2, <1>4, <1>5, <1>6, <1>7

(* What accumulate() hands to welch_t are the mean and the variance of the *)
(* measurements of a class up to the cut (ct_dudect.c:40-51, 138-149).     *)
LEMMA TableDescribes ==
  ASSUME ScriptsConstantsOK, cyc \in [1 .. N_MEAS -> Nat], NEW c, NEW cut
  PROVE  LET A == Tally(c, cut, 1 .. N_MEAS)
         IN  Moments(D!Accumulated(c, cut), Cardinality(A), SumTo(A), SquaresTo(A))
<1> DEFINE I == 1 .. N_MEAS
           Fine(T) == LET A == Tally(c, cut, T)
                      IN  Moments(AccTable(c, cut)[T], Cardinality(A), SumTo(A), SquaresTo(A))
           Good == {T \in SUBSET I : Fine(T)}
<1>1. N_MEAS \in Nat /\ IsFiniteSet(I)
  <2>1. N_MEAS \in Nat
    BY DEF ScriptsConstantsOK
  <2> QED BY <2>1, MeasurementsFinite
<1>2. \A T \in SUBSET I : AccTable(c, cut)[T] = AccBody(c, cut, AccTable(c, cut), T)
  BY <1>1, AccExists
<1>3. ASSUME NEW T \in SUBSET I, \A U \in SUBSET T : U # T => U \in Good
      PROVE  T \in Good
  <2>1. CASE T = {}
    <3>1. Tally(c, cut, T) = {}
      BY <2>1 DEF Tally
    <3>2. Cardinality({}) = 0 /\ SumTo({}) = 0 /\ SquaresTo({}) = 0
      BY FS_EmptySet, SumEmpty DEF SumTo, SquaresTo
    <3>3. AccTable(c, cut)[T] = D!tstat_t
      BY <1>2, <2>1 DEF AccBody
    <3>4. Moments(D!tstat_t, 0, 0, 0)
      BY DEF Moments, D!tstat_t
    <3> QED BY <3>1, <3>2, <3>3, <3>4
  <2>2. CASE T # {}
    <3> DEFINE m == D!Max(T)
               U == T \ {m}
               t == AccTable(c, cut)[U]
               A == Tally(c, cut, U)
    <3>1. m \in T
      BY <1>1, <2>2, MaxIn
    <3> HIDE DEF m
    <3>2. U \in SUBSET T /\ U # T /\ m \in I /\ Index[m] = m
      BY <3>1 DEF Index
    <3>3. Moments(t, Cardinality(A), SumTo(A), SquaresTo(A))
      BY <1>3, <3>2
    <3>4. A \in SUBSET I /\ m \notin A /\ cyc[m] \in Int
      <4>1. U \in SUBSET I /\ m \notin U
        OBVIOUS
      <4>2. A \subseteq U
        BY DEF Tally
      <4> HIDE DEF A, U
      <4> QED BY <3>2, <4>1, <4>2
    <3>5. AccTable(c, cut)[T] = IF cls[m] = c /\ cyc[m] <= cut THEN D!t_push(t, cyc[m]) ELSE t
      BY <1>2, <2>2, <3>2 DEF AccBody, m
    <3> HIDE DEF U, t
    <3>6. CASE cls[m] = c /\ cyc[m] <= cut
      <4>1. Tally(c, cut, T) = A \cup {m}
        BY <3>1, <3>6 DEF Tally, U
      <4> HIDE DEF A
      <4>2. /\ Cardinality(A) \in Nat /\ Cardinality(A) <= N_MEAS
            /\ Cardinality(A) = 0 <=> A = {}
            /\ SumTo(A) \in Int /\ SquaresTo(A) \in Int
            /\ A = {} => SumTo(A) = 0 /\ SquaresTo(A) = 0
            /\ Cardinality(A \cup {m}) = Cardinality(A) + 1
            /\ SumTo(A \cup {m}) = SumTo(A) + cyc[m]
            /\ SquaresTo(A \cup {m}) = SquaresTo(A) + cyc[m] * cyc[m]
        BY <1>1, <3>2, <3>4, SumsOfTally
      <4>3. Cardinality(A) + 1 <= N_MEAS
        <5>1. A \cup {m} \in SUBSET I
          BY <3>2, <3>4
        <5> QED BY <1>1, <4>2, <5>1, SumsOfTally
      <4>4. Moments(D!t_push(t, cyc[m]), Cardinality(A) + 1, SumTo(A) + cyc[m],
                    SquaresTo(A) + cyc[m] * cyc[m])
        <5>1. CASE Cardinality(A) = 0
          <6>1. Moments(t, 0, 0, 0)
            BY <3>3, <4>2, <5>1
          <6>2. Moments(D!t_push(t, cyc[m]), 1, cyc[m], cyc[m] * cyc[m])
            BY <3>4, <6>1, FirstPush
          <6>3. 0 + cyc[m] = cyc[m] /\ 0 + cyc[m] * cyc[m] = cyc[m] * cyc[m]
            BY <3>4
          <6> QED BY <4>2, <5>1, <6>2, <6>3
        <5>2. CASE Cardinality(A) > 0
          BY <3>3, <3>4, <4>2, <4>3, <5>2, NextPush
        <5> QED BY <4>2, <5>1, <5>2
      <4> QED BY <3>5, <3>6, <4>1, <4>2, <4>4
    <3>7. CASE ~ (cls[m] = c /\ cyc[m] <= cut)
      <4>1. Tally(c, cut, T) = A
        BY <3>1, <3>7 DEF Tally, U
      <4> QED BY <3>3, <3>5, <3>7, <4>1
    <3> QED BY <3>6, <3>7
  <2> QED BY <2>1, <2>2
<1> HIDE DEF Good
<1> HIDE DEF I
<1>4. I \in Good
  BY <1>1, <1>3, SmallerSets
<1>5. D!Accumulated(c, cut) = AccTable(c, cut)[I]
  BY AccumulatedIsTable DEF Index, I
<1> QED BY <1>4, <1>5 DEF Good, I

-----------------------------------------------------------------------------
(* From the moments to the textbook's form of the test: with k = n m, the  *)
(* distance of the means and the pooled variance are multiples of those of *)
(* FarApart, and the factors of both sides of the comparison cancel.       *)
LEMMA ScaledDistance ==
  ASSUME NEW n \in Nat, NEW m \in Nat, NEW u \in Int, NEW w \in Int, NEW s \in Int,
         s = n * u, s = m * w, NEW S \in Int, NEW R \in Int
  PROVE  (n * m) * (u * S - w * R) = s * (S * m - R * n)
<1>1. (n * m) * (u * S - w * R) = ((n * u) * m) * S - ((m * w) * n) * R
  OBVIOUS
<1>2. ((n * u) * m) * S - ((m * w) * n) * R = (s * m) * S - (s * n) * R
  OBVIOUS
<1>3. (s * m) * S - (s * n) * R = s * (S * m - R * n)
  OBVIOUS
<1> QED BY <1>1, <1>2, <1>3

LEMMA ScaledSpread ==
  ASSUME NEW n \in Nat, NEW m \in Nat, NEW u \in Int, NEW s \in Int, s = n * u,
         NEW S \in Int, NEW Q \in Int
  PROVE  (n * m) * ((s * Q - u * (S * S)) * (m * (m - 1)))
            = s * ((n * Q - S * S) * m * m * (m - 1))
<1>1. (n * m) * ((s * Q - u * (S * S)) * (m * (m - 1)))
        = ((n * s) * Q - (n * u) * (S * S)) * (m * m * (m - 1))
  OBVIOUS
<1>2. ((n * s) * Q - (n * u) * (S * S)) * (m * m * (m - 1))
        = ((n * s) * Q - s * (S * S)) * (m * m * (m - 1))
  OBVIOUS
<1>3. ((n * s) * Q - s * (S * S)) * (m * m * (m - 1)) = s * ((n * Q - S * S) * m * m * (m - 1))
  OBVIOUS
<1> QED BY <1>1, <1>2, <1>3

ScalesTest(k, s, T, X, d, dd, v, V) ==
  /\ k \in Nat /\ k > 0 /\ s \in Nat /\ s > 0 /\ T \in Nat /\ X \in Nat
  /\ d \in Int /\ dd \in Int /\ v \in Int /\ V \in Int
  /\ k * dd = s * d /\ k * v = s * V /\ V # 0 /\ 4 * (d * d) * X > T * V
  => v # 0 /\ 4 * (dd * dd) * (k * X) > s * T * v

LEMMA ScaledTest ==
  ASSUME NEW k \in Nat, k > 0, NEW s \in Nat, s > 0, NEW T \in Nat, NEW X \in Nat,
         NEW d \in Int, NEW dd \in Int, NEW v \in Int, NEW V \in Int,
         k * dd = s * d, k * v = s * V, V # 0, 4 * (d * d) * X > T * V
  PROVE  v # 0 /\ 4 * (dd * dd) * (k * X) > s * T * v
<1>1. v # 0
  <2> SUFFICES ASSUME v = 0 PROVE FALSE
    OBVIOUS
  <2>1. s * V = 0
    OBVIOUS
  <2> QED BY <2>1
<1>2. ASSUME 4 * (dd * dd) * (k * X) <= s * T * v PROVE FALSE
  <2>1. k * (4 * (dd * dd) * (k * X)) <= k * (s * T * v)
    <3> DEFINE x == 4 * (dd * dd) * (k * X)
               y == s * T * v
    <3>1. x \in Int /\ y \in Int /\ x <= y
      BY <1>2
    <3> HIDE DEF x, y
    <3>2. k * x <= k * y
      BY <3>1
    <3> QED BY <3>2 DEF x, y
  <2>2. k * (4 * (dd * dd) * (k * X)) = 4 * ((k * dd) * (k * dd)) * X
    OBVIOUS
  <2>3. 4 * ((k * dd) * (k * dd)) * X = (s * s) * (4 * (d * d) * X)
    <3>1. 4 * ((s * d) * (s * d)) * X = (s * s) * (4 * (d * d) * X)
      OBVIOUS
    <3> QED BY <3>1
  <2>4. k * (s * T * v) = (s * T) * (k * v)
    OBVIOUS
  <2>5. (s * T) * (k * v) = (s * s) * (T * V)
    <3>1. (s * T) * (s * V) = (s * s) * (T * V)
      OBVIOUS
    <3> QED BY <3>1
  <2> DEFINE x == 4 * (d * d) * X
             y == T * V
             z == s * s
  <2>6. z \in Int /\ z > 0 /\ x \in Int /\ y \in Int /\ x > y
    OBVIOUS
  <2>7. z * x <= z * y
    BY <2>1, <2>2, <2>3, <2>4, <2>5
  <2> HIDE DEF x, y, z
  <2>8. z * x > z * y
    BY <2>6
  <2>9. z * x \in Int /\ z * y \in Int
    BY <2>6
  <2> QED BY <2>7, <2>8, <2>9
<1>3. 4 * (dd * dd) * (k * X) \in Int /\ s * T * v \in Int
  OBVIOUS
<1> QED BY <1>1, <1>2, <1>3

LEMMA TestScales == \A k, s, T, X, d, dd, v, V : ScalesTest(k, s, T, X, d, dd, v, V)
BY ScaledTest DEF ScalesTest

(* welch_t tells two classes apart that the definition tells apart.        *)
LEMMA FarMoments ==
  ASSUME ScriptsConstantsOK, NEW a, NEW b,
         NEW n \in Nat, NEW S \in Int, NEW Q \in Int,
         NEW m \in Nat, NEW R \in Int, NEW P \in Int,
         NEW d \in Int, NEW V \in Int
  PROVE  /\ Moments(a, n, S, Q) /\ n >= 2
         /\ Moments(b, m, R, P) /\ m >= 2
         /\ d = S * m - R * n
         /\ V = (n * Q - S * S) * m * m * (m - 1) + (m * P - R * R) * n * n * (n - 1)
         /\ V # 0 /\ 4 * d * d * (n - 1) * (m - 1) > Threshold * V
         => D!Welch(a, b)
<1>0. SUFFICES ASSUME
        Moments(a, n, S, Q), n >= 2, Moments(b, m, R, P), m >= 2, d = S * m - R * n,
        V = (n * Q - S * S) * m * m * (m - 1) + (m * P - R * R) * n * n * (n - 1),
        V # 0, 4 * d * d * (n - 1) * (m - 1) > Threshold * V
      PROVE D!Welch(a, b)
  OBVIOUS
<1>a. n > 0 /\ m > 0
  BY <1>0
<1>b. Shares(a, n, S, Q) /\ Shares(b, m, R, P)
  BY <1>0, <1>a DEF Moments
<1>1. PICK u \in Nat : Scale = n * u /\ a.mean = u * S /\ a.m2 = Scale * Q - u * (S * S)
  BY <1>b DEF Shares
<1>2. PICK w \in Nat : Scale = m * w /\ b.mean = w * R /\ b.m2 = Scale * P - w * (R * R)
  BY <1>b DEF Shares
<1>3. Scale \in Nat /\ Scale > 0 /\ Threshold \in Nat /\ a.n = n /\ b.n = m
  BY <1>0 DEF ScriptsConstantsOK, Moments
<1> DEFINE k == n * m
           X == (n - 1) * (m - 1)
           dd == u * S - w * R
           v == (Scale * Q - u * (S * S)) * (m * (m - 1))
                  + (Scale * P - w * (R * R)) * (n * (n - 1))
<1>4. k * dd = Scale * d
  BY <1>0, <1>1, <1>2, <1>3, ScaledDistance
<1>5. k * v = Scale * V
  <2> DEFINE x == (Scale * Q - u * (S * S)) * (m * (m - 1))
             y == (Scale * P - w * (R * R)) * (n * (n - 1))
             e == (n * Q - S * S) * m * m * (m - 1)
             f == (m * P - R * R) * n * n * (n - 1)
  <2>1. (n * m) * x = Scale * e
    BY <1>1, <1>3, ScaledSpread
  <2>2. (m * n) * y = Scale * f
    BY <1>2, <1>3, ScaledSpread
  <2>3. n * m = m * n /\ n * m \in Int /\ x \in Int /\ y \in Int /\ e \in Int /\ f \in Int
    BY <1>1, <1>2, <1>3
  <2>4. v = x + y /\ V = e + f
    BY <1>0
  <2> HIDE DEF x, y, e, f, v
  <2>5. (n * m) * (x + y) = (n * m) * x + (n * m) * y /\ Scale * (e + f) = Scale * e + Scale * f
    <3> DEFINE j == n * m
    <3> HIDE DEF j
    <3> QED BY <1>3, <2>3 DEF j
  <2> QED BY <2>1, <2>2, <2>3, <2>4, <2>5
<1>6. k \in Nat /\ k > 0 /\ X \in Nat /\ dd \in Int /\ v \in Int
  <2>1. k \in Nat /\ k > 0 /\ X \in Nat
    BY <1>a
  <2> QED BY <1>1, <1>2, <1>3, <2>1
<1>7. 4 * (d * d) * X > Threshold * V
  <2>1. 4 * (d * d) * X = 4 * d * d * (n - 1) * (m - 1)
    OBVIOUS
  <2> QED BY <1>0, <2>1
<1>8. v # 0 /\ 4 * (dd * dd) * (k * X) > Scale * Threshold * v
  <2> HIDE DEF k, X, dd, v
  <2>1. V # 0
    BY <1>0
  <2>2. ScalesTest(k, Scale, Threshold, X, d, dd, v, V)
    BY TestScales, Zenon
  <2> QED BY <1>3, <1>4, <1>5, <1>6, <1>7, <2>1, <2>2, Zenon DEF ScalesTest
<1> DEFINE pa == n * (n - 1)
           pb == m * (m - 1)
<1>9. 4 * (dd * dd) * (k * X) = 4 * dd * dd * pa * pb
  <2>1. k * X = pa * pb
    OBVIOUS
  <2>2. pa \in Int /\ pb \in Int
    OBVIOUS
  <2> HIDE DEF k, X, pa, pb, dd
  <2> QED BY <1>6, <2>1, <2>2
<1>10. v = a.m2 * pb + b.m2 * pa /\ dd = a.mean - b.mean
  BY <1>1, <1>2
<1> HIDE DEF k, X, dd, v
<1>11. v # 0 /\ 4 * (a.mean - b.mean) * (a.mean - b.mean) * pa * pb > Scale * Threshold * v
  BY <1>8, <1>9, <1>10
<1> QED BY <1>0, <1>3, <1>10, <1>11 DEF D!Welch

(* It never tells two classes apart that have the same number and sum.     *)
LEMMA SameMoments ==
  ASSUME ScriptsConstantsOK, NEW a, NEW b, NEW n \in Nat, NEW S \in Int, NEW Q, NEW P,
         Moments(a, n, S, Q), Moments(b, n, S, P)
  PROVE  ~ D!Welch(a, b)
<1> SUFFICES ASSUME D!Welch(a, b) PROVE FALSE
  OBVIOUS
<1> DEFINE pa == n * (n - 1)
           v == a.m2 * pa + b.m2 * pa
<1>1. a.n = n /\ b.n = n /\ a.m2 \in Int /\ b.m2 \in Int /\ a.m2 >= 0 /\ b.m2 >= 0
      /\ a.mean \in Int /\ b.mean \in Int
  BY DEF Moments
<1>2. n >= 2 /\ 4 * (a.mean - b.mean) * (a.mean - b.mean) * pa * pa > Scale * Threshold * v
  BY <1>1 DEF D!Welch
<1>9. n > 0
  <2>1. n >= 2
    BY <1>2
  <2> QED BY <2>1
<1>3. a.mean = b.mean
  <2>0. Shares(a, n, S, Q) /\ Shares(b, n, S, P)
    BY <1>9 DEF Moments
  <2>1. PICK u \in Nat : Scale = n * u /\ a.mean = u * S
    BY <2>0 DEF Shares
  <2>2. PICK w \in Nat : Scale = n * w /\ b.mean = w * S
    BY <2>0 DEF Shares
  <2>3. u = w
    <3>1. n * u = n * w
      BY <2>1, <2>2
    <3> QED BY <1>9, <3>1
  <2> QED BY <2>1, <2>2, <2>3
<1>4. pa \in Nat
  BY <1>2
<1>5. Scale * Threshold \in Nat
  BY DEF ScriptsConstantsOK
<1> HIDE DEF pa
<1>6. v \in Nat
  BY <1>1, <1>4
<1> HIDE DEF v
<1>7. Scale * Threshold * v >= 0
  <2> DEFINE q == Scale * Threshold
  <2> HIDE DEF q
  <2> QED BY <1>5, <1>6 DEF q
<1>8. 4 * (a.mean - b.mean) * (a.mean - b.mean) * pa * pa = 0
  BY <1>1, <1>3, <1>4
<1>10. Scale * Threshold * v \in Int
  <2> DEFINE q == Scale * Threshold
  <2> HIDE DEF q
  <2> QED BY <1>5, <1>6 DEF q
<1>11. 0 > Scale * Threshold * v
  BY <1>2, <1>8
<1> QED BY <1>7, <1>10, <1>11

-----------------------------------------------------------------------------
(* SameTimes and FarApart, of classes a and times t.                       *)
Class(a, c) == {i \in 1 .. N_MEAS : a[i] = c}

SameGiven(a, t) ==
  \A x \in Cycles : Cardinality({i \in Class(a, 0) : t[i] = x})
                      = Cardinality({i \in Class(a, 1) : t[i] = x})

SpreadOf(t, S) == Cardinality(S) * SumOf(SquareOf(t), S) - SumOf(t, S) * SumOf(t, S)

FarGiven(a, t) ==
  LET A == Class(a, 0)   na == Cardinality(A)
      H == Class(a, 1)   nb == Cardinality(H)
      d == SumOf(t, A) * nb - SumOf(t, H) * na
      v == SpreadOf(t, A) * nb * nb * (nb - 1) + SpreadOf(t, H) * na * na * (na - 1)
  IN  na >= 2 /\ nb >= 2 /\ v # 0 /\ 4 * d * d * (na - 1) * (nb - 1) > Threshold * v

(* They are what the component says of the measurements.                   *)
LEMMA SameCardinality == \A S : D!Cardinality(S) = Cardinality(S)
BY DEF D!Cardinality, Cardinality

LEMMA SameIsGiven == D!SameTimes <=> SameGiven(cls, took)
<1>1. \A c : D!Of(c) = Class(cls, c)
  BY DEF D!Of, Class
<1>2. D!SameTimes <=> \A x \in Cycles : Cardinality({i \in D!Of(0) : took[i] = x})
                                         = Cardinality({i \in D!Of(1) : took[i] = x})
  BY SameCardinality DEF D!SameTimes
<1>3. D!Of(0) = Class(cls, 0) /\ D!Of(1) = Class(cls, 1)
  BY <1>1
<1> QED BY <1>2, <1>3 DEF SameGiven

LEMMA FarIsGiven ==
  ASSUME N_MEAS \in Nat
  PROVE  D!FarApart <=> FarGiven(cls, took)
<1>1. \A c : D!Of(c) = Class(cls, c) /\ Class(cls, c) \in SUBSET (1 .. N_MEAS)
  BY DEF D!Of, Class
<1>2. \A S \in SUBSET (1 .. N_MEAS) : /\ D!Total(S) = SumOf(took, S)
                                      /\ D!Spread(S) = SpreadOf(took, S)
  <2> SUFFICES ASSUME NEW S \in SUBSET (1 .. N_MEAS)
               PROVE  D!Total(S) = SumOf(took, S) /\ D!Spread(S) = SpreadOf(took, S)
    OBVIOUS
  <2>0. IsFiniteSet(1 .. N_MEAS)
    BY MeasurementsFinite
  <2>1. IsFiniteSet(S)
    BY <2>0, FS_Subset
  <2>2. D!Total(S) = SumOf(took, S) /\ D!Squares(S) = SumOf(SquareOf(took), S)
    BY <2>1, TotalIsSum, SquaresIsSum
  <2> QED BY <2>2, SameCardinality DEF D!Spread, SpreadOf
<1> DEFINE A == Class(cls, 0)
           H == Class(cls, 1)
<1>3. /\ D!Of(0) = A /\ D!Of(1) = H
      /\ A \in SUBSET (1 .. N_MEAS) /\ H \in SUBSET (1 .. N_MEAS)
  BY <1>1
<1> HIDE DEF A, H
<1>4. /\ D!Total(A) = SumOf(took, A) /\ D!Spread(A) = SpreadOf(took, A)
      /\ D!Total(H) = SumOf(took, H) /\ D!Spread(H) = SpreadOf(took, H)
  BY <1>2, <1>3
<1>5. FarGiven(cls, took) <=>
        LET na == Cardinality(A)
            nb == Cardinality(H)
            d == SumOf(took, A) * nb - SumOf(took, H) * na
            v == SpreadOf(took, A) * nb * nb * (nb - 1) + SpreadOf(took, H) * na * na * (na - 1)
        IN  na >= 2 /\ nb >= 2 /\ v # 0 /\ 4 * d * d * (na - 1) * (nb - 1) > Threshold * v
  BY DEF FarGiven, A, H
<1>6. D!FarApart <=>
        LET na == Cardinality(A)
            nb == Cardinality(H)
            d == D!Total(A) * nb - D!Total(H) * na
            v == D!Spread(A) * nb * nb * (nb - 1) + D!Spread(H) * na * na * (na - 1)
        IN  na >= 2 /\ nb >= 2 /\ v # 0 /\ 4 * d * d * (na - 1) * (nb - 1) > Threshold * v
  BY <1>3, SameCardinality DEF D!FarApart
<1> QED BY <1>4, <1>5, <1>6

(* All is measured, and the measurements are still in their order.         *)
Measured ==
  /\ cls \in [1 .. N_MEAS -> {0, 1}] /\ cyc \in [1 .. N_MEAS -> Cycles]
  /\ took = cyc

LEMMA CyclesType ==
  ASSUME ScriptsConstantsOK, Measured
  PROVE  /\ N_MEAS \in Nat /\ cyc \in [1 .. N_MEAS -> Nat]
         /\ \A i \in 1 .. N_MEAS : cyc[i] \in Cycles /\ cyc[i] \in Int /\ cyc[i] <= UINT64_MAX
<1>1. /\ N_MEAS \in Nat /\ UINT64_MAX \in Nat
      /\ \A x \in Cycles : x \in Nat /\ x <= UINT64_MAX
  BY DEF ScriptsConstantsOK
<1>2. cyc \in [1 .. N_MEAS -> Cycles]
  BY DEF Measured
<1>3. ASSUME NEW i \in 1 .. N_MEAS
      PROVE  cyc[i] \in Cycles /\ cyc[i] \in Nat /\ cyc[i] <= UINT64_MAX
  BY <1>1, <1>2
<1>4. cyc \in [1 .. N_MEAS -> Nat]
  BY <1>2, <1>3
<1> QED BY <1>1, <1>3, <1>4

(* At no cut are classes with the same times told apart.                   *)
LEMMA SameNeverLeaks ==
  ASSUME ScriptsConstantsOK, Measured, SameGiven(cls, took), NEW cut
  PROVE  ~ D!Welch(D!Accumulated(0, cut), D!Accumulated(1, cut))
<1> DEFINE A == Tally(0, cut, 1 .. N_MEAS)
           H == Tally(1, cut, 1 .. N_MEAS)
<1>1. /\ N_MEAS \in Nat /\ cyc \in [1 .. N_MEAS -> Nat]
      /\ \A i \in 1 .. N_MEAS : cyc[i] \in Cycles /\ cyc[i] \in Int
  BY CyclesType
<1>2. A \in SUBSET (1 .. N_MEAS) /\ H \in SUBSET (1 .. N_MEAS)
  BY DEF Tally
<1>3. SameCounts(cyc, A, H)
  <2> SUFFICES ASSUME NEW x \in Int PROVE Cardinality(At(cyc, A, x)) = Cardinality(At(cyc, H, x))
    BY DEF SameCounts
  <2>1. CASE x \in Cycles /\ x <= cut
    <3>1. /\ At(cyc, A, x) = {i \in Class(cls, 0) : took[i] = x}
          /\ At(cyc, H, x) = {i \in Class(cls, 1) : took[i] = x}
      BY <2>1 DEF At, Tally, Class, Measured
    <3>2. Cardinality({i \in Class(cls, 0) : took[i] = x})
            = Cardinality({i \in Class(cls, 1) : took[i] = x})
      BY <2>1 DEF SameGiven
    <3> QED BY <3>1, <3>2
  <2>2. CASE ~ (x \in Cycles /\ x <= cut)
    <3>1. At(cyc, A, x) = {} /\ At(cyc, H, x) = {}
      BY <1>1, <2>2 DEF At, Tally
    <3> QED BY <3>1
  <2> QED BY <2>1, <2>2
<1> HIDE DEF A, H
<1>4. SumTo(A) = SumTo(H) /\ Cardinality(A) = Cardinality(H)
  <2>1. IsFiniteSet(A) /\ IsFiniteSet(H)
    BY <1>1, <1>2, SumsOfTally
  <2>2. \A i \in A \cup H : cyc[i] \in Int
    BY <1>1, <1>2
  <2> QED BY <1>3, <2>1, <2>2, SameSums DEF SumTo
<1>5. Cardinality(A) \in Nat /\ SumTo(A) \in Int
  BY <1>1, <1>2, SumsOfTally
<1>6. /\ Moments(D!Accumulated(0, cut), Cardinality(A), SumTo(A), SquaresTo(A))
      /\ Moments(D!Accumulated(1, cut), Cardinality(H), SumTo(H), SquaresTo(H))
  BY <1>1, TableDescribes DEF A, H
<1> QED BY <1>4, <1>5, <1>6, SameMoments

(* At the last cut, classes far apart are.                                 *)
LEMMA FarLeaks ==
  ASSUME ScriptsConstantsOK, Measured, FarGiven(cls, took)
  PROVE  D!Welch(D!Accumulated(0, UINT64_MAX), D!Accumulated(1, UINT64_MAX))
<1> DEFINE A == Class(cls, 0)
           H == Class(cls, 1)
           n == Cardinality(A)
           m == Cardinality(H)
           d == SumTo(A) * m - SumTo(H) * n
           v == (n * SquaresTo(A) - SumTo(A) * SumTo(A)) * m * m * (m - 1)
                  + (m * SquaresTo(H) - SumTo(H) * SumTo(H)) * n * n * (n - 1)
<1>1. /\ N_MEAS \in Nat /\ cyc \in [1 .. N_MEAS -> Nat]
      /\ \A i \in 1 .. N_MEAS : cyc[i] <= UINT64_MAX
  BY CyclesType
<1>2. A \in SUBSET (1 .. N_MEAS) /\ H \in SUBSET (1 .. N_MEAS)
  BY DEF Class
<1>3. A = Tally(0, UINT64_MAX, 1 .. N_MEAS) /\ H = Tally(1, UINT64_MAX, 1 .. N_MEAS)
  BY <1>1 DEF Class, Tally
<1>4. n >= 2 /\ m >= 2 /\ v # 0 /\ 4 * d * d * (n - 1) * (m - 1) > Threshold * v
  BY DEF FarGiven, SpreadOf, SumTo, SquaresTo, Measured
<1> HIDE DEF A, H
<1>5. /\ n \in Nat /\ SumTo(A) \in Int /\ SquaresTo(A) \in Int
      /\ m \in Nat /\ SumTo(H) \in Int /\ SquaresTo(H) \in Int
  BY <1>1, <1>2, SumsOfTally
<1>6. /\ Moments(D!Accumulated(0, UINT64_MAX), n, SumTo(A), SquaresTo(A))
      /\ Moments(D!Accumulated(1, UINT64_MAX), m, SumTo(H), SquaresTo(H))
  BY <1>1, <1>3, TableDescribes
<1> HIDE DEF n, m
<1>7. d \in Int /\ v \in Int
  BY <1>5
<1> QED
  <2> DEFINE S == SumTo(A)
             Q == SquaresTo(A)
             R == SumTo(H)
             P == SquaresTo(H)
  <2>1. d = S * m - R * n
    OBVIOUS
  <2>2. v = (n * Q - S * S) * m * m * (m - 1) + (m * P - R * R) * n * n * (n - 1)
    OBVIOUS
  <2> HIDE DEF S, Q, R, P, d, v
  <2> QED BY <1>4, <1>5, <1>6, <1>7, <2>1, <2>2, FarMoments DEF S, Q, R, P

-----------------------------------------------------------------------------
(* The engine: measurements stay as they were made, leaked is only set by  *)
(* classes that differ, and is set by those far apart once the last cut is *)
(* done.                                                                   *)
LeakTypes ==
  /\ dpc \in {"new", "measure", "sort", "crop", "verdict", "exit"}
  /\ cls \in Seq({0, 1}) /\ cyc \in Seq(Cycles) /\ took = cyc /\ Len(cls) = Len(cyc)
  /\ leaked \in BOOLEAN /\ p \in Nat
  /\ dpc \in {"new", "measure", "sort"} => ~ leaked /\ p = 0
  /\ dpc \notin {"new", "measure"} => Len(cls) = N_MEAS
  /\ dpc = "crop" => p <= N_PERCENTILES

NoneYet == leaked => ~ SameGiven(cls, took)

AllShown == dpc \in {"verdict", "exit"} => (FarGiven(cls, took) => leaked)

Judgement ==
  dpc = "exit" =>
    verdict = IF target[2] = "ct" THEN IF leaked THEN "FINDING" ELSE "OK"
              ELSE IF leaked THEN "EXPECTED_VARTIME" ELSE "OK_UNEXPECTEDLY_CT"

LeakInv == LeakTypes /\ NoneYet /\ AllShown /\ Judgement

LEMMA LeakInit ==
  ASSUME ScriptsConstantsOK, D!Init
  PROVE  LeakInv
<1>1. /\ cls = <<>> /\ cyc = <<>> /\ took = <<>> /\ dpc = "new" /\ leaked = FALSE /\ p = 0
  BY DEF D!Init
<1>2. LeakTypes
  <2>1. /\ cls \in Seq({0, 1}) /\ cyc \in Seq(Cycles) /\ took = cyc /\ Len(cls) = Len(cyc)
        /\ leaked \in BOOLEAN /\ p \in Nat /\ ~ leaked
    BY <1>1, EmptySeq
  <2> QED BY <1>1, <2>1 DEF LeakTypes
<1> QED BY <1>1, <1>2 DEF LeakInv, NoneYet, AllShown, Judgement

LEMMA LeakUnchanged ==
  ASSUME LeakInv, UNCHANGED ctvars
  PROVE  LeakInv'
BY DEF LeakInv, LeakTypes, NoneYet, AllShown, Judgement, ctvars

LEMMA LeakStep ==
  ASSUME ScriptsConstantsOK, LeakInv, D!Next
  PROVE  LeakInv'
<1>0. N_MEAS \in Nat /\ N_PERCENTILES \in Nat
  BY DEF ScriptsConstantsOK
<1>1. CASE D!Enter
  BY <1>1 DEF D!Enter, LeakInv, LeakTypes, NoneYet, AllShown, Judgement
<1>2. CASE D!Measure
  <2>1. PICK c \in {0, 1}, x \in Cycles :
          cls' = Append(cls, c) /\ cyc' = Append(cyc, x) /\ took' = Append(took, x)
    BY <1>2 DEF D!Measure
  <2>2. /\ cls \in Seq({0, 1}) /\ cyc \in Seq(Cycles) /\ took = cyc /\ Len(cls) = Len(cyc)
        /\ dpc = "measure" /\ ~ leaked /\ p = 0
    BY <1>2 DEF D!Measure, LeakInv, LeakTypes
  <2>3. /\ cls' \in Seq({0, 1}) /\ cyc' \in Seq(Cycles) /\ took' = cyc'
        /\ Len(cls') = Len(cyc')
    BY <2>1, <2>2
  <2>4. /\ dpc' = (IF Len(cls') = N_MEAS THEN "sort" ELSE "measure")
        /\ UNCHANGED <<leaked, p>>
    BY <1>2 DEF D!Measure
  <2> QED BY <2>2, <2>3, <2>4 DEF LeakInv, LeakTypes, NoneYet, AllShown, Judgement
<1>3. CASE D!Sort
  <2>1. /\ dpc = "sort" /\ dpc' = "crop"
        /\ UNCHANGED <<cls, cyc, took, p, leaked>>
    BY <1>3 DEF D!Sort
  <2> QED BY <1>0, <2>1 DEF LeakInv, LeakTypes, NoneYet, AllShown, Judgement
<1>4. CASE D!Crop
  <2>1. /\ dpc = "crop" /\ UNCHANGED <<cls, cyc, took>>
        /\ p' = p + 1 /\ dpc' = IF p = N_PERCENTILES THEN "verdict" ELSE "crop"
    BY <1>4 DEF D!Crop
  <2> DEFINE Shown == D!Welch(D!Accumulated(0, D!Cut), D!Accumulated(1, D!Cut))
  <2>2. leaked' = (leaked \/ Shown)
    BY <1>4 DEF D!Crop
  <2>3. Measured
    <3>1. /\ cls \in Seq({0, 1}) /\ cyc \in Seq(Cycles) /\ took = cyc
          /\ Len(cls) = N_MEAS /\ Len(cyc) = N_MEAS
      BY <2>1 DEF LeakInv, LeakTypes
    <3> QED BY <3>1 DEF Measured
  <2>4. Shown => ~ SameGiven(cls, took)
    BY <2>3, SameNeverLeaks
  <2>5. p = N_PERCENTILES /\ FarGiven(cls, took) => Shown
    <3>1. p = N_PERCENTILES => D!Cut = UINT64_MAX
      BY DEF D!Cut
    <3> QED BY <2>3, <3>1, FarLeaks
  <2> HIDE DEF Shown
  <2>6. NoneYet'
    BY <2>1, <2>2, <2>4 DEF LeakInv, LeakTypes, NoneYet
  <2>7. AllShown'
    BY <2>1, <2>2, <2>5 DEF LeakInv, LeakTypes, AllShown
  <2>8. LeakTypes'
    <3>1. leaked' \in BOOLEAN
      BY <2>2 DEF LeakInv, LeakTypes
    <3> QED BY <1>0, <2>1, <3>1 DEF LeakInv, LeakTypes
  <2>9. Judgement'
    BY <2>1 DEF Judgement
  <2> QED BY <2>6, <2>7, <2>8, <2>9 DEF LeakInv
<1>5. CASE D!Judge
  BY <1>5 DEF D!Judge, LeakInv, LeakTypes, NoneYet, AllShown, Judgement
<1>6. CASE D!Over
  <2>1. UNCHANGED ctvars
    BY <1>6 DEF D!Over, D!ctvars, ctvars
  <2> QED BY <2>1, LeakUnchanged
<1> QED BY <1>1, <1>2, <1>3, <1>4, <1>5, <1>6 DEF D!Next

(* The verdict tells what leaked does.                                     *)
LEMMA LeakTells ==
  ASSUME ScriptsConstantsOK, LeakInv
  PROVE  D!NoFalseLeak /\ D!LeakShown
<1>1. N_MEAS \in Nat
  BY DEF ScriptsConstantsOK
<1>2. D!SameTimes <=> SameGiven(cls, took)
  BY SameIsGiven
<1>3. D!FarApart <=> FarGiven(cls, took)
  BY <1>1, FarIsGiven
<1> QED BY <1>2, <1>3 DEF LeakInv, LeakTypes, NoneYet, AllShown, Judgement, D!NoFalseLeak, D!LeakShown

-----------------------------------------------------------------------------
(* The programs side by side: they share nothing, so each keeps its own    *)
(* invariant while the others run.                                         *)
ScriptsInv == CampaignInv /\ BuildsInv /\ GenInv /\ TimedInv /\ LeakInv

LEMMA ScriptsInit == Init => ScriptsInv
<1> SUFFICES ASSUME Init PROVE ScriptsInv
  OBVIOUS
<1>1. C!Init /\ B!Init /\ G!Init /\ D!Init
  BY DEF Init
<1>2. C!CampaignConstantsOK
  BY ScriptsConstantsOK DEF ScriptsConstantsOK
<1> QED BY <1>1, <1>2, ScriptsConstantsOK, CampaignInit, BuildsInit, GenInit, TimedInit, LeakInit
    DEF ScriptsInv

LEMMA ScriptsStep == ScriptsInv /\ [Next]_svars => ScriptsInv'
<1> SUFFICES ASSUME ScriptsInv, [Next]_svars PROVE ScriptsInv'
  OBVIOUS
<1>1. C!CampaignConstantsOK /\ G!GenConstantsOK
  BY ScriptsConstantsOK DEF ScriptsConstantsOK
<1>2. C!Next \/ UNCHANGED campaignvars
  BY DEF Next, Campaign, Builds, GenerateSpecs, ConstantTime, svars
<1>3. B!Next \/ UNCHANGED buildvars
  BY DEF Next, Campaign, Builds, GenerateSpecs, ConstantTime, svars
<1>4. G!Next \/ UNCHANGED genvars
  BY DEF Next, Campaign, Builds, GenerateSpecs, ConstantTime, svars
<1>5. D!Next \/ UNCHANGED ctvars
  BY DEF Next, Campaign, Builds, GenerateSpecs, ConstantTime, svars
<1>6. CampaignInv'
  <2>1. [C!Next]_C!campaignvars
    BY <1>2 DEF campaignvars, C!campaignvars
  <2> QED BY <1>1, <2>1, CampaignStep DEF ScriptsInv
<1>7. BuildsInv'
  BY <1>3, BuildsStep, BuildsUnchanged DEF ScriptsInv
<1>8. GenInv'
  <2>1. [G!Next]_G!genvars
    BY <1>4 DEF genvars, G!genvars
  <2> QED BY <1>1, <2>1, GenStep DEF ScriptsInv
<1>9. TimedInv'
  <2>1. CASE UNCHANGED ctvars
    <3>1. UNCHANGED <<target, cls, timed, drawn, msg_rand>> /\ dpc' = dpc
      BY <2>1 DEF ctvars
    <3> QED BY <3>1, TimedUnchanged DEF ScriptsInv
  <2> QED BY <1>5, <2>1, TimedStep DEF ScriptsInv
<1>10. LeakInv'
  BY <1>5, ScriptsConstantsOK, LeakStep, LeakUnchanged DEF ScriptsInv
<1> QED BY <1>6, <1>7, <1>8, <1>9, <1>10 DEF ScriptsInv

LEMMA ScriptsAlways == Spec => []ScriptsInv
BY ScriptsInit, ScriptsStep, PTL DEF Spec

(* The rows of a campaign's summary are about libFuzzer targets, one each, *)
(* and tell what the run just made printed and left (run_campaign.sh).     *)
THEOREM StageRows == Spec => []RowTellsTheRun
<1>1. ScriptsInv => RowTellsTheRun
  BY RowsTell, ScriptsConstantsOK DEF ScriptsInv, RowTellsTheRun, ScriptsConstantsOK
<1> QED BY <1>1, ScriptsAlways, PTL

(* Whatever command fails, whatever script is interrupted and however      *)
(* often the sources change, what later stages take for the clean program  *)
(* is never the fault-injected one (scripts/build_*.sh).                   *)
THEOREM StageClean == Spec => []CleanMeansClean
<1>1. ScriptsInv => CleanMeansClean
  BY DEF ScriptsInv, BuildsInv, CleanMeansClean
<1> QED BY <1>1, ScriptsAlways, PTL

(* A self-test that passes has run a fault-injected program, and one of    *)
(* the present sources unless a command failed unseen; one that fails has  *)
(* seen a command fail, or has run a good fault build of the Go or Rust    *)
(* CLI, whose fault may stay silent (tests/negative_tests.sh).             *)
THEOREM StageSelfTests == Spec => []SelfTestHonest
<1>1. ScriptsInv => SelfTestHonest
  BY DEF ScriptsInv, BuildsInv, SelfTestHonest
<1> QED BY <1>1, ScriptsAlways, PTL

(* A run of generate_specs.py that returns 0 leaves whole specs of its own *)
(* for every algorithm, whatever earlier runs left behind; only where the  *)
(* disk refused the end of a spec unseen is the file truncated.            *)
THEOREM StageSpecs == Spec => []SpecsWhole
<1>1. ScriptsInv => SpecsWhole
  BY GenWhole, ScriptsConstantsOK DEF ScriptsInv, SpecsWhole, ScriptsConstantsOK
<1> QED BY <1>1, ScriptsAlways, PTL

(* No message of class 1 is signed twice, and none is the fixed message of *)
(* class 0, although msg_rand is copied before it is drawn                 *)
(* (ct_dudect.c:124-125).                                                  *)
THEOREM StageMessages == Spec => []MessagesFresh
<1>1. ScriptsInv => MessagesFresh
  BY DEF ScriptsInv, TimedInv, MessagesFresh
<1> QED BY <1>1, ScriptsAlways, PTL

(* Whatever is measured and however often, two classes that took the same  *)
(* times are called a leak at no cut, in exact arithmetic: the verdict is  *)
(* OK (ct_dudect.c:46-51, 133-156).                                        *)
THEOREM StageNoFalseLeak == Spec => []NoFalseLeak
<1>1. ScriptsInv => NoFalseLeak
  BY LeakTells, ScriptsConstantsOK DEF ScriptsInv, NoFalseLeak
<1> QED BY <1>1, ScriptsAlways, PTL

(* Whatever is measured and however often, classes that Welch's test tells *)
(* apart by its definition are called a leak by the engine, which keeps    *)
(* running means and sums of squares and looks at crops; in exact          *)
(* arithmetic (ct_dudect.c:38-51, 133-156).                                *)
THEOREM StageLeakShown == Spec => []LeakShown
<1>1. ScriptsInv => LeakShown
  BY LeakTells, ScriptsConstantsOK DEF ScriptsInv, LeakShown
<1> QED BY <1>1, ScriptsAlways, PTL
=============================================================================
