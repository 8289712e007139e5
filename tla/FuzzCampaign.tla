---------------------------- MODULE FuzzCampaign ----------------------------
(***************************************************************************)
(* scripts/run_campaign.sh: every program in build/harness is asked for    *)
(* its help, fuzzed if the help names libFuzzer, and given a row of the    *)
(* summary.  Corpora, logs and crash directories stay from one campaign to *)
(* the next, and a campaign may be interrupted anywhere.                   *)
(***************************************************************************)
EXTENDS Integers, Sequences

CONSTANTS
  Binaries,        \* Binaries[i] = the line of its help that names libFuzzer, or 0
  HelpLines,       \* lines each of them prints
  MaxCampaigns     \* bound on the campaigns started

CampaignConstantsOK ==
  /\ HelpLines \in Nat /\ MaxCampaigns \in Nat
  /\ Binaries \in Seq(0 .. HelpLines) /\ Binaries # <<>>

VARIABLES
  campaign,        \* the campaign under way or last ended
  cpc,             \* "idle", "probe", "fuzz", "report"
  bin,             \* the program it is at
  printed, writer, \* the probed program: lines printed; "runs", "exit0", "sigpipe"
  taken, grep,     \* grep -qi: lines read; "reads", "match", "nomatch"
  artifacts,       \* crashes_$name: the campaigns whose crashes lie there
  log,             \* log_$name.txt: the campaigns that left a CMF_VIOLATION in it
  summary,         \* summary.tsv
  violated         \* whether the run that was just made printed a CMF_VIOLATION

campaignvars == <<campaign, cpc, bin, printed, writer, taken, grep, artifacts,
                  log, summary, violated>>

Init ==
  /\ campaign = 0 /\ cpc = "idle" /\ bin = 1
  /\ printed = 0 /\ writer = "runs" /\ taken = 0 /\ grep = "reads"
  /\ artifacts = [i \in DOMAIN Binaries |-> {}]
  /\ log = [i \in DOMAIN Binaries |-> {}]
  /\ summary = <<>> /\ violated = FALSE

NewProbe == printed' = 0 /\ writer' = "runs" /\ taken' = 0 /\ grep' = "reads"

(* The summary is begun anew; nothing else is.                             *)
Start ==
  /\ cpc = "idle" /\ campaign < MaxCampaigns
  /\ campaign' = campaign + 1 /\ summary' = <<>>
  /\ cpc' = "probe" /\ bin' = 1 /\ NewProbe
  /\ UNCHANGED <<artifacts, log, violated>>

-----------------------------------------------------------------------------
(* if ! timeout 5 "$bin" -help=1 </dev/null 2>&1 | grep -qi libFuzzer      *)

(* A line is a write of its own: into the pipe, or, once grep has gone,    *)
(* the end of the program by SIGPIPE.                                      *)
ProbePrints ==
  /\ cpc = "probe" /\ writer = "runs"
  /\ IF printed = HelpLines
     THEN writer' = "exit0" /\ UNCHANGED printed
     ELSE IF grep = "reads"
          THEN printed' = printed + 1 /\ UNCHANGED writer
          ELSE writer' = "sigpipe" /\ UNCHANGED printed
  /\ UNCHANGED <<campaign, cpc, bin, taken, grep, artifacts, log, summary, violated>>

(* grep -q leaves at the first line that matches.                          *)
ProbeReads ==
  /\ cpc = "probe" /\ grep = "reads"
  /\ \/ /\ taken < printed
        /\ taken' = taken + 1
        /\ grep' = IF taken' = Binaries[bin] THEN "match" ELSE "reads"
     \/ /\ taken = printed /\ writer # "runs"
        /\ grep' = "nomatch" /\ UNCHANGED taken
  /\ UNCHANGED <<campaign, cpc, bin, printed, writer, artifacts, log, summary, violated>>

(* set -o pipefail: the pipeline succeeds when both programs do.           *)
PipelineSucceeds == grep = "match" /\ writer = "exit0"

NextBinary ==
  /\ bin' = bin + 1
  /\ cpc' = IF bin = Len(Binaries) THEN "idle" ELSE "probe"
  /\ NewProbe

Probed ==
  /\ cpc = "probe" /\ writer # "runs" /\ grep # "reads"
  /\ IF PipelineSucceeds
     THEN cpc' = "fuzz" /\ UNCHANGED <<bin, printed, writer, taken, grep>>
     ELSE NextBinary
  /\ UNCHANGED <<campaign, artifacts, log, summary, violated>>

-----------------------------------------------------------------------------
(* Mutation: the log is appended to.                                       *)
Fuzz_LogKept ==
  /\ cpc = "fuzz"
  /\ \E violation, artifact \in BOOLEAN :
       /\ log' = [log EXCEPT ![bin] = @ \cup (IF violation THEN {campaign} ELSE {})]
       /\ artifacts' = [artifacts EXCEPT ![bin] = @ \cup (IF artifact THEN {campaign} ELSE {})]
       /\ violated' = violation
  /\ cpc' = "report"
  /\ UNCHANGED <<campaign, bin, printed, writer, taken, grep, summary>>

(* The target runs for CMF_SECS: it may print a violation, and it may      *)
(* leave an artifact (it need not: the time may be up before it does).     *)
Fuzz ==
  /\ cpc = "fuzz"
  /\ \E violation, artifact \in BOOLEAN :
       /\ log' = [log EXCEPT ![bin] = IF violation THEN {campaign} ELSE {}]
       /\ artifacts' = [artifacts EXCEPT ![bin] = @ \cup (IF artifact THEN {campaign} ELSE {})]
       /\ violated' = violation
  /\ cpc' = "report"
  /\ UNCHANGED <<campaign, bin, printed, writer, taken, grep, summary>>

Status == IF log[bin] # {} THEN "VIOLATION"
          ELSE IF artifacts[bin] # {} THEN "CRASH" ELSE "ok"

Report ==
  /\ cpc = "report"
  /\ summary' = Append(summary, [bin |-> bin, status |-> Status,
                                 violated |-> violated])
  /\ NextBinary
  /\ UNCHANGED <<campaign, artifacts, log, violated>>

(* The script is killed; the target under way leaves what it has written.  *)
Interrupt ==
  /\ cpc # "idle"
  /\ cpc' = "idle" /\ bin' = 1 /\ NewProbe
  /\ UNCHANGED <<campaign, artifacts, log, summary, violated>>

Over == cpc = "idle" /\ campaign = MaxCampaigns /\ UNCHANGED campaignvars

Next == Start \/ ProbePrints \/ ProbeReads \/ Probed \/ Fuzz \/ Report
          \/ Interrupt \/ Over

Spec == Init /\ [][Next]_campaignvars

-----------------------------------------------------------------------------
Rows == {summary[k] : k \in DOMAIN summary}

(* A row of the summary is about a libFuzzer target and the only one about *)
(* it; it says VIOLATION exactly when this campaign's run of the target    *)
(* printed one, and never "ok" when that run left an artifact.  An older   *)
(* campaign may still turn an "ok" into CRASH: its artifacts are counted.  *)
RowTellsTheRun ==
  /\ \A r \in Rows :
       /\ Binaries[r.bin] # 0
       /\ r.status = "VIOLATION" <=> r.violated
       /\ campaign \in artifacts[r.bin] => r.status # "ok"
  /\ \A j, k \in DOMAIN summary : summary[j].bin = summary[k].bin => j = k

(* "Run functional fuzzing campaigns for every built harness": a campaign  *)
(* that reaches its end has a row for every libFuzzer target.              *)
EveryTargetFuzzed ==
  cpc = "idle" /\ bin > Len(Binaries) =>
    \A i \in DOMAIN Binaries : Binaries[i] # 0 => \E r \in Rows : r.bin = i
=============================================================================
