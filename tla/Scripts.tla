------------------------------- MODULE Scripts ------------------------------
(***************************************************************************)
(* The programs a user runs around the harnesses: the campaign, the builds *)
(* and self-tests, the generation of the specs, and the constant-time      *)
(* engine.  They share no file, so each behaviour is about one of them.    *)
(***************************************************************************)
EXTENDS Integers, Sequences, FiniteSets

CONSTANTS
  Programs,                                \* the ones that may be run
  Binaries, HelpLines, MaxCampaigns,       \* FuzzCampaign
  Families, MaxScripts, MaxRev,            \* FaultBuilds
  NAlgs, FileOf, MaxRuns,                  \* SpecGen
  N_MEAS, N_PERCENTILES, Threshold, Scale, UINT64_MAX, Cycles, Targets   \* Dudect

VARIABLES
  program,                                 \* the one that is
  campaign, cpc, bin, printed, writer, taken, grep, artifacts, log, summary, violated,
  family, script, at, scripts, rev, disk, result, smooth,
  run, gpc, llm, header, todo, spec, count, specs, lost,
  target, dpc, cls, cyc, took, timed, drawn, msg_rand, sorted, p, leaked, verdict

campaignvars == <<campaign, cpc, bin, printed, writer, taken, grep, artifacts,
                  log, summary, violated>>
buildvars    == <<family, script, at, scripts, rev, disk, result, smooth>>
genvars      == <<run, gpc, llm, header, todo, spec, count, specs, lost>>
ctvars       == <<target, dpc, cls, cyc, took, timed, drawn, msg_rand, sorted,
                  p, leaked, verdict>>

C == INSTANCE FuzzCampaign
B == INSTANCE FaultBuilds
G == INSTANCE SpecGen
D == INSTANCE Dudect

ASSUME ScriptsConstantsOK ==
  /\ Programs \subseteq {"run_campaign", "builds", "generate_specs", "ct_dudect"}
  /\ C!CampaignConstantsOK /\ G!GenConstantsOK
  /\ Families \subseteq {"tmp", "go", "kat", "rust", "tfhe"}
  /\ {MaxCampaigns, MaxScripts, MaxRev, MaxRuns} \subseteq Nat \ {0}
  /\ {N_MEAS, N_PERCENTILES} \subseteq Nat \ {0} /\ Threshold \in Nat
  /\ Scale \in Nat \ {0} /\ \A n \in 1 .. N_MEAS : \E u \in 1 .. Scale : Scale = n * u
  /\ UINT64_MAX \in Nat /\ Cycles \subseteq 0 .. UINT64_MAX
  /\ Targets \subseteq {"pool", "sign"} \X {"ct", "vartime"}

Init == program \in Programs /\ C!Init /\ B!Init /\ G!Init /\ D!Init

Campaign      == program = "run_campaign" /\ C!Next
                   /\ UNCHANGED <<program, buildvars, genvars, ctvars>>
Builds        == program = "builds" /\ B!Next
                   /\ UNCHANGED <<program, campaignvars, genvars, ctvars>>
GenerateSpecs == program = "generate_specs" /\ G!Next
                   /\ UNCHANGED <<program, campaignvars, buildvars, ctvars>>
ConstantTime  == program = "ct_dudect" /\ D!Next
                   /\ UNCHANGED <<program, campaignvars, buildvars, genvars>>

Next == Campaign \/ Builds \/ GenerateSpecs \/ ConstantTime

svars == <<program, campaignvars, buildvars, genvars, ctvars>>

Spec == Init /\ [][Next]_svars

-----------------------------------------------------------------------------
(* The campaign's summary is about libFuzzer targets, one row each, and    *)
(* its verdicts are about the run just made.                               *)
RowTellsTheRun == C!RowTellsTheRun

(* Every libFuzzer target is fuzzed by a campaign that is not interrupted. *)
EveryTargetFuzzed == C!EveryTargetFuzzed

(* The clean programs are never fault-injected ones.                       *)
CleanMeansClean == B!CleanMeansClean

(* The verdicts of the self-tests are about the program they claim to be   *)
(* about.                                                                  *)
SelfTestHonest == B!SelfTestHonest

(* A successful run of generate_specs.py leaves whole specs of its own,    *)
(* save those the disk refused unseen.                                     *)
SpecsWhole == G!SpecsWhole

(* Classes with the same times are no leak.                                *)
NoFalseLeak == D!NoFalseLeak

(* Classes far apart are a leak.                                           *)
LeakShown == D!LeakShown

(* The random messages are fresh.                                          *)
MessagesFresh == D!MessagesFresh
=============================================================================
