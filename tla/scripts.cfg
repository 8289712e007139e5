\* The campaign, the builds and self-tests, the specs and the constant-time engine.
SPECIFICATION Spec
CONSTANTS
  Programs = {"run_campaign", "builds", "generate_specs", "ct_dudect"}
  Binaries <- TwoFuzzers
  HelpLines = 3
  MaxCampaigns = 2
  Families = {"tmp", "go", "kat", "rust", "tfhe"}
  MaxScripts = 3
  MaxRev = 2
  NAlgs = 3
  FileOf <- TwoShareAFile
  MaxRuns = 2
  N_MEAS = 6
  N_PERCENTILES = 10
  Threshold = 16
  Scale = 60
  UINT64_MAX = 1000
  Cycles <- NearAndFar
  Targets <- Operations
INVARIANTS RowTellsTheRun CleanMeansClean SelfTestHonest SpecsWhole NoFalseLeak LeakShown MessagesFresh
