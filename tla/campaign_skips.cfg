\* A libFuzzer target that is still printing its help when grep has seen enough.
SPECIFICATION Spec
CONSTANTS
  Programs = {"run_campaign"}
  Binaries <- FuzzerAndDriver
  HelpLines = 3
  MaxCampaigns = 2
  Families = {"tmp", "go", "kat", "rust", "tfhe"}
  MaxScripts = 3
  MaxRev = 2
  NAlgs = 3
  FileOf <- TwoShareAFile
  MaxRuns = 2
  N_MEAS = 6
  N_PERCENTILES = 10
  Threshold = 16
  Scale = 60
  UINT64_MAX = 1000
  Cycles <- NearAndFar
  Targets <- Operations
INVARIANTS EveryTargetFuzzed
