SPECIFICATION FairSpec
CONSTANTS
  Apps <- OneApp
  Procs <- TwoProcs
  NoProc = 0
  NoApp = "none"
  SlowOnly = {}
  Blocked = {}
  Browsers = {}
  AppOf <- AllOfA
  RuleChoices <- BackgroundOnly
  Born <- FirstBorn
  Niceness <- Normal
  Crashes = FALSE
  QuitOverlaps = FALSE
  SavesFail = TRUE
INVARIANTS StoppedAreRecorded OneControlAtATime NothingLeftBehind PriorityRestored
PROPERTIES ForegroundRuns RuleRemovalRestores DisablingRestores
