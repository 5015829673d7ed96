SPECIFICATION Spec
CONSTANTS
  Apps <- OneApp
  Procs <- TwoProcs
  NoProc = 0
  NoApp = "none"
  SlowOnly = {}
  Blocked = {}
  Browsers = {}
  AppOf <- AllOfA
  RuleChoices <- WithoutLimit
  Born <- FirstBorn
  Niceness <- Normal
  Crashes = FALSE
  QuitOverlaps = FALSE
  SavesFail = FALSE
INVARIANTS RecordedAreStopped SavedWhenSettled
