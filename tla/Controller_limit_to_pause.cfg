SPECIFICATION Spec
CONSTANTS
  Apps <- OneApp
  Procs <- OneProc
  NoProc = 0
  NoApp = "none"
  SlowOnly = {}
  Blocked = {}
  Browsers = {}
  AppOf <- OneOfA
  RuleChoices <- PauseOrLimit
  Born <- FirstBorn
  Niceness <- NormalOne
  Crashes = FALSE
  QuitOverlaps = FALSE
  SavesFail = FALSE
INVARIANTS RecordedAreStopped
