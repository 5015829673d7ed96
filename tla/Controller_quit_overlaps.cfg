SPECIFICATION Spec
CONSTANTS
  Apps <- OneApp
  Procs <- OneProc
  NoProc = 0
  NoApp = "none"
  SlowOnly = {}
  Blocked = {}
  Browsers = {}
  AppOf <- OneOfA
  RuleChoices <- OnlyPause
  Born <- FirstBorn
  Niceness <- NormalOne
  Crashes = FALSE
  QuitOverlaps = TRUE
  SavesFail = FALSE
INVARIANTS NothingLeftBehind
