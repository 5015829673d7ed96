SPECIFICATION Spec
CONSTANTS
  Ids <- ThreeIds
  Controls <- AllControls
  Values <- MenuValues
  Files <- SomeFiles
  MaxFailures = 1
INVARIANTS OneRulePerApp CheckMarksWork ClicksAreContained RestartKeepsSettings
PROPERTIES UpgradeKeepsChoices
