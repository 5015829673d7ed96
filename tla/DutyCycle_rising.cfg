SPECIFICATION FairSpec
CONSTANTS
  Cycle = 100
  MinRun = 1
  Windows <- OneWindow
  Demands <- TwoDemands
  Targets <- OneTarget
PROPERTIES LimitKept
