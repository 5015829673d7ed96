SPECIFICATION Spec
CONSTANTS
  Cycle = 100
  MinRun = 10
  Windows <- WindowValues
  Demands <- DemandValues
  Targets <- TargetValues
INVARIANTS IInv NotStarved CapHolds
