SPECIFICATION Spec
CONSTANTS
  Pids <- ThreePids
  HintLists <- SomeHints
  Orders <- SomeOrders
  Processes <- SomeProcesses
INVARIANTS GroupsAreRight SafetyCoversGroup
PROPERTIES GroupingEnds
