SPECIFICATION Spec
CONSTANTS
  a1 = a1
  a2 = a2
  None = None
  Apps <- OneApp
  Duration = 2
  Cooldown = 3
  QueueSize = 1
  Loads <- AllLoads
INVARIANTS SustainedIsNotified
