SPECIFICATION FairSpec
CONSTANTS
  a1 = a1
  a2 = a2
  None = None
  Apps <- TwoApps
  Duration = 2
  Cooldown = 3
  QueueSize = 2
  Loads <- ProcessLoads
INVARIANTS SustainedIsNotified
PROPERTIES NoticesAreSpaced StaysHighIsShown
