SPECIFICATION FairSpec
CONSTANTS
  Presets <- TwoPresets
  OtherLevels <- OneOther
  Off = 0
  Closed = Closed
  NoState = NoState
  Workers <- TwoWorkers
  Ticker = 0
  MaxCommands = 2
  MaxTicks = 1
INVARIANTS MarksAreTrue
PROPERTIES ShownNeverGoesBack PanelCatchesUp
