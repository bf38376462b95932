SPECIFICATION FairSpec
CONSTANTS
  Capacity = 1
  MaxSignals = 3
  MaxCommands = 1
INVARIANTS NothingDropped RecordedBeforeClick NeverPanics
PROPERTIES ClientEnds SignalsArrive
CHECK_DEADLOCK FALSE
