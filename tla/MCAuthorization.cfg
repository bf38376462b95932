SPECIFICATION FairSpec
CONSTANTS
  Setups = {1, 2}
  MaxFaults = 2
INVARIANTS TokensBelong NeverPartial SetupNeverLost PreservedIsPreserved OnlyRefusedIsDisabled
PROPERTIES SetupEnds SetupReachesDaemon
CHECK_DEADLOCK FALSE
