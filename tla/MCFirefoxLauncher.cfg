SPECIFICATION FairSpec
CONSTANTS
  Apps = {"a"}
  Home <- MCHome
  Profiles <- MCProfiles
  MeetingApp = "a"
  Meeting = 5
  Active = 6
  UserApps = {"other"}
  Layout <- MCLayout
  Restored = 0
  MaxOpens = 1
  MaxWindows = 2
  MaxChanges = 1
INVARIANTS NoLauncherLeft OthersUntouched Placed
PROPERTIES OpenEnds
CHECK_DEADLOCK FALSE
