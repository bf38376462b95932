SPECIFICATION FairSpec
CONSTANTS
  Versions <- MCVersions
  Revisions <- MCRevisions
  AllowedHosts <- MCAllowedHosts
  TrustedHosts <- MCTrustedHosts
  From = 0
  End = 4
  MaxChanges = 1
  MaxPolls = 2
INVARIANTS Complete WasSo OneKey Joinable
PROPERTIES PollEnds
CHECK_DEADLOCK FALSE
