SPECIFICATION FairSpec
CONSTANTS
  Keys = {1}
  Accounts = {1}
  AccountOf <- MCOneAccount
  Meetings <- MCOneMeeting
  LeadTime = 2
  ActionLifetime = 10
  FallbackLifetime = 1
  WarningInterval = 2
  RetryDelays <- MCRetryDelays
  KeyHash <- MCKeyHash
  MaxRevision = 2
  Generations = {1}
  MaxTime = 4
  MaxID = 1
  MaxSignals = 2
  MaxFaults = 1
  ReusesID = TRUE
  Prompt = TRUE
  PollItems <- MCPollItems
  Hosts = {"meet", "zoom"}
  ErrorKinds = {}
PROPERTIES JoinIsDecided
