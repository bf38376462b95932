SPECIFICATION Spec
CONSTANTS
  Keys = {1, 2}
  Accounts = {1}
  AccountOf <- MCOneAccount
  Meetings <- MCOneMeeting
  LeadTime = 1
  ActionLifetime = 10
  FallbackLifetime = 1
  WarningInterval = 2
  RetryDelays <- MCRetryDelays
  KeyHash <- MCKeyHash
  MaxRevision = 2
  Generations = {1}
  MaxTime = 3
  MaxID = 2
  MaxSignals = 1
  MaxFaults = 0
  ReusesID = TRUE
  Prompt = FALSE
  PollItems <- MCPollItems
  Hosts = {"meet", "zoom"}
  ErrorKinds = {"authentication"}
INVARIANTS NoLostWakeup
PROPERTIES WarningsSpaced
