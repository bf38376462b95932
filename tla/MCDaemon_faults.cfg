SPECIFICATION Spec
CONSTANTS
  Keys = {1}
  Accounts = {1}
  AccountOf <- MCOneAccount
  Meetings <- MCTwoMeetings
  LeadTime = 2
  ActionLifetime = 2
  FallbackLifetime = 1
  WarningInterval = 2
  RetryDelays <- MCRetryDelays
  KeyHash <- MCKeyHash
  MaxRevision = 2
  Generations = {1}
  MaxTime = 3
  MaxID = 2
  MaxSignals = 2
  MaxFaults = 1
  ReusesID = TRUE
  Prompt = TRUE
  PollItems <- MCPollItems
  Hosts = {"meet", "zoom"}
  ErrorKinds = {}
INVARIANTS NeverRejected OneOpenPerClick ShownIsCurrent
