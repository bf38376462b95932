SPECIFICATION Spec
CONSTANTS
  Keys = {1}
  Accounts = {1}
  AccountOf <- MCOneAccount
  Meetings <- MCMeetings
  LeadTime = 2
  ActionLifetime = 2
  FallbackLifetime = 1
  WarningInterval = 2
  RetryDelays <- MCRetryDelays
  KeyHash <- MCKeyHash
  MaxRevision = 3
  Generations = {1}
  MaxTime = 5
  MaxID = 2
  MaxSignals = 2
  MaxFaults = 0
  ReusesID = FALSE
  Prompt = TRUE
  PollItems <- MCPollItems
  Hosts = {"meet", "zoom"}
  ErrorKinds = {}
INVARIANTS TypeOK SlotNeverFull NothingOrphaned NoLostWakeup
