SPECIFICATION Spec
CONSTANTS
  Keys = {1}
  Accounts = {1}
  AccountOf <- MCOneAccount
  Meetings <- MCOddZone
  LeadTime = 1
  ActionLifetime = 2
  FallbackLifetime = 1
  WarningInterval = 2
  RetryDelays <- MCRetryDelays
  KeyHash <- MCKeyHash
  MaxRevision = 3
  Generations = {1}
  MaxTime = 4
  NotificationIDs = {1, 2}
  PollItems <- MCPollItems
  HostPolicies <- MCHostPolicies
  ErrorKinds = {"transient"}
PROPERTIES UnchangedNotReannounced
