SPECIFICATION ChainSpec
CONSTANTS
  k1 = k1
  r1 = r1
  s1 = s1
  s2 = s2
  w1 = w1
  w2 = w2
  Calls = {k1}
  Deployments <- MCDeployments
  Ambient <- MCAmbient
  Stale <- MCStale
  Requests = {r1}
  MaxSends = 2
  AppSpans <- MCAppSpans
  AppStates = {w1, w2}
  NoSpan = NoSpan
  NoState = NoState
  NoStatus = NoStatus
  ClientEnabled = TRUE
  Statuses = {200, 400}
CHECK_DEADLOCK FALSE
INVARIANTS HandlerContinuesCaller ToolServesCall ServerContinuesClient SuccessIsShared
PROPERTY ImplementsReports
