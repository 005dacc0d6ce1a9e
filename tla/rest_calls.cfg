SPECIFICATION FairSpec
CONSTANTS
  Methods = {"GET", "POST"}
  Statuses = {200, 404, 503}
  Retries = 1
  Timeout = 1
  MaxBackoff = 1
  PollInterval = 1
  ReadyTimeouts = {0, 1, 3}
  Horizon = 9
  MaxCalls = 2
INVARIANTS TypeOK ChangedOnce OutcomeIsAnswer TrueWhenReady WaitIsBounded
PROPERTIES WaitReturns
