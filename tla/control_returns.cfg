SPECIFICATION FairSpec
CONSTANTS
  Callers = {a}
  Owner = owner
  UserIds = {}
  NoId = noid
  AutoPong = TRUE
  MaxPending = 1
  MaxLoops = 2
  MaxConns = 2
  MaxCalls = 1
  MaxPushes = 1
  Events <- LiveEvents
CHECK_DEADLOCK FALSE
PROPERTIES CallsReturn DisconnectReturns
