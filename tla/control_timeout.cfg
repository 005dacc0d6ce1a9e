SPECIFICATION Spec
CONSTANTS
  Callers = {a}
  Owner = owner
  UserIds = {}
  NoId = noid
  AutoPong = TRUE
  MaxPending = 1
  MaxLoops = 2
  MaxConns = 1
  MaxCalls = 2
  MaxPushes = 1
  Events <- TimeoutEvents
CHECK_DEADLOCK FALSE
INVARIANT CorrelatedWhileOpen
