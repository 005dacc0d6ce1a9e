SPECIFICATION FairSpec
CONSTANTS
  Callers = {a, b}
  Owner = owner
  UserIds = {}
  NoId = noid
  AutoPong = TRUE
  MaxPending = 1
  MaxLoops = 2
  MaxConns = 1
  MaxCalls = 2
  MaxPushes = 2
  Events <- SteadyEvents
CHECK_DEADLOCK FALSE
INVARIANTS LoopSurvives WaiterHasReader CorrelatedWhileOpen
PROPERTIES PingsAnswered ReceivedIsReturned
