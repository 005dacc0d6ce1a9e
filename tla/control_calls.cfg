SPECIFICATION Spec
CONSTANTS
  Callers = {a, b}
  Owner = owner
  UserIds = {u}
  NoId = noid
  AutoPong = TRUE
  MaxPending = 2
  MaxLoops = 2
  MaxConns = 1
  MaxCalls = 1
  MaxPushes = 1
  Events <- FaultyEvents
CHECK_DEADLOCK FALSE
INVARIANTS TypeOK PendingSound PendingComplete OwnReply
PROPERTY ImplementsCommandCalls
