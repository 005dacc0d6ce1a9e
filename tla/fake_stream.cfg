SPECIFICATION FairSpec
CONSTANTS
  Consumers = {a, b}
  Injected = {"metrics", "state", "ping", "not_object"}
  Faulty = {"state"}
  AutoPong = TRUE
  Instant = {TRUE, FALSE}
  MaxMessages = 2
  MaxStarts = 3
  MaxConnects = 2
CHECK_DEADLOCK FALSE
INVARIANTS TypeOK OneLateAtMost YieldsSound
PROPERTIES ImplementsDispatch IterationsEnd Delivered
