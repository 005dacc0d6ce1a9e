SPECIFICATION FairSpec
CONSTANTS
  bad = bad
  good = good
  Consumers = {a, b}
  Listeners <- MCListeners
  KindsOf <- MCKindsOf
  Setup <- MCSetup
  Faulty = {bad}
  AutoPong = TRUE
  Pushed = {"metrics", "ping", "malformed", "not_object"}
  MaxConns = 2
  MaxFrames = 2
  MaxStarts = 1
CHECK_DEADLOCK FALSE
INVARIANTS TypeOK ListenersHearAll
PROPERTIES ImplementsDelivery PingsAnswered
