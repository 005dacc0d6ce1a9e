SPECIFICATION FairSpec
CONSTANTS
  bad = bad
  good = good
  Consumers = {a}
  Listeners <- MCListeners
  KindsOf <- MCKindsOf
  Setup <- MCSetup
  Faulty = {bad}
  AutoPong = TRUE
  Pushed = {"metrics", "ping", "malformed", "not_object"}
  MaxConns = 1
  MaxFrames = 1
  MaxStarts = 1
CHECK_DEADLOCK FALSE
PROPERTIES NoFrameEndsStream
