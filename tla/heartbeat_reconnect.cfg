SPECIFICATION Spec
CONSTANTS
  Streams = {"control"}
  Interval = 30
  PongTimeout = 10
  Window = 90
  Delay = 2
  Hold = 0
  Gap = 6
  AutoPongs = {TRUE}
INVARIANTS AnsweredFromTheStart
