SPECIFICATION Spec
CONSTANTS
  Streams = {"training", "control"}
  Interval = 30
  PongTimeout = 10
  Window = 90
  Delay = 2
  Hold = 1
  Gap = 6
  AutoPongs = {TRUE, FALSE}
INVARIANTS TypeOK HealthyIsAlive AnswersInTime DeathIsNoticed
