SPECIFICATION FairSpec
CONSTANTS
  c1 = c1
  c2 = c2
  Clients <- TwoClients
  Unit = 4
  Burst = 8
  Base = 4
  Floor = 1
  ClockSteps <- BackAndForth
  MaxSteps = 2
  MaxIdle = 3
INVARIANTS TypeOK NeverOverLimit
PROPERTIES SomeoneIsServed RateIsRestored
