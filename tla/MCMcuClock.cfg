SPECIFICATION McuSpec
CONSTANTS
  Values = {0, 1}
  NewTimes <- MCNewTimes
  MaxTicks = 1
  MaxLost = 1
CHECK_DEADLOCK FALSE
INVARIANTS
  BusHonest LaneHasOneOwner
PROPERTIES ClockSurvives
