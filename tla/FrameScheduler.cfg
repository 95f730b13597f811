\* Two cards on a clock long enough for two frames of several slices.
CONSTANTS
  Cards = {1, 2}
  Costs = {1, 2}
  FrameCycles = 3
  Never = 10
  MaxAccesses = 2
  LastCycle = 8
  MaxDelay = 2
SPECIFICATION FairSpec
INVARIANTS
  EventsAreOnTime
PROPERTIES
  KeepsAlarmPromise
  FrameCompletes
