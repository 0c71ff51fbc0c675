\* Two builder pods of the same name, two goroutines, a fault.
CONSTANTS
  Images = {i1, i2}
  Slots = {s1, s2}
  MaxPods = 2
  MaxFaults = 1
  None = None
SPECIFICATION ImageFairSpec
INVARIANTS RecordedOnce BuildsGenuine
PROPERTIES BuildsOnlyGrow SuccessIsRecorded
