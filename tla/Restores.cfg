\* Two operators at work on one Restore; API faults, lost exec reports,
\* foreign writes and crashes.
CONSTANTS
  Operators = {o1, o2}
  Objects = {r1}
  None = None
  MaxUid = 1
  MaxFaults = 1
  Conditions <- ConditionNames
  Strategies <- AnyRestart
SPECIFICATION FairSpec
INVARIANTS StatusReportsRun RestoresOnceInv
PROPERTIES RestoredInOrder ImplementsTask TakenUpIsFinished
