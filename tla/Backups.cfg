\* One operator; a Backup that is deleted and created again; API faults, lost
\* exec reports, foreign writes, crashes; a Jenkins that does as it is told.
CONSTANTS
  JenkinsMayRefuse = FALSE
  Operators = {o1}
  Objects = {b1}
  None = None
  MaxUid = 2
  MaxFaults = 1
  Conditions <- ConditionNames
  Strategies <- AllKinds
SPECIFICATION FairSpec
INVARIANTS QuietDownAccounted StatusReportsRun RunsOnceInv
PROPERTIES ScriptInOrder ImplementsTask
           EventuallyTakenUp TakenUpGetsVerdict
