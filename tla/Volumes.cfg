\* One volume whose claim may be named, deleted and be there before, and
\* whose size may not parse.
CONSTANTS
  v = v
  own = own
  other = other
  Volumes = {v}
  Claims = {own, other}
  DefaultClaim <- DefaultOfV
  Unnamed = Unnamed
  PvcNames = {Unnamed, other}
  Sizes = {TRUE, FALSE}
  MaxChanges = 4
  MaxFaults = 1
SPECIFICATION FairSpec
INVARIANT IInv
PROPERTIES ReportIsForSpec ClaimSettles
CHECK_DEADLOCK FALSE
