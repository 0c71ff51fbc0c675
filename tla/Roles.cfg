\* Jenkins ci with ci-lab or with ci-cr, a role each may ask for, a change by a
\* user, a failing call or crash.
CONSTANTS
  ci = ci
  lab = lab
  cr = cr
  Jenkinses = {ci, lab, cr}
  Namespaces <- Pairs
  Words <- AllWords
  Label <- Dashed
  Roles <- OneRole
  Nobody = Nobody
  MaxChanges = 1
  MaxFaults = 1
SPECIFICATION FairSpec
INVARIANTS IInv MissingIsNoticed
 
CHECK_DEADLOCK FALSE
