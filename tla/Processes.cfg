\* One process at a time, launched again when it has ended, with one reconcile
\* after the other of one of its three controllers.
CONSTANTS
  Processes = {p1}
  Controllers = {jenkins, backup, restore}
  Features = {"routes"}
  Nobody = Nobody
  EnableLeaderElection = TRUE
  MaxLaunches = 3
  Errors = {exit, lost}
  NoError = NoError
  MaxRequests = 3
  Home = p1
  Runner = backup
  MaxSends = 2
SPECIFICATION WorkersSpec
INVARIANT AnswerIsOwn
PROPERTY ReconcileReturns
CHECK_DEADLOCK FALSE
