\* Two processes, as in a rolling update, with leader election asked for.
CONSTANTS
  Processes = {p1, p2}
  Controllers = {jenkins, backup, restore}
  Features = {"routes"}
  Nobody = Nobody
  EnableLeaderElection = TRUE
  MaxLaunches = 3
SPECIFICATION ProcessSpec
INVARIANT OneActive
CHECK_DEADLOCK FALSE
