\* A release whose log has two lines at most, of which Redis keeps one chunk; a
\* wrong version, which the worker and the script look for, stands for the ways
\* to fail; one fault.
CONSTANTS
  MaxLines = 2
  LiveMax = 0
  MaxFaults = 1
  Kinds = {TRUE}
  Failures = {"VERSION_MISMATCH"}
SPECIFICATION FairSpec
INVARIANTS TypeOK PageShowsLog VerdictHonest
PROPERTIES ContainerGoes PageEnds
\* Once the log was read to its end nothing is left to do.
CHECK_DEADLOCK FALSE
