\* A release build and a validation build, one worker, a cancel request, two faults.
CONSTANTS
  b1 = b1
  b2 = b2
  w1 = w1
  k1 = k1
  r1 = r1
  Builds = {b1,b2}
  Releases = {b1}
  Workers = {w1}
  Runners = {r1}
  Clients = {k1}
  NoBuild = NoBuild
  Version <- MCVersion
  RunnerOf <- MCRunnerOf
  MaxMessages = 1
  MaxFaults = 2
SPECIFICATION Spec
INVARIANTS TypeOK SuccessHasOutput ResultRevokesToken
