\* Two release builds of the same version on two workers, a fault.
CONSTANTS
  b1 = b1
  b2 = b2
  w1 = w1
  w2 = w2
  r1 = r1
  Builds = {b1,b2}
  Releases = {b1,b2}
  Workers = {w1,w2}
  Runners = {r1}
  Clients = {}
  NoBuild = NoBuild
  Version <- MCVersion
  RunnerOf <- MCRunnerOf
  MaxMessages = 1
  MaxFaults = 1
SPECIFICATION Spec
INVARIANT ExecutedOnce
PROPERTY LifecycleSpec
