\* Two builds of one version, one of a lower and one of a higher version, two
\* files, one fault, under fairness.
CONSTANTS
  b1 = b1
  b2 = b2
  b3 = b3
  b4 = b4
  whl = whl
  sdist = sdist
  Builds = {b1, b2, b3, b4}
  Files = {whl, sdist}
  NoBuild = NoBuild
  VersionOf <- TwoInTheMiddle
  MaxFaults = 1
SPECIFICATION FairSpec
INVARIANTS TypeOK UnracedIntact LatestReleased HighestUnlessOvertaken
PROPERTIES EveryPublishEnds
CHECK_DEADLOCK FALSE
