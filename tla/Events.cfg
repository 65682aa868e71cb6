\* Three pushes, the last of them refused by the database, a manual request,
\* two requests served at once, under fairness.
SPECIFICATION FairSpec
CONSTANTS
  m1 = m1
  h1 = h1
  h2 = h2
  Nobody = Nobody
  Events = {1, 2, 3}
  Manual = {m1}
  Size <- MCSize
  OnDefault = {1, 2}
  Poison = {3}
  Handlers = {h1, h2}
  MaxFaults = 1
INVARIANTS EventsTypeOK SpooledUntilRecorded
PROPERTIES LedgerSpec EveryPushSettles
CHECK_DEADLOCK FALSE
