\* Two versions of a page with two files, two requests and two cleanups at a
\* time, one fault.
CONSTANTS
  old = old
  new = new
  p1 = p1
  p2 = p2
  c1 = c1
  c2 = c2
  Files = {old, new}
  NoFile = NoFile
  Clients = {p1, p2}
  Cleaners = {c1, c2}
  Listing <- TwoVersions
  CacheLimit = 1
  MaxFaults = 1
SYMMETRY Alike
SPECIFICATION Spec
INVARIANTS TypeOK EtagMeansLinks CacheAgrees
