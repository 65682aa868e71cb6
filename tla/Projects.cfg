\* Two requests at a time, two paths, one package name, two projects, two
\* faults.
CONSTANTS
  h1 = h1
  h2 = h2
  here = here
  there = there
  Handlers = {h1, h2}
  Paths = {here, there}
  Names = {"hawee-tool"}
  Branches = {"main", "next"}
  Main = "main"
  MaxProjects = 2
  MaxFaults = 2
SYMMETRY Alike
SPECIFICATION Spec
INVARIANTS TypeOK RepositoriesMatch OneProjectUnlessShared
\* Once MaxProjects are created and gone, nothing is left to do.
CHECK_DEADLOCK FALSE
