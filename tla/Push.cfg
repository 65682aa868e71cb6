\* Two users and a fingerprint that changes hands, two pushes, at the same time
\* or not, of a tag and two branches; two changes of keys, users or project.
CONSTANTS
  u1 = u1
  u2 = u2
  p1 = p1
  p2 = p2
  first = first
  second = second
  Users = {u1, u2}
  NoUser = NoUser
  Fingerprints = {"SHA256"}
  Connections = {p1, p2}
  Tags = {"v1"}
  Branches = {"main", "next"}
  Main = "main"
  Commits = {first, second}
  Zero = Zero
  Roles = {20, 30}
  MaxKeys = 2
  MaxPushes = 2
  MaxChanges = 2
SYMMETRY Alike
SPECIFICATION Spec
INVARIANTS TypeOK ReleaseTagKept
PROPERTIES ActsAsHolder GuardedRefsKept
\* Once MaxChanges are spent and nobody may push, nothing is left to do.
CHECK_DEADLOCK FALSE
