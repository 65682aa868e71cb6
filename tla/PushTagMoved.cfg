\* Disagreement with hooks/pre-receive: a tag that was removed while it was built
\* is created again elsewhere once its version is published.
CONSTANTS
  u1 = u1
  u2 = u2
  p1 = p1
  p2 = p2
  first = first
  second = second
  Users = {u1, u2}
  NoUser = NoUser
  Fingerprints = {"SHA256"}
  Connections = {p1}
  Tags = {"v1"}
  Branches = {"main", "next"}
  Main = "main"
  Commits = {first, second}
  Zero = Zero
  Roles = {20, 30}
  MaxKeys = 2
  MaxPushes = 3
  MaxChanges = 0
SPECIFICATION Spec
PROPERTY PublishedTagNeverMoves
\* Once MaxChanges are spent and nobody may push, nothing is left to do.
CHECK_DEADLOCK FALSE
