\* Two users, one of them a system administrator, two groups with a project each;
\* two requests at a time, about one of the groups.
CONSTANTS
  u1 = u1
  u2 = u2
  h1 = h1
  h2 = h2
  tools = tools
  libs = libs
  parser = parser
  plot = plot
  Users = {u1, u2}
  NoUser = NoUser
  SystemAdmins = {u1}
  Creator = u1
  Groups = {tools, libs}
  Projects = {parser, plot}
  NoProject = NoProject
  GroupOf <- GroupOfDef
  Handlers = {h1, h2}
  RolesGiven = {"MAINTAINER", "OWNER"}
  ScopesGiven = {{"write_api"}, {"write_package"}}
  Touched = {tools}
SPECIFICATION Spec
INVARIANTS TypeOK OwnersKept ShownAsGranted
SYMMETRY Alike
PROPERTIES NoSelfPromotion
