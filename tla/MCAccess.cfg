SPECIFICATION Spec
CONSTANTS
  root = root
  ann = ann
  bob = bob
  rootMail = rootMail
  annMail = annMail
  sub = sub
  team = team
  app = app
  sub2 = sub2
  p1 = p1
  p2 = p2
  p3 = p3
  web = web
  lib = lib
  key = key
  key2 = key2
  h1 = h1
  h2 = h2
  Handlers = {h1, h2}
  Kinds <- MCKinds
  Budgets <- MCBudgets
  Users = {root, ann, bob}
  Root = root
  Emails = {rootMail, annMail}
  RootEmail = rootMail
  Subjects = {sub, sub2}
  MaxUsers = 2
  Teams = {team}
  Apps = {app}
  Projects = {p1, p2, p3}
  Names = {web, lib}
  MaxProjects = 1
  TokenIds = {key, key2}
  Messages <- MCMessages
  KnownVersions = {1, 2}
  Latest = 2
  Absent = Absent
  Keys = {1, 2}
  Skews = {0, 1}
  Capacity = 1
  Rate = 1
  MaxTime = 2
  Releases = {"old", "new"}
  Shipped <- MCShipped
  Scripts <- MCScripts
  Objects = {"table", "column", "check", "index"}
INVARIANTS
  TypeOK
  SessionIsCurrent
  LimitsHold
  ListedIsOwned
  RetiredKeysAreRefused
  GrantsAreBounded
  SchemaIsComplete
SYMMETRY MCSymmetry
CHECK_DEADLOCK FALSE
