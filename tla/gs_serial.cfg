SPECIFICATION Spec
CONSTANTS
  main = main
  dev = dev
  p1 = p1
  p2 = p2
  i1 = i1
  i2 = i2
  v1 = v1
  v2 = v2
  Procs = {p1}
  Branches = {main, dev}
  Main = main
  Commands = {"analyze", "merge", "checkout", "branch", "delete", "gc"}
  Serial = TRUE
  Crashes = TRUE
  Typed = "reachable"
  MaxCommits = 2
  MaxSnaps = 3
  Ids = {i1}
  Values = {v1}
  Null = Null
SYMMETRY Symmetry
INVARIANTS
  RefsClosed
  HeadHasBranch
PROPERTIES
  GcCollects
