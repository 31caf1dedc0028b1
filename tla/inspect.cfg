SPECIFICATION Spec
CONSTANTS
  main = main
  dev = dev
  fn = fn
  file = file
  edge = edge
  v1 = v1
  v2 = v2
  Branches = {main, dev}
  Main = main
  MaxCommits = 4
  Ids = {fn}
  Symbols = {fn}
  Edges = {}
  Limit = 2
  Values = {v1, v2}
  Null = Null
SYMMETRY Symmetry
INVARIANTS
  WalkExact
  LCASound
  LCALowestWithoutMerges
  MergeKeepsBothSides
  MergeAppliesDiff
  BlameExact
PROPERTIES
  MergeSettles
