SPECIFICATION Spec
CONSTANTS
  c1 = c1 c2 = c2 c3 = c3 c4 = c4
  a = a b = b k = k x = x y = y g = g v1 = v1 v2 = v2 v3 = v3 v4 = v4
  Commits = {c1, c2, c3, c4}
  Files = {a, b, k, x, y, g}
  Contents = {v1, v2, v3, v4}
  Absent = Absent
  Class <- MCClass
  Tree <- MCTree
  Worktrees <- CleanTrees
  Still = TRUE
  Shelved = {c3}
  NodeLimit = 3
  AutoLimit = 2
  Serving = TRUE
  Options <- MCOptions
  MaxStamps = 2
INVARIANTS
  TypeOK
  IndexMatchesMeta
  
  BackendCurrent

  
