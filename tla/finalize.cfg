SPECIFICATION Spec
CONSTANTS
  N = 4
  Nowhere = Nowhere
  Outside = Outside
  Inputs <- MCInputs
INVARIANTS
  SccsExact
  LeavesFirst
  LinkExact
