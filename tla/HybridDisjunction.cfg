CONSTANTS
  h1 = h1
  h2 = h2
  o1 = o1
  o2 = o2
  None = None
  Hole <- MCHole
  Option <- MCOption
  Options <- MCOptions
  Constraint <- MCConstraint
  disjoint_indexes <- MCGroups
  Matching <- MCMatching
  HyperConstraint <- MCConstraint
  OptimalityHoles <- MCHole
  float_precision = 0
  conflict_precision = 0
  SingleState = TRUE
  StrictConstraint = {}
  Narrow <- MCNoneNarrow
  Tasks <- MCTasks
SPECIFICATION Spec
INVARIANT DisjunctionsSupported
