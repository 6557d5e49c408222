CONSTANTS
  h1 = h1
  h2 = h2
  o1 = o1
  o2 = o2
  o3 = o3
  None = None
  Hole <- MCHole
  Option <- MCOption
  Options <- MCOptions
  Constraint <- MCConstraint
  disjoint_indexes <- MCGroups
  Matching <- MCMatching
  HyperConstraint <- MCConstraint
  OptimalityHoles <- MCRelevant
  float_precision = 0
  conflict_precision = 0
  SingleState = FALSE
  StrictConstraint = {}
  Narrow <- MCNoneNarrow
  Tasks <- MCTasks
SPECIFICATION Spec
INVARIANT NoSolutionLost
