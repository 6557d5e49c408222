CONSTANTS
  h1 = h1
  h2 = h2
  o1 = o1
  o2 = o2
  o3 = o3
  None = None
  Hole <- MCHole
  Option <- MCOption
  Options <- MCOptions
  Constraint <- MCConstraint
  disjoint_indexes <- MCGroups
  Matching = {}
  HyperConstraint = {1}
  OptimalityHoles <- MCRelevant
  float_precision = 1
  Tasks <- MCTasks
SPECIFICATION Spec
INVARIANT AssertionHolds
