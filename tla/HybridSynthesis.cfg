CONSTANTS
  h1 = h1
  h2 = h2
  o1 = o1
  o2 = o2
  None = None
  Hole <- MCHole
  Option <- MCOption
  Options <- MCOptions
  Constraint <- MCConstraint
  disjoint_indexes <- MCGroups
  Matching <- MCMatching
  HyperConstraint = {3}
  OptimalityHoles <- MCHole
  float_precision = 0
  conflict_precision = 0
  SingleState = TRUE
  StrictConstraint = {2, 3}
  Narrow <- MCNarrow
  Tasks <- MCTasks
SPECIFICATION FairSpec
INVARIANTS
  TypeOK
  LossWithinTolerance
  NoRepeatedAnalysis
PROPERTIES
  Terminates
  RefinesSynthesis
