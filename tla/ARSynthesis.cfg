CONSTANTS
  h1 = h1
  h2 = h2
  o1 = o1
  o2 = o2
  None = None
  Hole <- MCHole
  Option <- MCOption
  Options <- MCOptions
  Constraint <- MCConstraint
  disjoint_indexes <- MCGroups
  Matching <- MCMatching
  HyperConstraint <- MCConstraint
  OptimalityHoles <- MCRelevant
  float_precision = 1
  Tasks <- MCTasks
SPECIFICATION FairSpec
INVARIANTS
  TypeOK
  InheritedIndicesSuffice
  ResultSatisfiesSpec
  NoSolutionLost
  ExploredAddsUp
PROPERTIES
  OptimumImproves
  RefinesSynthesis
  Terminates
