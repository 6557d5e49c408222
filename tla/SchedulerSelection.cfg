CONSTANTS
  None = None
  Hole <- MCHole
  Option <- MCOption
  Options <- MCOptions
  Constraint <- MCConstraint
  disjoint_indexes <- MCGroups
  Matching = {}
  HyperConstraint = {1, 3}
  OptimalityHoles = {}
  float_precision = 0
  Sketches <- MCSketches
SPECIFICATION Spec
INVARIANTS
  TypeOK
  ValuesExact
  SchedulerAttains
  VerdictsSound
  SelectionsSatisfy
  AssertionsHold
  SplitsAsAbstract
