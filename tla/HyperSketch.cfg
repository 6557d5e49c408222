CONSTANTS
  r1 = r1
  r2 = r2
  x = x
  y = y
  z = z
  sched = sched
  other = other
  a = a
  b = b
  c = c
  d = d
  e = e
  Run = {r1, r2}
  self = r1
  n_sched_quants = 2
  StateVariable = {x, y, z}
  InitialState <- MCInitialState
  Formulas <- MCFormulas
  Label = {a, b, c}
  Scheduler = {sched, other}
  Name = {d, e}
  Sketches <- MCSketches
SPECIFICATION Spec
INVARIANTS
  TypeOK
  OnlySketchAccepted
  FileRestored
  FamilyHasChains
PROPERTIES
  LoadedFormulaCorrect
  HolesMatchSketch
CHECK_DEADLOCK FALSE
