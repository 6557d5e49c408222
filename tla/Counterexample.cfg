CONSTANTS
  h1 = h1
  h2 = h2
  h3 = h3
  o1 = o1
  o2 = o2
  None = None
  Hole <- MCHole
  Option <- MCOption
  Options <- MCOptions
  State <- MCState
  InitialStates <- MCInitialStates
  state_to_holes <- MCHoles
  Row <- MCRow
  Targets <- MCTargets
  Scale = 16
  tolerance = 2
  Requests <- MCRequests
  MultitargetBounds = FALSE
SPECIFICATION Spec
INVARIANTS
  TypeOK
  WavesRegistered
  EachWaveRegisters
  ExplorationClosed
  ConflictSound
