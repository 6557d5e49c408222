CONSTANTS
  None = None
  MaxMemory = 3
  Pomdps <- MCPomdps
SPECIFICATION Spec
INVARIANTS
  TypeOK
  AssignmentsArePolicies
  EntriesInOrder
  SymmetryBroken
PROPERTY MemoryOnlyHelps
CHECK_DEADLOCK FALSE
