SPECIFICATION Spec
CONSTANTS
  MaxExt = 3
  MaxFaults = 4
INVARIANTS
  OutcomeIsTrue
  PairIsNeverMixed
  WorkspacesAreAccountedFor
PROPERTIES
  ImplementsPublication
