SPECIFICATION Spec
CONSTANTS
  N = 3
  Paths = {1, 2, 3}
  MaxExt = 1
  MaxFaults = 2
INVARIANTS
  NothingTakenIsLost
  OutcomeIsTrue
  WorkspacesAreAccountedFor
PROPERTIES
  NoStaleOverwrite
  ImplementsPublication
