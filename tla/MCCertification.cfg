SPECIFICATION Spec
CONSTANTS
  MaxTries = 3
  MaxFaults = 2
  MaxExt = 2
INVARIANTS
  PassIsEarned
  ReportIsWhole
PROPERTIES
  NothingIsReplaced
  CertificationEnds
