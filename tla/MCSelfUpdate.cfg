SPECIFICATION UpdateSpec
CONSTANTS
  Updaters = {u1, u2}
  Releases <- ReleaseTags
  Current = "0.3.0"
  Latest = "0.3.10"
  Reports <- Printed
  Contains <- Substrings
  MaxFailures = 2
INVARIANTS
  BinarySurvives
  OneFaultIsUndone
  UpdatedMeansInstalled
