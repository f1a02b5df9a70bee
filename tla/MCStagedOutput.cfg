SPECIFICATION Spec
CONSTANTS
  Procs = {1, 2}
  Platforms = {"unix", "windows", "other"}
  Apis <- EntryPoints
  MaxExt = 1
  MaxFaults <- Failures
INVARIANTS
  EditsWhatItReplaces
  InputIsWhole
  OldSurvives
  OutcomeIsTrue
PROPERTIES
  NoLostUpdate
