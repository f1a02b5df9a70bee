SPECIFICATION Spec
CONSTANTS
  FirstTables <- Tables
  Outside = {}
  IdSpace = 1000
  MaxDim = 4
  BodyWidth = 40
  MaxCount = 2
  MaxCalls = 3
INVARIANTS
  WellFormed
PROPERTIES
  RefusedChangesNothing
  TextSurvives
  WidthKept
CHECK_DEADLOCK FALSE
