SPECIFICATION Spec
CONSTANTS
  Documents <- MCDocuments
  Palette = 1
  BaseParas = 1
  MaxId = 6
  MaxObject = 14
  MaxZ = 7
  Synthetic = 8
  Wrap = 4
INVARIANTS
  MergeKeepsMeaning
  RawRecordsStandForTheirEntries
  ObjectsOfInputsDiffer
