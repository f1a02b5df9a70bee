SPECIFICATION EdgeFairSpec
CONSTANTS
  Opener = opener
  Calls = {c1, c2}
  Deletes = {d1}
  EdgeFaults = 2
INVARIANTS
  ReplacedOnlyUntilTold
  NothingPartialSurvives
PROPERTIES
  DeadAdmitsNobody
  EveryRequestIsAnswered
