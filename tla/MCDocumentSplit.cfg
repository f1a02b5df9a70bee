SPECIFICATION SplitSpec
CONSTANTS
  Jobs <- MCJobs
  Numbers = {1, 2, 3, 2024}
  MaxFaults = 2
INVARIANTS
  FragmentsHoldTheirPages
  SuccessIsComplete
