SPECIFICATION FairSpec
CONSTANTS
  Conns = {c1, c2, c3}
  Names = {}
  Routes = {"health", "mcp"}
  Sizes = {1}
  Expects = {FALSE}
  MaxConnections = 2
  MaxBody = 2
  MaxFile = 2
  Quota = 3
  MaxSignals = 1
  MaxFaults = 1
  NoConn = NoConn
  Main = Main
  Tool = Tool
INVARIANTS
  SlotsMatchThreads
PROPERTIES
  EverythingEnds
  ProbeIsAnswered
CHECK_DEADLOCK FALSE
