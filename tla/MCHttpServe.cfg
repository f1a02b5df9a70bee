SPECIFICATION Spec
CONSTANTS
  Conns = {c1, c2}
  Names = {n1, n2}
  Routes = {"mcp", "post", "get"}
  Sizes = {1, 2, 3}
  Expects = {TRUE, FALSE}
  MaxConnections = 2
  MaxBody = 2
  MaxFile = 2
  Quota = 2
  MaxSignals = 2
  MaxFaults = 2
  NoConn = NoConn
  Main = Main
  Tool = Tool
SYMMETRY Symmetry
INVARIANTS
  GracefulExitIsClean
  NoPartialUpload
PROPERTIES
  UploadIsAcknowledgedWhole
CHECK_DEADLOCK FALSE
