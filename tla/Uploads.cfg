SPECIFICATION Spec
CONSTANTS
  Symbols <- MCSymbols
  Header <- MCHeader
  READ_SZ = 3
  Tasks <- MCTasks
  Files <- MCFiles
  None = None
  Contexts = {1, 2, 3}
  MAX_PARTITIONS = 1
  FD_MIN = 1
  MaxFaults = 1
  SdTasks = {"loop"}
  Cards = {1, 2}
  NoCard = 0
  httpd = "httpd"
  Formatters = {"loop"}
  Readers = {"ui"}
  Requests <- MCRequests
  ValidImages <- MCValidImages
  MaxCommands = 4
INVARIANTS TypeOK StoredAsSent UpdateClosed BootsWholeImage OwnFile
CHECK_DEADLOCK FALSE
