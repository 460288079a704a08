SPECIFICATION MCSpec
CONSTANTS
  b1 = b1
  b2 = b2
  x = x
  y = y
  w = w
  d1 = d1
  d2 = d2
  None = None
  Torn = Torn
  BoardPorts <- MCBoardPorts
  Ports = {b1, b2, x, y}
  Wide = {w}
  MaxNvme = 3
  Urls <- MCUrls
  BlocksOf <- MCBlocksOf
  Unchecked = Unchecked
  NoFile = NoFile
  MaxReleases = 3
  MaxKept = 4
  LocalTag = LocalTag
  DataDisks = {d1, d2}
  BackupModels = {"A", "B"}
  RuleModels = {"A"}
  TypedSerials = {9}
  MaxLoaders = 3
  MaxDSMBoots = 3
  NoBackup = NoBackup
CHECK_DEADLOCK FALSE
INVARIANTS LibraryPutBack SlotsFollowApart FetchedIsWanted OfOneRelease
 
