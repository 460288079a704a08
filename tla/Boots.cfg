SPECIFICATION MCSpec
CONSTANTS
  unblock = unblock
  disable = disable
  loader = loader
  other = other
  None = None
  Torn = Torn
  Tasks <- MCTasks
  Mounts = {"rw", "ro", "none"}
  Disks = {sda, sdb}
  Settings = {url}
  NoValue = NoValue
  TornValue = TornValue
  MaxBoots = 3
  DiskNames <- MCDiskNames
  LoaderDisk = loader
  Others = {other}
  PartsOf <- MCPartsOf
  MaxLeft = 2
  Absent = Absent
  Flashers = {"h2o", "uboot"}
  Summed = {"h2o"}
  MaxAttempts = 3
  MaxLog = 6
  MaxCuts = 2
SYMMETRY Symmetry
CHECK_DEADLOCK FALSE
INVARIANTS QueuedIsKept  NoFlash 
PROPERTIES    NodesAreLoaders
