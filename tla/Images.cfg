SPECIFICATION MCSpec
CONSTANTS
  None = None
  Names <- MCNames
  Fold <- MCFold
  Short <- MCShort
  Lossy <- MCLossy
  Records <- MCRecords
  ClusterCount = 26
  ClusterUnits = 2
  PerCluster = 4
  Jobs <- MCJobs
  Foreign <- MCForeign
  EfiFiles <- MCEfiFiles
  Stub <- MCStub
  Generated <- MCGenerated
  MaxBuilds = 2
  m1 = m1
  m2 = m2
  CliModels = {m1, m2}
  Configs <- MCConfigs
  ReleaseOf <- MCReleaseOf
  OtherReleases = {"7.2-other", "locked"}
  VersionIn <- MCVersionIn
  Locked = {"locked"}
  MaxIds = 3
  MaxCommands = 7
  Nothing = Nothing
  MaxEdits = 2
  MaxRuns = 2
  PartOrder <- MCPartOrder
  Whole = Whole
  Missing = Missing
  TornFile = TornFile
CHECK_DEADLOCK FALSE
INVARIANTS ReadsBack VolumesSound WholeOrNone SameMachine  BurnsTheFix
