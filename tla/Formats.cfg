SPECIFICATION MCSpec
CONSTANTS
  d1 = d1
  d2 = d2
  s1 = s1
  Modules = {1, 2, 3}
  Devices = {d1, d2}
  Symbols = {s1}
  MaxDepth = 2
  Inputs <- MCInputs
  KeepOurs = {1}
  OurPacks <- MCOurPacks
  Originals <- MCOriginals
  Byte = 4
  ProbTotal = 8
  Move = 4
  Models = {"a"}
  MaxDecisions = 7
  Texts <- MCTexts
  ByteWidth = 2
  LC = 1
  PosMask = 1
  Tier = 2
  High = 4
  ModelSlots = 6
  AlignBits = 1
  DictSize = 12
  ChainDepth = 4
  Hash <- MCHash
  Power <- MCPower
  Ramdisks <- MCRamdisks
  Builds <- MCBuilds
  KeyOrder <- MCKeyOrder
  Ifcfgs <- MCIfcfgs
  HeaderSize = 6
  MaxPatches = 2
CHECK_DEADLOCK FALSE
INVARIANTS ClosedInOrder MergeSound ReadAsWritten DecodesBack HooksAtTheirLines UnpackedWhole 
