SPECIFICATION FairPasses
CONSTANTS
  d1 = d1
  d2 = d2
  d3 = d3
  Devices = {d1, d2, d3}
  NoDevice = NoDevice
  NoDriver = NoDriver
  Machines <- AllMachines
  Packs <- AnyPack
  Bootstrap <- Named
  Passes = 3
  MaxDepth = 2
CHECK_DEADLOCK FALSE
INVARIANTS DriversFound
PROPERTIES Finishes
