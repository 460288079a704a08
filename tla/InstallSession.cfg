SPECIFICATION Spec
CONSTANTS
  m1 = m1
  m2 = m2
  s1 = s1
  k1 = k1
  k2 = k2
  None = None
  Torn = Torn
  Models <- MCModels
  Serials <- MCOneSerial
  ValidSerial <- MCSharedSerial
  KernelOf <- MCTwoKernels
  Mounts = {"rw", "none"}
  MaxBuilds = 2
SYMMETRY Symmetry
INVARIANTS  ReportIsTrue
PROPERTIES OnlyFlashEndangers ImplementsBootTarget FlashedTogether
