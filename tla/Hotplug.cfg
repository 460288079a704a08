SPECIFICATION FairSpec
CONSTANTS
  control = control
  data = data
  other = other
  usbnet = usbnet
  cdc = cdc
  asix = asix
  Free = Free
  Interfaces <- MCInterfaces
  Chain <- MCChain
CHECK_DEADLOCK FALSE
PROPERTIES AgentsApart 
