SPECIFICATION Spec
CONSTANTS
  Controllers <- MCControllers
  AtaOrder <- MCAtaOrder
  Plugged <- MCPlugged
  Models <- MCModels
  USB = USB
  Blank = Blank
  Own = Own
  None = None
INVARIANTS OnePortOneBay
