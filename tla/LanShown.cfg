SPECIFICATION Spec
CONSTANTS
  a = a
  b = b
  v = v
  m1 = m1
  m2 = m2
  m3 = m3
  Cards = {a, b, v}
  Keyed = {a, b, v}
  Machines = {{b}, {a, b, v}}
  Slots <- MCSlots
  Models = {old, new}
  Typed = {x}
  Made <- MCMade
  Blank = Blank
  MaxEdits = 2
INVARIANTS ShownIsCarried
