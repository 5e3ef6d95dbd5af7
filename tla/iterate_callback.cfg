SPECIFICATION Spec
CONSTANTS
  m1 = m1  m2 = m2  null = null  empty = empty  a = a  b = b
  v = v  w = w  u = u  z = z  none = none
  Msgs = {m1, m2}
  Ids <- WalkIds
  Dict <- MCDict
  Inputs <- WalkInputs
  Unreadable = {u}
  EmptyMsg = z
  NoJob = none
  NoSub = none
  NoName = null
  EmptyName = empty
  NameLen <- MCNameLen
  MaxU32 = 1000
  DefaultSize = 18
  MaxTail = 18
  MaxCap = 19
VIEW Work
INVARIANTS LoopTypeOK LoopsFramed IterateMeetsAll
PROPERTIES CallsReturn TurnsAdvance
