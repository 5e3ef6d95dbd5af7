SPECIFICATION Spec
CONSTANTS
  m1 = m1  m2 = m2  null = null  empty = empty  a = a  b = b
  v = v  w = w  u = u  z = z  none = none
  Msgs = {m1, m2}
  Ids <- MergeIds
  Dict <- MCDict
  Inputs <- MergeInputs
  Unreadable = {u}
  EmptyMsg = z
  NoJob = none
  NoSub = none
  NoName = null
  EmptyName = empty
  NameLen <- MCNameLen
  MaxU32 = 1000
  DefaultSize = 27
  MaxTail = 27
  MaxCap = 27
VIEW Work
SYMMETRY Handles
INVARIANTS LoopsFramed ApplyDelivers ApplyKeepsRest
PROPERTIES ImplementsMerge
