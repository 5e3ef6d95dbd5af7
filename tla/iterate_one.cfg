SPECIFICATION Spec
CONSTANTS
  m1 = m1  m2 = m2  iter = iter  null = null  empty = empty
  v = v  w = w  none = none  garbage = garbage
  Msgs = {m1}
  Iter = iter
  NoField = none
  NoCursor = none
  Garbage = garbage
  NoName = null
  EmptyName = empty
  NameLen <- NullNames
  MaxU32 = 1000
  DefaultSize = 17
  Fids = {1, 2}
  Inputs <- WalkInputs
  MaxTail = 20
  MaxCap = 20
VIEW Undisturbed
INVARIANTS IterTypeOK IterFramed CursorOnField WalksEachOnce HandleCurrent
PROPERTIES ImplementsWalk
