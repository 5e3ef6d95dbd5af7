SPECIFICATION Spec
CONSTANTS
  m1 = m1  m2 = m2  null = null  empty = empty  a = a  v = v  w = w  none = none  lost = lost
  Lost = lost
  Msgs = {m1, m2}
  NoPayload = none
  NoWire = none
  NoName = null
  EmptyName = empty
  NameLen <- NullNames
  MaxU32 = 1000
  DefaultSize = 8
  Fids = {1}
  Inputs <- CopyInputs
  ReadTypes = {"U8"}
  ForeignWire <- MCForeignWire
  MaxWire = 15
  MaxTail = 15
  MaxCap = 15
SYMMETRY Handles
VIEW Buffers
INVARIANTS Bounds Framed HeaderAgrees WireFramed
PROPERTIES FailureAtomic ImplementsMessage
