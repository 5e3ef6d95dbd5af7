SPECIFICATION Spec
CONSTANTS
  m1 = m1  m2 = m2  null = null  empty = empty  a = a  v = v  w = w  none = none  lost = lost
  Lost = lost
  Msgs = {m1}
  NoPayload = none
  NoWire = none
  NoName = null
  EmptyName = empty
  NameLen <- MCNameLen
  MaxU32 = 3
  DefaultSize = 10
  Fids = {0, 1}
  Inputs <- FieldInputs
  ReadTypes = {"U8"}
  ForeignWire <- NoForeignWire
  MaxWire = 0
  MaxTail = 19
  MaxCap = 20
VIEW Buffers
INVARIANTS TypeOK Bounds Framed
PROPERTIES FailureAtomic ImplementsMessage
