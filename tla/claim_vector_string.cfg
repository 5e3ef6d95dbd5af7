SPECIFICATION LooseSpec
CONSTANTS
  m1 = m1  null = null  empty = empty  x = x  y = y  v = v  w = w
  nul = nul  other = other  none = none  wild = wild
  Msgs = {m1}
  Ids <- TwoIds
  Vectors <- StringVectors
  Letters = {x, y}
  Nul = nul
  Other = other
  NoScratch = none
  Wild = wild
  PartSize = 6
  NoName = null
  EmptyName = empty
  NameLen <- NullNames
  MaxU32 = 1000
  DefaultSize = 60
  MaxTail = 60
  MaxCap = 60
VIEW Bodies
INVARIANTS StringVectorsReadBack
