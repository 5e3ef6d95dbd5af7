SPECIFICATION Spec
CONSTANTS
  o1 = o1  o2 = o2  o3 = o3  o4 = o4  i1 = i1
  t = t  u = u  l = l  null = null  noiter = noiter  nomsg = nomsg
  Objs = {o1, o2, o3, o4}
  Iters = {i1}
  Contents <- SomeContents
  Blank <- New
  Unreadable <- LaterContents
  None = null
  NoIter = noiter
  NoMsg = nomsg
SYMMETRY Same
INVARIANTS SubTypeOK OwnedOnce ResultsStand
