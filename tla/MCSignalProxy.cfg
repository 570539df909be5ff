CONSTANTS
  iF = iF  iG = iG  nF = nF  nG = nG  p1 = p1  p2 = p2  u1 = u1  u2 = u2  w1 = w1
  Empty = Empty
  Interfaces = {iF, iG}
  Members = {nF, nG}
  ObjPaths = {p1, p2}
  UniqueNames = {u1, u2}
  WellKnown = {w1}
  Owner <- MCOwner
SPECIFICATION Spec
INVARIANT TypeOK NoMissedSignal
