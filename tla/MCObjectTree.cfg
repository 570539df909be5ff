CONSTANTS
  t1 = t1
  t2 = t2
  r = r
  a = a
  b = b
  pRoot = pRoot
  pA = pA
  pB = pB
  k1 = k1
  c1 = c1
  c2 = c2
  NoNode = NoNode
  NoConn = NoConn
  Threads <- MCThreads2
  Nodes <- MCNodes
  Paths <- MCPaths
  ObjPath <- MCObjPath
  Names = {k1}
  Conns <- MCConns1
  Held = {r}
  HaveDbus12 = FALSE
  MaxOps = 4
SPECIFICATION Spec
INVARIANT TypeOK
