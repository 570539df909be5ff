CONSTANTS
  t1 = t1
  t2 = t2
  iA = iA
  iA2 = iA2
  iE = iE
  nA = nA
  nE = nE
  m1 = m1
  m2 = m2
  Threads <- MCThreads
  Ifaces <- MCIfaces
  Names <- MCNames
  Members <- MCMembers
  IfaceName <- MCIfaceName
  Methods <- MCMethods
  EmptyName = nE
  Introspectable = Introspectable
  NoIface = NoIface
  NoThread = NoThread
  MaxCalls = 1
  MaxOps = 2

SPECIFICATION Spec
PROPERTY EveryCallAnswered
