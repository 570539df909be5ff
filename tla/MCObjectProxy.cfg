CONSTANTS
  t1 = t1  t2 = t2  n1 = n1  m1 = m1  m2 = m2  p1 = p1  p2 = p2
  NoProxy = NoProxy
  Threads = {t1, t2}
  Names = {n1}
  Members = {m1, m2}
  Proxies = {p1, p2}
  MaxOps = 2
SPECIFICATION Spec
INVARIANT MemberReachable
