---------------------------- MODULE MCObjectTree ----------------------------
(* Instances of ObjectTree for TLC: a root object the application holds,  *)
(* two further objects, one or two connections.                           *)
EXTENDS ObjectTree, TLC

CONSTANTS t1, t2, r, a, b, pRoot, pA, pB, k1, c1, c2

MCThreads1 == {t1}
MCThreads2 == {t1, t2}
MCNodes == {r, a, b}
MCPaths == {pRoot, pA, pB}
\* every object has its own path
MCObjPath == (r :> pRoot) @@ (a :> pA) @@ (b :> pB)
MCConns1 == {c1}
MCConns2 == {c1, c2}
====
