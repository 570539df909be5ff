------------------------------ MODULE MCObject ------------------------------
(***************************************************************************)
(* Object instantiated for TLC: two threads; two interface names, one of  *)
(* them the empty name; three interface objects, two of which share a     *)
(* name so that a second add of the same name is reachable; two members.  *)
(***************************************************************************)
EXTENDS Object, TLC

CONSTANTS t1, t2, iA, iA2, iE, nA, nE, m1, m2

MCThreads == {t1, t2}
MCIfaces == {iA, iA2, iE}
MCNames == {nA, nE}
MCMembers == {m1, m2}
MCIfaceName == (iA :> nA) @@ (iA2 :> nA) @@ (iE :> nE)
MCMethods == (iA :> {m1}) @@ (iA2 :> {m2}) @@ (iE :> {m1})

\* Threads are interchangeable.
Symmetry == Permutations(MCThreads)
=============================================================================
