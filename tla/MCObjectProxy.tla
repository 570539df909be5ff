---------------------------- MODULE MCObjectProxy ----------------------------
EXTENDS ObjectProxy

CONSTANTS t1, t2, n1, m1, m2, p1, p2
====
