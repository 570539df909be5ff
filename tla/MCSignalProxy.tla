---------------------------- MODULE MCSignalProxy ----------------------------
EXTENDS SignalProxy, TLC

CONSTANTS iF, iG, nF, nG, p1, p2, u1, u2, w1

\* w1 is a well-known name owned by u1
MCOwner == w1 :> u1
====
