------------------------------- MODULE Cursor -------------------------------
(***************************************************************************)
(* What a ValueCursor promises (spec 4.1), for a set of cursor variables  *)
(* over a fixed set of message bodies: a cursor is either a position on   *)
(* an element of a body, or invalid.  init binds it to the first element  *)
(* of a non-empty body of a valid message; advance moves it to the next   *)
(* element of the same container or invalidates it, after which it stays *)
(* invalid; recurse yields a cursor on the first element inside the       *)
(* current container element, or an invalid one.                          *)
(***************************************************************************)
EXTENDS Naturals, Sequences

CONSTANTS Iters, Msgs, Body, MsgValid, Containers, MaxOps

VARIABLES cur, ops

Invalid == [msg |-> "none", path |-> <<>>]

\* The element of body b at path p, or the empty record where there is none.
RECURSIVE ElemAt(_, _)
ElemAt(b, p) ==
  IF p = <<>> \/ Head(p) \notin 1..Len(b) THEN [tag |-> "INVALID", kids |-> <<>>]
  ELSE IF Len(p) = 1 THEN b[Head(p)] ELSE ElemAt(b[Head(p)].kids, Tail(p))

Tag(c) == IF c = Invalid THEN "INVALID" ELSE ElemAt(Body[c.msg], c.path).tag

Following(c) == [c EXCEPT !.path[Len(c.path)] = @ + 1]

AInit(it, m) ==
  cur' = [cur EXCEPT ![it] = IF MsgValid[m] /\ Body[m] # <<>>
                             THEN [msg |-> m, path |-> <<1>>] ELSE Invalid]

\* Where advance leaves cursor c: the next sibling if there is one, else invalid.
Advanced(c) ==
  IF c # Invalid /\ Tag(Following(c)) # "INVALID" THEN Following(c) ELSE Invalid

AAdvance(it) == cur' = [cur EXCEPT ![it] = Advanced(@)]

ARecurse(it, dst) ==
  LET inner == [cur[it] EXCEPT !.path = Append(@, 1)]
  IN cur' = [cur EXCEPT ![dst] = IF Tag(cur[it]) \in Containers /\ Tag(inner) # "INVALID"
                                 THEN inner ELSE Invalid]

AInvalidate(it) == cur' = [cur EXCEPT ![it] = Invalid]

\* dst = it++ : a copy of the old position, then it advances.
APostIncrement(it, dst) ==
  cur' = [[cur EXCEPT ![it] = Advanced(@)] EXCEPT ![dst] = cur[it]]

Init == cur = [it \in Iters |-> Invalid] /\ ops = 0

Next ==
  /\ ops < MaxOps /\ ops' = ops + 1
  /\ \E it \in Iters :
       \/ \E m \in Msgs : AInit(it, m)
       \/ AAdvance(it)
       \/ AInvalidate(it)
       \/ \E dst \in Iters : ARecurse(it, dst) \/ APostIncrement(it, dst)

Spec == Init /\ [][Next]_<<cur, ops>>

====
