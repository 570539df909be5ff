--------------------------- MODULE MessageIterator ---------------------------
(***************************************************************************)
(* DBus::MessageIterator (messageiterator.cpp): a cursor over one message *)
(* body, made of a non-owning m_message pointer and a libdbus             *)
(* DBusMessageIter m_cobj.  Validity is not stored: is_valid() derives it *)
(* from m_message and from the type libdbus reports at m_cobj.            *)
(*                                                                         *)
(* libdbus is not in this repository.  Its reader is modelled from the    *)
(* D-Bus specification: an iterator is the message it reads and a path of *)
(* 1-based indices into the body's tree of elements; the zeroed iterator  *)
(* reads nothing.  Message bodies do not change while iterators walk them.*)
(***************************************************************************)
EXTENDS Naturals, Sequences

CONSTANTS
  Iters,     \* MessageIterator variables of the calling code
  Msgs,      \* messages; Body[m] is the sequence of top-level elements
  Body,      \* an element is [tag |-> wire type, kids |-> contained elements]
  MsgValid,  \* MsgValid[m]: Message::operator bool (the message is valid)
  MaxOps     \* bound on the number of calls

VARIABLES m_message, m_cobj, ops

vars == <<m_message, m_cobj, ops>>

NULL == "NULL"

\* dbus_type_is_container
Containers == {"ARRAY", "STRUCT", "DICT_ENTRY", "VARIANT"}

\* memset(&m_cobj, 0x00, sizeof(DBusMessageIter))
ZeroIter == [msg |-> NULL, path |-> <<>>]

---------------------------------------------------------------------------
(* libdbus reader, from the D-Bus specification.                          *)

\* The type of the element of body b at path p; INVALID past the end.
RECURSIVE DbusTypeAt(_, _)
DbusTypeAt(b, p) ==
  IF Head(p) \notin 1..Len(b) THEN "INVALID"
  ELSE IF Len(p) = 1 THEN b[Head(p)].tag ELSE DbusTypeAt(b[Head(p)].kids, Tail(p))

\* dbus_message_iter_get_arg_type
DbusGetArgType(c) == IF c.msg \in Msgs THEN DbusTypeAt(Body[c.msg], c.path) ELSE "INVALID"

\* dbus_message_iter_init: positions on the first element; FALSE on an empty body
DbusIterInit(m) == [msg |-> m, path |-> <<1>>]

\* dbus_message_iter_next moves to the following sibling
DbusIterNext(c) == [c EXCEPT !.path[Len(c.path)] = @ + 1]

\* dbus_message_iter_has_next
DbusHasNext(c) == DbusGetArgType(DbusIterNext(c)) # "INVALID"

\* dbus_message_iter_recurse: the first element inside the current one
DbusRecurse(c) == [c EXCEPT !.path = Append(@, 1)]

---------------------------------------------------------------------------
(* MessageIterator queries (no state change).                             *)

ArgType(it) == DbusGetArgType(m_cobj[it])

IsValid(it) ==
  /\ m_message[it] \in Msgs /\ MsgValid[m_message[it]]
  /\ ArgType(it) # "INVALID"

HasNext(it) == IsValid(it) /\ DbusHasNext(m_cobj[it])

IsContainer(it) == ArgType(it) \in Containers

\* The abstract cursor: the position m_cobj reads while the iterator is valid,
\* else Cursor's Invalid.
AbsCur == [it \in Iters |-> IF IsValid(it) THEN [msg |-> m_message[it], path |-> m_cobj[it].path]
                            ELSE [msg |-> "none", path |-> <<>>]]
A == INSTANCE Cursor WITH cur <- AbsCur

---------------------------------------------------------------------------
(* Operations.  Each one is a whole call; the object is not shared        *)
(* between threads (spec section 5), so calls do not interleave.          *)

\* One more call of the bounded run.
Call == ops < MaxOps /\ ops' = ops + 1

\* init(message), also the work of the MessageIterator(message) constructors.
\* The short-circuit `message and dbus_message_iter_init(...)` leaves m_cobj
\* untouched when the message is invalid.
IterInit(it, m) ==
  /\ Call
  /\ m_cobj' = IF MsgValid[m] THEN [m_cobj EXCEPT ![it] = DbusIterInit(m)] ELSE m_cobj
  /\ m_message' = [m_message EXCEPT ![it] =
                     IF MsgValid[m] /\ DbusGetArgType(DbusIterInit(m)) # "INVALID"
                     THEN m ELSE NULL]

\* invalidate()
Invalidate(it) ==
  /\ Call
  /\ m_cobj' = [m_cobj EXCEPT ![it] = ZeroIter]
  /\ m_message' = [m_message EXCEPT ![it] = NULL]

\* The object state next() leaves behind, as a pair <<m_message, m_cobj>>.
NextState(it) ==
  LET c2 == DbusIterNext(m_cobj[it])
  IN  IF ~IsValid(it) THEN <<m_message[it], m_cobj[it]>>
      ELSE IF DbusGetArgType(c2) = "INVALID" THEN <<NULL, ZeroIter>>
      ELSE <<m_message[it], c2>>

\* next() and prefix operator++
IterNext(it) ==
  /\ Call
  /\ m_message' = [m_message EXCEPT ![it] = NextState(it)[1]]
  /\ m_cobj' = [m_cobj EXCEPT ![it] = NextState(it)[2]]

\* it++ with the copy taken after the increment
PostIncrementLateCopy(it, dst) ==
  /\ Call
  /\ m_message' = [[m_message EXCEPT ![it] = NextState(it)[1]] EXCEPT ![dst] = NextState(it)[1]]
  /\ m_cobj' = [[m_cobj EXCEPT ![it] = NextState(it)[2]] EXCEPT ![dst] = NextState(it)[2]]

\* recurse() without the is_container() check
RecurseUnchecked(it, dst) ==
  /\ Call
  /\ m_message' = [m_message EXCEPT ![dst] = m_message[it]]
  /\ m_cobj' = [m_cobj EXCEPT ![dst] = DbusRecurse(m_cobj[it])]

\* dst = it++ : temp_copy = *this; ++(*this); return temp_copy;
PostIncrement(it, dst) ==
  /\ Call
  /\ m_message' = [[m_message EXCEPT ![it] = NextState(it)[1]] EXCEPT ![dst] = m_message[it]]
  /\ m_cobj' = [[m_cobj EXCEPT ![it] = NextState(it)[2]] EXCEPT ![dst] = m_cobj[it]]

\* dst = it.recurse(): a default (zeroed) iterator unless it is on a container
Recurse(it, dst) ==
  /\ Call
  /\ m_message' = [m_message EXCEPT ![dst] = IF IsContainer(it) THEN m_message[it] ELSE NULL]
  /\ m_cobj' = [m_cobj EXCEPT ![dst] = IF IsContainer(it) THEN DbusRecurse(m_cobj[it])
                                       ELSE ZeroIter]

Init ==
  /\ m_message = [it \in Iters |-> NULL]
  /\ m_cobj = [it \in Iters |-> ZeroIter]
  /\ ops = 0

Terminating == ops = MaxOps /\ UNCHANGED vars

Next ==
  \/ \E it \in Iters, m \in Msgs : IterInit(it, m)
  \/ \E it \in Iters : IterNext(it) \/ Invalidate(it)
  \/ \E it, dst \in Iters : Recurse(it, dst) \/ PostIncrement(it, dst)
  \/ Terminating

Spec == Init /\ [][Next]_vars

---------------------------------------------------------------------------
(* Properties.                                                            *)

\* An iterator's libdbus state is one libdbus can be in: zeroed, or reading
\* a message at a path every proper prefix of which is a container element
\* (recurse() only descends into containers); and a bound m_message is the
\* message m_cobj reads.
WellFormed(c) ==
  \/ c = ZeroIter
  \/ /\ c.msg \in Msgs /\ Len(c.path) >= 1
     /\ \A k \in 1..(Len(c.path) - 1) :
          DbusTypeAt(Body[c.msg], SubSeq(c.path, 1, k)) \in Containers

TypeOK ==
  /\ ops \in 0..MaxOps
  /\ \A it \in Iters :
       /\ m_message[it] \in Msgs \cup {NULL}
       /\ WellFormed(m_cobj[it])
       /\ m_message[it] \in Msgs => m_cobj[it].msg = m_message[it]

\* init, next/operator++, it++ and recurse together behave as the ValueCursor
\* of spec 4.1: init binds to the first element of a non-empty valid body,
\* advance visits the siblings in order and then invalidates for good, and
\* recurse into a non-container or an empty container yields an invalid cursor.
Refines == A!Spec

\* Spec 4.1: current_type() (arg_type()) reports INVALID whenever the cursor
\* is invalid (is_valid() is false), so extraction from an invalid cursor
\* fails rather than reading a value.
InvalidReportsInvalid == \A it \in Iters : ~IsValid(it) => ArgType(it) = "INVALID"

====
