----------------------------- MODULE SignalProxy -----------------------------
(***************************************************************************)
(* signal_proxy_base (signal_proxy_base.cpp): the filter fields a signal  *)
(* proxy holds, the bus match rule match_rule() derives from them, and    *)
(* matches()/handle_signal(), which decide which delivered signals the    *)
(* proxy accepts.  The rule text is modelled as the sequence of its       *)
(* key='value' clauses, in the order the code appends them; the bus's     *)
(* reading of a rule (D-Bus specification, "Match Rules") and the setters *)
(* of signal_base are not in this repository and are modelled from the   *)
(* specification.                                                         *)
(***************************************************************************)
EXTENDS Naturals, Sequences

CONSTANTS
  Interfaces, Members, ObjPaths,  \* non-empty values of those header fields
  UniqueNames,                    \* connection names such as ":1.42"
  WellKnown,                      \* bus names such as "org.example.Foo"
  Owner,                          \* Owner[w]: the unique name owning w
  Empty                           \* the empty std::string

ASSUME Owner \in [WellKnown -> UniqueNames]

VARIABLES
  filter,        \* m_interface, m_name, m_path, m_sender, m_destination
  m_match_rule,
  last           \* the result of the last handle_signal call

vars == <<filter, m_match_rule, last>>

BusNames == UniqueNames \cup WellKnown

\* Values each filter field of signal_base can hold, and the filters.
FieldValues == [interface |-> Interfaces \cup {Empty}, name |-> Members \cup {Empty},
                path |-> ObjPaths \cup {Empty}, sender |-> BusNames \cup {Empty},
                destination |-> UniqueNames \cup {Empty}]
Filters == [interface : FieldValues.interface, name : FieldValues.name, path : FieldValues.path,
            sender : FieldValues.sender, destination : FieldValues.destination]

\* Message envelopes on the bus; the bus sets sender to the unique name.
Envelopes == [valid : BOOLEAN, type : {"SIGNAL", "METHOD_CALL"},
              interface : Interfaces, member : Members, path : ObjPaths,
              sender : UniqueNames, destination : UniqueNames \cup {Empty}]

HandlerResults == {"NOT_HANDLED", "HANDLED"}

---------------------------------------------------------------------------

\* The clause appended for field value v, if v is not empty.
Clause(key, v) == IF v = Empty THEN <<>> ELSE << <<key, v>> >>

\* match_rule() with the member clause built from the wrong field
BuildRuleMemberFromPath(f) ==
  IF f.interface = Empty \/ f.name = Empty THEN <<>>
  ELSE << <<"type", "signal">>, <<"interface", f.interface>>, <<"member", f.path>> >>
       \o Clause("sender", f.sender) \o Clause("path", f.path)
       \o Clause("destination", f.destination)

\* match_rule(): empty unless interface and name are set; then type,
\* interface, member and the non-empty optional clauses, in that order.
BuildRule(f) ==
  IF f.interface = Empty \/ f.name = Empty THEN <<>>
  ELSE << <<"type", "signal">>, <<"interface", f.interface>>, <<"member", f.name>> >>
       \o Clause("sender", f.sender) \o Clause("path", f.path)
       \o Clause("destination", f.destination)

\* matches() without the member comparison
MatchesAnyMember(f, m) ==
  /\ m.valid /\ m.type = "SIGNAL"
  /\ f.interface # Empty /\ f.name # Empty
  /\ f.interface = m.interface
  /\ f.sender = Empty \/ f.sender = m.sender
  /\ f.destination = Empty \/ f.destination = m.destination
  /\ f.path = Empty \/ f.path = m.path

\* matches(msg): the early returns in the order of the code, each a conjunct.
Matches(f, m) ==
  /\ m.valid /\ m.type = "SIGNAL"
  /\ f.interface # Empty /\ f.name # Empty
  /\ f.interface = m.interface
  /\ f.name = m.member
  /\ f.sender = Empty \/ f.sender = m.sender
  /\ f.destination = Empty \/ f.destination = m.destination
  /\ f.path = Empty \/ f.path = m.path

\* The bus delivers message m under rule r (D-Bus match rules): the empty
\* rule matches every message; a sender clause naming a well-known name
\* matches messages from its owner.
ClauseHolds(c, m) ==
  CASE c[1] = "type"        -> m.type = "SIGNAL"
    [] c[1] = "interface"   -> m.interface = c[2]
    [] c[1] = "member"      -> m.member = c[2]
    [] c[1] = "path"        -> m.path = c[2]
    [] c[1] = "destination" -> m.destination = c[2]
    [] c[1] = "sender"      -> m.sender = c[2] \/ (c[2] \in WellKnown /\ Owner[c[2]] = m.sender)

BusDelivers(r, m) == m.valid /\ \A i \in 1..Len(r) : ClauseHolds(r[i], m)

---------------------------------------------------------------------------

\* A proxy constructed with (path, interface, name) or (interface, name);
\* sender and destination start empty.
Init ==
  /\ filter \in {f \in Filters : f.sender = Empty /\ f.destination = Empty}
  /\ m_match_rule = <<>>
  /\ last = "none"

\* signal_base::set_sender / set_destination / set_path / set_interface / set_name
SetField(k, v) ==
  /\ filter' = [filter EXCEPT ![k] = v]
  /\ UNCHANGED <<m_match_rule, last>>

\* match_rule(): recomputes and stores m_match_rule on every call.
MatchRule ==
  /\ m_match_rule' = BuildRule(filter)
  /\ UNCHANGED <<filter, last>>

\* handle_signal(msg) for a signal the bus delivered under the rule the
\* proxy registered: NOT_HANDLED unless matches(msg), else the handlers run.
HandleSignal(m) ==
  /\ BusDelivers(m_match_rule, m)
  /\ last' = IF Matches(filter, m) THEN "HANDLED" ELSE "NOT_HANDLED"
  /\ UNCHANGED <<filter, m_match_rule>>

Next ==
  \/ \E k \in DOMAIN FieldValues : \E v \in FieldValues[k] : SetField(k, v)
  \/ MatchRule
  \/ \E m \in Envelopes : HandleSignal(m)

Spec == Init /\ [][Next]_vars

---------------------------------------------------------------------------

TypeOK ==
  /\ filter \in Filters
  /\ m_match_rule \in Seq({"type", "interface", "member", "sender", "path", "destination"}
                          \X (Interfaces \cup Members \cup ObjPaths \cup BusNames \cup {"signal"}))
  /\ last \in HandlerResults \cup {"none"}

\* Every signal matches() accepts is one the bus delivers under the rule
\* match_rule() builds from the same fields: no accepted signal is lost
\* because the bus-level rule is narrower than the proxy's own filter.
NoMissedSignal ==
  \A m \in Envelopes : Matches(filter, m) => BusDelivers(BuildRule(filter), m)

\* A proxy with a non-empty rule accepts every signal the bus delivers to it
\* under that rule (spec 4.3: the rule asks the transport for exactly the
\* signals the matcher accepts).
NoRejectedDelivery ==
  \A m \in Envelopes :
    BuildRule(filter) # <<>> /\ BusDelivers(BuildRule(filter), m) => Matches(filter, m)

====
