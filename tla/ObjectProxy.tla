----------------------------- MODULE ObjectProxy -----------------------------
(***************************************************************************)
(* DBus::ObjectProxy::create_method / create_signal (objectproxy.h): look *)
(* the interface up by name, create it if there is none, then add the     *)
(* method or signal proxy to it.  The lookup and the creation are two     *)
(* calls, each atomic under m_interfaces_rwlock, with nothing held between *)
(* them.  ObjectProxy::interface and create_interface are declared, not   *)
(* defined, in this repository; they are modelled from their header       *)
(* comments: interface(name) "returns the first interface with the given  *)
(* name" of the std::multimap m_interfaces, and create_interface(name)    *)
(* "creates and adds the named interface" (a multimap insert appends      *)
(* after the entries of equal key).                                        *)
(***************************************************************************)
EXTENDS Naturals, Sequences

CONSTANTS
  Threads,   \* application threads calling create_method / create_signal
  Names,     \* interface names
  Members,   \* method and signal names
  Proxies,   \* InterfaceProxy objects create_interface can make
  NoProxy,   \* a null std::shared_ptr<InterfaceProxy>
  MaxOps     \* bound on the create_method / create_signal calls

Kinds == {"method", "signal"}

VARIABLES
  m_interfaces,  \* the multimap, in iteration order: a sequence of [name, iface]
  members,       \* members[p]: the <<kind, name>> proxies InterfaceProxy p holds
  pc,            \* per thread: "idle", "create" or "add"
  local,         \* per thread: the call's arguments and the interface it uses
  created,       \* <<interface, kind, member>> of every call that returned
  ops

vars == <<m_interfaces, members, pc, local, created, ops>>

\* ObjectProxy::interface(name): the first entry with that name, or null.
Interface(n) ==
  LET hits == SelectSeq(m_interfaces, LAMBDA e : e.name = n)
  IN IF hits = <<>> THEN NoProxy ELSE hits[1].iface

Used == {m_interfaces[i].iface : i \in 1..Len(m_interfaces)}

NoLocal == [name |-> CHOOSE n \in Names : TRUE, kind |-> "method",
            member |-> CHOOSE m \in Members : TRUE, iface |-> NoProxy]

Init ==
  /\ m_interfaces = <<>>
  /\ members = [p \in Proxies |-> {}]
  /\ pc = [t \in Threads |-> "idle"]
  /\ local = [t \in Threads |-> NoLocal]
  /\ created = {}
  /\ ops = 0

\* create_method<T>(n, m) or create_signal<T...>(n, m):
\* interface = this->interface(n); if ( not interface ) ... create_interface
CreateMember(t) ==
  /\ pc[t] = "idle" /\ ops < MaxOps /\ ops' = ops + 1
  /\ \E n \in Names, k \in Kinds, m \in Members :
       /\ local' = [local EXCEPT ![t] = [name |-> n, kind |-> k, member |-> m, iface |-> Interface(n)]]
       /\ pc' = [pc EXCEPT ![t] = IF Interface(n) = NoProxy THEN "create" ELSE "add"]
  /\ UNCHANGED <<m_interfaces, members, created>>

\* interface = this->create_interface(n): a new InterfaceProxy, inserted.
CreateInterface(t) ==
  /\ pc[t] = "create"
  /\ \E p \in Proxies \ Used :
       /\ m_interfaces' = Append(m_interfaces, [name |-> local[t].name, iface |-> p])
       /\ local' = [local EXCEPT ![t].iface = p]
  /\ pc' = [pc EXCEPT ![t] = "add"]
  /\ UNCHANGED <<members, created, ops>>

\* return interface->create_method<T>(m) / create_signal<T...>(m)
AddMember(t) ==
  /\ pc[t] = "add"
  /\ members' = [members EXCEPT ![local[t].iface] = @ \cup {<<local[t].kind, local[t].member>>}]
  /\ created' = created \cup {<<local[t].name, local[t].kind, local[t].member>>}
  /\ pc' = [pc EXCEPT ![t] = "idle"]
  /\ UNCHANGED <<m_interfaces, local, ops>>

Terminating ==
  /\ ops = MaxOps /\ \A t \in Threads : pc[t] = "idle"
  /\ UNCHANGED vars

Next ==
  \/ \E t \in Threads : CreateMember(t) \/ CreateInterface(t) \/ AddMember(t)
  \/ Terminating

Spec == Init /\ [][Next]_vars /\ \A t \in Threads : WF_vars(CreateInterface(t) \/ AddMember(t))

-----------------------------------------------------------------------------

TypeOK ==
  /\ m_interfaces \in Seq([name : Names, iface : Proxies])
  /\ members \in [Proxies -> SUBSET (Kinds \X Members)]
  /\ pc \in [Threads -> {"idle", "create", "add"}]
  /\ created \subseteq Names \X Kinds \X Members
  /\ ops \in 0..MaxOps

\* create_method/create_signal "adds it to the named interface": every
\* method or signal proxy they returned is held by the interface that
\* interface(name) returns, i.e. the one the object's lookups, calls and
\* introspection use.
MemberReachable ==
  \A c \in created : <<c[2], c[3]>> \in members[Interface(c[1])]

====
