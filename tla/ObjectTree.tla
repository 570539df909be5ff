----------------------------- MODULE ObjectTree -----------------------------
(***************************************************************************)
(* The tree of DBus::Object nodes and their binding to connections:       *)
(* Object::add_child / remove_child / set_connection (object.cpp) and     *)
(* ObjectPathHandler::register_with_connection / unregister /             *)
(* set_connection / message_handler_callback (objectpathhandler.cpp).     *)
(* A connection's object-path table (the libdbus side of                  *)
(* dbus_connection_register_object_path and Connection::unregister_object) *)
(* is modelled from the spec, as that code is not in this repository.     *)
(* add_child runs without any lock, so it is split at the point where     *)
(* another thread can interleave: after has_child, before the insertion.  *)
(***************************************************************************)
EXTENDS Naturals, FiniteSets, Functions

G == INSTANCE Graphs

CONSTANTS
  Threads,     \* threads calling add_child
  Nodes,       \* Object instances
  ObjPath,     \* m_path of each of them
  Paths,       \* object paths
  Names,       \* child names (keys of m_children)
  Conns,       \* Connection instances
  Held,        \* objects the application itself holds a shared_ptr to
  NoNode,      \* a null std::shared_ptr<Object>
  NoConn,      \* an empty std::weak_ptr<Connection>
  HaveDbus12,  \* DBUS_CXX_HAVE_DBUS_12 is defined in the build
  MaxOps       \* bound: administrative operations started

ASSUME /\ ObjPath \in [Nodes -> Paths]
       /\ Held \subseteq Nodes
       /\ NoNode \notin Nodes /\ NoConn \notin Conns
       /\ HaveDbus12 \in BOOLEAN /\ MaxOps \in Nat

VARIABLES
  children,  \* m_children of each node: name -> child or NoNode
  conn,      \* m_connection of each node
  status,    \* each connection: "open" (is_valid), "closed", "gone" (destroyed)
  registry,  \* each connection's object-path table: path -> handler or NoNode
  pc,        \* per thread: "idle" or "insert" (inside add_child)
  local,     \* per thread: add_child's arguments
  ops,       \* administrative operations started so far
  swallowed, \* a call routed to a handler was reported HANDLED by nobody
  overflow,  \* set_connection recursed without end (stack overflow)
  dead       \* objects destroyed: detached from the tree and not held

vars == <<children, conn, status, registry, pc, local, ops, swallowed, overflow,
          dead>>

-----------------------------------------------------------------------------
NoLocal == [parent |-> NoNode, name |-> CHOOSE n \in Names : TRUE, child |-> NoNode,
           force |-> FALSE]

\* The parent-child edges of all nodes, as a directed graph.
Tree == [node |-> Nodes,
         edge |-> {<<p, c>> \in Nodes \X Nodes : \E k \in Names : children[p][k] = c}]

\* The nodes Object::set_connection visits starting at n.
Subtree(n) == {n} \cup G!Descendants(Tree, n)

\* Objects that are still alive: held by the application or owned, through
\* m_children, by an object that is.
Owned == UNION {Subtree(h) : h \in Held}

\* The application still holds, or can reach, every object not destroyed.
Live == Nodes \ dead

\* Objects whose last owner went away in this step: their destructor runs.
Destroy == dead' = dead \cup (Owned \ Owned')

\* std::weak_ptr<Connection>::lock() succeeds.
Locks(c) == c \in Conns /\ status[c] # "gone"

\* ObjectPathHandler::unregister() of every node in S, all at once:
\* connection->unregister_object(m_path) on the connection each one holds.
UnregisterAll(S) ==
  registry' = [c \in Conns |-> [p \in Paths |->
                 IF \E d \in S : conn[d] = c /\ Locks(c) /\ ObjPath[d] = p
                 THEN NoNode ELSE registry[c][p]]]

\* ObjectPathHandler::register_with_connection(c) for node n; the result is
\* not part of it, as add_child ignores it.
RegisterWithConnection(n, c) ==
  IF c = NoConn \/ status[c] # "open"
  THEN UNCHANGED <<registry, conn>>
  ELSE IF HaveDbus12
       \* the registration call is commented out and `result` is read
       \* uninitialized: either outcome of the test can happen
       THEN /\ UNCHANGED registry
            /\ \/ UNCHANGED conn
               \/ conn' = [conn EXCEPT ![n] = c]
       ELSE IF registry[c][ObjPath[n]] = NoNode
            THEN /\ registry' = [registry EXCEPT ![c][ObjPath[n]] = n]
                 /\ conn' = [conn EXCEPT ![n] = c]
            ELSE UNCHANGED <<registry, conn>>

-----------------------------------------------------------------------------
(* Mutation operators: plausible variants of the code below.              *)

\* add_child without the has_child test.
AddChildNoCheck(t) ==
  /\ pc[t] = "idle" /\ ops < MaxOps
  /\ \E p \in Live, k \in Names, ch \in Live, force \in BOOLEAN :
       local' = [local EXCEPT ![t] = [parent |-> p, name |-> k, child |-> ch,
                                      force |-> force]]
  /\ pc' = [pc EXCEPT ![t] = "insert"]
  /\ ops' = ops + 1
  /\ UNCHANGED <<children, conn, status, registry, swallowed, overflow, dead>>

\* add_child without the `not child` test.
AddChildNoNullCheck(t) ==
  /\ pc[t] = "idle" /\ ops < MaxOps /\ ~overflow
  /\ ops' = ops + 1
  /\ \E p \in Live, k \in Names, ch \in Live \cup {NoNode}, force \in BOOLEAN :
       IF ~force /\ children[p][k] # NoNode
       THEN UNCHANGED <<pc, local>>
       ELSE /\ local' = [local EXCEPT ![t] = [parent |-> p, name |-> k, child |-> ch,
                                                force |-> force]]
            /\ pc' = [pc EXCEPT ![t] = "insert"]
  /\ UNCHANGED <<children, conn, status, registry, swallowed, overflow, dead>>

\* ObjectPathHandler::set_connection that does not unregister first.
SetConnectionKeepsRoute(n, c) ==
  /\ ops < MaxOps /\ ~overflow
  /\ ops' = ops + 1
  /\ conn' = [d \in Nodes |-> IF d \in Subtree(n) THEN c ELSE conn[d]]
  /\ UNCHANGED <<children, status, registry, pc, local, swallowed, overflow, dead>>

-----------------------------------------------------------------------------
(* Operations.                                                             *)

\* Object::add_child(name, child, force), up to and including has_child.
AddChild(t) ==
  /\ pc[t] = "idle" /\ ops < MaxOps /\ ~overflow
  /\ ops' = ops + 1
  /\ \E p \in Live, k \in Names, ch \in Live \cup {NoNode}, force \in BOOLEAN :
       IF ch = NoNode \/ (~force /\ children[p][k] # NoNode)
       THEN UNCHANGED <<pc, local>>                       \* return false
       ELSE /\ local' = [local EXCEPT ![t] = [parent |-> p, name |-> k, child |-> ch,
                                                force |-> force]]
            /\ pc' = [pc EXCEPT ![t] = "insert"]
  /\ UNCHANGED <<children, conn, status, registry, swallowed, overflow, dead>>

\* The rest of add_child: lock the connection, m_children[name] = child,
\* child->register_with_connection(conn), return true.
AddChildInsert(t) ==
  /\ pc[t] = "insert"
  /\ LET p == local[t].parent
         c == conn[p]
     IN IF Locks(c)
        THEN /\ children' = [children EXCEPT ![p][local[t].name] = local[t].child]
             /\ RegisterWithConnection(local[t].child, c)
        ELSE UNCHANGED <<children, conn, registry>>      \* return false
  /\ Destroy
  /\ pc' = [pc EXCEPT ![t] = "idle"]
  /\ local' = [local EXCEPT ![t] = NoLocal]
  /\ UNCHANGED <<status, ops, swallowed, overflow>>

\* Object::remove_child(name): erase from m_children, nothing more.
RemoveChild(p, k) ==
  /\ ops < MaxOps /\ ~overflow
  /\ ops' = ops + 1
  /\ children[p][k] # NoNode
  /\ children' = [children EXCEPT ![p][k] = NoNode]
  /\ Destroy
  /\ UNCHANGED <<conn, status, registry, pc, local, swallowed, overflow>>

\* ObjectPathHandler::register_with_connection(c) called by the application.
Register(n, c) ==
  /\ ops < MaxOps /\ ~overflow
  /\ ops' = ops + 1
  /\ RegisterWithConnection(n, c)
  /\ UNCHANGED <<children, status, pc, local, swallowed, overflow, dead>>

\* ObjectPathHandler::unregister(): m_connection is left as it is.
Unregister(n) ==
  /\ ops < MaxOps /\ ~overflow
  /\ ops' = ops + 1
  /\ UnregisterAll({n})
  /\ UNCHANGED <<children, conn, status, pc, local, swallowed, overflow, dead>>

\* Object::set_connection(c): ObjectPathHandler::set_connection (unregister,
\* then m_connection = c, no registration) on n, then recursively on every
\* child; a cycle through m_children makes the recursion endless.
SetConnection(n, c) ==
  /\ ops < MaxOps /\ ~overflow
  /\ ops' = ops + 1
  /\ IF \E d \in Subtree(n) : d \in G!Descendants(Tree, d)
     THEN /\ overflow' = TRUE
          /\ UNCHANGED <<conn, registry>>
     ELSE /\ UnregisterAll(Subtree(n))
          /\ conn' = [d \in Nodes |-> IF d \in Subtree(n) THEN c ELSE conn[d]]
          /\ UNCHANGED overflow
  /\ UNCHANGED <<children, status, pc, local, swallowed, dead>>

\* The connection is closed (is_valid() turns false) or destroyed, which
\* drops its object-path table.
ConnectionClosed(c) ==
  /\ status[c] = "open"
  /\ status' = [status EXCEPT ![c] = "closed"]
  /\ UNCHANGED <<children, conn, registry, pc, local, ops, swallowed, overflow, dead>>

ConnectionDestroyed(c) ==
  /\ status[c] # "gone"
  /\ status' = [status EXCEPT ![c] = "gone"]
  /\ registry' = [registry EXCEPT ![c] = [p \in Paths |-> NoNode]]
  /\ UNCHANGED <<children, conn, pc, local, ops, swallowed, overflow, dead>>

\* A call for path p arrives on c and libdbus invokes the handler's
\* message_handler_callback: handle_message is commented out and `result`
\* is read uninitialized, so HANDLED or NOT_YET_HANDLED is returned with
\* no Object having seen the call.
Deliver(c, p) ==
  /\ status[c] = "open" /\ registry[c][p] # NoNode /\ ~swallowed
  /\ \E handled \in BOOLEAN : swallowed' = handled
  /\ UNCHANGED <<children, conn, status, registry, pc, local, ops, overflow, dead>>

Terminating ==
  /\ ops = MaxOps \/ overflow
  /\ \A t \in Threads : pc[t] = "idle"
  /\ UNCHANGED vars

Init ==
  /\ children = [n \in Nodes |-> [k \in Names |-> NoNode]]
  /\ conn = [n \in Nodes |-> NoConn]
  /\ status = [c \in Conns |-> "open"]
  /\ registry = [c \in Conns |-> [p \in Paths |-> NoNode]]
  /\ pc = [t \in Threads |-> "idle"]
  /\ local = [t \in Threads |-> NoLocal]
  /\ ops = 0 /\ swallowed = FALSE /\ overflow = FALSE /\ dead = {}

Next ==
  \/ \E t \in Threads : AddChild(t) \/ AddChildInsert(t)
  \/ \E p \in Live, k \in Names : RemoveChild(p, k)
  \/ \E n \in Live, c \in Conns : Register(n, c)
  \/ \E n \in Live : Unregister(n)
  \/ \E n \in Live, c \in Conns \cup {NoConn} : SetConnection(n, c)
  \/ \E c \in Conns : ConnectionClosed(c) \/ ConnectionDestroyed(c)
  \/ \E c \in Conns, p \in Paths : Deliver(c, p)
  \/ Terminating

Spec == Init /\ [][Next]_vars /\ \A t \in Threads : WF_vars(AddChildInsert(t))

-----------------------------------------------------------------------------
(* Properties.                                                             *)

TypeOK ==
  /\ children \in [Nodes -> [Names -> Nodes \cup {NoNode}]]
  /\ conn \in [Nodes -> Conns \cup {NoConn}]
  /\ status \in [Conns -> {"open", "closed", "gone"}]
  /\ registry \in [Conns -> [Paths -> Nodes \cup {NoNode}]]
  /\ pc \in [Threads -> {"idle", "insert"}]
  /\ \A t \in Threads : pc[t] = "insert" => local[t].child \in Nodes
  /\ ops \in 0..MaxOps /\ swallowed \in BOOLEAN /\ overflow \in BOOLEAN
  /\ dead \subseteq Nodes \ Held

\* Re-binding performs an implicit unbind (spec 4.2): a connection routes a
\* path to an object only while that object's m_connection is that
\* connection, across register_with_connection, unregister and the
\* recursive set_connection.
RouteKnowsConnection ==
  \A c \in Conns, p \in Paths :
    registry[c][p] # NoNode => conn[registry[c][p]] = c

\* add_child without force never replaces a child: the slot it writes was
\* still empty when it wrote it, whatever ran between has_child and the
\* assignment m_children[name] = child.
NoSilentReplace ==
  [][\A t \in Threads :
       (pc[t] = "insert" /\ pc'[t] = "idle" /\ ~local[t].force
        /\ children' # children)
       => children[local[t].parent][local[t].name] = NoNode]_vars

\* Detaching a node detaches its subtree (spec 2): no connection routes a
\* path to an object that was destroyed because remove_child (or a
\* replacing add_child) dropped its last owner: libdbus never holds a
\* dangling user_data pointer.
NoDanglingRoute ==
  \A c \in Conns, p \in Paths : registry[c][p] \notin dead

\* A node bound to an open connection is routable on it: after
\* set_connection or register_with_connection sets m_connection, the
\* connection's path table sends the node's path to the node.
BoundImpliesRoutable ==
  \A n \in Nodes : conn[n] \in Conns /\ status[conn[n]] = "open"
                    => registry[conn[n]][ObjPath[n]] = n

\* add_child is all-or-nothing (spec 6): when it inserts a child it has
\* made that child routable on the parent's connection.
AddedChildRoutable ==
  [][\A t \in Threads :
       (pc[t] = "insert" /\ pc'[t] = "idle" /\ children' # children)
       => registry'[conn[local[t].parent]][ObjPath[local[t].child]] = local[t].child]_vars

\* A call routed to an object path is either handed to the object or
\* reported NOT_YET_HANDLED so the bus answers it; message_handler_callback
\* never reports HANDLED for a call no object saw.
NoSwallowedCall == ~swallowed

====
