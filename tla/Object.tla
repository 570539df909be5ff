------------------------------- MODULE Object -------------------------------
(***************************************************************************)
(* One DBus::Object (src/dbus-cxx/object.cpp): its interface map, its      *)
(* default interface and the reader-writer lock that guards them, used     *)
(* concurrently by threads that dispatch inbound call messages            *)
(* (handle_call_message) and threads that mutate the object                *)
(* (add/create/remove interface, set/remove default interface).  The       *)
(* observer notifications (signal_interface_added, ..._removed,            *)
(* ..._default_interface_changed) are emitted after the lock is released,  *)
(* so each operation is a short sequence of steps, one per label of pc.    *)
(***************************************************************************)
EXTENDS Naturals, Sequences, FiniteSets, Functions

CONSTANTS
  Threads,        \* threads that call into the object
  Ifaces,         \* Interface objects (identities)
  IfaceName,      \* Interface::name() of each of them
  Methods,        \* the method names each interface handles
  Names,          \* interface names
  EmptyName,      \* the empty name "" (also: call without INTERFACE field)
  Introspectable, \* DBUS_CXX_INTROSPECTABLE_INTERFACE
  Members,        \* method names a call may carry
  NoIface,        \* a null std::shared_ptr<Interface>
  NoThread,
  MaxCalls,       \* bound: call messages delivered
  MaxOps          \* bound: mutating operations started

ASSUME /\ IfaceName \in [Ifaces -> Names]
       /\ Methods \in [Ifaces -> SUBSET Members]
       /\ EmptyName \in Names
       /\ Introspectable \notin Names
       /\ NoIface \notin Ifaces /\ NoThread \notin Threads
       /\ MaxCalls \in Nat /\ MaxOps \in Nat

VARIABLES
  interfaces,   \* m_interfaces: name -> interface, NoIface where no entry
  nameConns,    \* keys of m_interface_signal_name_connections
  pathed,       \* interfaces on which add_interface called set_path(m_path)
  defaultIface, \* m_default_interface
  lock,         \* m_interfaces_rwlock: [writer, readers]
  connAlive,    \* m_connection.lock() yields a connection
  pc,           \* per thread: the step it is about to take
  local,        \* per thread: the locals of the operation it is in
  calls,        \* envelopes of the call messages delivered, by serial
  replies,      \* per serial: the replies sent to the connection
  ops,          \* mutating operations started so far
  obsIfaces,    \* an observer's view built from interface_added/removed
  obsDefault    \* an observer's view built from default_interface_changed

vars == <<interfaces, nameConns, pathed, defaultIface, lock, connAlive, pc,
          local, calls, replies, ops, obsIfaces, obsDefault>>

-----------------------------------------------------------------------------
(* Data of the model.                                                      *)

\* The decoded envelope of an inbound call; conn records whether the
\* object's connection was alive when the call was handled.
Envelopes == [iface : Names \cup {Introspectable}, member : Members,
              expectsReply : BOOLEAN]

ReplyKinds == {"Introspection", "MethodReturn", "UnknownInterface", "UnknownMethod"}

Labels == {"idle", "introspect", "lookup", "err_iface", "delegate",
           "add_lock", "add_cs", "add_emit", "remove_lock", "remove_cs",
           "remove_emit", "setdef_lock", "setdef_write", "setdef_emit",
           "setptr_write", "rmdef_write", "rmdef_emit", "iface_deref"}

\* Where a nested operation returns to: the application (idle), or
\* create_interface, or a method handler running inside Delegate.
Returns == {"idle", "create", "handler"}

NoLocal == [iface |-> NoIface, name |-> EmptyName, call |-> 0,
            ret |-> "idle", result |-> FALSE, old |-> NoIface]

Free == [writer |-> NoThread, readers |-> {}]

Registered == Range(interfaces) \ {NoIface}

Goto(t, l) == pc' = [pc EXCEPT ![t] = l]

\* The thread returns from the call or operation it was in.
Finish(t) ==
  /\ pc' = [pc EXCEPT ![t] = "idle"]
  /\ local' = [local EXCEPT ![t] = NoLocal]

\* An operation returns to its caller: the application, or a method handler
\* that called it from inside Delegate.
ReturnTo(t) ==
  IF local[t].ret = "handler"
    THEN /\ local' = [local EXCEPT ![t].ret = "idle"]
         /\ Goto(t, "delegate")
    ELSE Finish(t)

AcquireShared(t) ==
  /\ lock.writer = NoThread
  /\ lock' = [lock EXCEPT !.readers = @ \cup {t}]

ReleaseShared(t) == lock' = [lock EXCEPT !.readers = @ \ {t}]

\* std::map::find on m_interfaces: any name, NoIface for end().
Find(n) == IF n \in DOMAIN interfaces THEN interfaces[n] ELSE NoIface

\* Interface::handle_call_message: HANDLED when the interface has a method
\* of that name, whose handler then sends the method's return.
Handles(i, m) == m \in Methods[i]

\* connection << msg for a reply built by create_reply/create_error_reply:
\* when the call expects no reply the message is invalid and dropped.
Send(c, kind) ==
  replies' = IF calls[c].expectsReply
               THEN [replies EXCEPT ![c] = Append(@, kind)]
               ELSE replies

-----------------------------------------------------------------------------
(* Mutation operators: each is a plausible slip in the code that an        *)
(* operator below translates; the mutants in PROJECT.json swap them in.    *)

\* handle_call_message looks the interface up without the shared lock.
LookupUnlocked(t) ==
  LET i == Find(calls[local[t].call].iface) IN
  /\ pc[t] = "lookup"
  /\ \/ /\ i # NoIface
        /\ local' = [local EXCEPT ![t].iface = i]
        /\ Goto(t, "delegate")
        /\ UNCHANGED calls
     \/ /\ i = NoIface /\ defaultIface # NoIface
        /\ calls' = [calls EXCEPT ![local[t].call].dropped = TRUE]
        /\ Finish(t)
     \/ /\ i = NoIface /\ defaultIface = NoIface
        /\ UNCHANGED <<local, calls>>
        /\ Goto(t, "err_iface")
  /\ UNCHANGED <<interfaces, nameConns, pathed, defaultIface, lock,
                 connAlive, replies, ops, obsIfaces, obsDefault>>

\* The default-interface branch returns while still holding the lock.
LookupLeaksLock(t) ==
  LET i == Find(calls[local[t].call].iface) IN
  /\ pc[t] = "lookup"
  /\ AcquireShared(t)
  /\ \/ /\ i # NoIface
        /\ local' = [local EXCEPT ![t].iface = i]
        /\ Goto(t, "delegate")
        /\ UNCHANGED calls
     \/ /\ i = NoIface /\ defaultIface # NoIface
        /\ calls' = [calls EXCEPT ![local[t].call].dropped = TRUE]
        /\ Finish(t)
     \/ /\ i = NoIface /\ defaultIface = NoIface
        /\ UNCHANGED <<local, calls>>
        /\ Goto(t, "err_iface")
  /\ UNCHANGED <<interfaces, nameConns, pathed, defaultIface,
                 connAlive, replies, ops, obsIfaces, obsDefault>>

\* The introspection branch sends its reply but does not return.
IntrospectFallsThrough(t) ==
  /\ pc[t] = "introspect"
  /\ Send(local[t].call, "Introspection")
  /\ Goto(t, "lookup")
  /\ UNCHANGED <<interfaces, nameConns, pathed, defaultIface, lock,
                 connAlive, local, calls, ops, obsIfaces, obsDefault>>

\* add_interface keys the new entry by a name other than the interface's.
AddCommitWrongKey(t) ==
  LET i == local[t].iface IN
  /\ pc[t] = "add_cs"
  /\ IF i \notin nameConns
       THEN /\ interfaces' = IF interfaces[local[t].name] = NoIface
                               THEN [interfaces EXCEPT ![local[t].name] = i]
                               ELSE interfaces
            /\ pathed' = pathed \cup {i}
            /\ local' = [local EXCEPT ![t].result = TRUE]
       ELSE /\ UNCHANGED <<interfaces, pathed>>
            /\ local' = [local EXCEPT ![t].result = FALSE]
  /\ lock' = Free
  /\ Goto(t, "add_emit")
  /\ UNCHANGED <<nameConns, defaultIface, connAlive, calls, replies, ops,
                 obsIfaces, obsDefault>>

\* Replies are sent whether or not the call expects one.
SendAlways(c, kind) == replies' = [replies EXCEPT ![c] = Append(@, kind)]

\* Delegate that sends nothing when the interface returns NOT_HANDLED.
DelegateNoUnknownMethod(t) ==
  LET c == local[t].call IN
  /\ pc[t] = "delegate"
  /\ IF Handles(local[t].iface, calls[c].member)
       THEN Send(c, "MethodReturn") ELSE UNCHANGED replies
  /\ ReleaseShared(t)
  /\ Finish(t)
  /\ UNCHANGED <<interfaces, nameConns, pathed, defaultIface, connAlive,
                 calls, ops, obsIfaces, obsDefault>>

-----------------------------------------------------------------------------
(* handle_call_message (object.cpp 294-366), one step per lock region.     *)

\* Entry: the transport hands the thread a call message.  Without a
\* connection it logs and returns; the introspection interface is answered
\* without the lock; otherwise the thread goes on to the lookup.
ReceiveCall(t) ==
  /\ pc[t] = "idle"
  /\ Len(calls) < MaxCalls
  /\ \E e \in Envelopes :
       LET c == Len(calls) + 1 IN
       /\ calls' = Append(calls, [iface |-> e.iface, member |-> e.member,
                                  expectsReply |-> e.expectsReply,
                                  conn |-> connAlive, dropped |-> FALSE])
       /\ replies' = Append(replies, <<>>)
       /\ \/ /\ ~connAlive
             /\ UNCHANGED <<pc, local>>
          \/ /\ connAlive
             /\ local' = [local EXCEPT ![t] = [NoLocal EXCEPT !.call = c]]
             /\ Goto(t, IF e.iface = Introspectable THEN "introspect"
                                                   ELSE "lookup")
  /\ UNCHANGED <<interfaces, nameConns, pathed, defaultIface, lock, connAlive,
                 ops, obsIfaces, obsDefault>>

\* introspect() walks m_interfaces (and m_children) holding no lock, then
\* the RETURN reply is sent.
Introspect(t) ==
  /\ pc[t] = "introspect"
  /\ Send(local[t].call, "Introspection")
  /\ Finish(t)
  /\ UNCHANGED <<interfaces, nameConns, pathed, defaultIface, lock,
                 connAlive, calls, ops, obsIfaces, obsDefault>>

\* Under the shared lock: find the interface.  Not found with a default
\* interface set: return (the delegation is commented out), releasing the
\* lock, and the call is marked dropped.  Not found and no default: go on
\* to send UnknownInterface, still holding the lock.  Found: go on to delegate, still holding the lock.
Lookup(t) ==
  LET i == Find(calls[local[t].call].iface) IN
  /\ pc[t] = "lookup"
  /\ lock.writer = NoThread
  /\ \/ /\ i # NoIface
        /\ AcquireShared(t)
        /\ local' = [local EXCEPT ![t].iface = i]
        /\ Goto(t, "delegate")
        /\ UNCHANGED calls
     \/ /\ i = NoIface /\ defaultIface # NoIface
        /\ UNCHANGED lock
        /\ calls' = [calls EXCEPT ![local[t].call].dropped = TRUE]
        /\ Finish(t)
     \/ /\ i = NoIface /\ defaultIface = NoIface
        /\ AcquireShared(t)
        /\ UNCHANGED <<local, calls>>
        /\ Goto(t, "err_iface")
  /\ UNCHANGED <<interfaces, nameConns, pathed, defaultIface,
                 connAlive, replies, ops, obsIfaces, obsDefault>>

\* Send the UnknownInterface error; the lock is released on return.
UnknownInterface(t) ==
  /\ pc[t] = "err_iface"
  /\ Send(local[t].call, "UnknownInterface")
  /\ ReleaseShared(t)
  /\ Finish(t)
  /\ UNCHANGED <<interfaces, nameConns, pathed, defaultIface, connAlive,
                 calls, ops, obsIfaces, obsDefault>>

\* interface->handle_call_message runs under the shared lock; NOT_HANDLED
\* sends UnknownMethod; the lock is released on return.
Delegate(t) ==
  LET c == local[t].call IN
  /\ pc[t] = "delegate"
  /\ Send(c, IF Handles(local[t].iface, calls[c].member)
               THEN "MethodReturn" ELSE "UnknownMethod")
  /\ ReleaseShared(t)
  /\ Finish(t)
  /\ UNCHANGED <<interfaces, nameConns, pathed, defaultIface, connAlive,
                 calls, ops, obsIfaces, obsDefault>>

-----------------------------------------------------------------------------
(* add_interface (object.cpp 84-116) and create_interface (118-128).       *)

\* The unique-lock critical section as one step.  The duplicate check reads
\* m_interface_signal_name_connections; std::map::insert leaves an existing
\* entry of the same name in place.
AddCommit(t) ==
  LET i == local[t].iface IN
  /\ pc[t] = "add_cs"
  /\ IF i \notin nameConns
       THEN /\ interfaces' = IF interfaces[IfaceName[i]] = NoIface
                               THEN [interfaces EXCEPT ![IfaceName[i]] = i]
                               ELSE interfaces
            /\ pathed' = pathed \cup {i}
            /\ local' = [local EXCEPT ![t].result = TRUE]
       ELSE /\ UNCHANGED <<interfaces, pathed>>
            /\ local' = [local EXCEPT ![t].result = FALSE]
  /\ lock' = Free
  /\ Goto(t, "add_emit")
  /\ UNCHANGED <<nameConns, defaultIface, connAlive, calls, replies, ops,
                 obsIfaces, obsDefault>>

\* An application thread calls add_interface(i).
AddInterface(t) ==
  /\ pc[t] = "idle" /\ ops < MaxOps
  /\ \E i \in Ifaces :
       local' = [local EXCEPT ![t] = [NoLocal EXCEPT !.iface = i]]
  /\ ops' = ops + 1
  /\ Goto(t, "add_lock")
  /\ UNCHANGED <<interfaces, nameConns, pathed, defaultIface, lock, connAlive,
                 calls, replies, obsIfaces, obsDefault>>

\* An application thread calls create_interface(n): Interface::create(n)
\* makes an object nothing holds a reference to yet, then add_interface.
CreateInterface(t) ==
  /\ pc[t] = "idle" /\ ops < MaxOps
  /\ \E i \in Ifaces \ (Registered \cup nameConns \cup {defaultIface}
                         \cup {local[u].iface : u \in Threads}) :
       local' = [local EXCEPT ![t] = [NoLocal EXCEPT !.iface = i,
                                                     !.ret = "create"]]
  /\ ops' = ops + 1
  /\ Goto(t, "add_lock")
  /\ UNCHANGED <<interfaces, nameConns, pathed, defaultIface, lock, connAlive,
                 calls, replies, obsIfaces, obsDefault>>

\* std::unique_lock on m_interfaces_rwlock.
AddLock(t) ==
  /\ pc[t] = "add_lock"
  /\ lock = Free
  /\ lock' = [lock EXCEPT !.writer = t]
  /\ Goto(t, "add_cs")
  /\ UNCHANGED <<interfaces, nameConns, pathed, defaultIface, connAlive,
                 local, calls, replies, ops, obsIfaces, obsDefault>>

\* m_signal_interface_added.emit(interface), whatever the result, then
\* return to the caller.  In create_interface a true result returns a null
\* pointer; a false one falls through to making an unnamed interface the
\* default when there is none, and returns the interface.
AddEmit(t) ==
  LET i == local[t].iface IN
  /\ pc[t] = "add_emit"
  /\ obsIfaces' = obsIfaces \cup {i}
  /\ IF local[t].ret = "create" /\ ~local[t].result
        /\ defaultIface = NoIface /\ IfaceName[i] = EmptyName
       THEN /\ local' = [local EXCEPT ![t].name = IfaceName[i]]
            /\ Goto(t, "setdef_lock")
       ELSE Finish(t)
  /\ UNCHANGED <<interfaces, nameConns, pathed, defaultIface, lock, connAlive,
                 calls, replies, ops, obsDefault>>

\* What create_interface returns when it leaves from AddEmit.
CreateResult(t) == IF local[t].result THEN NoIface ELSE local[t].iface

-----------------------------------------------------------------------------
(* remove_interface (object.cpp 130-158).                                  *)

RemoveInterface(t) ==
  /\ pc[t] = "idle" /\ ops < MaxOps
  /\ \E n \in Names :
       local' = [local EXCEPT ![t] = [NoLocal EXCEPT !.name = n]]
  /\ ops' = ops + 1
  /\ Goto(t, "remove_lock")
  /\ UNCHANGED <<interfaces, nameConns, pathed, defaultIface, lock, connAlive,
                 calls, replies, obsIfaces, obsDefault>>

RemoveLock(t) ==
  /\ pc[t] = "remove_lock"
  /\ lock = Free
  /\ lock' = [lock EXCEPT !.writer = t]
  /\ Goto(t, "remove_cs")
  /\ UNCHANGED <<interfaces, nameConns, pathed, defaultIface, connAlive,
                 local, calls, replies, ops, obsIfaces, obsDefault>>

\* Erase the entry and its name-change connection; m_default_interface is
\* left as it is.
RemoveCommit(t) ==
  LET i == Find(local[t].name) IN
  /\ pc[t] = "remove_cs"
  /\ interfaces' = [interfaces EXCEPT ![local[t].name] = NoIface]
  /\ nameConns' = nameConns \ {i}
  /\ lock' = Free
  /\ IF i # NoIface
       THEN /\ local' = [local EXCEPT ![t].old = i]
            /\ Goto(t, "remove_emit")
       ELSE ReturnTo(t)
  /\ UNCHANGED <<pathed, defaultIface, connAlive, calls, replies, ops,
                 obsIfaces, obsDefault>>

RemoveEmit(t) ==
  /\ pc[t] = "remove_emit"
  /\ obsIfaces' = obsIfaces \ {local[t].old}
  /\ ReturnTo(t)
  /\ UNCHANGED <<interfaces, nameConns, pathed, defaultIface, lock, connAlive,
                 calls, replies, ops, obsDefault>>

-----------------------------------------------------------------------------
(* set_default_interface(name) (object.cpp 175-197): m_default_interface   *)
(* is written while only the SHARED lock is held.  The write is a step of  *)
(* its own so that other threads can be seen touching it meanwhile.       *)

SetDefaultInterface(t) ==
  /\ pc[t] = "idle" /\ ops < MaxOps
  /\ \E n \in Names :
       local' = [local EXCEPT ![t] = [NoLocal EXCEPT !.name = n]]
  /\ ops' = ops + 1
  /\ Goto(t, "setdef_lock")
  /\ UNCHANGED <<interfaces, nameConns, pathed, defaultIface, lock, connAlive,
                 calls, replies, obsIfaces, obsDefault>>

SetDefLookup(t) ==
  LET i == Find(local[t].name) IN
  /\ pc[t] = "setdef_lock"
  /\ lock.writer = NoThread
  /\ \/ /\ i # NoIface
        /\ AcquireShared(t)
        /\ local' = [local EXCEPT ![t].iface = i, ![t].old = defaultIface,
                                  ![t].result = TRUE]
        /\ Goto(t, "setdef_write")
     \/ /\ i = NoIface
        /\ UNCHANGED lock
        /\ Finish(t)
  /\ UNCHANGED <<interfaces, nameConns, pathed, defaultIface, connAlive,
                 calls, replies, ops, obsIfaces, obsDefault>>

SetDefWrite(t) ==
  /\ pc[t] = "setdef_write"
  /\ defaultIface' = local[t].iface
  /\ ReleaseShared(t)
  /\ Goto(t, "setdef_emit")
  /\ UNCHANGED <<interfaces, nameConns, pathed, connAlive, local, calls,
                 replies, ops, obsIfaces, obsDefault>>

\* emit(old_default, m_default_interface): the member is read again here,
\* after the lock is gone.
SetDefEmit(t) ==
  /\ pc[t] = "setdef_emit"
  /\ obsDefault' = defaultIface
  /\ Finish(t)
  /\ UNCHANGED <<interfaces, nameConns, pathed, defaultIface, lock, connAlive,
                 calls, replies, ops, obsIfaces>>

\* set_default_interface(shared_ptr) (object.cpp 199-203): no lock, no check
\* that the interface is in the map, no notification.
SetDefaultInterfacePtr(t) ==
  /\ pc[t] = "idle" /\ ops < MaxOps
  /\ \E i \in Ifaces :
       local' = [local EXCEPT ![t] = [NoLocal EXCEPT !.iface = i]]
  /\ ops' = ops + 1
  /\ Goto(t, "setptr_write")
  /\ UNCHANGED <<interfaces, nameConns, pathed, defaultIface, lock, connAlive,
                 calls, replies, obsIfaces, obsDefault>>

SetPtrWrite(t) ==
  /\ pc[t] = "setptr_write"
  /\ defaultIface' = local[t].iface
  /\ Finish(t)
  /\ UNCHANGED <<interfaces, nameConns, pathed, lock, connAlive, calls,
                 replies, ops, obsIfaces, obsDefault>>

\* remove_default_interface (object.cpp 205-212): no lock at all.
RemoveDefaultInterface(t) ==
  /\ pc[t] = "idle" /\ ops < MaxOps
  /\ ops' = ops + 1
  /\ \/ /\ defaultIface = NoIface
        /\ UNCHANGED <<pc, local>>
     \/ /\ defaultIface # NoIface
        /\ local' = [local EXCEPT ![t] = [NoLocal EXCEPT !.old = defaultIface]]
        /\ Goto(t, "rmdef_write")
  /\ UNCHANGED <<interfaces, nameConns, pathed, defaultIface, lock, connAlive,
                 calls, replies, obsIfaces, obsDefault>>

RmDefWrite(t) ==
  /\ pc[t] = "rmdef_write"
  /\ defaultIface' = NoIface
  /\ Goto(t, "rmdef_emit")
  /\ UNCHANGED <<interfaces, nameConns, pathed, lock, connAlive, local, calls,
                 replies, ops, obsIfaces, obsDefault>>

RmDefEmit(t) ==
  /\ pc[t] = "rmdef_emit"
  /\ obsDefault' = defaultIface
  /\ Finish(t)
  /\ UNCHANGED <<interfaces, nameConns, pathed, defaultIface, lock, connAlive,
                 calls, replies, ops, obsIfaces>>

-----------------------------------------------------------------------------
(* interface(name) (object.cpp 69-81): find under the shared lock, keeping *)
(* the map iterator; the lock is released at the end of the block, and the *)
(* iterator is compared with end() and dereferenced after that.  The       *)
(* accessor changes no state of the object, so it is not bounded by ops.   *)

\* The block: shared lock, iter = m_interfaces.find(name), unlock.  The
\* lock is taken and released within the step, so it waits for a writer.
GetInterface(t) ==
  /\ pc[t] = "idle"
  /\ lock.writer = NoThread
  /\ \E n \in Names :
       local' = [local EXCEPT ![t] = [NoLocal EXCEPT !.name = n, !.iface = Find(n)]]
  /\ Goto(t, "iface_deref")
  /\ UNCHANGED <<interfaces, nameConns, pathed, defaultIface, lock, connAlive,
                 calls, replies, ops, obsIfaces, obsDefault>>

\* if ( iter == m_interfaces.end() ) return null; return iter->second;
IfaceDeref(t) ==
  /\ pc[t] = "iface_deref"
  /\ Finish(t)
  /\ UNCHANGED <<interfaces, nameConns, pathed, defaultIface, lock, connAlive,
                 calls, replies, ops, obsIfaces, obsDefault>>

-----------------------------------------------------------------------------
(* Environment.                                                            *)

\* The Connection the object holds by weak_ptr is destroyed.
ConnectionLost ==
  /\ connAlive
  /\ connAlive' = FALSE
  /\ UNCHANGED <<interfaces, nameConns, pathed, defaultIface, lock, pc, local,
                 calls, replies, ops, obsIfaces, obsDefault>>

\* A method handler, running inside Delegate under the shared lock, calls
\* remove_interface on its own object (only in SpecReentrant).
HandlerRemovesInterface(t) ==
  /\ pc[t] = "delegate" /\ ops < MaxOps
  /\ \E n \in Names :
       local' = [local EXCEPT ![t].name = n, ![t].ret = "handler"]
  /\ ops' = ops + 1
  /\ Goto(t, "remove_lock")
  /\ UNCHANGED <<interfaces, nameConns, pathed, defaultIface, lock, connAlive,
                 calls, replies, obsIfaces, obsDefault>>

\* Every bounded input has been used: the system stutters.
Terminating ==
  /\ Len(calls) = MaxCalls /\ ops = MaxOps
  /\ UNCHANGED vars

-----------------------------------------------------------------------------
(* Specification.                                                          *)

Init ==
  /\ interfaces = [n \in Names |-> NoIface]
  /\ nameConns = {}
  /\ pathed = {}
  /\ defaultIface = NoIface
  /\ lock = Free
  /\ connAlive = TRUE
  /\ pc = [t \in Threads |-> "idle"]
  /\ local = [t \in Threads |-> NoLocal]
  /\ calls = <<>>
  /\ replies = <<>>
  /\ ops = 0
  /\ obsIfaces = {}
  /\ obsDefault = NoIface

\* A new operation or call, started by the application or the transport.
Start(t) ==
  \/ ReceiveCall(t) \/ AddInterface(t) \/ CreateInterface(t)
  \/ RemoveInterface(t) \/ SetDefaultInterface(t) \/ SetDefaultInterfacePtr(t)
  \/ RemoveDefaultInterface(t) \/ GetInterface(t)

\* The next step of the operation a thread is in.
Step(t) ==
  \/ Introspect(t) \/ Lookup(t) \/ UnknownInterface(t) \/ Delegate(t)
  \/ AddLock(t) \/ AddCommit(t) \/ AddEmit(t)
  \/ RemoveLock(t) \/ RemoveCommit(t) \/ RemoveEmit(t)
  \/ SetDefLookup(t) \/ SetDefWrite(t) \/ SetDefEmit(t) \/ SetPtrWrite(t)
  \/ RmDefWrite(t) \/ RmDefEmit(t) \/ IfaceDeref(t)

Next ==
  \/ \E t \in Threads : Start(t) \/ Step(t)
  \/ ConnectionLost
  \/ Terminating

\* A thread that is inside an operation is scheduled again: the code has no
\* blocking other than on m_interfaces_rwlock.
Fairness == \A t \in Threads : WF_vars(Step(t))

Spec == Init /\ [][Next]_vars /\ Fairness

NextReentrant == Next \/ \E t \in Threads : HandlerRemovesInterface(t)

SpecReentrant == Init /\ [][NextReentrant]_vars /\ Fairness

-----------------------------------------------------------------------------
(* Properties.                                                             *)

TypeOK ==
  /\ interfaces \in [Names -> Ifaces \cup {NoIface}]
  /\ \A n \in Names : interfaces[n] # NoIface => IfaceName[interfaces[n]] = n
  /\ nameConns \subseteq Ifaces /\ pathed \subseteq Ifaces
  /\ defaultIface \in Ifaces \cup {NoIface}
  /\ lock \in [writer : Threads \cup {NoThread}, readers : SUBSET Threads]
  /\ connAlive \in BOOLEAN
  /\ pc \in [Threads -> Labels]
  /\ local \in [Threads -> [iface : Ifaces \cup {NoIface}, name : Names,
                            call : 0..MaxCalls, ret : Returns,
                            result : BOOLEAN, old : Ifaces \cup {NoIface}]]
  /\ Len(calls) <= MaxCalls
  /\ \A c \in 1..Len(calls) : calls[c] \in [iface : Names \cup {Introspectable},
                              member : Members, expectsReply : BOOLEAN,
                              conn : BOOLEAN, dropped : BOOLEAN]
  /\ Len(replies) = Len(calls)
  /\ \A c \in 1..Len(replies) : replies[c] \in Seq(ReplyKinds)
  /\ ops \in 0..MaxOps
  /\ obsIfaces \subseteq Ifaces /\ obsDefault \in Ifaces \cup {NoIface}

\* Each call is answered at most once, and not at all when its sender set
\* NO_REPLY_EXPECTED: the introspection branch of handle_call_message must
\* return after its reply, and create_reply/create_error_reply must yield a
\* message the connection drops.
ReplyDiscipline ==
  \A c \in 1..Len(calls) :
    Len(replies[c]) <= IF calls[c].expectsReply THEN 1 ELSE 0

\* What handle_call_message found under the shared lock is still true when
\* it acts on it: an UnknownInterface error is sent only while no interface
\* of that name is registered, and the interface a call is delegated to is
\* still the one registered under its name, whatever the other threads do.
LookupStillValid ==
  \A t \in Threads :
    LET n == calls[local[t].call].iface IN
    /\ pc[t] = "err_iface" => Find(n) = NoIface
    /\ pc[t] = "delegate" => Find(n) = local[t].iface

\* Every operation a thread starts, and every call it dispatches, returns:
\* no thread waits forever on m_interfaces_rwlock.
OperationsComplete == \A t \in Threads : pc[t] # "idle" ~> pc[t] = "idle"

\* Spec 4.2: every branch of handle_call_message is terminal with a reply.
\* A call that expects one, handled while the object has a connection, is
\* eventually answered -- introspection, UnknownInterface, the method's
\* return or UnknownMethod -- whatever adds, removes and default changes
\* hold the lock meanwhile; the only exception is the branch that finds a
\* default interface and returns (object.cpp 331-333), marked dropped.
CallsAnswered ==
  \A c \in 1..MaxCalls :
    (c <= Len(calls) /\ calls[c].conn /\ calls[c].expectsReply)
      ~> (c <= Len(calls) /\ (Len(replies[c]) > 0 \/ calls[c].dropped))

-----------------------------------------------------------------------------
(* Properties the spec states of the object and the code does not keep;   *)
(* each is checked by a run that expects a violation.                      *)

\* Spec 4.2/8: add_interface of an interface already tracked under the
\* object returns false (and the map keeps exactly one entry).
AddDuplicateRejected ==
  [][\A t \in Threads :
       (pc[t] = "add_cs" /\ pc'[t] = "add_emit" /\ local[t].iface \in Registered)
         => ~local'[t].result]_vars

\* Spec 4.2: create_interface returns null only when add_interface fails,
\* which it cannot for the fresh interface it creates.
CreateReturnsInterface ==
  [][\A t \in Threads :
       (pc[t] = "add_emit" /\ local[t].ret = "create" /\ pc'[t] = "idle")
         => CreateResult(t) # NoIface]_vars

\* Spec 3: an interface removed from its object is released; removing the
\* default interface's entry leaves no default interface behind.
RemoveClearsDefault ==
  [][\A t \in Threads :
       (pc[t] = "remove_cs" /\ pc'[t] # "remove_cs" /\ defaultIface # NoIface
          /\ Find(local[t].name) = defaultIface)
         => defaultIface' = NoIface]_vars

\* Spec 4.2: every call that expects a reply, handled while the object has
\* a connection, is eventually answered, by the default interface when no
\* interface of its name is registered.
EveryCallAnswered ==
  \A c \in 1..MaxCalls :
    (c <= Len(calls) /\ calls[c].conn /\ calls[c].expectsReply)
      ~> (c <= Len(replies) /\ Len(replies[c]) > 0)

\* Threads at a step that writes m_default_interface.
DefaultWriters == {t \in Threads : pc[t] \in {"setdef_write", "setptr_write", "rmdef_write"}}

\* Spec 5: set-default operations take the exclusive lock, so no thread
\* writes m_default_interface while another writes it or reads it (the
\* lookup of a call whose interface is not registered reads it).
NoDefaultRace ==
  \A t \in DefaultWriters : \A u \in Threads \ {t} :
    /\ u \notin DefaultWriters
    /\ ~(pc[u] = "lookup" /\ Find(calls[local[u].call].iface) = NoIface)

\* Spec 5: lookups take the shared lock, so no thread reads m_interfaces
\* for introspection while another holds the exclusive lock to change it.
NoIntrospectionRace ==
  \A t \in Threads : pc[t] = "introspect" =>
    \A u \in Threads : pc[u] \notin {"add_cs", "remove_cs"}

\* Spec 4.2/5: observers are notified after each mutation, so once every
\* operation has returned, an observer that tracks interface_added /
\* interface_removed / default_interface_changed sees the interfaces the
\* object holds and its default interface.
ObserversAgree ==
  (\A t \in Threads : pc[t] = "idle") =>
    /\ obsIfaces = {interfaces[n] : n \in Names} \ {NoIface}
    /\ obsDefault = defaultIface


\* Spec 5: callers must tolerate an object vanishing mid-dispatch by holding
\* references, never iterators into the map.  interface(name) dereferences
\* the std::map iterator it found after releasing the shared lock; a
\* remove_interface of that name in between frees the node it points to.
\* The entry an interface() call found is still in the map when it is read.
IteratorStillValid ==
  \A t \in Threads :
    (pc[t] = "iface_deref" /\ local[t].iface # NoIface) =>
      Find(local[t].name) = local[t].iface

=============================================================================
