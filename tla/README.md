# TLA+ models of dbus-cxx

This directory holds TLA+ models of the concurrency-relevant and algorithmic
parts of dbus-cxx (`src/dbus-cxx/`), the TLC configurations that check them,
and `PROJECT.json`, which maps every model definition to the source lines it
translates and lists the runs, mutants, findings and hazards.

## The system and its parts

| Part | Source | State | Operations | Interacts with |
|---|---|---|---|---|
| Object (HandlerTree node) | `object.cpp` | `m_interfaces` (name -> Interface), `m_default_interface`, `m_interface_signal_name_connections`, `m_children`, `m_interfaces_rwlock`, three observer signals | add/create/remove interface, set/remove default interface, add/remove child, introspect, handle_call_message | connection (replies), Interface (delegation), observers |
| ObjectPathHandler | `objectpathhandler.cpp` | `m_path`, `m_connection` (weak), libdbus vtable | register_with_connection, unregister, set_connection, message_handler_callback | libdbus path registry, Object |
| CallMessage | `callmessage.h` | header fields, NO_REPLY_EXPECTED flag | create_reply, create_error_reply, expects_reply | Object dispatch |
| MessageIterator (ValueCursor) | `messageiterator.cpp` | libdbus iterator `m_cobj`, non-owning `m_message` (validity is derived, not stored) | init, invalidate, next/++, it++, has_next, recurse, typed getters, coercion operators | Message bodies |
| signal_proxy_base (SubscriptionMatcher) | `signal_proxy_base.cpp` | interface, name, path, sender, destination | matches, match_rule | bus match rules |
| ObjectProxy | `objectproxy.h` | interface multimap, path, destination | create_method, create_signal, interface lookup | InterfaceProxy |
| taco-proxy | `unit-tests/tools-tests/taco-proxy.cpp` | none | test main | – |

The hard behaviours are in Object: one reader-writer lock guards the interface
map, dispatching threads take it shared, mutators take it exclusive, and every
mutator emits an observer notification after releasing it. The lock is
*held while the interface's method handler runs and while the reply is sent*
(`object.cpp:313-366`), the default interface is written under a shared lock
or no lock at all, and `introspect()` reads the map with no lock.

## Modules

### `Object.tla` — one Object and its callers

State (VARIABLES) and the code it stands for:

- `interfaces` — `m_interfaces`, a function from each name to an interface or
  `NoIface` (std::map keyed by `Interface::name()`);
- `nameConns` — the key set of `m_interface_signal_name_connections`, which
  `add_interface` reads and `remove_interface` erases but nothing inserts into;
- `pathed` — interfaces on which `add_interface` called `set_path`;
- `defaultIface` — `m_default_interface`;
- `lock` — `m_interfaces_rwlock` as `[writer, readers]`;
- `connAlive` — whether `m_connection.lock()` yields a connection;
- `pc`, `local` — each thread's position inside an operation and its locals
  (the operations are split where a lock is taken or released, because other
  threads can act between those points);
- `calls`, `replies` — the call messages delivered (each records whether the
  connection was alive and whether the default-interface branch dropped it)
  and, per call, the replies
  sent; `obsIfaces`, `obsDefault` — what an observer connected to the three
  signals believes.

Actions: `ReceiveCall`/`Introspect`/`Lookup`/`UnknownInterface`/`Delegate`
are `handle_call_message`; `AddInterface`/`AddLock`/`AddCommit`/`AddEmit` are
`add_interface`, `CreateInterface`/`CreateResult` are `create_interface`;
`RemoveInterface`/`RemoveLock`/`RemoveCommit`/`RemoveEmit`;
`SetDefaultInterface`/`SetDefLookup`/`SetDefWrite`/`SetDefEmit` for the
by-name setter; `SetDefaultInterfacePtr`/`SetPtrWrite`;
`RemoveDefaultInterface`/`RmDefWrite`/`RmDefEmit`; `GetInterface`/`IfaceDeref`
are the `interface(name)` accessor, whose lock block keeps the map iterator
and whose comparison with `end()` and dereference come after the unlock (the
accessor changes no state, so it is not counted in `MaxOps`);
`ConnectionLost`.
`HandlerRemovesInterface` is an interface method handler that calls
`remove_interface` on its own object; it is only in `SpecReentrant`.
`Terminating` stutters once every bounded input is used, so deadlock checking
stays on and reports only real deadlocks.

Data is abstracted: interfaces are model values with a name and a method set;
a call is its envelope (interface, member, expects-reply); a reply is its kind.
`Handles(i, m)` stands for `Interface::handle_call_message`, whose source is
not in this repository.

`MCObject.tla` fixes two threads, three interfaces (`iA` and `iA2` share the
name `nA`, so a same-name replacement and a duplicate add can happen; `iE`
has the empty name so `create_interface`'s default branch is reachable), two
members, `MaxCalls = 1`, `MaxOps = 2`. One call and two mutations let a call
interleave with an add and a remove, or with two default changes, which is
every two-actor race the properties speak about; 158 444 states.

Fairness: weak fairness on each thread's continuation steps (`Step(t)`); the
start of a new operation is not fair. Once a thread is inside an operation it
keeps running (the code has no waits other than the lock), and
`std::shared_mutex` is granted to a waiting writer once readers leave in the
bounded model, so WF is what the code justifies.

### `ObjectTree.tla` — the object tree and its binding to connections

State: `children` (each object's `m_children`, name -> child or `NoNode`),
`conn` (`m_connection`), `registry` (each connection's object-path table:
path -> object), `status` of each connection (open, closed, destroyed),
`pc`/`local` of each thread inside `add_child`, `dead` (objects destroyed
because no shared_ptr reaches them any more: the subtree reachable from the
objects the application holds, `Held`), and `swallowed` (a call the libdbus
callback reported handled without dispatching it).

Actions: `AddChild` (the `has_child` test and the early returns) and
`AddChildInsert` (insert, `set_connection`/`register_with_connection` on the
child with its result ignored) are `Object::add_child`, split where another
thread can interleave, since it takes no lock; `RemoveChild`; `Register`
(`register_with_connection`, both build branches: with
`DBUS_CXX_HAVE_DBUS_12` the registration is commented out and the
uninitialised `result` is a nondeterministic choice); `Unregister`;
`SetConnection` (the recursive `Object::set_connection` over the subtree,
then `ObjectPathHandler::set_connection`); `Deliver` (libdbus calling
`message_handler_callback`, whose return value is the uninitialised
`result`); `ConnectionClosed`/`ConnectionDestroyed` (the connection side,
modelled from the spec). `Destroy` is part of every action that can drop the
last reference to a subtree.

`MCObjectTree` has three objects `r`, `a`, `b` with their own paths, one
child name, the application holding `r`, one connection (two in
`MCObjectTreeRebind.cfg`) and two threads, `MaxOps = 4`: enough to bind,
add, remove and re-add a child while another thread is inside `add_child`;
116 856 states, about 2 minutes (two connections and two threads together
exceed a million states and are left to the single-property configurations). Weak fairness
on `AddChildInsert`: a thread that passed the `has_child` test runs on.

### `Coercion.tla` — typed extraction and the conversion operators

`Cast(T, tag, v)` is what `(T)iter` yields for C++ target `T` when the wire
type at the iterator is `tag` with value `v`. Each conversion operator is a
`switch` on the wire type that either calls the getter of that type or
converts `*this` to another C++ type, i.e. calls another conversion operator
(`Via`, `GetterRows`), and returns the result through an implicit C++
conversion (`Conv`). The dispatch is `CastD`, RECURSIVE with a depth bound
(reaching it would be an endless recursion). Integers are 64-bit two's
complement bit vectors (`Extend` truncates or sign-extends to the target
width), doubles and floats are sign and magnitude with `RoundSig` rounding to
53 or 24 significant bits (nearest, ties to even), and `RealToInt` is the
floating-to-integer conversion, `Undefined` out of range. The build-dependent
parts are constants: `CharSigned` and `SizeofLong` (with `SizeofLong = 4` the
`long` operators exist; the runs use `SizeofLong = 8`, the LP64 build, so
those operators are not checked). `Representable` and `SameValue` are the
reference the code is judged by: they read a value back as a sign and a
magnitude and decide, without `Conv`, whether `T` can hold it exactly. The state is one extraction request; `MCCoercion` gives
boundary values per wire type (0, 1, -1, the extremes of each width,
2^24 + 1, 2^31, -2^63, 2^64 and halves such as 0.5, 255.5); 672 states.

### `Cursor.tla` and `MessageIterator.tla` — the value cursor

`Cursor` is the abstract ValueCursor of spec 4.1: each cursor is a position
(message, path of indices into the body's element tree) or `Invalid`;
`AInit`, `AAdvance`, `ARecurse`, `AInvalidate`, `APostIncrement`.

`MessageIterator` is the code: per iterator `m_message` and `m_cobj`; the
libdbus reader (`DbusGetArgType`, `DbusIterInit`, `DbusIterNext`,
`DbusHasNext`, `DbusRecurse`) is modelled from the D-Bus specification, as
libdbus is not in this repository. `IsValid`, `HasNext`, `ArgType`,
`IsContainer` are the queries; `IterInit` (`init` and the constructors),
`Invalidate`, `IterNext` (`next`, prefix `++`), `PostIncrement`, `Recurse`
are the operations, each one a whole call (an iterator is not shared between
threads, spec section 5). The refinement mapping `AbsCur` sends a valid
iterator to the position `m_cobj` reads and an invalid one to `Invalid`;
`Refines == A!Spec` with `A == INSTANCE Cursor WITH cur <- AbsCur`.

`MCMessageIterator`: two iterators; a message `mA` with body
`(i, ay, (s, a{}))` (a basic, a two-element array, a struct holding an empty
array), a valid empty message, an invalid message; `MaxOps = 6`, enough to
walk past the end of the array, recurse into the struct and its empty array,
and re-init over another message; 551 states.

### `ObjectProxy.tla` — the client-side object proxy

Only `create_method` and `create_signal` of `ObjectProxy` have bodies in this
repository (templates in `objectproxy.h`); the other members are declared
only. Both templates look the interface up with `interface(name)`, create one
with `create_interface(name)` when the lookup found none, and add the member
proxy to it. The lookup and the creation each take `m_interfaces_rwlock`
inside calls whose definitions are not here, and nothing is held between
them, so they are separate steps.

State: `m_interfaces` — the `std::multimap` as an insertion-ordered sequence
of `[name, iface]` records (a multimap insert goes after the equal keys);
`members[p]` — the `<<kind, member>>` pairs `InterfaceProxy` p holds;
`pc`, `local` — each thread's position and locals; `created` — what the
returned calls created; `ops` — the bound. `Interface(n)` is `interface(n)`,
the first entry with the name (from its header comment). Actions:
`CreateMember` (the lookup), `CreateInterface`, `AddMember`, and
`Terminating`.

`MCObjectProxy`: two threads, one interface name, two members, two
`InterfaceProxy` values, `MaxOps = 2` — the smallest instance in which two
calls for one new name overlap.

### `SignalProxy.tla` — the subscription matcher

State: `filter` (`m_interface`, `m_name`, `m_path`, `m_sender`,
`m_destination`), `m_match_rule`, and `last`, the result of the last
`handle_signal`. `BuildRule` is `match_rule()`: the rule text as the
sequence of its `key='value'` clauses in the order the code appends them
(the values are names, which cannot contain a quote, so the text and the
clause sequence determine each other). `Matches` is `matches()`, its early
returns as conjuncts. `BusDelivers` is how the bus reads a rule (D-Bus
specification): every clause must hold, and a `sender` clause naming a
well-known name holds for messages from that name's owner, since the bus
stamps each message with the sender's unique name. Actions: `SetField` (the
`signal_base` setters, not in this repository), `MatchRule`, `HandleSignal`
(for a signal the bus delivered under the stored rule).

`MCSignalProxy`: two interfaces, two members, two paths, two unique names and
one well-known name owned by the first; every field can also be empty;
envelopes range over validity, signal or call, and every header value;
140 940 states.

## Runs

| Run | cfg | Expect | Shows |
|---|---|---|---|
| object_dispatch | MCObject.cfg | pass | `TypeOK`; `ReplyDiscipline` — a call gets at most one reply and none when NO_REPLY_EXPECTED; `LookupStillValid` — what the lookup found under the shared lock is still the map entry when the thread replies or delegates; `OperationsComplete` — every started operation returns; `CallsAnswered` — every call that expects a reply and arrives while the object has a connection is eventually answered, except in the default-interface branch (object.cpp 331-333), which is recorded on the call as `dropped` |
| object_default_race | MCObjectDefaultRace.cfg | violation | `m_default_interface` written without the exclusive lock while read by a dispatcher |
| object_reentrant_handler | MCObjectReentrant.cfg | violation | a handler that mutates its own object deadlocks |
| tree_binding | MCObjectTree.cfg | pass | `TypeOK` under two threads: every interleaving of the tree operations and dispatch keeps the tree, the routing tables and the per-thread state well formed. The binding and `add_child` race properties are violated as soon as a second connection or thread is present (see the further violation configurations) |
| tree_remove_child_dangling | MCObjectTreeDetach.cfg | violation | `remove_child` destroys a child whose path is still registered |
| coercion_extract | MCCoercion.cfg | pass | `ValuePreserved` — every numeric conversion operator on every numeric wire type succeeds, and returns the actual value unchanged whenever the requested type can hold it (checked against the independent `Representable` and `SameValue`, so a wrong extension, truncation or rounding inside `Conv`, or a wrong row in a `switch`, is caught) |
| iterator_walk | MCMessageIterator.cfg | pass | `Refines` — the iterator operations implement the abstract cursor |
| iterator_stale_type | MCMessageIteratorStale.cfg | violation | after `init` with an invalid message, the invalid iterator still reports its old type |
| signal_rule_covers | MCSignalProxy.cfg | pass | `NoMissedSignal` — for every filter the setters can produce, every signal `matches()` accepts is delivered by the bus under the rule `match_rule()` builds |
| objectproxy_create_race | MCObjectProxy.cfg | violation | `MemberReachable`: two threads calling `create_method` for one new interface name both create an `InterfaceProxy`; the member added to the second is not reachable through `interface(name)` |
| object_iterator_race | MCObjectIterator.cfg | violation | `IteratorStillValid`: `interface(name)` dereferences its map iterator after releasing the shared lock; a `remove_interface` of that name in between erases the node (use of an invalidated iterator) |
| object_observers | MCObjectObservers.cfg | violation | `ObserversAgree`: once every call has returned, an observer of `interface_added`/`interface_removed`/`default_interface_changed` disagrees with the object. The shortest trace is `set_default_interface(ptr)`, which emits nothing; another is an add and a remove of one name whose emits, sent after the lock is released, arrive in the opposite order |

Further violation configurations, each checking one property that TLC finds
violated (described with the hazards in `PROJECT.json`):
`MCObjectTreeRace.cfg` (`NoSilentReplace` with two threads: both pass
`has_child` and one child is silently replaced),
`MCCoercionUB.cfg` (`NoUndefinedCast`: a DOUBLE outside the target's range
converted to an integer type is undefined behaviour in C++),
`MCSignalProxySender.cfg` (`NoRejectedDelivery`: a proxy filtering on a
well-known sender is delivered that name's signals by the bus, and
`matches()` rejects every one, since the bus stamps the unique name),
`MCObjectAnswered.cfg` (`EveryCallAnswered`: a call to an unknown interface
on an object with a default interface is never answered),
`MCObjectTreeSwallow.cfg` (`NoSwallowedCall`: the libdbus callback can report
a call handled that no object saw),
`MCObjectAddDup.cfg` (`AddDuplicateRejected`: adding the same interface twice
returns true twice), `MCObjectCreate.cfg` (`CreateReturnsInterface`:
`create_interface` returns null after a successful add),
`MCObjectRemoveDefault.cfg` (`RemoveClearsDefault`),
`MCObjectIntrospectRace.cfg` (`NoIntrospectionRace`: `introspect()` reads the
map with no lock), `MCObjectTreeRebind.cfg` (`RouteKnowsConnection` with two
connections: re-binding leaves the old registration), `MCObjectTreeBound.cfg`
(`BoundImpliesRoutable`: `set_connection` does not register the path),
`MCObjectTreeAddChild.cfg` (`AddedChildRoutable`: `add_child` returns true
when registering the child failed).

Each finding is described in `PROJECT.json` ("findings"). Each property of a
passing run has a mutant (a plausible code change, defined in the module
before the definition it replaces) that TLC shows breaks it.

## Plan

1. `Object` (done): interface map, default interface, dispatch.
2. `ObjectTree` (done): children, path registration, libdbus callback.
3. `Coercion`, `MessageIterator`, `Cursor` (done).
4. `SignalProxy` (done).
5. `ObjectProxy` (done): create_method/create_signal check-then-create;
   observer consistency of `Object` (done).
6. `Object::interface(name)` iterator use after unlock (done).
7. Message lifetime for `MessageIterator` (the non-owning `m_message`), and
   an abstract dispatch specification that `Object` refines.

## Not modelled

- The 32-bit-`long` build (`SizeofLong = 4`), where `operator long` and
  `operator unsigned long` exist: modelled, but no run uses it.
- `handle_message` (an empty function body) and the libdbus wire encoding.
- `Interface`, `Connection`, `Dispatcher`: not in this repository.
- `Object::interfaces()` returns a reference to the map without the lock; the
  callers that iterate it are not in this repository. `has_interface` and
  `default_interface` are queries that change nothing.
- taco-proxy: a test `main` that creates a dispatcher, a connection and a
  generated proxy and returns; it has no state of its own and no operation.
- `ObjectProxy` apart from `create_method`/`create_signal`: `add_interface`,
  `remove_interface`, the default-interface setters, `call`, the signal
  accessors and the constructors are declared in `objectproxy.h` but not
  defined in this repository, so there is no code to translate.
- `messageiterator.cpp` lines 580-729 (`value(Variant)`, `append_array`,
  `get_array`, `new_array`/`new_variant`/`new_struct`/`new_dict_entry`,
  `close_container`): commented out, not compiled.
- `MessageIterator::signature`, `element_type`, `is_fixed`, `is_array`,
  `is_dict`, `operator==` and the container extraction templates of the header:
  queries or compositions of the modelled operations.
