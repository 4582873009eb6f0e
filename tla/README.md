# OpenVRML in TLA+

Formal models of the run-time core of OpenVRML (`src/`, version 0.18.99), checked
with TLC and, where it says so, proved with TLAPS.

OpenVRML reads VRML97 and X3D worlds, keeps them as a graph of nodes, moves events
between the nodes and renders them. Almost everything that is hard to get right is
in `src/src/libopenvrml/openvrml` and `src/src/node/vrml97`: events are delivered by
nested function calls, so every function that emits one is re-entered by whoever
listens, and worlds, EXTERNPROTOs and streams are loaded by threads that share the
scene under half a dozen locks. These two are what the models are about, with the
parser that builds the graph from a file that may be wrong anywhere, the nodes that
change it while it is traversed, and the protocol of time-dependent nodes.

Source paths below are relative to `src/src/`; `lib/` stands for
`libopenvrml/openvrml/`.

## 1. Inventory

| Component | State | Operations | Hard behaviour | What makes it correct |
|---|---|---|---|---|
| **Bindable nodes** `lib/node_impl_util.h` (`bound_node_stack`), `node/vrml97/{viewpoint,navigation_info,fog,background}.cpp` | one stack, `bound_nodes`, and `first` per metatype; `is_bound_` per node; the browser's `active_viewpoint_`, `active_navigation_info_`, `viewpoint_list_` | `set_bind` TRUE/FALSE, metatype `bind`/`unbind`/`do_initialize`, node `do_initialize`/`do_shutdown` | `isBound` is emitted in the middle of the stack's functions; its listeners re-enter them; shutdown unbinds nodes one by one | one position per node; only the top is bound; the browser follows the top; no pointer outlives its node; cascades end |
| **Browser: worlds and threads** `lib/browser.cpp` | `scene_`, registry, `load_root_scene_thread_`, `load_proto_thread_group_`, `timers_`, `scripts_`, listeners; one shared mutex each | `load_url`, `set_world`, `update`, `create_vrml_from_stream`, `replace_world`, add/remove of time-dependent nodes and Scripts | loaders, EXTERNPROTO threads and streams against `update` and against each other; joins under locks | one loader; no thread outlives its scene; the lists are empty when the scene goes; every load ends and is announced |
| **Scene** `lib/scene.cpp` | `nodes_`, `url_`, `meta_`, its stream threads | `load`, `initialize`, `shutdown`, `create_vrml_from_url`, `nodes` | destroyed while its threads run | its threads end first |
| **EXTERNPROTO** `lib/local/externproto.cpp` | metatype -> types -> nodes that wait; `proto_node_` of each node | fetch and parse in a thread, substitution, clearing | implementation arrives before, during or after initialization, or at shutdown; threads register PROTOs and metatypes for the same URLs | each node is replaced, by an instance of the right PROTO; every substitute initialized once, none after shutdown |
| **Events and routes** `lib/event.{h,cpp}`, `lib/exposedfield.h`, `lib/node.cpp` | listeners and `last_time_` of each emitter; routes | `emit_event`, `process_event`, `add_route`, `delete_route` | synchronous recursion under shared locks; routes changed by a listener | values in order; loops broken; no self-deadlock |
| **Node base** `lib/node.cpp` | `scene_`, scope, reference count | `initialize`, `shutdown`, destruction, traversal | children that events add or remove | registered exactly while in the scene |
| **Script nodes** `lib/script.cpp` | `script_`, eventOut values and modified flags, `direct_output_map_`, `events_received` | `update`, event handlers, `initialize`, `set_url`, directOutput | Scripts that change what is being iterated | each modified eventOut is sent once; scripts run only in the scene |
| **PROTO** `lib/local/proto.{h,cpp}` | implementation nodes, IS maps, eventOut time stamps | create, IS-mapped events, initialize, shutdown | the body is cloned, and each node that the definition names is looked for in the clone; events pass in and out by time stamp | an instance behaves like its implementation |
| **Parser** `lib/vrml97_grammar.h`, `lib/local/parse_vrml.{h,cpp}`, `lib/scope.cpp` | the grammar's stacks of scopes and field rules, the actions' stacks of scopes, nodes and lists | one action per part of the file; the destructor makes a scene of what there is | the file breaks off or is wrong anywhere; names are known to grammar and actions at different times | the stacks agree with the grammar; no node is lost; IS maps are complete |
| **Registry and components** `lib/local/node_metatype_registry_impl.cpp`, `component.cpp` | id -> metatype | find, add, init, shutdown | locks held across callbacks | a metatype is shut down once |
| **TimeSensor, AudioClip, MovieTexture** `node/vrml97/` | `isActive`, times, `lastTime` | `update`, `set_*` | boundary times, changes while active | the time-dependent protocol of VRML97 |
| **Sensors** `node/vrml97/*_sensor.cpp` | `isActive`, `isOver`, tracking point | `activate` | over/active order | each TRUE is followed by a FALSE |
| **Grouping nodes** `node/vrml97/grouping_node_base.h` ... | `children_` | `addChildren`, `removeChildren`, `set_children` | children against initialization and registration | the children of a live group are live |
| **Inline, image streams** `node/vrml97/` | a thread, a nested scene or decoder | `load`, join in destructor, shutdown and bounding volume | a join on the rendering thread | the nested scene ends with the node |
| Field values, basic types, bounding volumes, the X3D grammar, URIs, XML, viewers, script engines, X3D node modules, control library, player, plug-in | | | text, floating point, graphics or foreign libraries | not protocol; see section 8 |

How they interact: the application calls `browser::load_url` (or `set_world`) and,
once per frame, `browser::update` and `render`. `update` lets time-dependent nodes
and Scripts emit events, which run the handlers of other nodes before they return.
Scripts call the browser back. A loader thread replaces the scene beneath all this;
the parser starts EXTERNPROTO threads, which substitute nodes in the new scene when
they are done; Scripts start stream threads, which parse and send nodes to a node.

## 2. Modules

| Module | What it is |
|---|---|
| `BindableNodes` | the binding stacks with every callback, and the life of a world around them |
| `BindingStack` | the abstract specification of a binding stack: atomic, without callbacks |
| `MCBindableNodes` | the worlds and routes TLC uses |
| `BrowserThreads` | the threads of the browser and the locks they meet at |
| `MCBrowserThreads` | the threads TLC uses |
| `TimeSensor` | one TimeSensor, its ticks, and the events that change its fields |
| `ScriptEvents` | Scripts, exposedFields and routes, with the calls of one thread |
| `ProtoInstance` | an instance of a PROTO: how it is made, and the events through it |
| `MCScriptEvents`, `MCProtoInstance` | the worlds of Scripts and the bodies TLC uses |
| `SceneGraph` | the traversals of a graph of nodes that events change meanwhile |
| `ParseActions` | the VRML97 grammar and the parse actions |
| `ExternprotoLoading` | EXTERNPROTOs: the registry, the threads that load files, and the parsers that make types and nodes meanwhile |
| `MCNodes`, `MCScenes`, `MCWorlds` | two or three of these on small instances, one at a time: `BindableNodes` and `TimeSensor`; `ScriptEvents` and `SceneGraph`; `ParseActions`, `ExternprotoLoading` and `ProtoInstance` |
| `SequenceLemmas` | facts about `RemoveAt`, `Append`, `Front` and `Last` |
| `BindableNodes_proof` | type correctness of `BindableNodes`; safety of cascades when routes are layered, what they leave behind, and the refinement of `BindingStack` |
| `BrowserThreads_proof` | the inductive invariant of `BrowserThreads`; its hangs are deadlocks |
| `Events_proof` | the inductive invariant of `ProtoInstance`, the search for a clone, and what can go wrong; the inductive invariant of `TimeSensor`; the calls of `ScriptEvents`, what is sent, and the safety of loop-free worlds |
| `ExternprotoLoading_proof` | the inductive invariants of `ExternprotoLoading` |
| `SceneGraph_proof` | the reachability operators of `SceneGraph`, its inductive invariant and all of its safety properties |
| `ParseActions_proof` | the invariant that ties the stacks of `ParseActions` to each other, and the names that grammar and actions know |
| `ParseFaults_proof` | on top of it, what can stop a parse: the lists of nodes, the root scope wherever the file breaks off, and what the destructor makes of it |

The two main modules meet at `set_world`: `BindableNodes` follows one world through
it with the threads left out, `BrowserThreads` follows the threads through it with
the nodes left out (a world is registered or not, initialized or not). The other six
look into what these two take as one step or as given: `ParseActions` at what
`scene::load` does, `SceneGraph` at `scene::initialize` and `scene::shutdown`,
`ScriptEvents` at `update` and the events of a cascade, `TimeSensor` at the handler that
`update` calls for a timer, `ProtoInstance` at a node of the world that is an instance,
`ExternprotoLoading` at `ParseProto` and `SubstituteNodes` of `BrowserThreads`.
The first five meet in one thread and in no variable; `ExternprotoLoading` has several threads, but
needs of a parse only the order of the file's statements. So a run checks two or three of them, each with the others at
rest: `part` says which one runs, in `MCNodes` (the nodes with a behaviour of their own), `MCScenes` (what events do in a
scene) and `MCWorlds` (how worlds and instances come to be).

### BindableNodes

The C++ call stack is made explicit. `calls` is a sequence of frames; a frame is a
`bind` or `unbind` in progress, with the place (`pc`) at which it goes on when its
callbacks have returned and the set (`todo`) of routes not yet delivered. Each
action runs the code between two callbacks:

| Code | Actions |
|---|---|
| `bound_node_stack::bind` (`node_impl_util.h:1292`) | `BindEnter` up to the FALSE of the old top, `BindPush` from there to the node's TRUE |
| rest of `viewpoint_metatype::bind` | `BindReturn` |
| `bound_node_stack::unbind` (`node_impl_util.h:1327`) | `UnbindEnter` up to the FALSE of the node, `UnbindErase` from there |
| rest of `viewpoint_metatype::unbind`; of `do_shutdown` if that is the caller | `UnbindReturn` |
| `event_emitter::emit_event` (`lib/event.h:247`) | `Deliver`, one listener at a time, in any order (the listeners are a set of pointers) |
| `scene::initialize`, `registry::init`, `scene::shutdown`, the reset in `set_world` | `InitializeNode`, `FindInitialViewpoint`, `InitializeMetatype`, `StartWorld`, `BeginShutdown`, `ShutdownNode`, `ReplaceScene` |
| an event from anywhere else | `SetBind`, any node, any value |

`unbind` keeps an iterator across a callback. If the deque has changed by then the
iterator is invalid: the model stops with the fault `"iterator"` or erases any element.
An assertion that fails is the fault `"assert"`; the program then stops (a build with
`NDEBUG` goes on with the pointer). Recursion beyond `MaxDepth` frames is the fault
`"overflow"`. Routes whose value is negated stand for a Script or another node that
turns `isBound` around on the way.

### BrowserThreads

`pc[t]` is where a thread is, named after what it does next; `call[t]` is the blocking
call a Script or parser of that thread is in (`load_url` as `lock`, `join`, `spawn`;
`create_thread` as `create`). Lock ownership is not a variable: it follows from where
the threads are, as the comment at the head of the module tells, so no action can
forget to release. A lock that is taken and released within one step is a guard.

| Code | Actions |
|---|---|
| `browser::update` | `BeginUpdate`, `EndUpdate`; in between, Scripts run |
| a Script that runs in any thread (`RunsScripts`: in `update`, with an event from a stream, in `do_initialize`, in `do_shutdown`) | `LoadUrl`, `CreateStream` |
| `browser::load_url` | `LoadUrl`, `LockLoader`, `JoinLoader`, `SpawnLoader` |
| `root_scene_loader` | `FetchWorld`, `WorldFetched` (or the fetch fails and the thread ends) |
| `browser::set_world` | `LockScene`, `JoinProtos`, `ShutdownScene`, `ShutdownMetatypes`, `UpgradeScene`, `ResetScene` with `~scene`, `LoadScene` (or the parser throws), `InitializeScene`, `InitializeSubstitutes`, `FinishScripts`, `Tell` |
| `scene::create_vrml_from_url`, `vrml_from_url_creator` | `CreateStream`; `FetchStream`, `EnterStream`, `ParseStream`, `DeliverNodes` |
| the parser at an EXTERNPROTO, `load_proto` | `MeetExternproto`, `CreateProto`; `FetchProto`, `ParseProto`, `SubstituteNodes`, `CheckScene`, `RegisterNodes`, `FinishProto` |

From Boost we use that a `shared_mutex` lets no reader in while a writer waits, and
that `thread_group::create_thread` and `join_all` exclude each other. `proto_node_`
and `scene_` of an `externproto_node` are written and read by two threads without a
common lock; each side passes through a mutex between its write and its read, so the
outcomes are the interleavings of the two, which the model has.

### TimeSensor

The handlers of a TimeSensor send events in the middle of what they do, and whoever listens may send it events
of its own before they go on. `handlers` is the stack of the handlers at work that have something left to do, each with what it is (`todo`):

| Code | Actions |
|---|---|
| `do_update` (517), up to the first event it sends | `Tick`: `Start`, `Run` or `SensorIdle` |
| the `isActive` event of a tick (537, 600) | `Tell`, with the value that `is_active_` has then |
| the end of `do_update` (611) | `Seen` |
| `exposedField::do_process_event` for `enabled`, up to the first event of the side effect (288, 294) | `SetEnabled` |
| 296 and 297 | `Store`, `Tell` |
| the other four fields | `SetCycleInterval`, `SetStartTime`, `SetStopTime`, `SetLoop`: they store before they send, and have nothing left to do |

Any event for a field may come between two of these steps, with the timestamp of the handler that is interrupted
(listeners pass on the timestamp they get), and a tick only when no handler is at work. An event from elsewhere carries the time of the clock or an
earlier one, as another TimeSensor's do at the end of its run (570); `set_cycleInterval` and `set_startTime` make it `lastTime` (182, 351). A listener gets its value by
reference, so what sends a `set_enabled` may have changed the value when 296 reads it again (`SenderChanges`). Times are whole numbers. `SetBack` is the
host's clock that is set back.

### ScriptEvents

`stack` has a frame for each loop that is in progress: an emitter that sends to its
listeners, the `direct_output` loop of a Script, `update` over the Scripts. What the
code of a Script does is any choice of what the engine offers it: set an eventOut, write
to another node's eventIn, add and delete a route. `world` fixes the routes and the
writes a behaviour may come to have, and with them who may be called inside whose
call; the properties say for which worlds they hold in terms of it (`LoopFree`).
Only the listeners' and the emitters' mutexes matter here, to one thread that takes a
mutex that it holds (`"deadlock"`).

### ProtoInstance

A definition is the body (the nodes in the fields of each node, and any number of routes between them) and the nodes that
an eventIn, eventOut or exposedField IS mapped to. A clone is named by its
path in the body, as in `path_getter`, with indices as long as the lists are. `Cloned` are the nodes that `proto_impl_cloner`
makes; nothing is ever added to its `traversed_nodes`, so a node that is used twice
becomes two. `Resolve` is the first path that a depth-first search finds. Events then
travel in frames as in `ScriptEvents`, with the time stamp that `proto_eventout`'s
listener compares with `last_time_`. A frame knows where its value is kept (`Sent`), because listeners get it by reference: a clone, the instance's
eventOut, or something in the world.

Delivery is re-entrant. `InstanceEvent` and `BodyEvent` may come at any moment, also while calls are in progress: a Script in the body or
around the instance gets an event and writes to the instance or to a node of the body before it returns. `SourceChanges` is a sender in the world that gets another value while its event is
being delivered. `proto_exposedfield` passes an event in (`InPasses`) and stores and sends it itself only when that is done (`InReturns`).

### SceneGraph

| Code | Actions |
|---|---|
| `node::initialize`, `node::shutdown`, one node at a time | `Descend`: `Begin`, `EnterFields`/`NextField`, `LeaveNode`, `NextRoot` |
| `grouping_node_base`'s `addChildren`, `removeChildren`, `set_children` | `ChildrenEvent`, from a Script that is being initialized, updated or shut down |
| reference counts | `Forget` and `Survivors`: what neither the scene, a live node, a Script nor the stack refers to is freed |
| `browser::update`, `do_modified`, `render_child` | `UpdateFreed` (a freed node is on a list), `Modified`, `Render` |
| the end of the world in `set_world` | `End`, `Reset` |

### ParseActions

A file is not a text but the sequence of the grammar's choices: each action is one rule
of the grammar, with the semantic actions it calls in their order; the conditions
of `if_p` and the checks that throw are its guards. `ParseError` breaks off anywhere,
with everything the destructor of the actions then does in one step. Brackets cost no
token. `quirks` records what is odd about the file, so that a property can name the
causes of a fault. Which interfaces a Script or a PROTO may declare is a matter of
`Clash`, the order of a `node_interface_set`. A USE at the root of a file or of a PROTO's body
(`DEF A Group {} USE A` is a valid file) takes the top of a stack of nodes in progress that is empty
(`lib/local/parse_vrml.h:767`), which is undefined: in `Use` the comparison with what is not there either stops the program
(the fault `"empty"`) or fails, and the name is looked up.

### ExternprotoLoading

A web of files is fixed at first: of each file its EXTERNPROTOs, its PROTOs with the one node in their body, and its
root nodes, in order. A URL is a file and the names in its fragment, which is what `path(scope)` makes too, so that
the clash of registrations is in the model. `thread[t]` has a thread's place and its local variables; a place is where another
thread can come between: at each call of the registry, at a mutex, before each node.

| Code | Actions |
|---|---|
| `on_externproto` | `Find`, `RegisterId`, `RegisterUrl`, `NewType` (`do_create_type`) |
| `on_proto_finish` | `FinishProto`, `CheckFirst`, `RegisterFirst` |
| `on_node_finish`: `create_node` of the type | `MakeBuiltIn`, `MakeInstance` (a PROTO's body), `MakeExtern` (waits, or passes on to the PROTO's type) |
| `load_proto` | `Fetch`, the parser's actions, `FindProto`, `Clear` |
| `set_proto_node_metatype`, `set_proto_node_type`, `set_proto_node` | `SetProto`, `SetType`, `MakeInstance` and `MakeExtern` for each node, `SetEnds` |

What a `shared_ptr` keeps is `ProtoLives`, `ScopeLives` and `MetatypeLives`. A type refers to its metatype, and a
load thread to the metatype it works for, without keeping them; when one that is gone is used the program has broken
(`broke`), as it has when the assertions find an expired type.

## 3. Runs

| Run | What it asks | Result |
|---|---|---|
| `nodes` | Three Viewpoints, two NavigationInfos, a Fog; routes from Viewpoints to an info and on to the fog, two of them negated. A TimeSensor with two startTimes, three stopTimes, a clock that is set back once and listeners that come back to it | `TypeOK`, `NoDuplicates`, `OnlyActiveIsBound`, `BrowserFollowsStack`, `NoDanglingNode`, `NoReentrancyFault`, `CascadesEnd`, `ImplementsBinding`; `DisabledIsInactive`, `NoFutureEvents`, `IsActiveIsTold`, `EndsExactly`, `RunsOncePerStart`, `RunsEnd` hold |
| `active_is_bound` | Is the active node always bound? | no, see findings |
| `active_viewpoint` | With one Viewpoint routed to another, does the browser follow the stack? | no |
| `initial_viewpoint` | Is the Viewpoint that the URL names bound first? | no |
| `shutdown_cascade` | Do only nodes of the scene become active? | no |
| `browser_threads` | One application thread, two loaders, a stream, two EXTERNPROTOs; Scripts call `load_url` and `createVrmlFromURL`, both the world and an implementation may hold EXTERNPROTOs | types, `OneLoader`, `ThreadsUseLiveScene`, `ListsEmptyAtReset`, `SubstitutesRun`, `ThreadsEnd`, `HangsAreFinal` hold |
| `load_hangs` | Does every `set_world` send `initialized`? | no |
| `script_load_url` | Does `load_url` return to a Script? | no |
| `late_initialized` | With `set_world` called directly too, is the world still initialized when `initialized` is sent? | no |
| `scenes` | Two Scripts, an exposedField and a sensor with up to three of seven routes and one of three direct writes. Five nodes (two groups, a Script, a timer, a Viewpoint) in five files, with two events for the children of groups | `LoopFreeIsSafe`, `NothingIsLost`, `DirectOutputIsSent`, `CallsReturn`, `EventsAreProcessed`; `FaultsHaveCauses`, `FileIsInitialized`, `OnlyStrayedStay`, `TraversalsEnd` hold |
| `lost_event` | Is a value that a Script sets on an eventOut always sent? | no |
| `worlds` | Every file of five statements; seventeen webs of up to three files with EXTERNPROTOs, with one or two of them opened; an instance of a PROTO with each of four bodies, two wirings, with and without a route from its eventOut back to its eventIn | `WorldsTypeOK`; `ParseFaultsHaveCauses`, `NodesAreKept`, `NamesAgree`; `ExternprotosEnd`, `NodesAreReplaced`, `RightProto`; `InReachesBody`, `OutFollowsBody`, `InstanceFaultsHaveCauses` hold |

**Bounds.** `nodes`: the stack functions distinguish a node that is absent, on
top or below the top, and a stack that is empty or has one, two or more nodes left;
three nodes of one metatype give all of these. The routes form a chain over three
metatypes, the longest the layers allow, with two sources for one target and a
negated and a plain one, so cascades bind and unbind at every depth; `MaxDepth` 4 is one
more than a layered cascade needs. Worlds follow each other without bound. The first
NavigationInfo precedes the Viewpoints in the file, so that it has been shut down
when their unbinding reaches it. `browser_threads`: two loaders are needed for a load to
meet its predecessor, a third would meet the second as the second meets the first;
two EXTERNPROTO threads for one to be nested in the other, or both in the world.
Loaders, streams and EXTERNPROTO threads are pools that are used up, which bounds
every behaviour; the theorems of section 5 have no such bound. `CHECK_DEADLOCK FALSE` is
there because the system may come to rest when the pools are empty, and because it
really deadlocks (`Hang`); what is asked of it instead is `ThreadsEnd`. In `scenes`, `worlds` and `lost_event` it is there because a fault stops the program, and
because a file, a load or the bounded events come to an end; in `nodes` deadlock is checked.

The TimeSensor of `nodes`: its cycle of 2 from startTime 0 or 1 ends at 2 or at 3, the last time of the clock, so that a run starts, ends
and is over, and ticks fall on, before and after its end; stopTime 0 is the default, 1 and 3 are before, at or after startTime and
the end of the cycle. Two handlers (`MaxHandlers`) are a tick or a `set_enabled` with another
`set_enabled` inside it: all that a third could find is already there.

`scenes`: three routes make the longest chain and the shortest circle of the
world; `MaxDepth` 9 is more than a chain needs, so only circles overflow. Two updates show what the
first leaves for the second.

The five
files of the graph have a node that is used twice, a Viewpoint, a Script that refers to itself, a group that
only a Script holds, a group that is a root too; two events can move a node from one group to another.

`worlds`: five statements
(brackets are free) are enough for each fault's cause. The webs have each relation of two files once: a file whose EXTERNPROTOs are used in
a body, by a root node or not at all, two ways to a file, circles of one and two files; a URL whose fragment names an EXTERNPROTO
of another file, and two threads that open files with the same EXTERNPROTO, or the same file. Three metatypes are one for each file and one more; only circular webs would make a fourth, and stop
at the bound (`MaxMetatypes`). The bodies of the
instance are a tree without routes; a list of three nodes with a route between two of them, of which one node is used
twice; a Script in a field of its own before another node, with a loop of two routes; and a node inside another
instance. Two events, of which the second may come inside the first, make one that is late, one that overtakes another and, with two time stamps, one that comes
later but is earlier. An event makes at most four calls in these bodies unless it goes round (in, two clones, out), so a stack of eight overflows only
by a loop.

**Fairness.** `BindableNodes`: weak fairness of `CallStep`, since a cascade is one thread
inside nested calls and nothing in it waits. No step of the world is fair.
`BrowserThreads`: every thread that can go on eventually does; fetches end (with
success or not) and a Script's function returns. The application is not obliged to
call anything, only to come back from `update`. Taking a lock is weakly fair: the
loaders compete for `scene_mutex_` at most as many times as there are loaders.
`TimeSensor`: weak fairness of `HandlerStep`, since listeners return, and strong fairness of ticks and of ticks at a later time than the last: viewers call `update` from a timer (`openvrml-xembed/browser.cpp:1153`)
and their clock goes on, whatever events come in between.
`ScriptEvents`: weak fairness of `Step`, the thread inside its calls; strong fairness of
`Update`, which other events of the application's thread precede again and again without
keeping the timer from coming. `SceneGraph`: weak fairness of the traversal in progress.

## 4. Properties

*Binding.* `NoDuplicates` and `OnlyActiveIsBound` hold at every step, in the middle of
cascades too. `BrowserFollowsStack` is about metatypes with no call in progress,
since `bind` tells the browser last. `NoDanglingNode` relates the stacks, `first` and
`viewpoint_list_` to the nodes that are in the scene whenever no cascade is under
way, during shutdown in particular. `ImplementsBinding` is refinement: with `VisibleStack`, which
lets a `bind` that waits for its first callback stand for the stack it found, every
step is one atomic operation of `BindingStack` or none.

These hold for *layered* routes: `isBound` is routed from one metatype to another,
never in a circle. A Viewpoint routed to a Viewpoint already breaks
`BrowserFollowsStack` (run `active_viewpoint`); negated routes within a metatype
also break `OnlyActiveIsBound` and `NoReentrancyFault`. The proofs have this
hypothesis spelled out (`Layered`).

*Threads.* `OneLoader`, `ThreadsUseLiveScene`, `ListsEmptyAtReset` and `SubstitutesRun` are
state invariants over several threads. `InitializedIsCurrent` is an action property: whenever a `set_world` sends `initialized`, the browser's world is initialized. A setter that only waits
for the locks does not break it, nor does one whose file did not parse (its `initialized` is not asked about); the run's trace is one in which a world that was loaded and initialized has been shut down by the next setter. `ThreadsEnd` says
that there are no ways to wait for ever but the three that `Hang` describes:
`StreamHang` (`~scene` joins a stream that waits for `scene_mutex_`), `ScriptHang` (a Script waits in `load_url`
for a loader that waits for the thread the Script runs in, see `WaitsFor`), `NestedHang` (`join_all` against
`create_thread`). `HangsAreFinal` says that each of them is a deadlock and no passing delay, so that
`ThreadsEnd` excuses nothing else.

*Time.* `RunsOncePerStart` is the one that takes the longest behaviours to break: a startTime stays
in the past when its run has ended, and any order of ticks and of events for `loop`,
`stopTime`, `cycleInterval` and `enabled` might begin it again. (Enabling is left out of it: it
starts a run regardless of startTime, `time_sensor.cpp:266`.) What does begin it again is named in it: a clock that was set back or a
`set_cycleInterval` with a timestamp before `lastTime` (`rewound`), and `set_enabled` events that cross. `NoFutureEvents` and `EndsExactly` are about the
end of a run, whose time is computed from the fields and not from the tick.

`DisabledIsInactive` holds whenever no `set_enabled` has `is_active_` yet to store, except for events that cross (`crossed`): a listener of `cycleTime`, `time` or
`fraction_changed` that sends `set_enabled` while another one is at work, or changes the value that the first was sent. With
`set_enabled` FALSE inside of a `set_enabled` TRUE the sensor ends up disabled and active, for good: the inner event finds `is_active_` FALSE and does nothing (`time_sensor.cpp:266`), the outer one
stores TRUE (296). `IsActiveIsTold` is what listeners of `isActive` may rely on in spite of it: they know the present value whenever no such event is under way. That the events alternate they may not:
between 562 and 600 a listener may enable a sensor whose run has ended, and both events say TRUE. `RunsEnd` is liveness.

What holds of the
code and is odd: the end is reported at time 0 if stopTime has its default value
(`time_sensor.cpp:565`), a looping sensor that stopTime ends reports the end of its first cycle,
and `cycleTime` is sent only if a tick falls on the end of a cycle exactly (593).

*Scripts.* `LoopFreeIsSafe` says which worlds are safe whatever the Scripts do, and what the only
way to block is. A `set_url` while a Script runs always ends in a fault and is left out of it. `NothingIsLost` and
`DirectOutputIsSent` relate flags and queues to the calls in progress; their exceptions are what the code does: a
value that is set while the eventOut's own events come back is never sent (finding 8), and what
`eventsProcessed` writes waits for the next event (`lib/script.cpp:152`). `EventsAreProcessed` is liveness.

*PROTO instances.* `InReachesBody` and `OutFollowsBody` say how far an instance behaves like its body. The first is about an event that no other one overtakes; and
a node that is used twice comes apart, and only the first clone is wired (`lib/local/proto.cpp:625`). `OutFollowsBody` is about every order of events, but an event that is
not later than the one before does not leave the instance (`lib/local/proto.h:558`), so a TimeSensor that reports
its end at an earlier time is not heard outside; and of an exposedField it says that its node has its value only if nothing overtook the last event: a Script in the body that gets the event
and changes the node at once (a clamp, say) is heard, and then `proto_exposedfield` stores and sends the value that came in (`lib/local/proto.cpp:1021-1023`), and the two differ for good.
`InstanceFaultsHaveCauses`: the search for a node never returns from
a Script's reference to itself, and fails for a node inside another instance; and events run out of stack only if the instance's eventOut leads back to its eventIn, or if the body's own routes go round.

*Graph.* `FaultsHaveCauses` lists how events can stop the program through the graph: a NULL child
(`grouping_node_base.h:462`), a cycle (`lib/node.cpp:1855`, a node waits for itself), an added Viewpoint (`viewpoint.cpp:716` asserts a scene it
does not have), a child that is removed while it is being initialized (it is freed under its own call), one that is removed and so never shut
down (the assertions of `browser.cpp:1958`), or a group that is removed and its parent then put below it, while both are being initialized (a deadlock without a cycle). `FileIsInitialized` and `OnlyStrayedStay` say that nothing else goes wrong: removing during `initialize` moves the index over a
sibling, appending does not.

*Parser.* `ParseFaultsHaveCauses` names each kind of file that trips over an assertion or `terminate`; the chief ones
are a USE at the root, a field given twice, a type defined twice, a USE of a node that is still open, an event of a
Script of node type that IS mapped (its list is popped twice, `lib/local/parse_vrml.h:726` and 804), a body without its closing brace (the grammar's rule has no
assertion there, `lib/vrml97_grammar.h:2607`), and a value for an event, at which the destructor throws again (`lib/local/parse_vrml.h:120`).
`NodesAreKept` is about files that break off. `NamesAgree` relates the two tables of names that grammar and actions keep apart, and the ISs read with those of the definition.

*EXTERNPROTOs.* `ExternprotosEnd` (`LoadsEnd`) says when threads stop for good: no step leads a thread back, so what is asked is that
when none can go on, all have ended. Its exceptions are what the code does: circular files lock two metatypes in
opposite orders, or one twice (`lib/local/externproto.cpp:310`); the assertions at 220 and 236 fail for a file that only declares EXTERNPROTOs,
whose scope nothing keeps; and a registration is replaced (`lib/local/parse_vrml.h:314`) while a type still refers to what was
registered (or a URL's fragment names an EXTERNPROTO of that file, whose metatype is registered under its id, 311). The one before needs no odd files: a world that uses two PROTOs of one file by their fragments loads the file twice. `NodesAreReplaced`: a node is
made before, during or after the substitution, and none falls between; the exceptions are a registration overwritten by a late EXTERNPROTO, a
file without the PROTO, a PROTO that was freed, and a declaration that does not fit, at which the substitution stops, also for the types that
come after it. `RightProto`: the first PROTO of a file stays registered under its URL, whoever registers what meanwhile, except where a late EXTERNPROTO
overwrites it, after which the file's second PROTO takes its place: which PROTO a world gets is then a race. Not so either for nested PROTOs (the inner is
finished first), streams whose URL keeps the fragment, relative URLs in a file from another directory than the world's, and a fragment that names an EXTERNPROTO: what is
registered under that URL is then the metatype of the other EXTERNPROTO, which may have been made for another file. The proof of `RightProto` found
this exception: the invariant was not inductive without it, and the web that shows it is now one of the run's.

## 5. What is proved

| Theorem | States | Hypotheses |
|---|---|---|
| `BindableNodes_proof!TypeCorrect` | `Spec => []TypeOK` | `NodesAssumption` |
| `CascadesAreIsolated` | `CascadeInv` is an invariant | and `LayeredBy(rank)`, with enough stack |
| `StacksHaveNoDuplicates`, `BoundNodesAreActive`, `CascadesAreBounded` | `NoDuplicates`, `OnlyActiveIsBound`, `NoReentrancyFault` | `Layered` |
| `BrowserFollows`, `NothingDangles` | `BrowserFollowsStack`, `NoDanglingNode` | `Layered` |
| `ShutdownCompletes`, `OnlyBindingAsserts` | a shutdown that no assertion stops empties the world; only `bind` of a node outside the scene asserts | `Layered` |
| `BindingIsImplemented` | `ImplementsBinding` | `Layered` |
| `BrowserThreads_proof!ThreadsTypeCorrect`, `OneLoaderAtATime`, `ScenesOutliveThreads`, `ListsAreEmptyAtReset`, `SubstitutesAreInitialized` | `TypeOK`, `OneLoader`, `ThreadsUseLiveScene`, `ListsEmptyAtReset`, `SubstitutesRun` | `ThreadsAssumption` |
| `HangsAreDeadlocks` | `HangsAreFinal` | `ThreadsAssumption` |
| `Events_proof!SensorIsTyped`, `DisabledSensorsAreInactive`, `EventsAreNotAhead`, `ListenersKnowIsActive`, `StartsOnce`, `RunsEndExactly` | `SensorTypeOK`, `DisabledIsInactive`, `NoFutureEvents`, `IsActiveIsTold`, `RunsOncePerStart`, `EndsExactly` | `TimeSensorAssumption` |
| `ScriptsTypes`, `DirectOutputSent`, `NoValueIsLost` | `ScriptsTypeOK`, `DirectOutputIsSent`, `NothingIsLost` | `ScriptEventsAssumption` |
| `LoopFreeWorldsAreSafe` | `LoopFreeIsSafe` | and `DeepStack` |
| `InstanceTypeCorrect`, `EventsReachTheBody`, `OutputFollowsTheBody` | `InstanceTypeOK`, `InReachesBody`, `OutFollowsBody` | `ProtoInstanceAssumption` |
| `FaultsAreExplained` | `InstanceFaultsHaveCauses` | and `BodiesAreWhole`, `MaxFrames >= MaxEvents * (Cardinality(Nodes) + 2)` |
| `ExternprotoLoading_proof!ExternprotoTypes`, `NodesGetReplaced`, `RightProtoIsSet` | `ExternprotoTypeOK`, `NodesAreReplaced`, `RightProto` | `FilesAssumption`, `ExternprotoAssumption` |
| `SceneGraph_proof!GraphTypes`, `StrayedNodes`, `WholeFileInitialized`, `FaultCauses` | `GraphTypeOK`, `OnlyStrayedStay`, `FileIsInitialized`, `FaultsHaveCauses` | `SceneGraphAssumption` |
| `ParseActions_proof!NamesAgreement`, `ParseFaults_proof!ParseFaultCauses` | `NamesAgree`, `ParseFaultsHaveCauses` | `ParseAssumption` |

They hold for every set of nodes, metatypes, layered routes and worlds; for every
number of threads of each kind; those of `TimeSensor` for every clock, however often it is set
back, all values of the fields with a positive cycleInterval, and handlers nested to any depth; those of `ScriptEvents` for every finite set of Scripts
and exposedFields, all routes and all code; those of `ProtoInstance` for every body of a finite set of nodes, with lists of any length and any routes between them, up to the depth `MaxPath`, every wiring, all time stamps, and any number of events at any moment; those of `ExternprotoLoading` for all files, however long, and any number of
threads that open them; those of `SceneGraph` for every finite set of nodes, all files and any number of events of any length; those of `ParseActions` for every table of built-in types, all names and files of any length and depth, which may break off anywhere. The assumptions say what the code itself guarantees or the C++ types do: sets of nodes are finite and disjoint; in a
file, a scope has one type of a name (`lib/local/parse_vrml.h:331` and 608); a type of the profile has one interface of a name, and none without a name.

*Cascades.* None of the three is inductive: a step of one call may break what another,
further out, relies on when its callbacks return. `CascadeInv(rank)` adds what every
suspended call relies on (`FrameInv`: a node about to be pushed is not on the stack and no
node of its metatype is bound; a node about to be erased is on the stack the call
remembers) and why nothing disturbs it (`CallsAscend`: the calls in progress belong to
metatypes of strictly increasing rank). The step from a frame to the
next uses that a route goes up in rank; then an action of the innermost call touches
the stack of no other call in progress, and the number of frames is bounded by the ranks.

*The active nodes.* `ActiveInv`, on top of `CascadeInv`, says that a stack the browser follows holds nodes of the scene, and that
its top is what the browser has, unless a call of the metatype is in progress. The one exception inside a call
is the node that it has just pushed (`JustPushed`): `bind` asserts only afterwards, when it tells the browser, that the node is in the
scene. Where that assertion fails the program stops, which is why no invariant about later states needs the case. `ListsInScene` does the same for `first` and
`viewpoint_list_`, and `ShutdownInv` says which nodes `scene::shutdown` has yet to come to. `LostFrom` says of a suspended `bind` that the stack is the one it found without
its node; with it the refinement goes step by step: entering, delivering and returning leave `VisibleStack` as it is, `BindPush` and `UnbindErase`
are one `BindNew`, `BindAgain` or `Unbind` of `BindingStack`, and `ReplaceScene` is its `NewWorld`.

*Threads.* `ThreadsInv` joins the properties with `LoaderInv` (a thread about to start a loader is
alone and the previous loader is dead), `SetterInv` (one `set_world` holds the scene) and `ProtoInv`
(from `join_all` until the new world is parsed there is no EXTERNPROTO thread, because
only threads that parse start one; none registers a node before the new world is initialized). One lemma per action shows that it is preserved.
For `HangsAreFinal`, `StepFacts` sums up what any step may do: a thread's place changes only by a step of its own and never while it is in a call,
`updating`, `loader`, `scene` and the lists each by one kind of action. With it, each thread of a hang is shown to be where it was after every step: its own
step waits for another of them. `UrlInv` is needed for `ScriptHang` only: who waits in `load_url` runs a Script or is the application.
`ThreadsInv`, `UrlInv` and `CascadeInv` were checked with TLC on the runs' instances before they were proved.

*TimeSensor.* `SensorInv` joins the properties with two facts. `StartIsSeen`: once a tick has started the sensor, the tick that is at work, or else `lastTime`, has
passed startTime, or is equal to it while the run lasts; that is why `RunsOncePerStart` holds, which is not
inductive without it, since a tick starts the sensor only if startTime does not lie before `lastTime`. `Undisturbed`: unless `set_enabled` events have crossed, what the one at work will store is what `enabled` is,
which is what `DisabledIsInactive` needs of `Store`. `EndIsNotAhead` shows that the end
of a run that a tick notices is not later than the tick; `EndsExactly` is then a fact about one step from a state of `SensorInv`. What a handler leaves of its work
(`HandlerGoesOn`, `HandlerReturns`) and what an event's timestamp may be (`EventTime`) are lemmas of their own; there is one lemma for each kind of step.

*Scripts.* `CallsInv` ties the stack to the graph of calls. `WorldsClosed` shows that `Nested` closes the graph under composition: by the least counterexample among the
sets of inner nodes, since induction itself is out of reach; `Nested` is a recursive function of its own, and not one of the module Graphs, for that reason. Then any two
frames are a pair of the graph (`Linked`), and what a frame or a queue has yet to send is a route or a write of the world (`CallFrameInv`, `Written`).
`DirectOutputSent` and `NoValueIsLost` (from `SentOnce`) are about the frames that answer for a flag. `LoopFreeWorldsAreSafe`: in a loop-free world the frames are different calls, so by the pigeonhole principle
there are no more than calls in the world. Its hypothesis `DeepStack` says that the stack has room for one frame of each
and for `update`; `MaxDepth` stands for the thread's real stack.

*PROTO instances.* `InstanceInv` says of the middle of a call what the properties say of its end. `HeardInv` and `OutInv` hold whatever is sent inside of what: the world has heard the eventOut's value or
is still to hear it (`Pending`), and an eventOut has the value of its one node, unless that node's event is on its way to it or came too late. `NotOvertaken` adds, as long as no event has come inside another
and no sender has changed its value, that all calls in progress send one value (`OneValue`), that each node behind an eventIn that is passing its event on has the value or is among those still to get it (`Arrives`), and that what a node or the eventOut has not got is on its way (`InInv`, `FieldInv`). `StepKeeps` shows once what every delivery and return has in common.
The properties then need that `Resolve` finds a clone, and the only one of a node that is used once: `FirstOfPaths`, for a finite set of paths and the order of a depth-first
search, by the smallest set that has no first one (`BeforeIsTransitive`, `BeforeIsTotal`). `NodeAt` is a recursive function; that it exists, and that a path's last node is
in a field of the one before, is proved by a least counterexample too (`WalksExist`, `NodeAtChild`).
`FaultsAreExplained` has two hypotheses: every node of a body is reached by some path (`BodiesAreWhole`, which is what a body is,
up to `MaxPath`), and the stack has room, for each event from outside, for one call of each node, the eventIn and the eventOut. (TLC finds the first true of the run's bodies; the run has less stack than the second asks for,
since its events make four calls at most.) `Chained`, of instances without a way back from the eventOut to the eventIn, says that each call in progress began with an event from outside or was made by the one below it, by an IS or a route. With an overflow there are then more calls than events and nodes, so two calls of one node (or end) with
no event from outside between them (`OneCallEach`, `FewCalls`), and the nodes from the one to the other are a set of which each has a route to another, `Loops`.

*EXTERNPROTOs.* Neither property says anything of a load in progress, so `LoadInv` does: what a thread has at hand fits its place
(`PlaceInv`), what it has registered stays unless overwritten (`ReadInv`), every type and PROTO was made by a statement that was read (`EtypeInv`, `BodyInv`),
while types are set the rest are `ToBeSet` (`SetInv`), and at the end all are or there is an excuse (`OutcomeInv`). A step moves one thread; `Grows` says what it leaves as it is for the
others, and each action is proved once against it. That a PROTO which was freed stays so is what makes the excuses last. `RightInv`, on top of it, follows a PROTO to wherever it is kept: in the
registry, at a thread's hand, in a file's scope, in a metatype, and in a type it is the right one for the URL.

*The graph.* Reachability is `Closure`, a fold of one function over the nodes. That this many steps reach a fixed point cannot be had by induction (the theorem takes an operator); instead `OrbitExists`
finds the partial results, by the least number for which there are none, `FoldIterates` shows that the fold is one of them, and `GrowingClosure` and `ShrinkingClosure` that a function that only adds, or only takes away, nodes has come to rest within as
many steps as there are nodes. From there on `Reach` is used through two facts: it is closed under `Referred`, and it lies in every set that is; `Attached`, `Survivors`, `Drawn` and `Modified` likewise.
`GraphInv` is five invariants. `GraphBase`: types, and nothing alive refers to a freed node. `ShutdownInv`: every set that holds the nodes the shutdown has yet to come to, and what they lead to in the scene, holds all of the scene that has not strayed
(the quantifier over sets is what makes it inductive: a step takes one node out of the sources and puts its fields in). `InitializeInv`: as long as events only append, the file's fields are the first of each group's, and a loop has put all that it has passed into the scene (`Passed`).
`CallsInv`: the calls in progress follow the graph. `OddInv`: a cycle or a NULL was put there. `FaultsHaveCauses` is then a fact about one step from a state of `GraphInv`, `Render` being the hardest: `Modified` answers "overflow" only on a cycle (`OverflowAnswers`).

The proof found three things in the model, each confirmed with a counterexample of TLC before it was changed. A deadlock needs no cycle: a Script whose `initialize` runs in the middle of a group takes the group out of the root and puts the root
below it, while both are in progress; the graph has no cycle at any moment, but the descent meets the root again (`FaultsHaveCauses` said that there had to be one; the fifth file of the run shows it). A node that an event takes out of a group during
the shutdown may be left in the scene although the graph still leads to it, through a group that was never initialized (`strayed` has it now). And a node that no field and no Script refers to is not alive to begin with (`GraphInit`).

*Parser.* The grammar's stack of rules says what the actions' stacks have to look like, and `Good` says that they do. `Shape`: the rules in progress follow the
grammar (`Callers`), a scope is open for each rule that opens one (`ScopeAt`), and in each scope the actions have a node in progress for each rule that needs one
(`CountIn` of `Holding`, with a place holder, a node 0, for an interface or default value). `GoodScope`, of each scope: `ScopeNames`, a name that the grammar knows belongs to a node
that is in progress or is finished and known to the actions; `ScopeCurrent`, that it is the *same* node, while nothing is named within a node of its own name; `ScopeSaid`, every IS that was read is in the definition
or in the data of a node in progress, and no other is; `ScopeBodies`, the nodes of a body that is not finished are not finished either. `Alone`: no node is in progress twice. None of it is inductive without the rest: that a node's end takes the data of the right node off the
right stack needs the shape, and that its name is then the grammar's needs `ScopeCurrent` of the moment before.
Each action is a chain of a few operators (`NodeFinish`, `SetValue`, `PopChildren`, `ProtoInstance`, ...), so each operator is shown once to keep `Good` or to fail (`Fine`), and the actions follow. What the destructor makes of
a broken file folds two of them over the rules that are left; `TablesExist` gets the partial results by a least counterexample, and `RecoveredIsOver` shows that a file that broke off never looks as if
it were still being parsed, so nothing is claimed of what it leaves in the tables. 
`ParseFaultsHaveCauses` needs an invariant of its own on top of `Good`, `ParseIsSound`. `ScopeLists`: a scope's `children` has a list for each rule that wants one (`CountIn` of `Listing`), so that a list is there whenever one is popped or added to; that holds of every
scope until an event of node type in a Script is IS mapped, and of the root for good, since only a PROTO has ISs. `ScopeRoutes`: the ends of a ROUTE are names that the grammar knows, hence, with `ScopeNames`, nodes that are finished or in progress, and at the end of the scope, where none is in progress, finished: `"routes"` does not happen.
`RootPart`, of the scope at the bottom: a node in progress can be created of what was read of it unless it was given an event (`Plain`); and while no name is given again to a node of another type, and no instance brings names with it, the node that the actions know by a name has the interfaces that the grammar checked the ROUTE against (`Alike`), so that
`add_route` does not throw and `vrml97_parse_actions` is not destroyed in the middle of a scene without a list. Whatever the rule at which a file breaks off, the root then has as many lists as nodes in progress, or one more (`RootIsHeld`), which is what the comment on the destructor claims (`lib/local/parse_vrml.h:105`): `Broken`. From there the
fold over the nodes in progress is proved by the same least counterexample: each step takes one node and one list (`Rooted`, `Salvage`), or ends in an exception, which is caught. The assertion of the first `on_node_finish`, outside of the `try`, has the causes that the property names: no node in progress and no list, after a scene whose ROUTEs failed, and a node that
cannot be created.

The preparation found errors in the model. `ParseFaultsHaveCauses` was violated when a name is given to a Script that is routed from, and then
to another Script without that event (the grammar's table forgets the first, `lib/vrml97_grammar.h:977`, and the route, which waits for the end of the scope, finds the second); the quirk `"renamed"` has this case now, and the Scripts of the run have an eventOut, with which it comes about.
And two interfaces are the same for the code when `node_interface_compare` orders neither before the other (`lib/node.h:158`), which is `Clash`: a Script that declares an eventIn `url` has two interfaces of that name, as its `url` is an exposedField, and is given a field twice
when both are read (the second is the assertion's). The model took any two interfaces of one name for a clash and so left these files out; the property now covers them, and the Scripts of the run declare such an eventIn.

*Only model-checked.* Liveness: `CascadesEnd`, `ThreadsEnd`, `CallsReturn`, `EventsAreProcessed`, `TraversalsEnd` and `RunsEnd`; the prover has
temporal reasoning but no `ENABLED`, so no fairness. `LoadsEnd` (in `ExternprotosEnd`) states absence of deadlock with `ENABLED`. Of `ParseActions`, `NodesAreKept` is a safety property and within reach; it needs that each node
stays with its parent through every operator, and through the destructor's fold. The bounds in `ParseTypeOK` follow from `ScopeLists` and `Shape`, but as sums over all scopes, which are folds. That the
parser's variables have their types is part of `Shape` (`StateSet`), and the type invariants of all other modules are proved (so `SensorTypeOK`, `ScriptsTypeOK` and `GraphTypeOK` are in no run).


## 6. Findings

1. `active_is_bound`: `unbind` tells the new active node only if more than one node is left
   (`lib/node_impl_util.h:1339`, `size() > 1` after the erase), against the documentation of the function.
2. `active_viewpoint`: `viewpoint_metatype::bind` makes its argument active after the cascade, whatever is on top by then (`viewpoint.cpp:134`).
3. `initial_viewpoint`: `do_initialize` binds `first` instead of `initial_viewpoint` (`viewpoint.cpp:176`).
4. `shutdown_cascade`: unbinding during shutdown binds nodes that have been shut down; `active_navigation_info`'s assertion fails (`lib/browser.cpp:1735`).
5. `load_hangs`: `set_world` joins the old scene's streams under the lock they need (`lib/browser.cpp:1957`).
6. `script_load_url`: `load_url` from a Script's `initialize()` joins its own thread (`lib/browser.cpp:2110`).
7. `late_initialized`: `initialized` is sent after the locks are released (`lib/browser.cpp:1921`), when the next `set_world` may have shut down the world it tells of.
8. `lost_event`: an eventOut's `emit_event` clears `modified_` after its listeners have returned; what the Script sets meanwhile is never sent (`lib/script.cpp:840`).

`NestedHang` is not a run of its own: no document promises anything of nested EXTERNPROTOs; `ThreadsEnd` names it.

## 7. Plan

Done since the plan was first made: the life of nodes over a changing graph (`SceneGraph`), `TimeSensor`, events with changing
routes and Scripts (`ScriptEvents`), PROTO (`ParseActions`, `ProtoInstance`), the loading of EXTERNPROTOs (`ExternprotoLoading`). Left, in this order:

1. Proofs of what is left of `ParseActions`: `ParseTypeOK`, `NodesAreKept`.
2. `ExternprotoLoading` as a refinement of the EXTERNPROTO threads of `BrowserThreads`; the events that a node has received when it is replaced (`externproto.cpp:495`).
3. An abstract specification of the parser (a scene is a function of the file's statements) that `ParseActions` implements for files without quirks.
4. The drag sensors, **Inline** and image streams, the X3D grammar, the association of viewers, `~browser`.

## 8. What is not modelled, and why

* **In the modelled parts.** `BindableNodes` runs one cascade at a time and has a fixed world:
  `update` and a loader's `scene::initialize` really can run cascades at once, without a lock on the stacks, and nothing could be said of
  the result. `BrowserThreads`: EXTERNPROTOs in streams; the vector of URLs that `vrml_from_url_creator` has only a pointer to (`lib/scene.cpp:499`), whose life depends on the caller; the initialization of nested EXTERNPROTOs' instances; the other locks of the scene and the registry,
  which are taken for the duration of one step; Scripts that run while their scene is shut down (`scene()` is null then and the script
engines dereference it); callbacks of listeners; `replace_world` (which stops in
  `scene::nodes`, `lib/scene.cpp:345`, a thread waiting for itself); `~browser`; Inlines' threads. `scene::initialize` is three steps: every node gets its `scene_` and joins the lists, then the substitutes, then the Scripts' `initialize()` run;
the code goes node by node. A relative URL makes an EXTERNPROTO's fetch wait for the end
  of `scene::load` (`url_mutex_`); the model allows it to be earlier, as with an absolute one.
  `TimeSensor`: floating point; the values of `fraction_changed`, `time` and `cycleTime` (what their listeners may do to the sensor is modelled). `ScriptEvents`: values and their types, the
  fields of Scripts, the choice of an engine, more than one thread. `ProtoInstance`: fields of node type that an instance is given,
  `do_assign_field`, the initialization of the body. `SceneGraph`: which child a Switch or LOD shows, matrices, bounding volumes (those of a changed
  node's ancestors are never marked dirty, `lib/browser.cpp:2639`, so that culling may use an old one), lights. `ParseActions`:
  tokens, plain values, EXTERNPROTO's interfaces, the names `set_x` and `x_changed` of an exposedField's events. `ExternprotoLoading`: more than one URL in an EXTERNPROTO, EXTERNPROTOs in the body of a PROTO, the
  lock of a type's own mutex (only taken under its metatype's), the events and interfaces of the nodes, worlds that are replaced meanwhile (`BrowserThreads`).
* **Planned parts.** Sensors other than TimeSensor, Inline, the X3D grammar (section 7).
* **Out of reach or of no interest to a model checker.** URIs and tokens (text), field values and
  basic types, bounding volumes, geometry and interpolators (floating point), the OpenGL renderer, the JavaScript
  and Java bindings, node modules without behaviour, the player, the XEmbed control and the browser plug-in (toolkit glue), the dynamic loader.
