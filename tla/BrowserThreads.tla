--------------------------- MODULE BrowserThreads ---------------------------
(***************************************************************************)
(* The threads of openvrml::browser and the locks they meet at.            *)
(*                                                                         *)
(* browser::load_url starts a thread that fetches a world and passes it to *)
(* browser::set_world; set_world shuts down the old scene, replaces it,    *)
(* parses and initializes the new one, and tells the listeners.  Parsing   *)
(* an EXTERNPROTO starts a thread that fetches its implementation and      *)
(* substitutes it in nodes that exist by then.  A Script may call load_url *)
(* itself, or createVrmlFromURL, which starts a thread of the scene.       *)
(* Scripts run in whatever thread an event, or the initialization or       *)
(* shutdown of their node, runs in.                                        *)
(*                                                                         *)
(* Who holds which lock follows from where each thread is:                 *)
(*   scene_mutex_                   Inside (upgrade), "reset" (exclusive), *)
(*                                  ReadsScene (shared)                    *)
(*   load_root_scene_thread_mutex_  call "join" or "spawn" (upgrade)       *)
(*   timers_mutex_, scripts_mutex_  updating (shared); taken exclusively   *)
(*                                  within the steps that WantTimers       *)
(*   load_proto_thread_group_       "joining" (shared); taken exclusively  *)
(*                                  within CreateProto                     *)
(***************************************************************************)
EXTENDS Naturals, FiniteSets

CONSTANTS
  Apps,         \* threads of the application, which call load_url and update
  Direct,       \* threads of the application that call set_world, once
  Loaders,      \* threads that load_url may start
  Streams,      \* threads that create_vrml_from_url may start
  Protos,       \* threads that EXTERNPROTOs may start
  ScriptCalls,  \* what the Scripts of a world call
  Externprotos, \* which files hold EXTERNPROTOs: worlds, implementations
  NoThread

Setters == Direct \cup Loaders

Threads == Apps \cup Setters \cup Streams \cup Protos

ASSUME ThreadsAssumption ==
  /\ IsFiniteSet(Threads) /\ NoThread \notin Threads
  /\ Apps \cap (Setters \cup Streams \cup Protos) = {}
  /\ Setters \cap (Streams \cup Protos) = {} /\ Direct \cap Loaders = {}
  /\ Streams \cap Protos = {}
  /\ ScriptCalls \subseteq {"load_url", "create_vrml_from_url"}
  /\ Externprotos \subseteq {"world", "implementation"}

VARIABLES
  pc,          \* where each thread is
  call,        \* the call within that place that may block
  updating,    \* the threads inside browser::update
  loader,      \* load_root_scene_thread_
  scene        \* the number of the root scene, which counts the worlds

VARIABLES
  sceneOf,     \* the scene that a stream's or an EXTERNPROTO's thread refers to
  parent,      \* the thread that met the EXTERNPROTO
  initialized, \* whether the nodes of the root scene have their scene_
  substituted, \* the EXTERNPROTOs whose nodes have their proto_node_
  timers,      \* whose nodes are on timers_ and scripts_
  event        \* the browser_event that listeners saw last

threadVars == <<pc, call, updating, loader>>
sceneVars  == <<scene, sceneOf, parent, initialized, substituted, timers, event>>
vars       == <<threadVars, sceneVars>>

World == "world"      \* the nodes of the world's own file, in timers

-----------------------------------------------------------------------------
(* Locks. *)

Inside == {"joining", "shutdown", "metatypes", "upgrade", "reset", "load",
           "initialize", "substitutes", "scripts"}

ReadsScene(t) == pc[t] = "fetching" \/ (t \in Streams /\ pc[t] = "parse")

SceneReadable == \A t \in Setters : pc[t] # "reset"

(* The EXTERNPROTOs of the world's own file whose nodes are there. *)
Substitutes == {p \in substituted : parent[p] \in Setters}

(* Whether t is about to put nodes on timers_ and scripts_, or take them off. *)
WantTimers(t) ==
  \/ pc[t] \in {"initialize", "register"}
  \/ pc[t] = "shutdown" /\ timers # {}
  \/ pc[t] = "substitutes" /\ Substitutes # {}

TimersFree(t) == WantTimers(t) => updating = {}

LoaderUnlocked == \A t \in Threads : call[t] \notin {"join", "spawn"}

-----------------------------------------------------------------------------
(* Threads. *)

Alive(t) == pc[t] \notin {"unborn", "done"}

Unborn(pool) == {t \in pool : pc[t] = "unborn"}

Asking(calls) == {t \in Threads : call[t] \in calls}

Goto(t, place) == pc' = [pc EXCEPT ![t] = place]

Enter(t, what) == call' = [call EXCEPT ![t] = what]

At(t, place) == pc[t] = place /\ call[t] = "none"

(* The thread t goes from one place to another, and does nothing else. *)
Move(t, from, to) ==
  /\ At(t, from) /\ Goto(t, to)
  /\ UNCHANGED <<call, updating, loader, sceneVars>>

(* The call of the thread t makes some progress, and does nothing else. *)
Proceed(t, from, to) ==
  /\ call[t] = from /\ Enter(t, to)
  /\ UNCHANGED <<pc, updating, loader, sceneVars>>

(***************************************************************************)
(* The thread t runs a Script of the root scene: script_node::update, an   *)
(* event from a stream, script_node::do_initialize or do_shutdown.         *)
(***************************************************************************)
RunsScripts(t) ==
  /\ call[t] = "none"
  /\ \/ t \in updating /\ World \in timers
     \/ pc[t] = "deliver" /\ initialized
     \/ pc[t] = "scripts"
     \/ pc[t] = "shutdown" /\ World \in timers

-----------------------------------------------------------------------------
(* browser::update and browser::load_url. *)

(***************************************************************************)
(* boost::shared_mutex lets no reader in while a writer waits.             *)
(***************************************************************************)
BeginUpdate(a) ==
  /\ At(a, "idle") /\ a \notin updating
  /\ \A t \in Threads : ~WantTimers(t)
  /\ updating' = updating \cup {a}
  /\ UNCHANGED <<pc, call, loader, sceneVars>>

EndUpdate(a) ==
  /\ a \in updating /\ call[a] = "none"
  /\ updating' = updating \ {a}
  /\ UNCHANGED <<pc, call, loader, sceneVars>>

(* Bounded by the number of Loaders. *)
LoadUrl(t) ==
  /\ \/ At(t, "idle") /\ t \notin updating
     \/ RunsScripts(t) /\ "load_url" \in ScriptCalls
  /\ Cardinality(Asking({"lock", "join", "spawn"})) < Cardinality(Unborn(Loaders))
  /\ Proceed(t, "none", "lock")

LockLoader(t) ==
  /\ LoaderUnlocked
  /\ Proceed(t, "lock", "join")

(* Mutation: load_url does not join the thread it is about to replace. *)
JoinNoLoader(t) == Proceed(t, "join", "spawn")

JoinLoader(t) ==
  /\ loader # NoThread => ~Alive(loader)
  /\ Proceed(t, "join", "spawn")

SpawnLoader(t) ==
  /\ call[t] = "spawn" /\ Unborn(Loaders) # {}
  /\ LET n == CHOOSE n \in Unborn(Loaders) : TRUE
     IN  loader' = n /\ Goto(n, "fetch")
  /\ Enter(t, "none")
  /\ UNCHANGED <<updating, sceneVars>>

-----------------------------------------------------------------------------
(* root_scene_loader, and browser::set_world. *)

(* scene_mutex_ is held, shared, while the world is fetched. *)
FetchWorld(u) == u \in Loaders /\ SceneReadable /\ Move(u, "fetch", "fetching")

WorldFetched(u) == \E to \in {"lock", "done"} : Move(u, "fetching", to)

LockScene(u) ==
  /\ \A t \in Setters : pc[t] \notin Inside
  /\ Move(u, "lock", "joining")

(* Mutation: the EXTERNPROTOs' threads are only joined by their metatypes. *)
JoinNoProtos(u) == Move(u, "joining", "shutdown")

JoinProtos(u) ==
  /\ \A p \in Protos : ~Alive(p)
  /\ Move(u, "joining", "shutdown")

(* scene::shutdown: the nodes leave the browser's lists and the scene. *)
ShutdownScene(u) ==
  /\ At(u, "shutdown") /\ TimersFree(u)
  /\ timers' = {} /\ initialized' = FALSE
  /\ Goto(u, "metatypes")
  /\ UNCHANGED <<call, updating, loader, scene, sceneOf, parent, substituted, event>>

(* externproto_node_metatype::do_shutdown joins its thread once more. *)
ShutdownMetatypes(u) ==
  /\ At(u, "metatypes")
  /\ \A p \in Protos : sceneOf[p] = scene => ~Alive(p)
  /\ event' = "shutdown"
  /\ Goto(u, "upgrade")
  /\ UNCHANGED <<call, updating, loader, scene, sceneOf, parent, initialized,
                 substituted, timers>>

UpgradeScene(u) ==
  /\ \A t \in Threads : ~ReadsScene(t)
  /\ Move(u, "upgrade", "reset")

(* Mutation: the old scene goes, no new one is made. *)
ResetSceneToNull(u) ==
  /\ At(u, "reset")
  /\ \A s \in Streams : sceneOf[s] = scene => ~Alive(s)
  /\ scene' = NoThread /\ substituted' = {}
  /\ Goto(u, "load")
  /\ UNCHANGED <<call, updating, loader, sceneOf, parent, initialized, timers, event>>

(* Mutation: the scene does not join its threads. *)
ResetSceneUnjoined(u) ==
  /\ At(u, "reset")
  /\ scene' = scene + 1 /\ substituted' = {}
  /\ Goto(u, "load")
  /\ UNCHANGED <<call, updating, loader, sceneOf, parent, initialized, timers, event>>

(***************************************************************************)
(* scene_.reset(): scene::~scene joins the threads of the old scene, while *)
(* this thread holds scene_mutex_ exclusively.  Then the registry and the  *)
(* scene are made anew.                                                    *)
(***************************************************************************)
ResetScene(u) ==
  /\ At(u, "reset")
  /\ \A s \in Streams : sceneOf[s] = scene => ~Alive(s)
  /\ scene' = scene + 1 /\ substituted' = {}
  /\ Goto(u, "load")
  /\ UNCHANGED <<call, updating, loader, sceneOf, parent, initialized, timers, event>>

(* scene::load; if it throws, set_world only tells the listeners. *)
LoadScene(u) == \E to \in {"initialize", "failed"} : Move(u, "load", to)

(***************************************************************************)
(* scene::initialize, in which every node gets its scene_ and the nodes of *)
(* the world's own file join the browser's lists.                          *)
(***************************************************************************)
InitializeScene(u) ==
  /\ At(u, "initialize") /\ TimersFree(u)
  /\ initialized' = TRUE
  /\ timers' = timers \cup {World}
  /\ Goto(u, "substitutes")
  /\ UNCHANGED <<call, updating, loader, scene, sceneOf, parent, substituted, event>>

(* Mutation: externproto_node::do_initialize does nothing. *)
InitializeNoSubstitutes(u) == Move(u, "substitutes", "scripts")

(***************************************************************************)
(* externproto_node::do_initialize initializes the node that has been      *)
(* substituted, if there is one by now.                                    *)
(***************************************************************************)
InitializeSubstitutes(u) ==
  /\ At(u, "substitutes") /\ TimersFree(u)
  /\ timers' = timers \cup Substitutes
  /\ Goto(u, "scripts")
  /\ UNCHANGED <<call, updating, loader, scene, sceneOf, parent, initialized,
                 substituted, event>>

(* The Scripts' initialize() have returned; every lock is released. *)
FinishScripts(u) == Move(u, "scripts", "tell")

(* Mutation: the thread clears load_root_scene_thread_ when it is done. *)
TellAndForget(u) ==
  /\ At(u, "tell") \/ At(u, "failed")
  /\ LoaderUnlocked
  /\ event' = "initialized" /\ loader' = NoThread
  /\ Goto(u, "done")
  /\ UNCHANGED <<call, updating, scene, sceneOf, parent, initialized,
                 substituted, timers>>

(* The scope exit of set_world, whether or not the world was loaded. *)
Tell(u) ==
  /\ At(u, "tell") \/ At(u, "failed")
  /\ event' = "initialized"
  /\ Goto(u, "done")
  /\ UNCHANGED <<call, updating, loader, scene, sceneOf, parent, initialized,
                 substituted, timers>>

-----------------------------------------------------------------------------
(* scene::create_vrml_from_url, and scene::vrml_from_url_creator. *)

(* Bounded by the number of Streams. *)
CreateStream(t) ==
  /\ RunsScripts(t) /\ "create_vrml_from_url" \in ScriptCalls
  /\ \E s \in Unborn(Streams) :
       /\ sceneOf' = [sceneOf EXCEPT ![s] = scene]
       /\ Goto(s, "fetch")
  /\ UNCHANGED <<call, updating, loader, scene, parent, initialized, substituted,
                 timers, event>>

FetchStream(s) == \E to \in {"wantScene", "done"} : Move(s, "fetch", to)

(* create_vrml_from_stream holds scene_mutex_, shared, while it parses. *)
EnterStream(s) == SceneReadable /\ Move(s, "wantScene", "parse")

ParseStream(s) == Move(s, "parse", "deliver")

(* The nodes are sent to the Script's node. *)
DeliverNodes(s) == Move(s, "deliver", "done")

-----------------------------------------------------------------------------
(* EXTERNPROTOs: vrml97_parse_actions, and load_proto. *)

(* Bounded by the number of Protos. *)
MeetExternproto(t) ==
  /\ \/ At(t, "load") /\ "world" \in Externprotos
     \/ At(t, "parse") /\ t \in Protos /\ "implementation" \in Externprotos
  /\ Cardinality(Asking({"create"})) < Cardinality(Unborn(Protos))
  /\ Proceed(t, "none", "create")

(* thread_group::create_thread waits for a join_all to end. *)
CreateProto(t) ==
  /\ call[t] = "create"
  /\ \A u \in Setters : pc[u] # "joining"
  /\ Unborn(Protos) # {}
  /\ LET p == CHOOSE p \in Unborn(Protos) : TRUE
     IN  /\ sceneOf' = [sceneOf EXCEPT ![p] = IF t \in Protos THEN sceneOf[t]
                                              ELSE scene]
         /\ parent' = [parent EXCEPT ![p] = t]
         /\ Goto(p, "fetch")
  /\ Enter(t, "none")
  /\ UNCHANGED <<updating, loader, scene, initialized, substituted, timers, event>>

FetchProto(p) == \E to \in {"parse", "done"} : Move(p, "fetch", to)

(* The file may lack the PROTO. *)
ParseProto(p) == \E to \in {"substitute", "done"} : Move(p, "parse", to)

(* externproto_node::set_proto_node: create proto_node_ ... *)
SubstituteNodes(p) ==
  /\ At(p, "substitute")
  /\ substituted' = substituted \cup {p}
  /\ Goto(p, "check")
  /\ UNCHANGED <<call, updating, loader, scene, sceneOf, parent, initialized,
                 timers, event>>

(* ... then see whether the node it stands for has been initialized ... *)
CheckScene(p) ==
  Move(p, "check", IF initialized /\ parent[p] \in Setters THEN "register" ELSE "done")

(* ... and if so initialize proto_node_ too. *)
RegisterNodes(p) ==
  /\ At(p, "register") /\ TimersFree(p)
  /\ timers' = timers \cup {p}
  /\ Goto(p, "scripts")
  /\ UNCHANGED <<call, updating, loader, scene, sceneOf, parent, initialized,
                 substituted, event>>

(* Scripts of proto_node_ have been initialized. *)
FinishProto(p) == Move(p, "scripts", "done")

-----------------------------------------------------------------------------
Init ==
  /\ pc = [t \in Threads |-> CASE t \in Apps -> "idle"
                               [] t \in Direct -> "lock"
                               [] OTHER -> "unborn"]
  /\ call = [t \in Threads |-> "none"]
  /\ updating = {} /\ loader = NoThread /\ scene = 0
  /\ sceneOf = [t \in Streams \cup Protos |-> 0]
  /\ parent = [p \in Protos |-> NoThread]
  /\ initialized = FALSE /\ substituted = {} /\ timers = {}
  /\ event = "none"

UrlStep(t) == LockLoader(t) \/ JoinLoader(t) \/ SpawnLoader(t)

SetterStep(u) ==
  \/ FetchWorld(u)
  \/ WorldFetched(u)
  \/ LockScene(u)
  \/ JoinProtos(u)
  \/ ShutdownScene(u)
  \/ ShutdownMetatypes(u)
  \/ UpgradeScene(u)
  \/ ResetScene(u)
  \/ LoadScene(u)
  \/ InitializeScene(u)
  \/ InitializeSubstitutes(u)
  \/ FinishScripts(u)
  \/ Tell(u)

StreamStep(s) ==
  \/ FetchStream(s)
  \/ EnterStream(s)
  \/ ParseStream(s)
  \/ DeliverNodes(s)

ProtoStep(p) ==
  \/ FetchProto(p)
  \/ ParseProto(p)
  \/ SubstituteNodes(p)
  \/ CheckScene(p)
  \/ RegisterNodes(p)
  \/ FinishProto(p)

ExternprotoStep(t) == MeetExternproto(t) \/ CreateProto(t)

Next ==
  \/ \E a \in Apps : BeginUpdate(a) \/ EndUpdate(a)
  \/ \E t \in Threads : LoadUrl(t) \/ UrlStep(t) \/ CreateStream(t)
  \/ \E u \in Setters : SetterStep(u)
  \/ \E s \in Streams : StreamStep(s)
  \/ \E p \in Protos : ProtoStep(p)
  \/ \E t \in Setters \cup Protos : ExternprotoStep(t)

Spec == Init /\ [][Next]_vars

(***************************************************************************)
(* Every thread is scheduled, every fetch comes to an end and a Script's   *)
(* function returns.  The application need never call update or load_url.  *)
(***************************************************************************)
FairSpec ==
  /\ Spec
  /\ \A a \in Apps : WF_vars(UrlStep(a) \/ EndUpdate(a))
  /\ \A u \in Setters : WF_vars(SetterStep(u) \/ UrlStep(u) \/ CreateProto(u))
  /\ \A s \in Streams : WF_vars(StreamStep(s) \/ UrlStep(s))
  /\ \A p \in Protos : WF_vars(ProtoStep(p) \/ UrlStep(p) \/ CreateProto(p))

-----------------------------------------------------------------------------
(* Properties. *)

SetterPlaces == Inside \cup {"unborn", "fetch", "fetching", "lock", "tell", "failed", "done"}

StreamPlaces == {"unborn", "fetch", "wantScene", "parse", "deliver", "done"}

ProtoPlaces == {"unborn", "fetch", "parse", "substitute", "check", "register",
                "scripts", "done"}

(* Every variable has its type, and every thread is at a place of its kind. *)
TypeOK ==
  /\ pc \in [Threads -> {"idle"} \cup SetterPlaces \cup StreamPlaces \cup ProtoPlaces]
  /\ \A a \in Apps : pc[a] = "idle"
  /\ \A u \in Setters : pc[u] \in SetterPlaces
  /\ \A s \in Streams : pc[s] \in StreamPlaces
  /\ \A p \in Protos : pc[p] \in ProtoPlaces
  /\ call \in [Threads -> {"none", "lock", "join", "spawn", "create"}]
  /\ updating \subseteq Apps
  /\ loader \in Loaders \cup {NoThread}
  /\ scene \in Nat
  /\ sceneOf \in [Streams \cup Protos -> Nat]
  /\ parent \in [Protos -> Setters \cup Protos \cup {NoThread}]
  /\ initialized \in BOOLEAN
  /\ substituted \subseteq Protos /\ timers \subseteq Protos \cup {World}
  /\ event \in {"none", "shutdown", "initialized"}

(***************************************************************************)
(* However many threads call load_url, the world is loaded by one thread   *)
(* at a time, and load_root_scene_thread_ is that thread.                  *)
(***************************************************************************)
OneLoader == \A n \in Loaders : Alive(n) => n = loader

(***************************************************************************)
(* A scene outlives the threads that refer to it: vrml_from_url_creator    *)
(* and load_proto keep a plain pointer to it until they return.            *)
(***************************************************************************)
ThreadsUseLiveScene == \A t \in Streams \cup Protos : Alive(t) => sceneOf[t] = scene

(***************************************************************************)
(* What set_world asserts after scene_.reset(): timers_ and scripts_ are   *)
(* empty, so no thread has put a node there since the scene was shut down. *)
(***************************************************************************)
ListsEmptyAtReset ==
  \A u \in Setters : pc[u] \in {"metatypes", "upgrade", "reset", "load"} => timers = {}

(***************************************************************************)
(* The node that replaces an externproto_node is initialized no matter     *)
(* whether the EXTERNPROTO or the world is ready first (set_proto_node     *)
(* against do_initialize).                                                 *)
(***************************************************************************)
SubstitutesRun ==
  initialized /\ (\A u \in Setters : pc[u] # "substitutes") =>
    \A p \in substituted :
      pc[p] \in {"scripts", "done"} /\ parent[p] \in Setters => p \in timers

(***************************************************************************)
(* Why these properties hold.  LoaderInv: whoever is about to start a      *)
(* loader is alone, and the last loader has ended.  SetterInv: one thread  *)
(* at a time replaces the world.  ProtoInv: from join_all to the parsing   *)
(* of the new world no EXTERNPROTO's thread is there, because only threads *)
(* that parse start one; and none registers nodes before the new world has *)
(* been initialized.                                                       *)
(***************************************************************************)
LoaderInv ==
  /\ OneLoader
  /\ \A t \in Threads : call[t] = "spawn" => \A n \in Loaders : ~Alive(n)
  /\ \A s, t \in Asking({"join", "spawn"}) : s = t

SetterInv ==
  \A u, v \in Setters : pc[u] \in Inside /\ pc[v] \in Inside => u = v

ProtoInv ==
  /\ \A t \in Threads : call[t] = "create" =>
       (t \in Setters /\ pc[t] = "load") \/ (t \in Protos /\ pc[t] = "parse")
  /\ \A u \in Setters : pc[u] \in {"shutdown", "metatypes", "upgrade", "reset"} =>
       \A p \in Protos : ~Alive(p)
  /\ \A u \in Setters :
       pc[u] \in {"metatypes", "upgrade", "reset", "load", "initialize"} =>
         /\ ~initialized /\ timers = {}
         /\ \A p \in Protos : pc[p] \notin {"register", "scripts"}
  /\ \A p \in substituted : pc[p] \in {"check", "register", "scripts", "done"}

ThreadsInv ==
  /\ TypeOK
  /\ LoaderInv /\ SetterInv /\ ProtoInv
  /\ ThreadsUseLiveScene /\ SubstitutesRun

(***************************************************************************)
(* The ways in which threads wait for each other for ever.  scene::~scene  *)
(* joins, under the lock they need, threads that are about to parse.       *)
(***************************************************************************)
StreamHang ==
  \E u \in Setters, s \in Streams :
    pc[u] = "reset" /\ pc[s] = "wantScene" /\ sceneOf[s] = scene

(* u cannot go on before the Script that t runs has returned. *)
WaitsFor(u, t) ==
  \/ u = t
  \/ t \in updating /\ WantTimers(u)
  \/ t \in updating /\ pc[u] = "joining" /\ \E p \in Protos : WantTimers(p)
  \/ t \in Protos /\ pc[u] = "joining"
  \/ t \in Streams /\ pc[u] = "reset" /\ sceneOf[t] = scene

(* A Script waits in load_url for a load that waits for the Script. *)
ScriptHang ==
  \E t \in Threads, u \in Setters :
    /\ call[t] \in {"lock", "join"}
    /\ loader # NoThread
    /\ u = loader \/ pc[loader] = "lock"
    /\ WaitsFor(u, t)

(* join_all waits for a thread that waits to add one to the same group. *)
NestedHang ==
  \E u \in Setters, p \in Protos : pc[u] = "joining" /\ call[p] = "create"

Hang == StreamHang \/ ScriptHang \/ NestedHang

(***************************************************************************)
(* Every thread that the browser starts, and every set_world, ends, unless *)
(* some threads are stuck in one of the three ways of Hang.                *)
(***************************************************************************)
ThreadsEnd ==
  \A t \in Setters \cup Streams \cup Protos : Alive(t) ~> (~Alive(t) \/ Hang)

(* None of the three resolves itself: they are deadlocks. *)
HangsAreFinal == [][Hang => Hang']_vars

(***************************************************************************)
(* browser::load_url: initialized will be emitted once the world has been  *)
(* loaded; set_world: it is sent even if parsing throws.                   *)
(***************************************************************************)
InitializedIsSent ==
  \A u \in Setters : (pc[u] = "lock") ~> (pc[u] = "done")

(* A Script's call of load_url is asynchronous: it returns. *)
LoadUrlReturns ==
  \A t \in Threads : (call[t] = "lock") ~> (call[t] = "none")

(***************************************************************************)
(* browser_event::initialized is sent once the world has been loaded and   *)
(* its nodes have been initialized: when the set_world that initialized    *)
(* them sends it, none has shut them down.                                 *)
(***************************************************************************)
InitializedIsCurrent ==
  [][\A u \in Setters : pc[u] = "tell" /\ Tell(u) => initialized]_vars
=============================================================================
