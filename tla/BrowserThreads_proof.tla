------------------------ MODULE BrowserThreads_proof ------------------------
(***************************************************************************)
(* Proofs about the browser's threads: the invariant ThreadsInv is         *)
(* inductive, for any number of threads of each kind and whatever the      *)
(* Scripts call and the files hold; and each way for threads to wait for   *)
(* each other (Hang) is a deadlock, which no step of any thread undoes.    *)
(***************************************************************************)
EXTENDS BrowserThreads, TLAPS

(* The initial state satisfies the invariant: no thread has started. *)
LEMMA ThreadsInit == Init => ThreadsInv
<1> SUFFICES ASSUME Init PROVE ThreadsInv
  OBVIOUS
<1>1. /\ pc \in [Threads -> {"idle", "lock", "unborn"}]
      /\ \A a \in Apps : pc[a] = "idle"
      /\ \A u \in Setters : pc[u] \in {"lock", "unborn"}
      /\ \A n \in Loaders \cup Streams \cup Protos : pc[n] = "unborn"
  BY ThreadsAssumption DEF Init, Threads, Setters
<1>2. TypeOK
  BY <1>1 DEF Init, TypeOK, Setters, SetterPlaces, StreamPlaces, ProtoPlaces, Inside
<1>3. LoaderInv /\ SetterInv /\ ProtoInv
  BY <1>1 DEF Init, LoaderInv, OneLoader, SetterInv, ProtoInv, Alive, Asking,
              Threads, Setters, Inside
<1>4. ThreadsUseLiveScene /\ SubstitutesRun
  BY <1>1 DEF Init, ThreadsUseLiveScene, SubstitutesRun, Alive
<1>. QED
  BY <1>2, <1>3, <1>4 DEF ThreadsInv

-----------------------------------------------------------------------------
(***************************************************************************)
(* One lemma per action.  They all rest on the definition of the invariant *)
(* and of the places, and on the kinds of threads being disjoint.          *)
(***************************************************************************)
USE ThreadsAssumption
    DEF ThreadsInv, TypeOK, LoaderInv, OneLoader, SetterInv, ProtoInv,
        ThreadsUseLiveScene, SubstitutesRun, Alive, Asking, Threads, Setters,
        SetterPlaces, StreamPlaces, ProtoPlaces, Inside, sceneVars

(* The application's threads in update, and in load_url, change no place. *)
LEMMA AppStep ==
  ASSUME ThreadsInv, NEW a \in Apps, BeginUpdate(a) \/ EndUpdate(a)
  PROVE  ThreadsInv'
  BY DEF BeginUpdate, EndUpdate

(* Whoever calls load_url first waits for the lock. *)
LEMMA LoadUrlStep ==
  ASSUME ThreadsInv, NEW t \in Threads, LoadUrl(t)
  PROVE  ThreadsInv'
  BY DEF LoadUrl, Proceed, Enter

(* One thread holds load_root_scene_thread_mutex_ at a time. *)
LEMMA LockLoaderStep ==
  ASSUME ThreadsInv, NEW t \in Threads, LockLoader(t)
  PROVE  ThreadsInv'
  BY DEF LockLoader, LoaderUnlocked, Proceed, Enter

(* Once the last loader has been joined none is alive. *)
LEMMA JoinLoaderStep ==
  ASSUME ThreadsInv, NEW t \in Threads, JoinLoader(t)
  PROVE  ThreadsInv'
  BY DEF JoinLoader, Proceed, Enter

(* The new loader is the only one, and load_root_scene_thread_ names it. *)
LEMMA SpawnLoaderStep ==
  ASSUME ThreadsInv, NEW t \in Threads, SpawnLoader(t)
  PROVE  ThreadsInv'
  BY DEF SpawnLoader, Unborn, Goto, Enter

(* A loader that takes scene_mutex_ to fetch the world changes nothing else. *)
LEMMA FetchWorldStep ==
  ASSUME ThreadsInv, NEW u \in Setters, FetchWorld(u)
  PROVE  ThreadsInv'
  BY DEF FetchWorld, Move, At, Goto

(* A loader whose fetch ends calls set_world, or ends. *)
LEMMA WorldFetchedStep ==
  ASSUME ThreadsInv, NEW u \in Setters, WorldFetched(u)
  PROVE  ThreadsInv'
  BY DEF WorldFetched, Move, At, Goto

(* A set_world that locks scene_mutex_ is the only one inside. *)
LEMMA LockSceneStep ==
  ASSUME ThreadsInv, NEW u \in Setters, LockScene(u)
  PROVE  ThreadsInv'
  BY DEF LockScene, Move, At, Goto

(* After join_all no thread of an EXTERNPROTO is alive. *)
LEMMA JoinProtosStep ==
  ASSUME ThreadsInv, NEW u \in Setters, JoinProtos(u)
  PROVE  ThreadsInv'
  BY DEF JoinProtos, Move, At, Goto

(* The upgrade of scene_mutex_ only moves the thread. *)
LEMMA UpgradeSceneStep ==
  ASSUME ThreadsInv, NEW u \in Setters, UpgradeScene(u)
  PROVE  ThreadsInv'
  BY DEF UpgradeScene, Move, At, Goto

(* After parsing, the EXTERNPROTOs' threads do not register nodes yet. *)
LEMMA LoadSceneStep ==
  ASSUME ThreadsInv, NEW u \in Setters, LoadScene(u)
  PROVE  ThreadsInv'
  BY DEF LoadScene, Move, At, Goto

(* Nothing depends on the Scripts' initialize() having returned. *)
LEMMA FinishScriptsStep ==
  ASSUME ThreadsInv, NEW u \in Setters, FinishScripts(u)
  PROVE  ThreadsInv'
  BY DEF FinishScripts, Move, At, Goto

(* The shutdown of the scene empties the lists; no thread can refill them. *)
LEMMA ShutdownSceneStep ==
  ASSUME ThreadsInv, NEW u \in Setters, ShutdownScene(u)
  PROVE  ThreadsInv'
<1>1. /\ pc[u] = "shutdown" /\ pc' = [pc EXCEPT ![u] = "metatypes"]
      /\ timers' = {} /\ initialized' = FALSE
      /\ UNCHANGED <<call, updating, loader, scene, sceneOf, parent, substituted>>
      /\ event' = event
  BY DEF ShutdownScene, At, Goto
<1>2. \A p \in Protos : ~Alive(p)
  BY <1>1
<1>3. TypeOK'
  BY <1>1
<1>4. LoaderInv'
  BY <1>1
<1>5. SetterInv'
  BY <1>1
<1>6. ProtoInv'
  BY <1>1, <1>2
<1>7. ThreadsUseLiveScene' /\ SubstitutesRun'
  BY <1>1
<1>. QED
  BY <1>3, <1>4, <1>5, <1>6, <1>7

(* The shutdown of the metatypes finds their threads gone. *)
LEMMA ShutdownMetatypesStep ==
  ASSUME ThreadsInv, NEW u \in Setters, ShutdownMetatypes(u)
  PROVE  ThreadsInv'
  BY DEF ShutdownMetatypes, At, Goto, World

(* No thread refers to the old scene when it is replaced. *)
LEMMA ResetSceneStep ==
  ASSUME ThreadsInv, NEW u \in Setters, ResetScene(u)
  PROVE  ThreadsInv'
  BY DEF ResetScene, At, Goto, World

(* The initialization of the scene fills the lists. *)
LEMMA InitializeSceneStep ==
  ASSUME ThreadsInv, NEW u \in Setters, InitializeScene(u)
  PROVE  ThreadsInv'
  BY DEF InitializeScene, At, Goto, World

(* The substitutes that are there when the world is initialized run with it. *)
LEMMA InitializeSubstitutesStep ==
  ASSUME ThreadsInv, NEW u \in Setters, InitializeSubstitutes(u)
  PROVE  ThreadsInv'
  BY DEF InitializeSubstitutes, Substitutes, At, Goto, World

(* A set_world that tells the listeners leaves the rest as it is. *)
LEMMA TellStep ==
  ASSUME ThreadsInv, NEW u \in Setters, Tell(u)
  PROVE  ThreadsInv'
  BY DEF Tell, At, Goto, World

(* A new stream refers to the scene there is. *)
LEMMA CreateStreamStep ==
  ASSUME ThreadsInv, NEW t \in Threads, CreateStream(t)
  PROVE  ThreadsInv'
  BY DEF CreateStream, Unborn, Goto

(* The steps of a stream's thread change its place only. *)
LEMMA StreamsStep ==
  ASSUME ThreadsInv, NEW s \in Streams, StreamStep(s)
  PROVE  ThreadsInv'
  BY DEF StreamStep, FetchStream, EnterStream, ParseStream, DeliverNodes, Move, At, Goto

(* Only a thread that parses is about to start an EXTERNPROTO's thread. *)
LEMMA MeetExternprotoStep ==
  ASSUME ThreadsInv, NEW t \in Setters \cup Protos, MeetExternproto(t)
  PROVE  ThreadsInv'
  BY DEF MeetExternproto, Proceed, Enter, At

(* A new EXTERNPROTO's thread refers to the scene there is. *)
LEMMA CreateProtoStep ==
  ASSUME ThreadsInv, NEW t \in Setters \cup Protos, CreateProto(t)
  PROVE  ThreadsInv'
  BY DEF CreateProto, Unborn, Goto, Enter

(* The fetch of an EXTERNPROTO moves its thread only. *)
LEMMA FetchProtoStep ==
  ASSUME ThreadsInv, NEW p \in Protos, FetchProto(p)
  PROVE  ThreadsInv'
  BY DEF FetchProto, Move, At, Goto

(* The parsing of an EXTERNPROTO moves its thread only. *)
LEMMA ParseProtoStep ==
  ASSUME ThreadsInv, NEW p \in Protos, ParseProto(p)
  PROVE  ThreadsInv'
  BY DEF ParseProto, Move, At, Goto

(* A substitute that is too early to register is left to scene::initialize. *)
LEMMA CheckSceneStep ==
  ASSUME ThreadsInv, NEW p \in Protos, CheckScene(p)
  PROVE  ThreadsInv'
  BY DEF CheckScene, Move, At, Goto

(* The substitute exists before its thread looks at the scene. *)
LEMMA SubstituteNodesStep ==
  ASSUME ThreadsInv, NEW p \in Protos, SubstituteNodes(p)
  PROVE  ThreadsInv'
  BY DEF SubstituteNodes, At, Goto

(* A substitute that is late registers itself. *)
LEMMA RegisterNodesStep ==
  ASSUME ThreadsInv, NEW p \in Protos, RegisterNodes(p)
  PROVE  ThreadsInv'
  BY DEF RegisterNodes, At, Goto

(* When the Scripts of a substitute have been initialized nothing changes. *)
LEMMA FinishProtoStep ==
  ASSUME ThreadsInv, NEW p \in Protos, FinishProto(p)
  PROVE  ThreadsInv'
  BY DEF FinishProto, Move, At, Goto

HIDE DEF ThreadsInv, TypeOK, LoaderInv, OneLoader, SetterInv, ProtoInv,
         ThreadsUseLiveScene, SubstitutesRun, Alive, Asking, Threads, Setters,
         SetterPlaces, StreamPlaces, ProtoPlaces, Inside, sceneVars

-----------------------------------------------------------------------------
(* A step that leaves every variable as it is keeps the invariant. *)
LEMMA ThreadsStutter == ThreadsInv /\ UNCHANGED vars => ThreadsInv'
  BY DEF vars, threadVars, sceneVars, ThreadsInv, TypeOK, LoaderInv, OneLoader,
         SetterInv, ProtoInv, ThreadsUseLiveScene, SubstitutesRun, Alive, Asking

(* Every step of any thread keeps the invariant. *)
LEMMA ThreadsNext == ThreadsInv /\ [Next]_vars => ThreadsInv'
<1> SUFFICES ASSUME ThreadsInv, [Next]_vars PROVE ThreadsInv'
  OBVIOUS
<1>1. CASE \E a \in Apps : BeginUpdate(a) \/ EndUpdate(a)
  BY <1>1, AppStep
<1>2. ASSUME NEW t \in Threads, LoadUrl(t) \/ UrlStep(t) \/ CreateStream(t)
      PROVE  ThreadsInv'
  BY <1>2, LoadUrlStep, LockLoaderStep, JoinLoaderStep, SpawnLoaderStep,
     CreateStreamStep DEF UrlStep
<1>3. ASSUME NEW u \in Setters, SetterStep(u) PROVE ThreadsInv'
  BY <1>3, FetchWorldStep, WorldFetchedStep, LockSceneStep, JoinProtosStep,
     ShutdownSceneStep, ShutdownMetatypesStep, UpgradeSceneStep, ResetSceneStep,
     LoadSceneStep, InitializeSceneStep, InitializeSubstitutesStep,
     FinishScriptsStep, TellStep DEF SetterStep
<1>4. CASE \E s \in Streams : StreamStep(s)
  BY <1>4, StreamsStep
<1>5. ASSUME NEW p \in Protos, ProtoStep(p) PROVE ThreadsInv'
  BY <1>5, FetchProtoStep, ParseProtoStep, SubstituteNodesStep, CheckSceneStep,
     RegisterNodesStep, FinishProtoStep DEF ProtoStep
<1>6. ASSUME NEW t \in Setters \cup Protos, ExternprotoStep(t) PROVE ThreadsInv'
  BY <1>6, MeetExternprotoStep, CreateProtoStep DEF ExternprotoStep
<1>7. CASE UNCHANGED vars
  BY <1>7, ThreadsStutter
<1>. QED
  BY <1>1, <1>2, <1>3, <1>4, <1>5, <1>6, <1>7 DEF Next

(* In every reachable state the invariant holds. *)
THEOREM ThreadsInvariant == Spec => []ThreadsInv
  BY ThreadsInit, ThreadsNext, PTL DEF Spec

(***************************************************************************)
(* Every thread is at a place of its kind, and every variable has its      *)
(* type, for any number of threads.                                        *)
(***************************************************************************)
THEOREM ThreadsTypeCorrect == Spec => []TypeOK
<1>1. ThreadsInv => TypeOK
  BY DEF ThreadsInv
<1>. QED
  BY <1>1, ThreadsInvariant, PTL

(***************************************************************************)
(* browser::load_url: at any time one thread at most loads the world, and  *)
(* load_root_scene_thread_ is that thread, however many callers there are. *)
(***************************************************************************)
THEOREM OneLoaderAtATime == Spec => []OneLoader
<1>1. ThreadsInv => OneLoader
  BY DEF ThreadsInv, LoaderInv
<1>. QED
  BY <1>1, ThreadsInvariant, PTL

(***************************************************************************)
(* browser::set_world and scene::~scene: no thread of a stream or of an    *)
(* EXTERNPROTO ever refers to a scene that has been replaced.              *)
(***************************************************************************)
THEOREM ScenesOutliveThreads == Spec => []ThreadsUseLiveScene
<1>1. ThreadsInv => ThreadsUseLiveScene
  BY DEF ThreadsInv
<1>. QED
  BY <1>1, ThreadsInvariant, PTL

(***************************************************************************)
(* The assertions of browser::set_world after scene_.reset() hold: nothing *)
(* has joined timers_ and scripts_ since the old scene was shut down.      *)
(***************************************************************************)
THEOREM ListsAreEmptyAtReset == Spec => []ListsEmptyAtReset
<1>1. ThreadsInv => ListsEmptyAtReset
  BY DEF ThreadsInv, ProtoInv, ListsEmptyAtReset
<1>. QED
  BY <1>1, ThreadsInvariant, PTL

(***************************************************************************)
(* externproto_node: a substitute is initialized whether set_proto_node or *)
(* do_initialize comes first.                                              *)
(***************************************************************************)
THEOREM SubstitutesAreInitialized == Spec => []SubstitutesRun
<1>1. ThreadsInv => SubstitutesRun
  BY DEF ThreadsInv
<1>. QED
  BY <1>1, ThreadsInvariant, PTL

-----------------------------------------------------------------------------
(***************************************************************************)
(* Threads that wait for each other do so for ever.  A thread moves by a   *)
(* step of its own, which it does not have while it is in a call.          *)
(***************************************************************************)

\* A thread in load_url is one of the application, or runs a Script.
UrlInv ==
  \A t \in Threads : call[t] \in {"lock", "join", "spawn"} =>
    t \in Apps \/ pc[t] \in {"scripts", "deliver", "shutdown"}

\* What a step may do to the threads.
OwnStep(t) ==
  \/ t \in Setters /\ SetterStep(t)
  \/ t \in Streams /\ StreamStep(t)
  \/ t \in Protos /\ ProtoStep(t)
PlacesStep ==
  \A t \in Threads : pc'[t] = pc[t] \/ pc[t] = "unborn" \/ (call[t] = "none" /\ OwnStep(t))
CallsStep ==
  \A t \in Threads :
    call'[t] = call[t] \/ LoadUrl(t) \/ UrlStep(t) \/ (t \in Setters \cup Protos /\ ExternprotoStep(t))
OthersStep ==
  /\ \A t \in updating : t \in updating' \/ EndUpdate(t)
  /\ loader' = loader \/ \E t \in Threads : SpawnLoader(t)
  /\ scene' = scene \/ \E u \in Setters : ResetScene(u)
  /\ \A t \in Streams \cup Protos : sceneOf'[t] = sceneOf[t] \/ pc[t] = "unborn"
  /\ \A p \in Protos : parent'[p] = parent[p] \/ pc[p] = "unborn"
  /\ substituted \subseteq substituted' \/ \E u \in Setters : ResetScene(u)
  /\ timers \subseteq timers' \/ \E u \in Setters : ShutdownScene(u)

LEMMA StepFacts ==
  ASSUME ThreadsInv, [Next]_vars
  PROVE  PlacesStep /\ CallsStep /\ OthersStep
<1> USE DEF ThreadsInv, TypeOK, Threads, Goto, Enter, At, sceneVars
<1>1. TypeOK
  OBVIOUS
<1>2. ASSUME NEW a \in Apps, BeginUpdate(a) \/ EndUpdate(a)
      PROVE  PlacesStep /\ CallsStep /\ OthersStep
  BY <1>2 DEF BeginUpdate, EndUpdate, PlacesStep, CallsStep, OthersStep
<1>3. ASSUME NEW t \in Threads, LoadUrl(t) \/ LockLoader(t) \/ JoinLoader(t)
      PROVE  PlacesStep /\ CallsStep /\ OthersStep
  BY <1>3 DEF LoadUrl, UrlStep, LockLoader, JoinLoader, Proceed, PlacesStep, CallsStep, OthersStep
<1>4. ASSUME NEW t \in Threads, SpawnLoader(t)
      PROVE  PlacesStep /\ CallsStep /\ OthersStep
  BY <1>4 DEF UrlStep, SpawnLoader, Unborn, PlacesStep, CallsStep, OthersStep
<1>5. ASSUME NEW t \in Threads, CreateStream(t)
      PROVE  PlacesStep /\ CallsStep /\ OthersStep
  BY <1>5 DEF CreateStream, Unborn, PlacesStep, CallsStep, OthersStep
<1>6. ASSUME NEW t \in Setters \cup Protos, ExternprotoStep(t)
      PROVE  PlacesStep /\ CallsStep /\ OthersStep
  <2>1. CASE MeetExternproto(t)
    BY <2>1 DEF ExternprotoStep, MeetExternproto, Proceed, PlacesStep, CallsStep, OthersStep
  <2>2. CASE CreateProto(t)
    <3>1. PICK p \in Protos : /\ pc[p] = "unborn" /\ \E place : pc' = [pc EXCEPT ![p] = place]
                             /\ \E x : sceneOf' = [sceneOf EXCEPT ![p] = x]
                             /\ \E q : parent' = [parent EXCEPT ![p] = q]
      BY <2>2 DEF CreateProto, Unborn
    <3>2. /\ call' = [call EXCEPT ![t] = "none"]
          /\ UNCHANGED <<updating, loader, scene, substituted, timers>>
      BY <2>2 DEF CreateProto
    <3>3. PlacesStep /\ OthersStep
      BY <3>1, <3>2 DEF PlacesStep, OthersStep
    <3>4. CallsStep
      BY <1>6, <3>2 DEF CallsStep
    <3> QED BY <3>3, <3>4
  <2> QED BY <1>6, <2>1, <2>2 DEF ExternprotoStep
<1>7. ASSUME NEW u \in Setters, SetterStep(u)
      PROVE  PlacesStep /\ CallsStep /\ OthersStep
  <2>1. /\ call[u] = "none" /\ call' = call /\ \E place : pc' = [pc EXCEPT ![u] = place]
        /\ UNCHANGED <<updating, loader, sceneOf, parent>>
        /\ scene' = scene \/ ResetScene(u)
        /\ substituted \subseteq substituted' \/ ResetScene(u)
        /\ timers \subseteq timers' \/ ShutdownScene(u)
    BY <1>7 DEF SetterStep, FetchWorld, WorldFetched, LockScene, JoinProtos, ShutdownScene,
                ShutdownMetatypes, UpgradeScene, ResetScene, LoadScene, InitializeScene,
                InitializeSubstitutes, FinishScripts, Tell, Move
  <2> QED BY <1>7, <2>1 DEF OwnStep, PlacesStep, CallsStep, OthersStep
<1>8. ASSUME NEW s \in Streams, StreamStep(s)
      PROVE  PlacesStep /\ CallsStep /\ OthersStep
  <2>1. /\ call[s] = "none" /\ call' = call /\ \E place : pc' = [pc EXCEPT ![s] = place]
        /\ UNCHANGED <<updating, loader, sceneVars>>
    BY <1>8 DEF StreamStep, FetchStream, EnterStream, ParseStream, DeliverNodes, Move
  <2> QED BY <1>8, <2>1 DEF OwnStep, PlacesStep, CallsStep, OthersStep
<1>9. ASSUME NEW p \in Protos, ProtoStep(p)
      PROVE  PlacesStep /\ CallsStep /\ OthersStep
  <2>1. /\ call[p] = "none" /\ call' = call /\ \E place : pc' = [pc EXCEPT ![p] = place]
        /\ UNCHANGED <<updating, loader, scene, sceneOf, parent>>
        /\ substituted \subseteq substituted' /\ timers \subseteq timers'
    BY <1>9 DEF ProtoStep, FetchProto, ParseProto, SubstituteNodes, CheckScene, RegisterNodes,
                FinishProto, Move
  <2> QED BY <1>9, <2>1 DEF OwnStep, PlacesStep, CallsStep, OthersStep
<1>10. CASE UNCHANGED vars
  BY <1>10 DEF vars, threadVars, PlacesStep, CallsStep, OthersStep
<1> QED BY <1>2, <1>3, <1>4, <1>5, <1>6, <1>7, <1>8, <1>9, <1>10 DEF Next, UrlStep

LEMMA UrlInit == Init => UrlInv
  BY DEF Init, UrlInv

LEMMA UrlNext == ThreadsInv /\ UrlInv /\ [Next]_vars => UrlInv'
<1> SUFFICES ASSUME ThreadsInv, UrlInv, [Next]_vars PROVE UrlInv'
  OBVIOUS
<1>1. PlacesStep /\ CallsStep /\ TypeOK
  BY StepFacts DEF ThreadsInv
<1>2. SUFFICES ASSUME NEW t \in Threads, call'[t] \in {"lock", "join", "spawn"}, t \notin Apps
               PROVE  pc'[t] \in {"scripts", "deliver", "shutdown"}
  BY DEF UrlInv
<1>3. pc[t] \in {"scripts", "deliver", "shutdown"}
  <2>1. CASE call'[t] = call[t]
    BY <1>2, <2>1 DEF UrlInv
  <2>2. CASE LoadUrl(t)
    <3>1. pc[t] # "idle" /\ t \notin updating
      BY <1>1, <1>2 DEF TypeOK, Threads, SetterPlaces, StreamPlaces, ProtoPlaces, Inside
    <3> QED BY <2>2, <3>1 DEF LoadUrl, RunsScripts, At
  <2>3. CASE UrlStep(t)
    <3>1. call[t] \in {"lock", "join", "spawn"}
      BY <2>3 DEF UrlStep, LockLoader, JoinLoader, SpawnLoader, Proceed
    <3> QED BY <1>2, <3>1 DEF UrlInv
  <2>4. CASE ExternprotoStep(t)
    BY <1>1, <1>2, <2>4 DEF ExternprotoStep, MeetExternproto, CreateProto, Proceed, Enter, TypeOK
  <2> QED BY <1>1, <2>1, <2>2, <2>3, <2>4 DEF CallsStep
<1>4. pc'[t] = pc[t]
  <2>1. CASE call[t] = "none"
    <3>1. LoadUrl(t) \/ ExternprotoStep(t)
      BY <1>1, <1>2, <2>1 DEF CallsStep, UrlStep, LockLoader, JoinLoader, SpawnLoader, Proceed
    <3> QED BY <2>1, <3>1 DEF LoadUrl, ExternprotoStep, MeetExternproto, CreateProto, Proceed
  <2>2. CASE call[t] # "none"
    BY <1>1, <1>3, <2>2 DEF PlacesStep
  <2> QED BY <2>1, <2>2
<1> QED BY <1>3, <1>4

\* The steps that have to wait.
LEMMA SetterWaits ==
  ASSUME NEW u \in Setters, SetterStep(u)
  PROVE  /\ pc[u] = "joining" => \A p \in Protos : ~Alive(p)
         /\ pc[u] = "reset" => ResetScene(u)
         /\ pc[u] = "lock" => \A v \in Setters : pc[v] \notin Inside
         /\ WantTimers(u) => updating = {}
         /\ ResetScene(u) => /\ pc[u] = "reset"
                             /\ \A s \in Streams : sceneOf[s] = scene => ~Alive(s)
         /\ ShutdownScene(u) => pc[u] = "shutdown"
  BY DEF SetterStep, FetchWorld, WorldFetched, LockScene, JoinProtos, ShutdownScene,
         ShutdownMetatypes, UpgradeScene, ResetScene, LoadScene, InitializeScene,
         InitializeSubstitutes, FinishScripts, Tell, Move, At, WantTimers, TimersFree

\* join_all waits for every thread of the group.
LEMMA JoiningWaits ==
  ASSUME ThreadsInv, [Next]_vars, NEW u \in Setters, pc[u] = "joining", NEW p \in Protos, Alive(p)
  PROVE  pc'[u] = "joining"
<1>1. u \in Threads /\ u \notin Streams /\ u \notin Protos
  BY ThreadsAssumption DEF Threads, Setters
<1> QED BY <1>1, StepFacts, SetterWaits DEF PlacesStep, OwnStep

\* scene::~scene waits for every thread of the scene.
LEMMA ResetWaits ==
  ASSUME ThreadsInv, [Next]_vars, NEW u \in Setters, pc[u] = "reset",
         NEW s \in Streams, Alive(s), sceneOf[s] = scene
  PROVE  pc'[u] = "reset" /\ sceneOf'[s] = scene'
<1>1. u \in Threads /\ u \notin Streams /\ u \notin Protos
  BY ThreadsAssumption DEF Threads, Setters
<1>2. \A v \in Setters : ~ResetScene(v)
  BY DEF ResetScene
<1>3. pc'[u] = "reset"
  BY <1>1, <1>2, StepFacts, SetterWaits DEF PlacesStep, OwnStep
<1>4. sceneOf'[s] = sceneOf[s] /\ scene' = scene
  BY <1>2, StepFacts DEF OthersStep, Alive
<1> QED BY <1>3, <1>4

\* set_world waits for the one that replaces the world.
LEMMA LockWaits ==
  ASSUME ThreadsInv, [Next]_vars, NEW u \in Setters, pc[u] = "lock",
         NEW v \in Setters, pc[v] \in Inside
  PROVE  pc'[u] = "lock"
<1>1. u \in Threads /\ u \notin Streams /\ u \notin Protos
  BY ThreadsAssumption DEF Threads, Setters
<1> QED BY <1>1, StepFacts, SetterWaits DEF PlacesStep, OwnStep

\* So do those who want timers_ and scripts_ while the application updates.
LEMMA TimersWait ==
  ASSUME ThreadsInv, [Next]_vars, updating # {}, NEW t \in Setters \cup Protos, WantTimers(t)
  PROVE  WantTimers(t)' /\ pc'[t] = pc[t]
<1>1. t \in Threads /\ t \notin Streams /\ TypeOK /\ PlacesStep /\ OthersStep /\ SetterInv
  BY ThreadsAssumption, StepFacts DEF Threads, Setters, ThreadsInv
<1>2. t \in Setters => t \notin Protos /\ pc[t] \in {"initialize", "shutdown", "substitutes"}
  BY <1>1, ThreadsAssumption
    DEF WantTimers, Setters, TypeOK, SetterPlaces, Inside
<1>3. t \in Protos => pc[t] = "register"
  BY <1>1 DEF WantTimers, TypeOK, ProtoPlaces
<1>4. pc'[t] = pc[t]
  <2>1. CASE t \in Setters
    BY <1>1, <1>2, <2>1, SetterWaits DEF PlacesStep, OwnStep
  <2>2. CASE t \in Protos
    <3>1. t \notin Setters
      BY <2>2, ThreadsAssumption DEF Setters
    <3>2. ~ProtoStep(t)
      BY <1>3, <2>2 DEF ProtoStep, FetchProto, ParseProto, SubstituteNodes, CheckScene,
                        RegisterNodes, FinishProto, Move, At, TimersFree
    <3> QED BY <1>1, <1>3, <2>2, <3>1, <3>2 DEF PlacesStep, OwnStep
  <2> QED BY <2>1, <2>2
<1>5. CASE pc[t] \in {"initialize", "register"}
  BY <1>4, <1>5 DEF WantTimers
<1>6. CASE pc[t] \in {"shutdown", "substitutes"}
  <2>1. t \in Setters /\ \A v \in Setters : pc[v] \in Inside => v = t
    BY <1>1, <1>3, <1>6 DEF SetterInv, Inside
  <2>2. \A v \in Setters : ~ResetScene(v)
    <3>1. \A v \in Setters : ResetScene(v) => pc[v] = "reset" /\ pc[v] \in Inside
      BY DEF ResetScene, At, Inside
    <3> QED BY <1>6, <2>1, <3>1
  <2>3. \A v \in Setters : ShutdownScene(v) => FALSE
    <3>1. \A v \in Setters : ShutdownScene(v) => pc[v] \in Inside /\ pc'[v] = "metatypes"
      BY <1>1 DEF ShutdownScene, At, Goto, Inside, TypeOK, Threads
    <3> QED BY <1>4, <1>6, <2>1, <3>1
  <2>4. timers \subseteq timers' /\ substituted \subseteq substituted'
    BY <1>1, <2>2, <2>3 DEF OthersStep
  <2>5. Substitutes \subseteq Substitutes'
    <3>1. \A p \in substituted : p \in Protos /\ pc[p] # "unborn"
      BY <1>1 DEF ThreadsInv, ProtoInv, TypeOK
    <3>2. \A p \in substituted : parent'[p] = parent[p]
      BY <1>1, <3>1 DEF OthersStep
    <3> QED BY <2>4, <3>2 DEF Substitutes
  <2> QED BY <1>4, <1>6, <2>4, <2>5 DEF WantTimers
<1> QED BY <1>2, <1>3, <1>5, <1>6

\* A call of load_url waits for the loader that it is to replace.
LEMMA LoaderWaits ==
  ASSUME ThreadsInv, [Next]_vars, loader # NoThread, Alive(loader)
  PROVE  loader' = loader /\ \A t \in Threads : call[t] \in {"lock", "join"} => call'[t] \in {"lock", "join"}
<1>1. loader \in Loaders /\ TypeOK /\ LoaderInv /\ CallsStep /\ OthersStep
  BY StepFacts DEF ThreadsInv, TypeOK
<1>2. \A t \in Threads : call[t] # "spawn"
  BY <1>1 DEF LoaderInv
<1>3. loader' = loader
  BY <1>1, <1>2 DEF OthersStep, SpawnLoader
<1>4. ASSUME NEW t \in Threads, call[t] \in {"lock", "join"} PROVE call'[t] \in {"lock", "join"}
  <2>1. CASE LoadUrl(t) \/ ExternprotoStep(t)
    BY <1>4, <2>1 DEF LoadUrl, ExternprotoStep, MeetExternproto, CreateProto, Proceed
  <2>2. CASE UrlStep(t)
    BY <1>1, <1>4, <2>2 DEF UrlStep, LockLoader, JoinLoader, SpawnLoader, Proceed, Enter, TypeOK
  <2> QED BY <1>1, <1>4, <2>1, <2>2 DEF CallsStep
<1> QED BY <1>3, <1>4

LEMMA StreamHangStays == ThreadsInv /\ StreamHang /\ [Next]_vars => StreamHang'
<1> SUFFICES ASSUME ThreadsInv, StreamHang, [Next]_vars PROVE StreamHang'
  OBVIOUS
<1>1. PICK u \in Setters, s \in Streams : /\ pc[u] = "reset" /\ pc[s] = "wantScene"
                                          /\ sceneOf[s] = scene
  BY DEF StreamHang
<1>2. pc'[u] = "reset" /\ sceneOf'[s] = scene'
  BY <1>1, ResetWaits DEF Alive
<1>3. pc'[s] = "wantScene"
  <2>1. s \in Threads /\ s \notin Setters /\ s \notin Protos
    BY ThreadsAssumption DEF Threads, Setters
  <2>2. ~StreamStep(s)
    BY <1>1 DEF StreamStep, FetchStream, EnterStream, ParseStream, DeliverNodes, Move, At,
                SceneReadable
  <2> QED BY <1>1, <2>1, <2>2, StepFacts DEF PlacesStep, OwnStep
<1> QED BY <1>2, <1>3 DEF StreamHang

LEMMA NestedHangStays == ThreadsInv /\ NestedHang /\ [Next]_vars => NestedHang'
<1> SUFFICES ASSUME ThreadsInv, NestedHang, [Next]_vars PROVE NestedHang'
  OBVIOUS
<1>1. PICK u \in Setters, p \in Protos : pc[u] = "joining" /\ call[p] = "create"
  BY DEF NestedHang
<1>2. p \in Threads /\ p \notin Setters /\ Alive(p)
  BY <1>1, ThreadsAssumption DEF Threads, Setters, ThreadsInv, ProtoInv, Alive
<1>3. pc'[u] = "joining"
  BY <1>1, <1>2, JoiningWaits
<1>4. call'[p] = "create"
  <2>1. ~LoadUrl(p) /\ ~UrlStep(p) /\ ~ExternprotoStep(p)
    BY <1>1 DEF LoadUrl, UrlStep, LockLoader, JoinLoader, SpawnLoader, ExternprotoStep,
                MeetExternproto, CreateProto, Proceed
  <2> QED BY <1>1, <1>2, <2>1, StepFacts DEF CallsStep
<1> QED BY <1>3, <1>4 DEF NestedHang

\* The thread in load_url, and the one that waits for it, stay where they are.
LEMMA ScriptHangStays == ThreadsInv /\ UrlInv /\ ScriptHang /\ [Next]_vars => ScriptHang'
<1> SUFFICES ASSUME ThreadsInv, UrlInv, ScriptHang, [Next]_vars PROVE ScriptHang'
  OBVIOUS
<1>1. PICK t \in Threads, u \in Setters :
        /\ call[t] \in {"lock", "join"} /\ loader # NoThread
        /\ u = loader \/ pc[loader] = "lock"
        /\ WaitsFor(u, t)
  BY DEF ScriptHang
<1>2. /\ TypeOK /\ PlacesStep /\ CallsStep /\ OthersStep /\ u \in Threads
      /\ loader \in Setters /\ loader \in Threads
  BY <1>1, StepFacts DEF ThreadsInv, TypeOK, Setters, Threads
<1>3. t \in Apps \/ pc[t] \in {"scripts", "deliver", "shutdown"}
  BY <1>1 DEF UrlInv
<1>4. t \notin Apps => Alive(t) /\ pc'[t] = pc[t]
  BY <1>1, <1>2, <1>3 DEF PlacesStep, Alive
<1>5. t \in updating => t \in updating' /\ updating # {}
  BY <1>1, <1>2 DEF OthersStep, EndUpdate
<1>6. pc[u] \in Inside /\ pc'[u] = pc[u] /\ WaitsFor(u, t)'
  <2>1. CASE u = t
    <3>1. u \notin Apps /\ pc[u] \in {"scripts", "shutdown"}
      BY <1>2, <1>3, <2>1, ThreadsAssumption DEF TypeOK, SetterPlaces, Inside
    <3> QED BY <1>4, <2>1, <3>1 DEF WaitsFor, Inside
  <2>2. CASE t \in updating /\ WantTimers(u)
    <3>1. pc[u] \in {"initialize", "shutdown", "substitutes"}
      BY <1>2, <2>2 DEF WantTimers, TypeOK, SetterPlaces, Inside
    <3>2. WantTimers(u)' /\ pc'[u] = pc[u]
      BY <1>5, <2>2, TimersWait
    <3> QED BY <1>5, <2>2, <3>1, <3>2 DEF WaitsFor, Inside
  <2>3. CASE t \in updating /\ pc[u] = "joining" /\ \E p \in Protos : WantTimers(p)
    <3>1. PICK p \in Protos : WantTimers(p)
      BY <2>3
    <3>2. WantTimers(p)' /\ pc'[p] = pc[p]
      BY <1>5, <2>3, <3>1, TimersWait
    <3>3. Alive(p)
      BY <3>1 DEF WantTimers, Alive
    <3>4. pc'[u] = "joining"
      BY <2>3, <3>3, JoiningWaits
    <3>5. \E q \in Protos : WantTimers(q)'
      BY <3>2
    <3> QED BY <1>5, <2>3, <3>4, <3>5 DEF WaitsFor, Inside
  <2>4. CASE t \in Protos /\ pc[u] = "joining"
    <3>1. t \notin Apps
      BY <2>4, ThreadsAssumption
    <3>2. pc'[u] = "joining"
      BY <1>4, <2>4, <3>1, JoiningWaits
    <3> QED BY <2>4, <3>2 DEF WaitsFor, Inside
  <2>5. CASE t \in Streams /\ pc[u] = "reset" /\ sceneOf[t] = scene
    <3>1. t \notin Apps
      BY <2>5, ThreadsAssumption
    <3>2. pc'[u] = "reset" /\ sceneOf'[t] = scene'
      BY <1>4, <2>5, <3>1, ResetWaits
    <3> QED BY <2>5, <3>2 DEF WaitsFor, Inside
  <2> QED BY <1>1, <2>1, <2>2, <2>3, <2>4, <2>5 DEF WaitsFor
<1>7. Alive(loader)
  BY <1>1, <1>6 DEF Alive, Inside
<1>8. loader' = loader /\ call'[t] \in {"lock", "join"}
  BY <1>1, <1>7, LoaderWaits
<1>9. u = loader \/ pc'[loader] = "lock"
  BY <1>1, <1>2, <1>6, LockWaits
<1> QED BY <1>1, <1>6, <1>8, <1>9 DEF ScriptHang

(***************************************************************************)
(* None of the ways in which threads wait for each other resolves itself:  *)
(* scene::~scene that joins a stream which waits for scene_mutex_, a       *)
(* Script in load_url whose load waits for the Script, and join_all        *)
(* against create_thread are deadlocks, and no passing delays.             *)
(***************************************************************************)
THEOREM HangsAreDeadlocks == Spec => HangsAreFinal
<1>1. ThreadsInv /\ UrlInv /\ [Next]_vars => (Hang => Hang')
  BY StreamHangStays, NestedHangStays, ScriptHangStays DEF Hang
<1>2. ThreadsInv /\ UrlInv /\ [Next]_vars => [Hang => Hang']_vars
  BY <1>1
<1>3. ThreadsInv /\ UrlInv /\ [Next]_vars => UrlInv'
  BY UrlNext
<1> QED BY <1>2, <1>3, UrlInit, ThreadsInvariant, PTL DEF Spec, HangsAreFinal
=============================================================================
