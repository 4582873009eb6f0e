----------------------------- MODULE ScriptEvents -----------------------------
(***************************************************************************)
(* How events travel between Script nodes and exposedFields: emitters and  *)
(* listeners (event.h, exposedfield.h), Script nodes and the engine that   *)
(* runs their code (script.cpp, javascript.cpp), and the browser's update  *)
(* that calls them (browser.cpp).                                          *)
(*                                                                         *)
(* One thread is modelled, with its calls as a stack of frames: a listener *)
(* is called inside the loop that sends to it.  What a Script's code does  *)
(* is any choice of the operations the engine offers it.  Values are left  *)
(* out: what matters is who is called, when, and with what still to do.    *)
(***************************************************************************)
EXTENDS Naturals, Sequences, FiniteSets, SequencesExt

CONSTANTS
  Scripts,       \* the Script nodes, each with an eventIn, an eventOut and its url
  Fields,        \* nodes with an exposedField
  Sensor,        \* a sensor that sends events
  Order,         \* the Scripts in the order the scene initializes them
  Routes,        \* the routes a world may have
  Writes,        \* the <<script, listener>> pairs a directOutput Script may write to
  Changes,       \* the routes its code may add or delete
  LateWriters,   \* the Scripts whose eventsProcessed writes direct output
  MaxRoutes,     \* bound: the routes of a world
  MaxWrites,     \* bound: its direct writes
  MaxUpdates,    \* bound: the browser's updates
  MaxDepth       \* bound: the calls that fit on the stack

Emitters == Scripts \cup Fields \cup {Sensor}
Url(s) == <<"url", s>>  \* the listener of a Script's set_url
Urls == {Url(s) : s \in Scripts}
Listeners == Scripts \cup Fields \cup Urls

ASSUME ScriptEventsAssumption ==
  /\ IsFiniteSet(Scripts) /\ IsFiniteSet(Fields)
  /\ Scripts \cap Fields = {} /\ Sensor \notin Scripts \cup Fields
  /\ Order \in Seq(Scripts)
  /\ Routes \subseteq Emitters \X Listeners
  /\ Changes \subseteq Routes
  /\ Writes \subseteq Scripts \X Listeners
  /\ LateWriters \subseteq Scripts
  /\ {MaxRoutes, MaxWrites, MaxUpdates} \subseteq Nat /\ MaxDepth \in Nat \ {0}

VARIABLES
  world,         \* the routes and direct writes the world may come to have, and who
                 \* is then called inside whose call
  routes,        \* the routes it has: the listeners_ of every emitter
  stack,         \* the frames of the thread, the innermost last
  stage,         \* what the browser does with the world
  scripts,       \* the browser's scripts_
  engine,        \* the Scripts with an engine: script_
  received,      \* events_received is not 0
  modified,      \* modified_ of the eventOut
  pending,       \* history: the eventOut was set since it was last sent
  directOutput,  \* direct_output_map_: the listeners written to
  updates,       \* the updates that were begun
  fault          \* what stopped the thread

nodeVars == <<received, modified, pending, directOutput>>
browserVars == <<stage, scripts, engine, updates>>
seVars == <<world, routes, stack, stage, scripts, engine, received, modified,
            pending, directOutput, updates, fault>>

-----------------------------------------------------------------------------
(* Worlds.  A call of a listener or of an emitter's loop is a node of the  *)
(* call graph: a field's listener sends at once, a Script's only when it   *)
(* is updated.                                                             *)

Sending(e) == <<"sending", e>>

CallGraph(rs, ws) ==
  [node |-> Listeners \cup {Sending(e) : e \in Emitters},
   edge |-> {<<Sending(r[1]), r[2]>> : r \in rs} \cup ws
              \cup {<<f, Sending(f)>> : f \in Fields}]

\* The calls that are made, directly or not, inside a call: Reached[N] are those with
\* only calls of N between the two (as ConnectionsIn of module Graphs computes it).
Nested(g) ==
  LET Reached[N \in SUBSET g.node] ==
        IF N = {} THEN g.edge
        ELSE LET u == CHOOSE u \in N : TRUE
                 R == Reached[N \ {u}]
             IN  R \cup {p \in g.node \X g.node : <<p[1], u>> \in R /\ <<u, p[2]>> \in R}
  IN  Reached[g.node]

Worlds ==
  {[routes |-> rs, writes |-> ws, calls |-> Nested(CallGraph(rs, ws))] :
     rs \in {r \in SUBSET Routes : Cardinality(r) <= MaxRoutes},
     ws \in {w \in SUBSET Writes : Cardinality(w) <= MaxWrites}}

\* No call leads to another of the same listener or emitter.
LoopFree == \A p \in world.calls : p[1] # p[2]

\* Nothing is sent to a set_url.
NoUrls == \A e \in world.routes \cup world.writes : e[2] \notin Urls

-----------------------------------------------------------------------------
(* Frames. *)

Emitting(e) == [op |-> "emit", node |-> e, todo |-> {r[2] : r \in {q \in routes : q[1] = e}}]
\* Mutation: the eventOuts are sent at the end of every event.
DirectingThenSend(s, then) ==
  [op |-> "direct", node |-> s, seen |-> {}, then |-> IF then = "event" THEN "initialize" ELSE then]

Directing(s, then) == [op |-> "direct", node |-> s, seen |-> {}, then |-> then]
Updating(i) == [op |-> "update", next |-> i]

TopCall == stack[Len(stack)]
Below == SubSeq(stack, 1, Len(stack) - 1)
OnStack(op, n) == \E i \in DOMAIN stack : stack[i].op = op /\ stack[i].node = n

\* The stack with f called from the frame `caller', which replaces the top.
Called(caller, f) == Append(Append(Below, caller), f)

NoFault == "none"

-----------------------------------------------------------------------------
(* What a Script's code does. *)

\* The lock a route change takes is held by every loop that sends for that emitter.
RouteChange ==
  \/ UNCHANGED routes /\ fault' = NoFault
  \/ \E r \in Changes \cap world.routes :
       IF OnStack("emit", r[1])
       THEN fault' = "deadlock" /\ UNCHANGED routes
       ELSE /\ routes' \in {routes \cup {r}, routes \ {r}}
            /\ fault' = NoFault

\* Mutation: a call that does not set the eventOut clears the flag.
CodeClears(s, out) ==
  /\ \E set \in BOOLEAN :
       /\ modified' = [modified EXCEPT ![s] = set]
       /\ pending' = [pending EXCEPT ![s] = @ \/ set]
  /\ directOutput' = [directOutput EXCEPT ![s] = @ \cup out]
  /\ RouteChange

\* The code may set the eventOut, and queue direct output to the listeners in `out'.
Code(s, out) ==
  /\ \E set \in BOOLEAN :
       /\ modified' = [modified EXCEPT ![s] = @ \/ set]
       /\ pending' = [pending EXCEPT ![s] = @ \/ set]
  /\ directOutput' = [directOutput EXCEPT ![s] = @ \cup out]
  /\ RouteChange

MayWrite(s) == SUBSET {w[2] : w \in {q \in world.writes : q[1] = s}}

-----------------------------------------------------------------------------
(* Listeners: one event for l, sent by the frame `caller'. *)

\* exposedField<T>::do_process_event sends the new value on at once.
ProcessField(f, caller) ==
  /\ stack' = Called(caller, Emitting(f))
  /\ fault' = NoFault
  /\ UNCHANGED <<routes, nodeVars>>

\* A Script's engine runs at once, then its direct output goes out.
ProcessScript(s, caller) ==
  IF s \in engine
  THEN /\ \E out \in MayWrite(s) : Code(s, out)
       /\ stack' = Called(caller, Directing(s, "event"))
       /\ UNCHANGED received
  ELSE /\ received' = [received EXCEPT ![s] = TRUE]
       /\ stack' = Append(Below, caller)
       /\ fault' = NoFault
       /\ UNCHANGED <<routes, modified, pending, directOutput>>

\* set_url discards the engine and initializes the node again.
ProcessUrl(s) ==
  /\ fault' = IF OnStack("direct", s) THEN "freed engine"
              ELSE IF stage # "running" THEN "no scene"
              ELSE IF stack[1].op = "update" THEN "deadlock" ELSE "script added twice"
  /\ UNCHANGED <<routes, stack, nodeVars>>

Process(l, caller) ==
  \/ l \in Fields /\ ProcessField(l, caller)
  \/ l \in Scripts /\ ProcessScript(l, caller)
  \/ \E s \in Scripts : l = Url(s) /\ ProcessUrl(s)

-----------------------------------------------------------------------------
(* The frames' steps. *)

CallRuns == fault = NoFault /\ stack # <<>> /\ Len(stack) <= MaxDepth

\* A call that no longer fits on the stack.
Overflow ==
  /\ fault = NoFault
  /\ Len(stack) > MaxDepth
  /\ fault' = "overflow"
  /\ UNCHANGED <<world, routes, stack, nodeVars, browserVars>>

\* emit_event's loop.
EmitNext ==
  /\ CallRuns /\ TopCall.op = "emit"
  /\ \E l \in TopCall.todo : Process(l, [TopCall EXCEPT !.todo = @ \ {l}])
  /\ UNCHANGED <<world, browserVars>>

\* eventout::emit_event clears the flag when the listeners have returned.
EmitEnd ==
  /\ CallRuns /\ TopCall.op = "emit" /\ TopCall.todo = {}
  /\ modified' = [s \in Scripts |-> modified[s] /\ s # TopCall.node]
  /\ stack' = Below
  /\ UNCHANGED <<world, routes, received, pending, directOutput, browserVars, fault>>

\* Mutation: the iterator is not advanced.
DirectNextAgain ==
  /\ CallRuns /\ TopCall.op = "direct"
  /\ \E l \in directOutput[TopCall.node] \ TopCall.seen : Process(l, TopCall)
  /\ UNCHANGED <<world, browserVars>>

\* process_direct_output's loop.
DirectNext ==
  /\ CallRuns /\ TopCall.op = "direct"
  /\ \E l \in directOutput[TopCall.node] \ TopCall.seen : Process(l, [TopCall EXCEPT !.seen = @ \cup {l}])
  /\ UNCHANGED <<world, browserVars>>

\* The eventOuts a call set are sent at its end, but not for an event's.
SendModified(s, caller) ==
  IF modified[s]
  THEN /\ stack' = Append(caller, Emitting(s))
       /\ pending' = [pending EXCEPT ![s] = FALSE]
  ELSE stack' = caller /\ UNCHANGED pending

\* Mutation: the map is not emptied.
KeepOutput(s) == UNCHANGED directOutput

ForgetOutput(s) == directOutput' = [directOutput EXCEPT ![s] = {}]

\* The map is emptied under every loop of the same Script; then the caller goes on.
DirectEnd ==
  LET s == TopCall.node IN
  /\ CallRuns /\ TopCall.op = "direct" /\ directOutput[s] \subseteq TopCall.seen
  /\ ForgetOutput(s)
  /\ fault' = IF \E i \in 1 .. Len(stack) - 1 : stack[i].op = "direct" /\ stack[i].node = s
                THEN "invalid iterator" ELSE NoFault
  /\ \/ /\ TopCall.then = "event"
        /\ received' = [received EXCEPT ![s] = TRUE]
        /\ stack' = Below
        /\ UNCHANGED <<pending, scripts>>
     \/ /\ TopCall.then = "initialize"
        /\ SendModified(s, Below)
        /\ UNCHANGED <<received, scripts>>
     \/ /\ TopCall.then = "shutdown"
        /\ scripts' = RemoveFirst(scripts, s)
        /\ stack' = Below
        /\ UNCHANGED <<received, pending>>
  /\ UNCHANGED <<world, routes, modified, stage, engine, updates>>

-----------------------------------------------------------------------------
(* What the browser calls. *)

ThreadIdle == fault = NoFault /\ stack = <<>>

\* script_node::do_initialize, for one Script after another.
Initialize ==
  /\ ThreadIdle /\ stage = "loading"
  /\ Len(scripts) < Len(Order)
  /\ LET s == Order[Len(scripts) + 1] IN
       /\ scripts' = Append(scripts, s)
       /\ engine' = engine \cup {s}
       /\ received' = [received EXCEPT ![s] = FALSE]
       /\ \E out \in MayWrite(s) : Code(s, out)
       /\ stack' = <<Directing(s, "initialize")>>
  /\ UNCHANGED <<world, stage, updates>>

Loaded ==
  /\ ThreadIdle /\ stage = "loading" /\ Len(scripts) = Len(Order)
  /\ stage' = "running"
  /\ UNCHANGED <<world, routes, stack, scripts, engine, nodeVars, updates, fault>>

\* A pointing device's event comes between two updates.
SensitiveEvent ==
  /\ ThreadIdle /\ stage = "running"
  /\ stack' = <<Emitting(Sensor)>>
  /\ UNCHANGED <<world, routes, nodeVars, browserVars, fault>>

\* browser::update: the sensor's time events, then every Script.
Update ==
  /\ ThreadIdle /\ stage = "running" /\ updates < MaxUpdates
  /\ updates' = updates + 1
  /\ stack' \in {<<Updating(1)>>, <<Updating(1), Emitting(Sensor)>>}
  /\ UNCHANGED <<world, routes, stage, scripts, engine, nodeVars, fault>>

\* script_node::update: eventsProcessed if events came, then the eventOuts.
\* (An eventOut is set before or by eventsProcessed; both are sent here.)
EventsProcessed ==
  /\ CallRuns /\ TopCall.op = "update" /\ TopCall.next <= Len(scripts)
  /\ LET s == scripts[TopCall.next] IN
       /\ received[s]
       /\ received' = [received EXCEPT ![s] = FALSE]
       /\ \E out \in (IF s \in LateWriters THEN MayWrite(s) ELSE {{}}) : Code(s, out)
  /\ UNCHANGED <<world, stack, browserVars>>

\* Mutation: eventsProcessed may be left out.
UpdateScriptUnprocessed ==
  /\ CallRuns /\ TopCall.op = "update" /\ TopCall.next <= Len(scripts)
  /\ SendModified(scripts[TopCall.next], Append(Below, Updating(TopCall.next + 1)))
  /\ UNCHANGED <<world, routes, received, modified, directOutput, browserVars, fault>>

UpdateScript ==
  /\ CallRuns /\ TopCall.op = "update" /\ TopCall.next <= Len(scripts)
  /\ LET s == scripts[TopCall.next] IN
       /\ ~received[s]
       /\ SendModified(s, Append(Below, Updating(TopCall.next + 1)))
  /\ UNCHANGED <<world, routes, received, modified, directOutput, browserVars, fault>>

UpdateEnd ==
  /\ CallRuns /\ TopCall.op = "update" /\ TopCall.next > Len(scripts)
  /\ stack' = Below
  /\ UNCHANGED <<world, routes, nodeVars, browserVars, fault>>

\* script_node::do_shutdown, for one Script after another.
Shutdown ==
  /\ ThreadIdle /\ stage \in {"running", "down"} /\ scripts # <<>>
  /\ stage' = "down"
  /\ LET s == scripts[1] IN
       /\ \E out \in MayWrite(s) : Code(s, out)
       /\ stack' = <<Directing(s, "shutdown")>>
  /\ UNCHANGED <<world, scripts, engine, received, updates>>

Step == EmitNext \/ EmitEnd \/ DirectNext \/ DirectEnd \/ EventsProcessed \/ UpdateScript \/ UpdateEnd

ScriptsNext ==
  \/ Step \/ Overflow
  \/ Initialize \/ Loaded \/ SensitiveEvent \/ Update \/ Shutdown

ScriptsInit ==
  /\ world \in Worlds
  /\ routes \in {world.routes, world.routes \ Changes}
  /\ stack = <<>>
  /\ stage = "loading"
  /\ scripts = <<>>
  /\ engine = {}
  /\ received = [s \in Scripts |-> FALSE]
  /\ modified = [s \in Scripts |-> FALSE]
  /\ pending = [s \in Scripts |-> FALSE]
  /\ directOutput = [s \in Scripts |-> {}]
  /\ updates = 0
  /\ fault = NoFault

\* The thread goes on with a call it has begun; a timer begins the next update,
\* however many events of the pointing device come between (SF).
ScriptsFairness == WF_seVars(Step) /\ WF_seVars(Initialize \/ Loaded) /\ SF_seVars(Update)

ScriptsSpec == ScriptsInit /\ [][ScriptsNext]_seVars /\ ScriptsFairness

-----------------------------------------------------------------------------
(* Properties. *)

Faults == {NoFault, "overflow", "deadlock", "freed engine", "no scene",
           "script added twice", "invalid iterator"}

\* Every variable has its type: the state of the emitters, the Scripts and
\* the calls (event.h, script.h).
ScriptsTypeOK ==
  /\ routes \subseteq world.routes
  /\ \A i \in DOMAIN stack : stack[i].op \in {"emit", "direct", "update"}
  /\ Len(stack) <= MaxDepth + 1
  /\ stage \in {"loading", "running", "down"}
  /\ scripts \in Seq(Scripts)
  /\ engine \subseteq Scripts
  /\ {received, modified, pending} \subseteq [Scripts -> BOOLEAN]
  /\ directOutput \in [Scripts -> SUBSET Listeners]
  /\ updates \in 0 .. MaxUpdates
  /\ fault \in Faults

\* In a world whose calls do not loop and that never sends to a set_url,
\* whatever the Scripts' code does the thread neither overflows its stack nor
\* uses an iterator that process_direct_output invalidated: only a route that
\* is changed while its emitter is sending stops it (event.h 209, 252).  In any
\* world that is the only way to block on a listeners_mutex_, and an eventOut
\* whose sender the code cannot reach can always be rerouted (node.cpp 2698-2788).
LoopFreeIsSafe ==
  NoUrls =>
    /\ LoopFree => fault \in {NoFault, "deadlock"}
    /\ fault = "deadlock" =>
         \E r \in Changes \cap world.routes :
           OnStack("emit", r[1]) /\ \E s \in Scripts : <<Sending(r[1]), s>> \in world.calls

\* A value a Script gave an eventOut is sent at the end of a call or by the
\* next update, unless the eventOut's own events come back to the Script:
\* then emit_event clears the flag that the nested call has set (script.cpp 840).
NothingIsLost ==
  \A s \in Scripts : pending[s] /\ <<Sending(s), s>> \notin world.calls => modified[s]

\* What the documentation of eventout::value says without that exception:
\* modified() returns true until the value is sent (script.cpp 775-776).
ModifiedUntilSent == \A s \in Scripts : pending[s] => modified[s]

\* Direct output is sent at the end of the call that queued it: the map of a
\* Script is empty outside its calls, but for what eventsProcessed queued
\* (script.cpp 127-155, 296-309).
DirectOutputIsSent ==
  \A s \in Scripts \ LateWriters :
    fault = NoFault /\ ~OnStack("direct", s) => directOutput[s] = {}

\* In a loop-free world, every update and every event of a pointing device
\* comes to its end (browser.cpp 2319-2349, event.h 246-266).
CallsReturn == LoopFree /\ stack # <<>> ~> stack = <<>> \/ fault # NoFault

\* A Script that has received events when the browser is idle has its
\* eventsProcessed called in the next update (script.cpp 2095-2100).
EventsAreProcessed ==
  \A s \in Scripts :
    LoopFree /\ stage = "running" /\ stack = <<>> /\ received[s] /\ updates < MaxUpdates
      ~> ~received[s] \/ fault # NoFault \/ stage = "down"
===============================================================================
