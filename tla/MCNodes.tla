------------------------------- MODULE MCNodes -------------------------------
(***************************************************************************)
(* The nodes with a behaviour of their own on small instances: bindable    *)
(* nodes of three types, whose events cascade through a world from its     *)
(* load to the next one, and a TimeSensor with its clock.  They share no   *)
(* state, so that each is checked while the other rests.                   *)
(***************************************************************************)
EXTENDS MCBindableNodes, TimeSensor

VARIABLE part  \* the part that runs

allVars == <<vars, tsVars, part>>

SensorRests == ~enabled /\ ~loop /\ cycleInterval = 2 /\ startTime = 0 /\ stopTime = 0

NodesInit ==
  /\ part \in {"bindables", "sensor"}
  /\ Init
  /\ SensorInit /\ (part = "sensor" \/ SensorRests)

NodesNext ==
  \/ part = "bindables" /\ Next /\ UNCHANGED <<tsVars, part>>
  \/ part = "sensor" /\ SensorNext /\ UNCHANGED <<vars, part>>

\* The fairness of each part, while it runs.
NodesFairness ==
  /\ WF_vars(part = "bindables" /\ CallStep)
  /\ WF_tsVars(part = "sensor" /\ HandlerStep)
  /\ SF_tsVars(part = "sensor" /\ Tick)
  /\ SF_tsVars(part = "sensor" /\ Tick /\ now' > now)

NodesSpec == NodesInit /\ [][NodesNext]_allVars /\ NodesFairness
===============================================================================
