------------------------------ MODULE TimeSensor ------------------------------
(***************************************************************************)
(* One TimeSensor node (src/src/node/vrml97/time_sensor.cpp): the browser  *)
(* calls do_update with the time of each tick, and events change its       *)
(* exposedFields between two ticks and, since listeners are called as      *)
(* events are sent, in the middle of a tick or of another event.           *)
(*                                                                         *)
(* Times are whole numbers, so that fequal and fless_equal are = and <=.   *)
(* What the sensor only reports (time, cycleTime, fraction_changed and the *)
(* *_changed events) is left out: sending it is where listeners may act.   *)
(***************************************************************************)
EXTENDS Integers, Sequences, Functions

CONSTANTS
  MaxTime,      \* bound: the last time of the clock
  Cycles,       \* the values an event or the file gives cycleInterval
  Starts,       \* ... startTime
  Stops,        \* ... stopTime
  MaxSetBacks,  \* bound: how often the clock of the host goes back
  MaxHandlers   \* bound: the ticks and set_enabled events at work at once

ASSUME TimeSensorAssumption ==
  /\ MaxTime \in Nat \ {0}
  /\ Cycles \subseteq Nat \ {0}
  /\ Starts \subseteq Nat
  /\ Stops \subseteq Nat
  /\ {MaxSetBacks, MaxHandlers} \subseteq Nat

VARIABLES
  now,            \* the time on the host's clock
  setBacks,       \* how often the clock went back
  enabled, loop, cycleInterval, startTime, stopTime,  \* the exposedFields
  isActive,       \* is_active_
  lastTime,       \* lastTime: the last tick, or the timestamp of a change
  handlers,       \* the ticks and set_enabled events at work, the innermost last
  told,           \* the last isActive event that a listener was sent
  ran,            \* history: a tick has started the sensor since startTime was set
  rewound,        \* history: lastTime or the clock went back, and no tick after
                  \* startTime has been seen since
  crossed         \* history: a set_enabled came while another one was at work, or
                  \* the value it was sent changed meanwhile

sensorFields == <<enabled, loop, cycleInterval, startTime, stopTime>>
clock == <<now, setBacks>>
tsVars == <<now, setBacks, enabled, loop, cycleInterval, startTime, stopTime, isActive,
            lastTime, handlers, told, ran, rewound, crossed>>

-----------------------------------------------------------------------------
(* A handler at work: what it still has to do, the timestamp of the events *)
(* it sends, and the isActive it sets.  (That of a set_enabled event is    *)
(* the value its sender holds, which the handler has by reference.)        *)

ToStore == <<"store", "tell">>  \* set is_active_, and send it: a set_enabled event
ToTell == <<"tell", "seen">>    \* send isActive, and see the tick
ToSee == <<"seen">>             \* see the tick: set lastTime
Todos == {ToStore, Tail(ToStore), ToTell, ToSee}

Handler(todo, at, v) == [todo |-> todo, at |-> at, v |-> v]

NoneAtWork == handlers = << >>
Innermost == handlers[Len(handlers)]
Does(step) == ~NoneAtWork /\ Head(Innermost.todo) = step
Owes(step) == \E i \in DOMAIN handlers : step \in Range(handlers[i].todo)

(* The innermost handler goes on after a step; it returns after its last. *)
GoesOn ==
  handlers' = IF Len(Innermost.todo) = 1 THEN SubSeq(handlers, 1, Len(handlers) - 1)
              ELSE [handlers EXCEPT ![Len(handlers)].todo = Tail(@)]

-----------------------------------------------------------------------------
(* The tick: do_update. *)

(* A tick before the last one moves lastTime back. *)
LastSeen(t) == IF lastTime > t THEN t ELSE lastTime

(* Mutation: a start that was already seen counts again. *)
BecomesActiveAgain(t) ==
  /\ ~isActive
  /\ startTime <= t
  /\ stopTime < startTime \/ stopTime > t \/ loop

BecomesActive(t) ==
  /\ ~isActive
  /\ startTime <= t
  /\ startTime >= LastSeen(t)
  /\ stopTime < startTime \/ stopTime > t \/ loop

StopTimeReached(t) == stopTime > startTime /\ stopTime <= t

(* Mutation: a tick after the end of the cycle does not notice it. *)
CycleIsOverExactly(t) == ~loop /\ startTime + cycleInterval = t

CycleIsOver(t) == ~loop /\ startTime + cycleInterval <= t

Done(t) == StopTimeReached(t) \/ CycleIsOver(t)

(* Mutations: the comparison is turned round; stopTime is forgotten. *)
EndTimeLatest ==
  IF startTime + cycleInterval > stopTime THEN startTime + cycleInterval ELSE stopTime
EndTimeOfCycle == startTime + cycleInterval

(* The time the last events of a run carry. *)
EndTime ==
  IF startTime + cycleInterval < stopTime THEN startTime + cycleInterval ELSE stopTime

Start(t) ==
  /\ BecomesActive(t)
  /\ isActive' = TRUE
  /\ lastTime' = LastSeen(t)
  /\ handlers' = << Handler(ToTell, t, TRUE) >>
  /\ ran' = TRUE
  /\ UNCHANGED rewound

(* A tick of an active sensor; the last one of a run is told at the end of *)
(* it, when listeners of the fraction and the time may have changed it.    *)
Run(t) ==
  /\ isActive
  /\ isActive' = ~Done(t)
  /\ lastTime' = LastSeen(t)
  /\ handlers' = << IF Done(t) THEN Handler(ToTell, EndTime, FALSE) ELSE Handler(ToSee, t, TRUE) >>
  /\ UNCHANGED <<ran, rewound>>

SensorIdle(t) ==
  /\ ~isActive /\ ~BecomesActive(t)
  /\ lastTime' = t
  /\ rewound' = (rewound /\ t <= startTime)
  /\ UNCHANGED <<isActive, handlers, ran>>

(* Mutation: ticks start a sensor that is disabled. *)
TickUnchecked(t) ==
  /\ now' = t
  /\ Start(t) \/ Run(t) \/ SensorIdle(t)
  /\ UNCHANGED <<sensorFields, told, crossed>>

(* do_update does nothing, and does not see the tick, while disabled. *)
TickAt(t) ==
  /\ now' = t
  /\ \/ enabled /\ (Start(t) \/ Run(t) \/ SensorIdle(t))
     \/ ~enabled /\ UNCHANGED <<isActive, lastTime, handlers, ran, rewound>>
  /\ UNCHANGED <<sensorFields, told, crossed>>

Tick == NoneAtWork /\ \E t \in now .. MaxTime : t > 0 /\ TickAt(t) /\ UNCHANGED setBacks

(* The host's clock is set back: the next tick clamps lastTime, and a      *)
(* start that the sensor has already seen may be seen again.               *)
SetBack ==
  /\ NoneAtWork
  /\ setBacks < MaxSetBacks /\ setBacks' = setBacks + 1
  /\ now' \in 0 .. now - 1
  /\ rewound' = TRUE
  /\ UNCHANGED <<sensorFields, isActive, lastTime, handlers, told, ran, crossed>>

-----------------------------------------------------------------------------
(* The events.  One that a listener sends carries the timestamp of the     *)
(* event it was sent.  One from elsewhere carries the present time, or a   *)
(* past one if the end of another sensor's run has set it off.             *)

Carries(at) ==
  /\ IF NoneAtWork THEN at \in 0 .. MaxTime ELSE at = Innermost.at
  /\ now' = IF at > now THEN at ELSE now
  /\ UNCHANGED setBacks

(* set_cycleInterval and set_startTime are ignored while active.  The      *)
(* timestamp becomes lastTime, also one that has passed.                   *)
SetCycleInterval ==
  \E c \in Cycles, at \in 0 .. MaxTime :
    /\ Carries(at) /\ ~isActive
    /\ cycleInterval' = c
    /\ lastTime' = at
    /\ rewound' = (rewound \/ at < lastTime)
    /\ UNCHANGED <<enabled, loop, startTime, stopTime, isActive, handlers, told, ran, crossed>>

SetStartTime ==
  \E s \in Starts, at \in 0 .. MaxTime :
    /\ Carries(at) /\ ~isActive
    /\ startTime' = s
    /\ lastTime' = at
    /\ ran' = FALSE /\ rewound' = FALSE
    /\ UNCHANGED <<enabled, loop, cycleInterval, stopTime, isActive, handlers, told, crossed>>

SetStopTime ==
  \E s \in Stops, at \in 0 .. MaxTime :
    /\ Carries(at)
    /\ stopTime' = s
    /\ UNCHANGED <<enabled, loop, cycleInterval, startTime, isActive, lastTime, handlers, told,
                   ran, rewound, crossed>>

SetLoop ==
  \E b \in BOOLEAN, at \in 0 .. MaxTime :
    /\ Carries(at)
    /\ loop' = b
    /\ UNCHANGED <<enabled, cycleInterval, startTime, stopTime, isActive, lastTime, handlers, told,
                   ran, rewound, crossed>>

(* exposedField::do_process_event, and enabled_exposedfield's side effect, *)
(* which sends cycleTime, time and fraction_changed before it stores       *)
(* is_active_.  The sensor is started although startTime may not have come.*)
SetEnabled ==
  \E b \in BOOLEAN, at \in 0 .. MaxTime :
    /\ Carries(at)
    /\ enabled' = b
    /\ crossed' = Owes("store")
    /\ IF b = isActive THEN UNCHANGED handlers
       ELSE /\ Len(handlers) < MaxHandlers
            /\ handlers' = Append(handlers, Handler(ToStore, at, b))
    /\ UNCHANGED <<loop, cycleInterval, startTime, stopTime, isActive, lastTime, told,
                   ran, rewound>>

(* What sent a set_enabled event changes its value, before it is read again. *)
SenderChanges ==
  /\ \E i \in DOMAIN handlers :
       /\ handlers[i].todo = ToStore
       /\ handlers' = [handlers EXCEPT ![i].v = ~@]
  /\ crossed' = TRUE
  /\ UNCHANGED <<clock, sensorFields, isActive, lastTime, told, ran, rewound>>

-----------------------------------------------------------------------------
(* The steps of the handlers at work. *)

Store ==
  /\ Does("store")
  /\ isActive' = Innermost.v
  /\ GoesOn
  /\ UNCHANGED <<clock, sensorFields, lastTime, told, ran, rewound, crossed>>

(* Mutation: the value that was set is sent, not the one there is. *)
TellSet ==
  /\ Does("tell")
  /\ told' = Innermost.v
  /\ GoesOn
  /\ UNCHANGED <<clock, sensorFields, isActive, lastTime, ran, rewound, crossed>>

(* Listeners are sent the value that is_active_ has when they are called. *)
Tell ==
  /\ Does("tell")
  /\ told' = isActive
  /\ GoesOn
  /\ UNCHANGED <<clock, sensorFields, isActive, lastTime, ran, rewound, crossed>>

(* The end of do_update; the clock stands still while it is at work. *)
Seen ==
  /\ Does("seen")
  /\ lastTime' = now
  /\ rewound' = (rewound /\ now <= startTime)
  /\ GoesOn
  /\ UNCHANGED <<clock, sensorFields, isActive, told, ran, crossed>>

-----------------------------------------------------------------------------
SensorInit ==
  /\ now = 0 /\ setBacks = 0
  /\ enabled \in BOOLEAN /\ loop \in BOOLEAN
  /\ cycleInterval \in Cycles /\ startTime \in Starts /\ stopTime \in Stops
  /\ isActive = FALSE /\ told = FALSE
  /\ lastTime = -1
  /\ handlers = << >>
  /\ ran = FALSE /\ rewound = FALSE /\ crossed = FALSE

SetField ==
  SetCycleInterval \/ SetStartTime \/ SetStopTime \/ SetLoop \/ SetEnabled \/ SenderChanges

HandlerStep == Store \/ Tell \/ Seen

SensorNext == Tick \/ SetBack \/ SetField \/ HandlerStep

(* Listeners return.  The host calls browser::update again and again (the  *)
(* timers of the player and of the control), and its clock goes on.        *)
SensorFairness ==
  WF_tsVars(HandlerStep) /\ SF_tsVars(Tick) /\ SF_tsVars(Tick /\ now' > now)

SensorSpec == SensorInit /\ [][SensorNext]_tsVars /\ SensorFairness

-----------------------------------------------------------------------------
(* Properties. *)

(* Every variable of the sensor has its type (time_sensor.cpp).  A tick    *)
(* only comes while nothing is at work.                                    *)
SensorTypeOK ==
  /\ now \in 0 .. MaxTime
  /\ setBacks \in 0 .. MaxSetBacks
  /\ enabled \in BOOLEAN
  /\ loop \in BOOLEAN
  /\ cycleInterval \in Cycles
  /\ startTime \in Starts
  /\ stopTime \in Stops
  /\ isActive \in BOOLEAN
  /\ lastTime \in -1 .. MaxTime
  /\ handlers \in Seq([todo : Todos, at : Nat, v : BOOLEAN])
  /\ \A i \in DOMAIN handlers : "seen" \in Range(handlers[i].todo) => i = 1
  /\ {told, ran, rewound, crossed} \subseteq BOOLEAN

(* A disabled sensor is not active, however ticks, the ends of runs and    *)
(* the events of their listeners are interleaved, once the set_enabled     *)
(* that disables it has stored is_active_; except when a listener of what  *)
(* it sends before it does so has set enabled once more, or has changed    *)
(* the value that it was sent (time_sensor.cpp 288-296): the inner event   *)
(* finds is_active_ as it was, and the outer one stores over it.           *)
DisabledIsInactive == (~enabled /\ isActive) => (Owes("store") \/ crossed)

(* No event is ahead of the clock: the end of a run, which is computed     *)
(* from the fields and not from the tick, lies in the past, and listeners  *)
(* pass its time on.  Nor is lastTime, unless the clock is set back.       *)
NoFutureEvents ==
  /\ \A i \in DOMAIN handlers : handlers[i].at <= now
  /\ setBacks = 0 => lastTime <= now

(* A tick that ends the run of a sensor that has a valid stopTime and does *)
(* not loop sends its last events with exactly stopTime or the end of the  *)
(* cycle, whichever is first ("Must respect stopTime/cycleInterval         *)
(* exactly").                                                              *)
EndsExactly ==
  [][ (NoneAtWork /\ isActive /\ ~isActive' /\ ~loop /\ stopTime > startTime) =>
        handlers'[1].at = (IF stopTime < startTime + cycleInterval THEN stopTime
                                                       ELSE startTime + cycleInterval) ]_tsVars

(* Ticks start the sensor at most once for each startTime it is given,     *)
(* whatever ticks, events and their listeners do to loop, stopTime,        *)
(* cycleInterval and enabled in between.  What can start it once more is a *)
(* clock that was set back, a set_cycleInterval with a timestamp before    *)
(* lastTime (182: the end of another sensor's run, 565-570, may carry one),*)
(* or crossed set_enabled events, which may leave it enabled, inactive and *)
(* with lastTime at its startTime.                                         *)
RunsOncePerStart ==
  [][ (NoneAtWork /\ ran /\ ~isActive /\ isActive') => (rewound \/ crossed) ]_tsVars

(* Why ticks start the sensor once: the tick in progress, or else lastTime,*)
(* has passed startTime, or is equal to it while the run lasts (or was cut *)
(* short by disabling the sensor, which ticks pass over).                  *)
LastTick == IF Owes("seen") THEN now ELSE lastTime
StartIsSeen ==
  (ran /\ ~rewound) =>
    /\ startTime <= LastTick /\ LastTick <= now
    /\ LastTick = startTime => (isActive \/ ~enabled \/ Owes("store") \/ crossed)

(* A listener of isActive has been told what it is, whenever no isActive   *)
(* event is under way.  (It may be told the same twice: when a listener of *)
(* what a tick sends between the end of a run and its isActive event, 562  *)
(* to 600, enables the sensor, both events say TRUE.)                      *)
IsActiveIsTold == told = isActive \/ Owes("tell")

(* A sensor that does not loop ends its run, also one that an event        *)
(* enabled before its startTime.                                           *)
RunsEnd == (isActive /\ ~loop) ~> (~isActive \/ loop \/ ~enabled)
=============================================================================
