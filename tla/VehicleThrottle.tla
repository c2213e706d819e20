-------------------------- MODULE VehicleThrottle --------------------------
(* Driving a vehicle: VehicleControlView (apps/lmrstudio) with its speed     *)
(* dial, function buttons and vehicle list (VehicleInfoModel, lmrs/core),    *)
(* and the vehicle control of the Z21 (z21device.cpp), which polls the       *)
(* vehicles it has been subscribed to.                                       *)
(*                                                                           *)
(* The dial and the buttons send a command whenever they change, whether the *)
(* user moved them, chose another vehicle, or the station told a new state.  *)
(*                                                                           *)
(* Abstractions.  One function; nothing is lost or overtaken; the session    *)
(* lasts (see Z21Client).  RailCom and emergency stops are left out.         *)
EXTENDS Integers, SequencesExt

CONSTANTS
    Vehicles,
    None,           \* no vehicle
    MaxSpeed,
    QuerySlots,     \* vehicles queried at once, the current one included
    MaxActs         \* bound: how often people act

ThrottleAssumption ==
    /\ IsFiniteSet(Vehicles) /\ {MaxSpeed, QuerySlots - 1} \subseteq Nat \ {0}
    /\ QuerySlots \in Nat /\ MaxActs \in Nat

Directions == {"Forward", "Reverse"}
Infos      == [speed : 0..MaxSpeed, direction : Directions, function : BOOLEAN]

VARIABLES
    box,            \* address in the address box
    dial, button,   \* the speed dial, and is the function button checked
    rows,           \* vehicle -> its VehicleInfo in the list
    heard,          \* vehicles the station has told something about
    subscriptions, current, pointer,    \* m_subscriptions, m_currentVehicle,
                                        \* m_inqueryPointer
    waits,          \* subscribed vehicle -> polls since it was queried
    requests,       \* requests on their way to the station
    answers,        \* states on their way to the app
    layout,         \* vehicle -> what it does
    asked,          \* vehicle -> what people asked it to do
    drives,         \* how often people acted
    wished,         \* vehicle -> dials people asked of it so far
    rash            \* vehicles people acted on too early (see Act)

vars == <<box, dial, button, rows, heard, subscriptions, current, pointer, waits,
          requests, answers, layout, asked, drives, wished, rash>>

Dial == [speed : 0..MaxSpeed, direction : Directions]

\* VehicleInfo{}, and what updateVehicleName() makes of a name alone.
DefaultInfo == [speed |-> 0, direction |-> "Forward", function |-> FALSE]

DialOf(info) == [speed |-> info.speed, direction |-> info.direction]

\* restoreVehicleNames() has subscribed to the vehicles with a name, in some order;
\* m_currentVehicle is none until a vehicle is chosen or driven.
Init ==
    /\ box \in Vehicles
    /\ dial = [speed |-> 0, direction |-> "Forward"] /\ button = FALSE
    /\ rows = [v \in Vehicles |-> DefaultInfo] /\ heard = {}
    /\ \E named \in SUBSET Vehicles : subscriptions \in SetToSeqs(named)
    /\ current = None /\ pointer = 0
    /\ waits = [v \in Vehicles |-> 0]
    /\ requests = <<>> /\ answers = <<>>
    /\ layout \in [Vehicles -> Infos] /\ asked = layout
    /\ drives = 0
    /\ wished = [v \in Vehicles |-> {DialOf(layout[v])}] /\ rash = {}

Quiet == requests = <<>> /\ answers = <<>>

\* Something about the vehicle is under way.
Busy(v) == \/ \E i \in DOMAIN requests : requests[i].vehicle = v
           \/ \E i \in DOMAIN answers : answers[i].vehicle = v

-----------------------------------------------------------------------------
(* Requests.                                                                 *)

Drive(v, d)    == [kind |-> "drive", vehicle |-> v, speed |-> d.speed,
                   direction |-> d.direction, function |-> FALSE]
Switch(v, on)  == [kind |-> "switch", vehicle |-> v, speed |-> 0,
                   direction |-> "Forward", function |-> on]
QueryOf(v)     == [kind |-> "query", vehicle |-> v, speed |-> 0,
                   direction |-> "Forward", function |-> FALSE]

\* SpeedDial::value(): reverse is negative, and nothing is neither.
Value(d) == IF d.direction = "Forward" THEN d.speed ELSE -d.speed

\* A slip of setValue(): valueChanged() is emitted before the bias is set.
BiasLate(v, old, new) ==
    IF Value(new) = Value(old) THEN <<>>
    ELSE <<Drive(v, [new EXCEPT !.direction = old.direction])>>
\* onSpeedDialValueChanged(), if the value has changed.
FromDial(v, old, new) == IF Value(new) = Value(old) THEN <<>> ELSE <<Drive(v, new)>>

\* toggled() of the button
FromButton(v, old, new) == IF new = old THEN <<>> ELSE <<Switch(v, new)>>

\* updateFromVehicleInfo(): dial and button follow; what that makes them send goes
\* to the vehicle in the address box.
Follow(v, info) ==
    LET sent == FromDial(v, dial, DialOf(info)) \o FromButton(v, button, info.function)
    IN  /\ dial' = DialOf(info) /\ button' = info.function
        /\ requests' = requests \o sent
        /\ current' = IF sent = <<>> THEN current ELSE v

-----------------------------------------------------------------------------
(* People act at any time.                                                   *)

\* A person acts on vehicle v.  While something about it is under way, or before
\* anything is known of it (blind), that is rash: what is told of the time before
\* makes the app send it again (see VehiclesDoAsAsked).
Act(v, blind) ==
    /\ drives < MaxActs /\ drives' = drives + 1
    /\ rash' = IF Busy(v) \/ blind THEN rash \union {v} ELSE rash

\* What v is asked to do from now on.
Ask(v, info) ==
    /\ asked' = [asked EXCEPT ![v] = info]
    /\ wished' = [wished EXCEPT ![v] = @ \union {DialOf(info)}]

Station == <<layout, answers>>
Polling == <<subscriptions, pointer, waits>>
People  == <<asked, drives, wished, rash>>

\* subscribe() with PrimarySubscription
Subscribed(v) ==
    IF \E i \in DOMAIN subscriptions : subscriptions[i] = v THEN subscriptions
    ELSE Append(subscriptions, v)

\* onAddressBoxValueChanged(): any address may be chosen.
ChooseVehicle(v) ==
    /\ v # box /\ box' = v
    /\ LET sent == FromDial(v, dial, DialOf(rows[v])) \o FromButton(v, button, rows[v].function)
       IN  /\ requests' = requests \o sent
           /\ Act(v, v \notin heard /\ sent # <<>>)
    /\ dial' = DialOf(rows[v]) /\ button' = rows[v].function
    /\ subscriptions' = Subscribed(v) /\ current' = v
    /\ UNCHANGED <<rows, heard, pointer, waits, Station, asked, wished>>

\* The user turns the dial, which sends nothing when only the direction of a
\* vehicle at rest changes.
TurnDial ==
    /\ \E d \in Dial \ {dial} :
           /\ dial' = d
           /\ requests' = requests \o FromDial(box, dial, d)
           /\ \/ /\ Value(d) = Value(dial) /\ drives < MaxActs /\ drives' = drives + 1
                 /\ UNCHANGED <<asked, wished, rash, current>>
              \/ /\ Value(d) # Value(dial) /\ Act(box, FALSE)
                 /\ Ask(box, [asked[box] EXCEPT !.speed = d.speed, !.direction = d.direction])
                 /\ current' = box
    /\ UNCHANGED <<box, button, rows, heard, Polling, Station>>

\* The user presses the function button.
PressButton ==
    /\ Act(box, FALSE)
    /\ button' = ~button /\ current' = box
    /\ requests' = requests \o FromButton(box, button, ~button)
    /\ Ask(box, [asked[box] EXCEPT !.function = ~button])
    /\ UNCHANGED <<box, dial, rows, heard, Polling, Station>>

\* Somebody drives with a handset (external): the station tells of it.
Handset ==
    /\ \E v \in Vehicles, info \in Infos :
           /\ info # layout[v] /\ Act(v, FALSE)
           /\ layout' = [layout EXCEPT ![v] = info]
           /\ Ask(v, info)
           /\ answers' = Append(answers, [vehicle |-> v, info |-> info])
    /\ UNCHANGED <<box, dial, button, rows, heard, Polling, current, requests>>

-----------------------------------------------------------------------------
(* The poll timer.                                                           *)

\* The loop of onVehicleInqueryInterval(): from the pointer on, until all have
\* been looked at or the list is full.
Entry(p)  == subscriptions[(p % Len(subscriptions)) + 1]
Listed(k) == (IF current = None THEN {} ELSE {current})
                 \union {Entry(p) : p \in pointer..pointer + k - 1}

\* A slip: the pointer starts over with each poll.
FromStart(k) == 0
\* The pointer goes on where the loop ended.
PointerAfter(k) == IF subscriptions = <<>> THEN pointer ELSE (pointer + k) % Len(subscriptions)

\* How many subscriptions the loop looks at.
Looked ==
    CHOOSE k \in 0..Len(subscriptions) :
        /\ k = Len(subscriptions) \/ Cardinality(Listed(k)) >= QuerySlots
        /\ \A j \in 0..k - 1 : Cardinality(Listed(j)) < QuerySlots

\* onVehicleInqueryInterval(): the vehicles are queried, in some order; the timer
\* is slow, there are no queries left from before.
Poll ==
    /\ answers = <<>> /\ \A i \in DOMAIN requests : requests[i].kind # "query"
    /\ LET vs == Listed(Looked)
       IN  /\ \E order \in [1..Cardinality(vs) -> vs] :
                  /\ \A v \in vs : \E i \in DOMAIN order : order[i] = v
                  /\ requests' = requests \o [i \in DOMAIN order |-> QueryOf(order[i])]
           /\ waits' = [v \in Vehicles |->
                            IF v \in vs \/ \A i \in DOMAIN subscriptions : subscriptions[i] # v
                            THEN 0 ELSE waits[v] + 1]
    /\ pointer' = PointerAfter(Looked)
    /\ UNCHANGED <<box, dial, button, rows, heard, subscriptions, current, Station,
                   People>>

-----------------------------------------------------------------------------
(* The station and what it tells.                                            *)

\* The station executes a request and tells the state (external).
Execute ==
    /\ requests # <<>>
    /\ LET r == Head(requests)
           v == r.vehicle
       IN  /\ layout' = CASE r.kind = "drive" ->
                                [layout EXCEPT ![v].speed = r.speed,
                                               ![v].direction = r.direction]
                          [] r.kind = "switch" -> [layout EXCEPT ![v].function = r.function]
                          [] r.kind = "query" -> layout
           /\ answers' = Append(answers, [vehicle |-> v, info |-> layout'[v]])
    /\ requests' = Tail(requests)
    /\ UNCHANGED <<box, dial, button, rows, heard, Polling, current, People>>

\* info.address() == addressBox->value()
IsShown(v) == v = box

\* onVehicleInfoReceived(), onVehicleInfoChanged() and updateVehicleInfo()
Receive ==
    /\ answers # <<>>
    /\ LET a == Head(answers)
       IN  /\ rows' = [rows EXCEPT ![a.vehicle] = a.info]
           /\ heard' = heard \union {a.vehicle}
           /\ \/ IsShown(a.vehicle) /\ Follow(box, a.info)
              \/ ~IsShown(a.vehicle) /\ UNCHANGED <<dial, button, requests, current>>
    /\ answers' = Tail(answers)
    /\ UNCHANGED <<box, Polling, layout, People>>

Next ==
    \/ \E v \in Vehicles : ChooseVehicle(v)
    \/ TurnDial \/ PressButton \/ Handset
    \/ Poll \/ Execute \/ Receive

Spec == Init /\ [][Next]_vars

-----------------------------------------------------------------------------
(* Properties.                                                               *)

\* Every variable has its type.
TypeOK ==
    /\ box \in Vehicles /\ dial \in Dial /\ button \in BOOLEAN
    /\ rows \in [Vehicles -> Infos] /\ heard \subseteq Vehicles
    /\ subscriptions \in Seq(Vehicles) /\ current \in Vehicles \union {None}
    /\ pointer \in 0..Len(subscriptions)
    /\ waits \in [Vehicles -> Nat]
    /\ requests \in Seq([kind : {"drive", "switch", "query"}, vehicle : Vehicles,
                         speed : 0..MaxSpeed, direction : Directions,
                         function : BOOLEAN])
    /\ answers \in Seq([vehicle : Vehicles, info : Infos])
    /\ {layout, asked} \subseteq [Vehicles -> Infos] /\ drives \in 0..MaxActs
    /\ wished \in [Vehicles -> SUBSET Dial] /\ rash \subseteq Vehicles

\* Choosing a vehicle, or hearing of one, sends commands (onAddressBoxValueChanged(),
\* updateFromVehicleInfo(), onSpeedDialValueChanged(), SpeedDial::setValue()), while
\* those for other vehicles and their answers are still under way.  None of them makes
\* a vehicle go at a speed and direction nobody ever asked of it, be it another
\* vehicle's or a mix of two; but a vehicle chosen before anything is known of it may
\* be stopped.  And unless people act on a vehicle while something about it is under
\* way, it does what they asked last, its function included, once all is quiet.
VehiclesDoAsAsked ==
    \A v \in Vehicles :
        /\ \/ DialOf(layout[v]) \in wished[v]
           \/ v \in rash /\ DialOf(layout[v]) = DialOf(DefaultInfo)
        /\ Quiet /\ v \notin rash => layout[v] = asked[v]

\* No subscribed vehicle is left out for longer than the others take to be polled,
\* while subscriptions are added and the current vehicle is polled each time
\* (onVehicleInqueryInterval(), subscribe()).
NoVehicleForgotten ==
    \A v \in Vehicles :
        waits[v] <= (Cardinality(Vehicles) - 1) \div (QuerySlots - 1)
=============================================================================
