----------------------------- MODULE PowerEcho -----------------------------
(* The track power controls of lmrstudio and the commands they send:         *)
(* mainwindow.cpp (the power actions), deviceconnectionview.cpp (the power   *)
(* slider), z21::PowerControl (z21device.cpp) and setTrackStatus() of the    *)
(* client, for several clients of one station.                               *)
(*                                                                           *)
(* Both controls send a command whenever their value changes, whether the    *)
(* user moved them or a new track status did.  The station broadcasts every  *)
(* command it executes to all its clients.                                   *)
(*                                                                           *)
(* Abstractions.  Nothing is lost here (see Z21Client for losses and         *)
(* resends).  Short circuit and programming mode go like "Stop".             *)
EXTENDS Integers, SequencesExt

CONSTANTS
    Apps,           \* running instances of lmrstudio
    Patient,        \* people act only while nothing is under way
    MaxActs,        \* bound: how often people act
    MaxConnects     \* bound: sessions

ASSUME PowerAssumption ==
    Patient \in BOOLEAN /\ {MaxActs, MaxConnects} \subseteq Nat

Switch == {"Off", "On"}
Status == Switch \union {"Stop"}

VARIABLES
    connected,  \* apps whose handshake is done: the slider is enabled
    status,     \* App -> Client::trackStatus()
    slider,     \* App -> value of powerSlider
    action,     \* App -> the checked action of powerActionGroup
    toStation,  \* App -> requests on their way
    toApp,      \* App -> messages on their way: statuses
    power,      \* track status of the station
    acts, connects

vars == <<connected, status, slider, action, toStation, toApp, power, acts, connects>>

\* Choosing a device checks its action "Off"; connectToHost() then clears the
\* send buffer of the command this sends.
Init ==
    /\ connected = {} /\ acts = 0 /\ connects = 0
    /\ status = [a \in Apps |-> "Off"]
    /\ slider = [a \in Apps |-> "Off"]
    /\ action = [a \in Apps |-> "Off"]
    /\ toStation = [a \in Apps |-> <<>>]
    /\ toApp = [a \in Apps |-> <<>>]
    /\ power \in Status

Quiet == \A a \in Apps : toStation[a] = <<>> /\ toApp[a] = <<>>

-----------------------------------------------------------------------------
(* The controls.                                                             *)

\* A slip of the slot: the slider takes the status itself.
SliderIs(s) == s
\* DeviceConnectionView::onPowerStateChanged(): the value of the slider.
SliderFor(s) == IF s = "On" THEN "On" ELSE "Off"

\* The slider got value v: valueChanged() sends a command if it is a new one.
FromSlider(a, v) == IF v = slider[a] THEN <<>> ELSE <<v>>

\* MainWindow::onPowerStateChanged() checks the action of status s; toggled()
\* sends a command if it was not checked.  No command belongs to "Stop".
FromAction(a, s) == IF s = action[a] \/ s \notin Switch THEN <<>> ELSE <<s>>

\* setTrackStatus() emits trackStatusChanged() for a new status only.
Changes(a, s) == s # status[a]

\* A slip: the slider is not moved.
SliderStays(a, s) == slider[a]
\* The slot moves the slider.
SliderAfter(a, s) == IF Changes(a, s) THEN SliderFor(s) ELSE slider[a]

\* A slip of both: every status received is sent back.
SendBack(a, s) == IF s \in Switch THEN <<s>> ELSE <<>>
\* Client::trackStatusChanged(): the slot of the connection view comes first, it
\* was connected before the slot of the main window.
Commands(a, s) == IF Changes(a, s) THEN FromSlider(a, SliderFor(s)) \o FromAction(a, s)
                  ELSE <<>>

-----------------------------------------------------------------------------
(* The steps.                                                                *)

Act == acts < MaxActs /\ (Patient => Quiet) /\ acts' = acts + 1

\* The app connects: the station tells its status.
Connect(a) ==
    /\ a \notin connected /\ connects < MaxConnects /\ (Patient => Quiet)
    /\ connects' = connects + 1
    /\ connected' = connected \union {a}
    /\ toApp' = [toApp EXCEPT ![a] = Append(@, power)]
    /\ UNCHANGED <<status, slider, action, toStation, power, acts>>

\* The user moves the slider.
MoveSlider(a) ==
    /\ a \in connected /\ Act
    /\ \E v \in Switch \ {slider[a]} :
           /\ slider' = [slider EXCEPT ![a] = v]
           /\ toStation' = [toStation EXCEPT ![a] = Append(@, v)]
    /\ UNCHANGED <<connected, status, action, toApp, power, connects>>

\* The user triggers one of the two power actions.
TriggerAction(a) ==
    /\ a \in connected /\ Act
    /\ \E s \in Switch \ {action[a]} :
           /\ action' = [action EXCEPT ![a] = s]
           /\ toStation' = [toStation EXCEPT ![a] = Append(@, s)]
    /\ UNCHANGED <<connected, status, slider, toApp, power, connects>>

\* Broadcast of the station to the apps that are connected.
Broadcast(s) == [a \in Apps |-> IF a \in connected THEN Append(toApp[a], s) ELSE toApp[a]]

\* Someone uses a handset, or a short circuit happens.
Handset ==
    /\ Act
    /\ \E s \in Status \ {power} : power' = s /\ toApp' = Broadcast(s)
    /\ UNCHANGED <<connected, status, slider, action, toStation, connects>>

\* The station executes a command (external).
Execute(a) ==
    /\ toStation[a] # <<>>
    /\ power' = Head(toStation[a])
    /\ toApp' = Broadcast(Head(toStation[a]))
    /\ toStation' = [toStation EXCEPT ![a] = Tail(@)]
    /\ UNCHANGED <<connected, status, slider, action, acts, connects>>

\* The app gets a message: status, slider and action follow it, and both
\* controls tell the station if that changed them.
Receive(a) ==
    /\ toApp[a] # <<>>
    /\ LET s == Head(toApp[a])
       IN  /\ status' = [status EXCEPT ![a] = s]
           /\ slider' = [slider EXCEPT ![a] = SliderAfter(a, s)]
           /\ action' = [action EXCEPT ![a] = IF Changes(a, s) THEN s ELSE @]
           /\ toStation' = [toStation EXCEPT ![a] = @ \o Commands(a, s)]
    /\ toApp' = [toApp EXCEPT ![a] = Tail(@)]
    /\ UNCHANGED <<connected, power, acts, connects>>

Next ==
    \/ \E a \in Apps : \/ Connect(a) \/ MoveSlider(a) \/ TriggerAction(a)
                       \/ Execute(a) \/ Receive(a)
    \/ Handset

Spec == Init /\ [][Next]_vars

\* Messages arrive and are handled; nobody has to do anything else.
Fairness == \A a \in Apps : WF_vars(Execute(a)) /\ WF_vars(Receive(a))

FairSpec == Spec /\ Fairness

-----------------------------------------------------------------------------
(* Properties.                                                               *)

\* Every variable has its type.
TypeOK ==
    /\ connected \subseteq Apps
    /\ status \in [Apps -> Status] /\ slider \in [Apps -> Switch]
    /\ action \in [Apps -> Status]
    /\ toStation \in [Apps -> Seq(Switch)] /\ toApp \in [Apps -> Seq(Status)]
    /\ power \in Status /\ acts \in 0..MaxActs /\ connects \in 0..MaxConnects

\* Once nothing is under way, every connected app, its slider and its actions
\* show what the station does: two controls for one thing do not drift apart.
ControlsAgree ==
    Quiet => \A a \in connected : /\ status[a] = power
                                  /\ slider[a] = SliderFor(power)
                                  /\ action[a] = power

\* The apps and the station come to rest: the echo of the controls dies out.
Settles == []<>Quiet
=============================================================================
