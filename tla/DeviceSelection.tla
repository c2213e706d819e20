-------------------------- MODULE DeviceSelection --------------------------
(* Which device lmrstudio works with: the list of devices of the connection  *)
(* page (apps/lmrstudio/deviceconnectionview.cpp), the box in the tool bar    *)
(* that picks one of those the page on top can work with (ComboBoxAction of   *)
(* lmrs/widgets/actionutils.cpp over a FilteredDeviceModel), and the main     *)
(* window that hands the device to all its pages (mainwindow.cpp).            *)
(*                                                                           *)
(* Abstractions.  All of it runs in the thread of the user interface, where  *)
(* one signal calls the next: a user's step is a chain of functions over     *)
(* what the interface shows.  The form with the parameters of a new device   *)
(* is left out: the user asks for any type and target (host or port).  A Z21 *)
(* tells its serial number (named) and what it can do (able) after it was     *)
(* selected, see TurnoutViews; other devices can do what they can from the   *)
(* start.  The two views of the Qt library, list and combo box, are modelled *)
(* by how the code uses them.                                                *)
EXTENDS Integers, FiniteSets, SequencesExt

CONSTANTS
    MaxDevices,     \* bound: devices that exist at once; they are numbered
    MaxCreated,     \* bound: devices that are created
    MaxLocks,       \* bound: stations that get locked
    TargetsOf,      \* type -> hosts or ports
    Pages,          \* the pages that work with a device
    Needs,          \* page -> the control its filter requires
    None

Types     == DOMAIN TargetsOf
Instances == 1..MaxDevices
Connect0  == "devices"          \* devicesView: the page with the list
AddRow    == 0                  \* the row "Add new device..."

DeviceType ==
    [type : Types, target : UNION {TargetsOf[t] : t \in Types},
     state : {"Disconnected", "Connecting", "Connected"}, named : BOOLEAN, able : BOOLEAN]

SelectionAssumption ==
    /\ {MaxDevices, MaxCreated, MaxLocks} \subseteq Nat
    /\ None \notin Instances \union DeviceType /\ \A box \in SUBSET Instances : box # None
    /\ "z21" \in Types /\ Connect0 \notin Pages
    /\ Needs \in [Pages -> {"vehicle", "accessory", "variable"}]

VARIABLES
    device,     \* Instance -> its type, target, state and what it told; or None
    list,       \* ConnectedDeviceModel::m_devices
    ui,         \* what the interface shows, see UiType
    leaving,    \* the device that deleteLater() was called for
    spent       \* history: <<devices created, stations locked>>

vars == <<device, list, ui, leaving, spent>>

UiType ==
    [row    : Instances \cup {AddRow},          \* the current row of connectedDevicesView
     form   : BOOLEAN,                          \* the form to connect is enabled
     shown  : Instances \cup {None},            \* DeviceConnectionView::Private::currentDevice
     main   : Instances \cup {None},            \* MainWindow::Private::currentDevice
     page   : Pages \cup {Connect0},            \* the current widget of the stack
     usable : SUBSET Pages,                     \* pages that are enabled
     boxes  : [Pages -> (SUBSET Instances) \cup {None}],  \* filteredDeviceModels, None: not made
     picked : Instances \cup {None},            \* the device at currentIndex of deviceBoxAction
     menu   : BOOLEAN]                          \* deviceMenu is enabled

Init ==
    /\ device = [d \in Instances |-> None] /\ list = <<>>
    /\ ui = [row |-> AddRow, form |-> TRUE, shown |-> None, main |-> None, page |-> Connect0,
             usable |-> {}, boxes |-> [p \in Pages |-> None], picked |-> None, menu |-> FALSE]
    /\ leaving = None /\ spent = <<0, 0>>

\* vehicleControl() and the like of the devices.
Controls(dev) ==
    {"variable"}
      \cup (IF dev.type # "z21" THEN {"vehicle"}
            ELSE IF dev.able THEN {"vehicle", "accessory"} ELSE {})

\* uniqueId(): a Z21 goes by its serial number, which is 0 until it is known.
UniqueId(dev) ==
    <<dev.type, IF dev.type = "z21" /\ ~dev.named THEN "0" ELSE dev.target>>

\* filterAcceptsRow() of a page's model.
Accepts(devices, p, d) == Needs[p] \in Controls(devices[d])

\* ConnectedDeviceModel: the devices in the order they came, and the row to add one.
AddDevice(rows, d) == Append(rows, d)
AllRows(rows) == ToSet(rows) \cup {AddRow}

\* The row on top of a box, and the one above another.
Top(rows, accepted) == rows[Min({i \in DOMAIN rows : rows[i] \in accepted})]

Above(rows, accepted, d) ==
    LET at     == CHOOSE i \in DOMAIN rows : rows[i] = d
        higher == {i \in 1..(at - 1) : rows[i] \in accepted}
    IN  IF higher = {} THEN None ELSE rows[Max(higher)]

\* updateWidgetsEnabled(): the form and its connect button are for a device that is
\* not there or not connected, the disconnect button is for one that is.
Form(devices, d) == d # None => devices[d].state = "Disconnected"

(***************************************************************************)
(* The chain of signals.  Each function takes what the interface shows and *)
(* yields what it shows afterwards.                                        *)
(***************************************************************************)

\* onCurrentViewChanged(): the box gets the model of the page, and the index of the
\* device in it; meanwhile blockCurrentDeviceIndexChanged is set.
ShownPage(u, devices, rows, p) ==
    LET made == IF p = Connect0 \/ u.boxes[p] # None THEN u.boxes
                ELSE [u.boxes EXCEPT ![p] = {d \in ToSet(rows) : Accepts(devices, p, d)}]
        holds == p # Connect0 /\ u.shown # None /\ u.shown \in made[p]
    IN [u EXCEPT !.page = p, !.boxes = made, !.picked = IF holds THEN u.shown ELSE None]

\* onDeviceStateChanged(): the window never stays on a page that is disabled.
ToldState(u, devices, rows) ==
    LET told == [u EXCEPT !.menu = devices[u.main].state = "Connected"]
    IN IF u.page = Connect0 \/ u.page \in u.usable THEN told
       ELSE ShownPage(told, devices, rows, Connect0)

\* updateControls() of all pages.
Usable(devices, d) == IF d = None THEN {} ELSE {p \in Pages : Accepts(devices, p, d)}

\* A slip of the next function: the box is left as it is.
LeavesBox(u, devices, rows, d) ==
    IF d = u.main THEN u
    ELSE LET handed == [u EXCEPT !.main = d, !.usable = Usable(devices, d)]
         IN IF d = None THEN handed ELSE ToldState(handed, devices, rows)

\* onCurrentDeviceChanged() of the main window.
ToldDevice(u, devices, rows, d) ==
    IF d = u.main THEN u
    ELSE LET handed == [u EXCEPT !.main = d, !.usable = Usable(devices, d)]
             told   == IF d = None THEN handed ELSE ToldState(handed, devices, rows)
             holds  == d # None /\ told.page # Connect0 /\ d \in told.boxes[told.page]
         IN [told EXCEPT !.picked = IF holds THEN d ELSE None]

\* onCurrentDeviceIndexChanged() of the connection page: another row is current.
\* The property guard reports the device once, at its end.
CurrentRow(u, devices, rows, r) ==
    LET d     == IF r = AddRow THEN None ELSE r
        moved == [u EXCEPT !.row = r, !.shown = d, !.form = Form(devices, d)]
    IN IF r = u.row THEN u ELSE IF d = u.shown THEN moved ELSE ToldDevice(moved, devices, rows, d)

\* setCurrentDevice() for the index that onCurrentDeviceIndexChanged() of the main
\* window was told of.  The list is given an index of another model (that of the filter
\* any()), which it ignores: its row stays, and the form beside it.
PickedInBox(u, devices, rows, d) ==
    LET here == [u EXCEPT !.picked = d]
    IN IF d = None \/ d = u.shown THEN here
       ELSE ToldDevice([here EXCEPT !.shown = d], devices, rows, d)

\* What the combo box does when its rows change: it picks the first row of an empty
\* box, and the row above the one that is gone.
BoxTold(u, devices, rows, before, after) ==
    IF before = {} /\ after # {} /\ u.picked = None
    THEN PickedInBox(u, devices, rows, Top(rows, after))
    ELSE IF u.picked # None /\ u.picked \notin after
         THEN PickedInBox(u, devices, rows, Above(rows, before, u.picked))
         ELSE u

\* dataChanged() of the list: the filters look at the device again.
Refiltered(u, devices, rows, d) ==
    LET boxes == [p \in Pages |->
            IF u.boxes[p] = None THEN None
            ELSE IF Accepts(devices, p, d) THEN u.boxes[p] \cup {d} ELSE u.boxes[p] \ {d}]
        told == [u EXCEPT !.boxes = boxes]
    IN IF u.page = Connect0 THEN told
       ELSE BoxTold(told, devices, rows, u.boxes[u.page], boxes[u.page])

\* stateChanged() of a device: the connection page was connected first, then the list
\* and the main window.
Reported(u, devices, rows, d) ==
    LET listed == Refiltered([u EXCEPT !.form = Form(devices, u.shown)], devices, rows, d)
    IN IF listed.main = d THEN ToldState(listed, devices, rows) ELSE listed

(***************************************************************************)
(* The user.                                                               *)
(***************************************************************************)

\* Deferred deletions come before the next event of the user or of a socket.
Idle == leaving = None

\* The buttons of the navigation bar follow the pages.
ShowPage(p) ==
    /\ Idle /\ p # ui.page /\ (p = Connect0 \/ p \in ui.usable)
    /\ ui' = ShownPage(ui, device, list, p)
    /\ UNCHANGED <<device, list, leaving, spent>>

PickDevice(d) ==
    /\ Idle /\ ui.page # Connect0 /\ d \in ui.boxes[ui.page] /\ d # ui.picked
    /\ ui' = PickedInBox(ui, device, list, d)
    /\ UNCHANGED <<device, list, leaving, spent>>

SelectRow(r) ==
    /\ Idle /\ ui.page = Connect0 /\ r # ui.row /\ r \in AllRows(list)
    /\ ui' = CurrentRow(ui, device, list, r)
    /\ UNCHANGED <<device, list, leaving, spent>>

\* onDeviceTypeChanged(), and input that becomes acceptable: updateWidgetsEnabled().
EditForm ==
    /\ Idle /\ ui.page = Connect0 /\ ui.form
    /\ ui' = [ui EXCEPT !.form = Form(device, ui.shown)]
    /\ UNCHANGED <<device, list, leaving, spent>>

\* onConnectButtonClicked(): a device with the same id is selected, and that is all.
\* A new one is selected first and connected then, which may fail at once.
Connect(type, target) ==
    /\ Idle /\ ui.page = Connect0 /\ ui.form
    /\ LET new  == [type |-> type, target |-> target, state |-> "Disconnected",
                    named |-> FALSE, able |-> FALSE]
           same == {i \in DOMAIN list : UniqueId(device[list[i]]) = UniqueId(new)}
       IN IF same # {}
          THEN /\ ui' = CurrentRow(ui, device, list, list[Min(same)])
               /\ UNCHANGED <<device, list, leaving, spent>>
          ELSE /\ spent[1] < MaxCreated /\ spent' = [spent EXCEPT ![1] = @ + 1]
               /\ \E d \in {Min({i \in Instances : device[i] = None} \cup {MaxDevices + 1})}
                                \cap Instances, state \in {"Disconnected", "Connecting"} :
                    LET rows   == AddDevice(list, d)
                        before == [device EXCEPT ![d] = new]
                        after  == [before EXCEPT ![d].state = state]
                        added  == Refiltered(ui, before, rows, d)
                        chosen == CurrentRow(added, before, rows, d)
                    IN /\ device' = after /\ list' = rows
                       /\ ui' = IF state = new.state THEN chosen
                                ELSE Reported(chosen, after, rows, d)
               /\ UNCHANGED leaving

\* onDisconnectButtonClicked(), from the page or the menu of devices: closing the
\* device may already have changed what is current when the device is deleted.
Disconnect ==
    /\ Idle /\ ui.shown # None
    /\ \/ ui.page = Connect0 /\ ~ui.form
       \/ ui.menu
    /\ LET closed == [device EXCEPT ![ui.shown].state = "Disconnected"]
           told   == IF closed = device THEN ui ELSE Reported(ui, closed, list, ui.shown)
       IN /\ device' = closed /\ leaving' = told.shown
          /\ ui' = ToldDevice([told EXCEPT !.shown = None, !.form = TRUE], closed, list, None)
    /\ UNCHANGED <<list, spent>>

\* destroyed(): the row goes; the list makes the next row current before.
Destroyed ==
    /\ leaving # None
    /\ LET at    == CHOOSE i \in DOMAIN list : list[i] = leaving
           next  == IF at < Len(list) THEN list[at + 1] ELSE AddRow
           rows  == RemoveAt(list, at)
           moved == IF ui.row = leaving THEN CurrentRow(ui, device, list, next) ELSE ui
           boxes == [p \in Pages |-> IF moved.boxes[p] = None THEN None
                                     ELSE moved.boxes[p] \ {leaving}]
           told  == [moved EXCEPT !.boxes = boxes]
       IN /\ list' = rows /\ device' = [device EXCEPT ![leaving] = None]
          /\ ui' = IF told.page = Connect0 THEN told
                   ELSE BoxTold(told, device, list, moved.boxes[told.page], boxes[told.page])
    /\ leaving' = None
    /\ UNCHANGED spent

(***************************************************************************)
(* The devices.                                                            *)
(***************************************************************************)

\* stateChanged(): the first answers, a timeout or an error of the port.
DeviceState(d, s) ==
    /\ Idle /\ device[d] # None
    /\ <<device[d].state, s>> \in {<<"Connecting", "Connected">>, <<"Connecting", "Disconnected">>,
                                   <<"Connected", "Disconnected">>}
    /\ device' = [device EXCEPT ![d].state = s]
    /\ ui' = Reported(ui, device', list, d)
    /\ UNCHANGED <<list, leaving, spent>>

\* setSerialNumber() of the client.
TellSerialNumber(d) ==
    /\ Idle /\ device[d] # None /\ device[d].type = "z21" /\ device[d].state # "Disconnected"
    /\ ~device[d].named
    /\ device' = [device EXCEPT ![d].named = TRUE]
    /\ UNCHANGED <<list, ui, leaving, spent>>

\* setCapabilities() and setLockState(): only the latter is announced, to the pages
\* (controlsChanged), but not to the list.
TellControls(d, announced) ==
    /\ Idle /\ device[d] # None /\ device[d].type = "z21" /\ device[d].state # "Disconnected"
    /\ \/ ~device[d].able /\ UNCHANGED spent
       \/ device[d].able /\ announced /\ spent[2] < MaxLocks /\ spent' = [spent EXCEPT ![2] = @ + 1]
    /\ device' = [device EXCEPT ![d].able = ~@]
    /\ ui' = IF announced /\ ui.main = d THEN [ui EXCEPT !.usable = Usable(device', d)] ELSE ui
    /\ UNCHANGED <<list, leaving>>

Next ==
    \/ \E p \in Pages \cup {Connect0} : ShowPage(p)
    \/ \E d \in Instances : PickDevice(d)
    \/ \E r \in Instances \cup {AddRow} : SelectRow(r)
    \/ \E type \in Types : \E target \in TargetsOf[type] : Connect(type, target)
    \/ EditForm
    \/ Disconnect
    \/ Destroyed
    \/ \E d \in Instances, s \in {"Connected", "Disconnected"} : DeviceState(d, s)
    \/ \E d \in Instances : TellSerialNumber(d)
    \/ \E d \in Instances, announced \in BOOLEAN : TellControls(d, announced)

Spec == Init /\ [][Next]_vars

(***************************************************************************)
(* Properties.                                                             *)
(***************************************************************************)

\* The types of what the interface shows.
TypeOK ==
    /\ ui \in UiType /\ list \in Seq(Instances) /\ IsInjective(list)
    /\ device \in [Instances -> DeviceType \union {None}]
    /\ \A d \in Instances : device[d] # None <=> d \in ToSet(list)
    /\ leaving \in ToSet(list) \cup {None}
    /\ spent \in (0..MaxCreated) \X (0..MaxLocks)

\* The connection page, the box and the main window with its pages mean the same
\* device, however it was chosen, told of, or lost: the box, which chooses rows on its
\* own when devices come and go (BoxTold), never names another one.  Of the current row
\* of the list this cannot be said, see PickedInBox.
OneDevice == ui.main = ui.shown /\ ui.picked \in {None, ui.shown}

\* No serial port is opened twice (onConnectButtonClicked).  Of a Z21 this cannot be
\* said: its id is the serial number, so a station that was told apart is found by no
\* id, and one that was not is found for every host.
NoPortTwice ==
    \A i, j \in DOMAIN list :
        /\ i # j /\ device[list[i]].type # "z21"
        /\ device[list[i]].type = device[list[j]].type
        => device[list[i]].target # device[list[j]].target

\* Turning to another page does not change the device ("Avoid that the globally
\* selected device changes", onCurrentViewChanged()).
PageKeepsDevice ==
    \A p \in Pages \cup {Connect0} : ShowPage(p) => ui'.shown = ui.shown

\* Disconnecting deletes the device that was shown, and no other that may be driving
\* trains, unless the box of the page drops it while it is closed (its station was
\* locked since) and moves on to its neighbour (onDisconnectButtonClicked()).
ShownDeviceGoes ==
    leaving' # leaving /\ leaving' # None =>
        \/ leaving' = ui.shown
        \/ ui.page # Connect0 /\ ~Accepts(device, ui.page, ui.shown)

SelectionAgrees == [](OneDevice /\ NoPortTwice) /\ [][PageKeepsDevice /\ ShownDeviceGoes]_vars
=============================================================================
