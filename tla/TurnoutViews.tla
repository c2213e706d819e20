---------------------------- MODULE TurnoutViews ----------------------------
(* The views of turnouts and signals in lmrstudio, and how they keep up with *)
(* a Z21: the accessory page with its direction buttons, signal value and    *)
(* table (apps/lmrstudio/accessorycontrolview.cpp, accessorytablemodel.cpp), *)
(* and the symbolic track plan whose symbols show and switch turnouts        *)
(* (lmrs/widgets/symbolictrackplanview.cpp, trackplanview.cpp).              *)
(*                                                                           *)
(* Abstractions.  There is one station, whose infos reach the app in the     *)
(* order they were sent; queries are answered in the end (Z21Client), but    *)
(* commands and broadcasts have no observer and may get lost.  Commands with *)
(* a duration and the emergency stop change no turnout info and are left     *)
(* out.  A symbol has a type and one address; TrackPlan has symbols of all   *)
(* kinds, and what is drawn of them.                                         *)
EXTENDS TrackSymbols

CONSTANTS
    Addresses,      \* accessory addresses, numbers
    Aspects,        \* values of extended accessories, each named by its digits: aspects
    Cells,          \* the symbols of the plan
    TypeOf,         \* TrackSymbol::type of each cell
    AddressOf,      \* TrackSymbolInstance::turnoutAddress()
    MaxActs,        \* bound: what the user does
    MaxChanges,     \* bound: what other clients do
    MaxLosses       \* bound: datagrams that are lost

TurnoutStates == {"Straight", "Branched"}
Points        == {"LeftHandPoint", "RightHandPoint", "DoubleCrossPointSimple", "YPoint"}

ViewsAssumption ==
    /\ Addresses \subseteq Nat
    /\ TypeOf \in [Cells -> Switchable \cup Signals] /\ AddressOf \in [Cells -> Addresses]
    /\ {MaxActs, MaxChanges, MaxLosses} \subseteq Nat

VARIABLES
    turnout,        \* the station: how turnouts lie, as far as it knows
    signal,         \* the station: aspects of extended accessories
    commands,       \* datagrams under way to the station
    infos,          \* datagrams under way to the app
    device,         \* a device is selected
    capable,        \* Client::capabilities: the station has told what it can do
    unlocked,       \* Device::Private::isUnlocked: NoLock or StartUnlocked was reported
    page,           \* the accessory page and its table have the accessory control
    address,        \* addressBox of the page
    button,         \* the checked one of straightButton and branchedButton
    signalBox,      \* signalBox
    rows,           \* AccessoryTableModel::m_rows: <<type, address, state>>
    open,           \* a plan is open
    plan,           \* the views of the plan have the accessory control
    shown,          \* TrackSymbol::state of each cell
    stale,          \* history: <<view, what>> that has missed something
    wish,           \* history: where the user wants a turnout to be
    spent           \* history: <<acts, changes, losses>>

station == <<turnout, signal>>
session == <<device, capable, unlocked>>
pageView == <<page, address, button, signalBox, rows>>
planView == <<open, plan, shown>>
vars == <<station, commands, infos, session, pageView, planView, stale, wish, spent>>

Acts    == spent[1] < MaxActs    /\ spent' = [spent EXCEPT ![1] = @ + 1]
Changes == spent[2] < MaxChanges /\ spent' = [spent EXCEPT ![2] = @ + 1]
Losses  == spent[3] < MaxLosses  /\ spent' = [spent EXCEPT ![3] = @ + 1]

NoWish == "none"
Zero == "0"
Seen == Addresses \X {"turnout", "signal"}
Views == {"table", "page", "plan"}

Turnout(a) == [kind |-> "turnout", of |-> a, state |-> turnout[a]]
Signal(a)  == [kind |-> "signal", of |-> a, state |-> signal[a]]

Send(command) == commands' = Append(commands, command)
ToApp(msgs)   == infos' = IF device THEN infos \o msgs ELSE infos

Init ==
    /\ turnout \in [Addresses -> TurnoutStates \cup {"Unknown"}]
    /\ signal = [a \in Addresses |-> Zero]
    /\ commands = <<>> /\ infos = <<>>
    /\ device = FALSE /\ capable = FALSE /\ unlocked = FALSE
    /\ page = FALSE /\ address = 1 /\ button = "none" /\ signalBox = Zero /\ rows = <<>>
    /\ open = FALSE /\ plan = FALSE /\ shown = [c \in Cells |-> DefaultState(TypeOf[c])]
    /\ stale = Views \X Seen /\ wish = [a \in Addresses |-> NoWish]
    /\ spent = <<0, 0, 0>>

(***************************************************************************)
(* The device and the controls it offers.                                  *)
(***************************************************************************)

\* accessoryControl() of z21::Device: by what is known of the station.
Control(can, may) == can /\ may

\* onConnectButtonClicked(): the new device is selected, and the views ask it for
\* its controls, before the station has told anything.
Connect ==
    /\ ~device
    /\ device' = TRUE /\ capable' = FALSE /\ unlocked' = FALSE
    /\ page' = Control(FALSE, FALSE) /\ plan' = Control(FALSE, FALSE)
    /\ Send([kind |-> "hello"])
    /\ UNCHANGED <<station, infos, address, button, signalBox, rows, open, shown, stale, wish,
                   spent>>

\* onDisconnectButtonClicked(): the device is deleted, the views are told of no device.
Disconnect ==
    /\ device /\ Acts
    /\ device' = FALSE /\ page' = FALSE /\ plan' = FALSE /\ infos' = <<>>
    /\ commands' = SelectSeq(commands, LAMBDA c : c.kind \in {"turnout", "signal"})
    /\ stale' = Views \X Seen
    /\ wish' = [a \in Addresses |-> NoWish]
    /\ UNCHANGED <<station, capable, unlocked, address, button, signalBox, rows,
                   open, shown>>

\* setCapabilities(): nobody is told that there are more controls now.
TellCapabilities ==
    /\ infos # <<>> /\ Head(infos).kind = "capabilities"
    /\ capable' = TRUE /\ infos' = Tail(infos)
    /\ UNCHANGED <<station, commands, device, unlocked, pageView, planView, stale, wish, spent>>

\* setLockState(), controlsChanged(), MainWindowView::updateControls(): the page asks
\* for its controls again; TrackPlanView does not, as the device is the same.
TellLock ==
    /\ infos # <<>> /\ Head(infos).kind = "lock"
    /\ unlocked' = Head(infos).state /\ infos' = Tail(infos)
    /\ page' = Control(capable, unlocked')
    /\ UNCHANGED <<station, commands, device, capable, address, button, signalBox, rows,
                   planView, stale, wish, spent>>

\* TrackPlanView::readFile(), createView(), attachCurrentDevice(): new views with the
\* controls the device has now, the symbols as they are in the file.
OpenPlan ==
    /\ Acts
    /\ open' = TRUE /\ shown' = [c \in Cells |-> DefaultState(TypeOf[c])]
    /\ plan' = (device /\ Control(capable, unlocked))
    /\ stale' = stale \cup ({"plan"} \X Seen)
    /\ UNCHANGED <<station, commands, infos, session, pageView, wish>>

(***************************************************************************)
(* Infos arrive.                                                           *)
(***************************************************************************)

\* AccessoryTableModel::onRowChanged(): the row is replaced, or inserted where the
\* order by type and address wants it.
RowType(kind) == IF kind = "signal" THEN 1 ELSE 2
NotLess(old, new) ==
    IF old[1] # new[1] THEN old[1] > new[1] ELSE old[2] >= new[2]

ChangeRow(row) ==
    LET behind == {i \in DOMAIN rows : NotLess(rows[i], row)}
        it     == IF behind = {} THEN Len(rows) + 1 ELSE Min(behind)
    IN  IF it > Len(rows) \/ rows[it][1] # row[1] \/ rows[it][2] # row[2]
        THEN InsertAt(rows, it, row)
        ELSE [rows EXCEPT ![it] = row]

\* onTurnoutInfoChanged() of the page.  The buttons exclude each other: checking one
\* unchecks the other, unchecking the checked one does nothing.
Checked(info) == IF info.state \in TurnoutStates THEN info.state ELSE button

\* onTurnoutInfoChanged() of the plan.
PlanWithTurnout(info) ==
    [c \in Cells |->
        IF AddressOf[c] = info.of THEN StateFor(TypeOf[c], info.state, shown[c]) ELSE shown[c]]

Receive == /\ infos # <<>> /\ infos' = Tail(infos)
           /\ UNCHANGED <<station, commands, device, capable, unlocked, page, address, open, plan,
                          wish, spent>>

\* The views that follow an accessory; the page shows that of one address only.
Follow(info, views) ==
    LET what == {<<info.of, info.kind>>}
    IN  stale' = (stale \ (views \X what)) \cup ((Views \ views) \X what)

HasPlan == open /\ plan

ReceiveTurnout ==
    LET info == Head(infos)
        here == page /\ info.of = address
    IN  /\ Receive /\ info.kind = "turnout"
        /\ rows' = IF page THEN ChangeRow(<<RowType("turnout"), info.of, info.state>>) ELSE rows
        /\ button' = IF here THEN Checked(info) ELSE button
        /\ shown' = IF HasPlan THEN PlanWithTurnout(info) ELSE shown
        /\ Follow(info, (IF page THEN {"table"} ELSE {}) \cup (IF here THEN {"page"} ELSE {})
                            \cup (IF HasPlan THEN {"plan"} ELSE {}))
        /\ UNCHANGED signalBox

ReceiveSignal ==
    LET info == Head(infos)
        here == page /\ info.of = address
    IN  /\ Receive /\ info.kind = "signal"
        /\ rows' = IF page THEN ChangeRow(<<RowType("signal"), info.of, info.state>>) ELSE rows
        /\ signalBox' = IF here THEN info.state ELSE signalBox
        /\ Follow(info, (IF page THEN {"table"} ELSE {}) \cup (IF here THEN {"page"} ELSE {}))
        /\ UNCHANGED <<button, shown>>

(***************************************************************************)
(* The user.                                                               *)
(***************************************************************************)

\* onAddressChanged(): both infos are asked for.
ChangeAddress(a) ==
    /\ page /\ a # address /\ Acts
    /\ address' = a
    /\ commands' = commands \o <<[kind |-> "askSignal", of |-> a], [kind |-> "askTurnout", of |-> a]>>
    /\ stale' = stale \cup ({"page"} \X Seen)
    /\ UNCHANGED <<station, infos, session, page, button, signalBox, rows, planView, wish>>

\* onDirectionClicked(): the button is checked before the station has switched.
ClickDirection(state) ==
    /\ page /\ Acts
    /\ button' = state
    /\ Send([kind |-> "turnout", of |-> address, state |-> state])
    /\ stale' = stale \cup {<<"page", <<address, "turnout">>>>}
    /\ wish' = [wish EXCEPT ![address] = state]
    /\ UNCHANGED <<station, infos, session, page, address, signalBox, rows, planView>>

\* onSignalIndexChanged() or the value edited, then onSignalButtonClicked().
ClickSignal(aspect) ==
    /\ page /\ Acts
    /\ signalBox' = aspect
    /\ Send([kind |-> "signal", of |-> address, state |-> aspect])
    /\ stale' = stale \cup {<<"page", <<address, "signal">>>>}
    /\ UNCHANGED <<station, infos, session, page, address, button, rows, planView, wish>>

Other(state) == IF state = "Straight" THEN "Branched" ELSE "Straight"

\* cellAction(): a click switches the turnout to the next state of its symbol; without
\* a control the symbol itself is switched.  Symbols without such a state do nothing.
ClickCell(c) ==
    LET new == NextState(shown[c], ValidStates(TypeOf[c]))
        lie == TurnoutState(new)
        a   == AddressOf[c]
    IN  /\ open /\ lie # "Unknown" /\ Acts
        /\ IF plan
           THEN /\ Send([kind |-> "turnout", of |-> a, state |-> lie])
                /\ wish' = IF TypeOf[c] \in Points
                           THEN [wish EXCEPT ![a] = Other(TurnoutState(shown[c]))] ELSE [wish EXCEPT ![a] = lie]
                /\ UNCHANGED <<shown, stale>>
           ELSE /\ shown' = [shown EXCEPT ![c] = new]
                /\ stale' = stale \cup {<<"plan", <<a, "turnout">>>>}
                /\ UNCHANGED <<commands, wish>>
        /\ UNCHANGED <<station, infos, session, pageView, open, plan>>

(***************************************************************************)
(* The station, other clients, and the network.                            *)
(***************************************************************************)

Execute ==
    /\ commands # <<>> /\ commands' = Tail(commands)
    /\ LET c == Head(commands)
       IN  \/ /\ c.kind = "hello"
              /\ \E free \in BOOLEAN, order \in {"asked", "late"} :
                   LET can == [kind |-> "capabilities"]
                       may == [kind |-> "lock", state |-> free]
                   IN  ToApp(IF order = "asked" THEN <<can, may>> ELSE <<may, can>>)
              /\ UNCHANGED station
           \/ /\ c.kind = "turnout"
              /\ turnout' = [turnout EXCEPT ![c.of] = c.state]
              /\ ToApp(<<[kind |-> "turnout", of |-> c.of, state |-> c.state]>>)
              /\ UNCHANGED signal
           \/ /\ c.kind = "signal"
              /\ signal' = [signal EXCEPT ![c.of] = c.state]
              /\ ToApp(<<[kind |-> "signal", of |-> c.of, state |-> c.state]>>)
              /\ UNCHANGED turnout
           \/ c.kind = "askTurnout" /\ ToApp(<<Turnout(c.of)>>) /\ UNCHANGED station
           \/ c.kind = "askSignal" /\ ToApp(<<Signal(c.of)>>) /\ UNCHANGED station
    /\ UNCHANGED <<session, pageView, planView, stale, wish, spent>>

Elsewhere ==
    /\ Changes
    /\ \E a \in Addresses, state \in TurnoutStates :
          /\ turnout' = [turnout EXCEPT ![a] = state]
          /\ wish' = [wish EXCEPT ![a] = NoWish]
          /\ ToApp(<<[kind |-> "turnout", of |-> a, state |-> state]>>)
    /\ UNCHANGED <<signal, commands, session, pageView, planView, stale>>

\* A command or a broadcast is lost, nobody asks for it again.
Lose ==
    /\ Losses
    /\ \/ /\ commands # <<>> /\ Head(commands).kind \in {"turnout", "signal"}
          /\ commands' = Tail(commands)
          /\ wish' = [wish EXCEPT ![Head(commands).of] = NoWish]
          /\ UNCHANGED <<infos, stale>>
       \/ /\ infos # <<>> /\ Head(infos).kind \in {"turnout", "signal"}
          /\ infos' = Tail(infos)
          /\ stale' = stale \cup (Views \X {<<Head(infos).of, Head(infos).kind>>})
          /\ UNCHANGED <<commands, wish>>
    /\ UNCHANGED <<station, session, pageView, planView>>

Next ==
    \/ Connect \/ Disconnect \/ OpenPlan
    \/ TellCapabilities \/ TellLock
    \/ ReceiveTurnout \/ ReceiveSignal
    \/ \E a \in Addresses : ChangeAddress(a)
    \/ \E state \in TurnoutStates : ClickDirection(state)
    \/ \E aspect \in Aspects : ClickSignal(aspect)
    \/ \E c \in Cells : ClickCell(c)
    \/ Execute \/ Elsewhere \/ Lose

Spec == Init /\ [][Next]_vars

-----------------------------------------------------------------------------

TypeOK ==
    /\ turnout \in [Addresses -> TurnoutStates \cup {"Unknown"}]
    /\ signal \in [Addresses -> {Zero} \cup Aspects]
    /\ {device, capable, unlocked, page, open, plan} \subseteq BOOLEAN
    /\ address \in Addresses /\ button \in TurnoutStates \cup {"none"} /\ signalBox \in {Zero} \cup Aspects
    /\ shown \in [Cells -> ToSet(StateOrder)]
    /\ wish \in [Addresses -> TurnoutStates \cup {NoWish}]

Quiet == commands = <<>> /\ infos = <<>>
RowsFor(row) == Cardinality({i \in DOMAIN rows : rows[i] = row})

\* When nothing is under way, whatever has missed nothing shows the layout as it is:
\* the tables have exactly one row for it, the buttons, the signal value and the
\* symbols its state.  (Of a turnout that was never switched the buttons and symbols
\* cannot show anything.)  See onRowChanged(), onTurnoutInfoChanged().
ViewsFollow ==
    Quiet /\ device =>
        /\ \A a \in Addresses :
            /\ <<"table", <<a, "turnout">>>> \notin stale =>
                    /\ RowsFor(<<2, a, turnout[a]>>) = 1
                    /\ Cardinality({i \in DOMAIN rows : rows[i][1] = 2 /\ rows[i][2] = a}) = 1
            /\ <<"table", <<a, "signal">>>> \notin stale => RowsFor(<<1, a, signal[a]>>) = 1
            /\ turnout[a] # "Unknown" /\ <<"plan", <<a, "turnout">>>> \notin stale =>
                \A c \in Cells : AddressOf[c] = a /\ TypeOf[c] \in Points =>
                    TurnoutState(shown[c]) = turnout[a]
        /\ turnout[address] # "Unknown" /\ <<"page", <<address, "turnout">>>> \notin stale =>
                button = turnout[address]
        /\ <<"page", <<address, "signal">>>> \notin stale => signalBox = signal[address]

\* A click moves the turnout: unless a command is lost or somebody else switches it,
\* it comes to lie as the button says, and a point of the plan the other way than shown.
ClicksSwitch == Quiet => \A a \in Addresses : wish[a] # NoWish => turnout[a] = wish[a]

\* The two together: views and layout agree.  See onTurnoutInfoChanged(), cellAction().
LayoutAgrees == ViewsFollow /\ ClicksSwitch

\* The table says that a signal with two aspects is green if and only if the plan does
\* (accessorytablemodel.cpp:34, "straight/green", and TurnoutState::Green).
GreenIsGreen ==
    Quiet => \A a \in Addresses, c \in Cells :
        /\ AddressOf[c] = a /\ TypeOf[c] \in {"TwoLightsSignal"}
        /\ turnout[a] # "Unknown" /\ <<"plan", <<a, "turnout">>>> \notin stale
        => (turnout[a] = "Straight") = (shown[c] = "Green")
=============================================================================
