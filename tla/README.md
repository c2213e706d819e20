# LibreModeltrainStudio in TLA+

This directory specifies LibreModeltrainStudio: how it talks to command stations and
decoders, and what its views, documents and transfers do while people use them. The
modules say what the parts keep, in which order things may happen, what may get lost, and
what has to be true all the same. They are model-checked with TLC on small instances; the
invariants of the core, of programming and paged access, of the serial devices, of the power
controls, the file sharing, the vehicle page, the automation plan, the choice of the device and CAN detectors
are proved with TLAPS for every value of their constants.

    tlc   -workers 2 -config MCZ21Client.cfg MCZ21Client.tla
    tlapm Z21ClientProofs.tla

All paths below are relative to the repository.

## 1. The system

Everything runs in the one thread of Qt's event loop. What makes it hard is not
threads but callbacks, timers and datagrams: every request is answered by a later
event, in an order nobody wrote down, or never; and in the views signals that call each
other within one another.

| Part | Sources | State | Operations | Talks to |
|---|---|---|---|---|
| Z21 client | `lmrs/roco/z21client.cpp` | socket, four timers, send buffer, pending observers, device attributes | connect, disconnect, commands, queries, read and write of variables; timer events; datagrams and reports | station by UDP; signals to the device |
| Z21 device and controls | `lmrs/roco/z21device.cpp` | poll timer, vehicle subscriptions, detector cache, device info | the control interfaces of the core: power, vehicles, variables, accessories, detectors | client by calls and callbacks; views by signals |
| Paged variable access | `lmrs/core/device.cpp`, `continuation.h` | none of its own: the continuation callbacks hold it | read and write of extended and SUSI variables, lists of them, retries | any device's `readVariable()`, `writeVariable()` |
| Serial frame streams | `lmrs/core/framestream.cpp` | buffer of the frame being read | read, write, escape, resynchronise | serial port |
| LokProgrammer | `lmrs/esu/lp2*.cpp` | pending requests by sequence number, connect timeout, power state, drive timer | connect, power and service mode, reading variables bit by bit, driving | serial port |
| ZIMO MX1 | `lmrs/zimo/mx1*.cpp` | request queue, observers, known vehicles | connect, power, vehicles, variables | serial port |
| Speed Cat | `lmrs/kpfzeller/scdevice.cpp` | ring of samples, connect timeout | connect, measure | serial port |
| ESU programmer application | `apps/esuprogrammer` | power mode, pending requests, frames that are enabled | switch the mode, then send DCC or USART commands | LokProgrammer |
| DCC numbers and messages | `lmrs/core/dcc*`, `quantities.h`, `lp2message.cpp`, `mx1message.cpp` | none | pack and unpack addresses, speeds, functions, variables | all devices |
| Z21 app file sharing | `lmrs/roco/z21appfilesharing.cpp` | listeners, transfer sessions, received files | announce, offer, accept, transfer | peers by UDP and TCP; questions to the user |
| Power controls, devices | `apps/lmrstudio/mainwindow.cpp`, `deviceconnectionview.cpp` | power slider and action, list and box of devices, the page shown | connect, choose, disconnect; switch the power | devices; all pages |
| Views | `apps/lmrstudio/*view.cpp`, `*tablemodel.cpp` | what the boxes, dials, tables and symbols show | drive, switch, read and write variables, follow infos | controls of the device |
| Variables of decoders | `lmrs/core/decoderinfo.cpp`, `variabletreemodel.cpp` | tables of definitions; a tree of what was read | look up, add, update | the variable editor, the decoder database |
| Automation | `lmrs/core/automationmodel.cpp`, `parameters.cpp` | events with actions, their parameters, the device | edit, cut, copy, paste, store | detector controls; documents |
| Track plan | `lmrs/core/symbolictrackplanmodel.cpp`, `lmrs/widgets/symbolictrackplanview.cpp`, `lmrs/roco/z21appfileformats.cpp` | pages of symbols | presets, layouts, clicks, infos | accessory and detector controls |
| Function mapping | `lmrs/esu/functionmappingmodel.cpp` | rows of conditions and flags | edit, presets, open, save | files |
| Documents | `lmrs/widgets/documentmanager.cpp` | file name, modified flag, recent files | new, open, save, save as, close | the views that keep documents |

The remaining parts (list models of ports, fonts, texts, the table driven parsers, the
viewer of sound packages, tests) hold no protocol. `PROJECT.json` lists every component
with its status and the reason where nothing is modelled, and every hazard with its line.

### Hard behaviours

* *Requests and answers* of the Z21 client are matched by content, not by number: a
  message resolves every observer that recognises it, also one that was meant for an
  earlier request or another subject, and a broadcast somebody else caused counts as an
  answer.
* *Losses and resends.* UDP loses datagrams. Requests with an observer are repeated
  every two seconds, whether they are lost or late; requests without are not.
* *Sessions* end by the user, by the connect timeout or by the next `connectToHost()`,
  at any point of the above. What belongs to the old session must not leak; the caches
  and attributes that outlive it must not be taken for the new one's.
* *Programming* a variable uses a single timeout for all reads; a failure names no
  variable; a write gets no answer and is verified by a read.
* *Paged access* is a chain of callbacks over requests any of which may fail, be
  retried, or have been executed although a failure was reported.
* *Echo.* Power controls, speed dials and function buttons send a command when a status
  changes them; the command is broadcast as a status.
* *Chains of requests.* The LokProgrammer switches its power, reads a bit or asks who it
  is by requests each sent from the callback of the one before. Chains of different
  callers interleave, and the decoder answers by nothing but a pulse of current.
* *Queues.* The MX1 has one request on the line and no timeout; what is lost, or read
  from the wrong chunk, stops or shifts all that follows.
* *Modal questions* run an event loop of their own: other peers are served and devices
  come and go below a message box that is open.
* *Signals within signals.* Boxes and lists set each other; a change that is passed on
  meets the half of a state that was set already.
* *Layouts.* Addresses, speeds, functions, mappings and places are packed by bits and
  offsets at several places of the code, and unpacked at others.

### What makes it correct

For the client: a session is torn down by its timeout or answered, never both; no
request acts in a session it was not made in; what the client shows follows the
station; whatever is pending is answered. For programming: no callback gets a value
older than its request, none is called twice, every call is told something, the
station is not left in programming mode. For paged access: no variable is accessed on a
foreign page, results come in order, a task ends. For the serial devices: frames are
found, requests are answered in order and once, no wrong value is reported, nothing is
programmed on a track that drives, numbers keep their meaning on their way to the decoder.
For the views: what they show agrees with the station once nothing is under way, what they
send is what the user asked for, no echo goes on for ever, no subscribed vehicle is
forgotten. For documents and transfers: what is saved is what was edited, nothing that
nobody agreed to lose is lost, a file is kept only if it arrived whole.

## 2. The modules

| Module | Models | Composed by | Proofs |
|---|---|---|---|
| `Z21Client` | requests, sessions, timers of the Z21 client | `MCZ21Client` | `Z21ClientProofs` |
| `Z21Programming` | reading and writing variables through a Z21 | `MCZ21Programming` | `Z21ProgrammingProofs` |
| `Z21Reports` | reports and queries of a Z21 and what the device passes on | `MCDevices` | |
| `CanDetectors` | merging of CAN reports | `Devices` | `DevicesProofs` |
| `DetectorAddresses`, `DetectorTable` | addresses of detectors; their table | `MCDevices` | |
| `VariableControl` | paged access and retries | `MCVariableControl`, `MCDevices` | `VariableControlProofs` |
| `RequestQueue` | what a queue of requests promises, abstractly | implemented by `Mx1Device` | `Mx1DeviceProofs` |
| `Mx1Device` | the ZIMO MX1, its line and station | `MCSerial` | `Mx1DeviceProofs` |
| `FrameStream` | framing of bytes in both serial formats | `MCSerial` | |
| `DccRequests`, `Lp2Messages`, `Mx1Messages`, `StationMessages` | DCC packets and numbers; the messages of both devices; driving and reading through them | `MCSerial` | |
| `Lp2Device` | the ESU LokProgrammer and the programmer | `MCLp2Device` | `Lp2DeviceProofs` |
| `EsuProgrammer` | the ESU programmer application | `Devices` | `DevicesProofs` |
| `SpeedCat` | the speed meter | `Devices` | `DevicesProofs` |
| `Devices` | paged access, speed meter, ESU programmer and CAN detectors side by side | `MCDevices` | `DevicesProofs` |
| `PowerEcho` | power controls of several apps at one station | `Studio` | `StudioProofs` |
| `DeviceSelection` | list, box and pages of devices | `Studio` | `StudioProofs` |
| `VehicleThrottle` | the vehicle page and the polling of vehicles | `Studio` | `StudioProofs` |
| `TurnoutViews` | accessory page, its table and a track plan at one station | `MCDevices` | |
| `TrackSymbols`, `TrackPlan` | symbols; pages, presets, layouts | `MCDevices`, `TurnoutViews` | |
| `DecoderInfo`, `DecoderDatabase`, `VariableEditor` | what is known of variables; the pages that show, read and write them | `MCStudio` | |
| `AutomationDocument` | the automation plan as a document | `Studio` | `StudioProofs` |
| `AutomationItems` | what is in an automation plan | `MCStudio` | |
| `FunctionMapping` | function mappings of ESU decoders | `MCStudio` | |
| `FileSharing` | transfers from the Z21 app | `Studio` | `StudioProofs` |
| `Studio` | power, files, plan, vehicles and the choice of the device side by side in lmrstudio | `MCStudio` | `StudioProofs` |

Each module begins with the abstractions it makes. Definitions that start "A slip" are
variants of the definition they precede, with a plausible mistake in them; they are
used by no specification. `PROJECT.json` lists, for every property, a slip that
violates it. Variables marked *history* are not in the code: they remember what happened
for a property to speak of it.

`Studio` and `Devices` compose the parts whose theorems are proved: a step of the whole is a
step of one part, in any interleaving. Their properties are those of the parts.

Three MC modules instantiate several modules, the *parts*; `MCStudio` and `MCDevices` extend
the compositions by the parts that are model-checked only. A variable `part` says which of
them a behaviour is about; the others keep their initial state. Parts that do not interact
are thus checked side by side by one run, at the sum of their states rather than the
product; that the interleavings of the parts of `Studio` and `Devices` change nothing is
proved.

### Z21Client

The request engine of `z21::Client`, the device state and the poll timer that hang on
it, the link and the station.

| Code | Module |
|---|---|
| `m_socket`, `m_connectTimeout`, `m_resendTimer`, `m_idleTimer` | `socket`, `connectTimer`, `resendTimer`, `idleTimer` (running or not) |
| `m_pendingRequests` | `pending`: the kinds of request that have an observer |
| `m_sendBuffer` | `sendBuffer` |
| `m_deviceInfo` | `trackStatus`; `known`, the other attributes that have been answered |
| `connectToHost()`, `disconnectFromHost()` | `Connect`, `Disconnect` |
| `timerEvent()` | `ConnectTimeout`, `ResendStarved`, `SendRequestsOnIdle` |
| `enableTrackPower()` and its like | `Command` |
| `parseDatagrams()`, `parseBroadcasts()`, the callback of the handshake, `updateDeviceInfo()` | `ParseMessage`, one step: nothing runs in between |
| UDP | `toCentral`, `toClient`, `LoseRequests`, `LoseMessage` (external) |
| the station | `inbox`, `power`, `subscribed`, `CentralReceive`, `CentralHandle`, `PowerChange` (external) |

The query `connectToHost()` makes and the track status query of `updateDeviceInfo()`
are sent as the same bytes but do different things when answered; the first is the
kind `handshake`. Subscription and handshake are queued by one call and leave in one
datagram (`BoundAssumption`). `Starved` is what can be two seconds old at a tick of the
resend timer: nothing while the connect timeout runs, which is as long and was started
first (that Qt's coarse timers may be late by a few percent is left out). A datagram carries whether the socket it was sent on
still exists; the station's answers to other sockets find nobody.

### Z21Programming

`readVariable()` and `writeVariable()` of the client with the retries of
`z21::VariableControl`, in one session. A callback may issue requests while
`parseDatagrams()` walks over the observers: the observers are folded over a record
`Working` that collects what stays, what is added and what is sent, and `Apply` makes it
the next state. The order of the code is kept: stop the timeout, compare the index,
restore the power, call back. `armed` is the callback of the one timeout;
`ProgrammingTimeout` takes no observer away, as the code does not. Writing leaves an entry in
`verifying`, the single-shot timer, of which `Verify` makes the read.

### Z21Reports

The queries of the client about vehicles, turnouts, accessories, R-Bus detectors, the
system, its lock and its versions, and how the bytes of their reports are read. A report is
offered to the broadcast observer and to every pending query; `Answers` is which query it
resolves, by the few bytes the code compares, and `Ask`, `Report`, `Lose` and `Resend` are
the link. The caches of the device, the rows of its info and the known vehicles outlive a
session as in the code.

### CanDetectors, DetectorAddresses, DetectorTable

A port of a CAN detector tells its occupancy and its vehicles in several messages.
`CanDetectors` puts them together per port and passes a network on when all are complete
(`IsComplete`), under losses and while the table attaches late. `DetectorAddresses` has the
types of addresses, what the station is asked for them and what is compared;
`DetectorTable` follows whole reports from the bytes through the cache of the device's
control (`Noticed`), which passes on what it did not know, to the cells of their rows. Each of
its two controls has a cache and a station of its own; reports come whether or not the table
is attached. `measured` and `missed` are history: what was told last, and what the table could
not see, as it was not attached when it was news.

### VariableControl

The generic paged access on top of any device, with the decoder's page registers CV31,
CV32 and CV1021. `queue` holds the operations the device has to work off, each with
the state of its callback: what step it is, which variable, what is left of the list,
how often it was retried. `Succeed` and `Fail` are the device reporting a result;
a failed operation may or may not have reached the decoder. `Policy` is what the
caller's callback answers: `retry` (the variable editor), `collect` (the closure of
the list call), `first` (abort). The device works off its operations in order, as
the devices with request queues and the mock of `tst_variablecontrol.cpp` do.

### RequestQueue, Mx1Device

`RequestQueue` is an abstract specification: requests are numbered as they are queued,
transmitted in that order, each once and only when the one before it was answered, and a
caller gets at most one result, for a request that was transmitted. It says nothing of
bytes, frames or sessions.

`Mx1Device` has the queue with its head on the line, the observers of secondary responses,
`deviceInfo`, the power, variable and vehicle controls, and a station that may lose a frame
or deliver two in one chunk. `readyRead` takes one frame, as the code does, the rest of the
chunk waits for the next signal; a session that reconnects connects the signal once more, so
that later chunks are read twice. `KeepsPromises` states that every behaviour implements
`RequestQueue` under the refinement that maps the queue and the results to the numbered
requests.

### FrameStream

The writer escapes markers and adds start and stop, the reader looks for frames in what
is buffered, in chunks that end anywhere. Each byte carries the number of its frame, for
`FramesAreFound` to say which frames damage may cost.

### DccRequests, Lp2Messages, Mx1Messages, StationMessages

`DccRequests` has the numbers of `core::dcc`, their conversions and the bytes of packets; a
reference, `Heard`, reads the packets as the tables of the DCC standard do. The message
modules have the layouts of the two devices. `StationMessages` puts them together: what the
user does goes through conversions, requests, layouts and packets, and comes back as a
response; `MessagesAreUnderstood` compares the ends.

### Lp2Device

The LokProgrammer with its power and variable controls. A request on the line carries
its callback, as `pendingRequests` does: `index` is how deep in the nested lambdas of
`enterServiceMode()`, `enableTrackPower()` and `readDeviceInformation()` it was sent, a
`Reading` is the `Closure` of `readVariable()` with its state, bit, value and retries.
`ParseMessage` is `onReadyRead()` for one frame with everything the callback does, and
`Apply` appends what it sent. `Connect`, `Disconnect` and `ConnectTimeout` are the session;
`Drive` is the timer of the vehicle control, which runs while `state` is `PowerOn`.
`Execute`, `Refuse` and `Misread` are the programmer (external): that a reset
takes the power off the track, and what a pulse means, is taken from how the code uses
it. `overlapped` and `disrupted` record that callers got in each other's way, and that
switching the power failed or a session ended, which the code does not report to the
caller of a read (FIXMEs in `enterServiceMode()` say so). The reset packets before a packet
of `readVariable()` change nothing of it and are left out.

### EsuProgrammer

Two frames of the programmer application switch the power mode they need and then send
their commands; what mode the programmer is in is believed from answers (`powerMode`), what
it really is in is `actual` (external).

### SpeedCat

Lines from the meter, the ring of samples with its position and filter window, the connect
timeout. A sample is the number of the line it came with, so that the filtered speed tells
which samples it is made of.

### PowerEcho

The power slider and the power actions of several running apps that share a station,
with people who use them and a handset. `Receive` is `setTrackStatus()` with both
slots it reaches and the commands these send. `Patient` people wait until the last change
has arrived everywhere.

### DeviceSelection

The list of the connection page, the box of the tool bar, the current device of the main
window and of each page. A user's step is a chain of functions over a record `ui`, as one
signal calls the next in the code (`PickDevice`, `SelectRow`, `ShowPage`, `Connect`,
`Disconnect`); devices then change their state, tell their serial number, are locked.
The views of Qt are modelled by how the code uses them. In particular `PickedInBox` leaves the
row of the list alone: `setCurrentDevice()` hands the list an index of the filtered model of
the box, and a view ignores an index of a model it does not show. `form` is whether the
form to connect is enabled, which `updateWidgetsEnabled()` sets at some of the changes only
(`EditForm` is one).

### VehicleThrottle

`Follow` and `FromDial` are what the speed dial does when it is turned or told, `Poll` is
`onVehicleInqueryInterval()` with its pointer into the subscriptions, `ChooseVehicle` the
address box, which takes any address, `Handset` another throttle. People act at any time,
also while commands and answers are under way. `wished` and `rash` are history: what was ever
asked of a vehicle, and the vehicles people acted on while something about them was under way,
or chose before anything was known of them.

### TurnoutViews, TrackSymbols, TrackPlan

`TurnoutViews` has the accessory page, its table and a plan, which get the controls of the
device at different moments, then follow infos and switch. `TrackSymbols` holds what is
constant of symbols, most of it translated from the tables of `symbolictrackplanmodel.h`.
`TrackPlan` has the notebook of pages: presets, the reader of the Z21 app's layouts
(bounds, cells, links of roofs), clicks without a device, and infos to all pages that hear
them. `PlanIsShown` compares the cells with the records they were made of.

### DecoderInfo, DecoderDatabase, VariableEditor

`DecoderInfo` looks variables up along the definitions a decoder's definition extends.
`VariableEditor` has the boxes, which set each other in nested signals (functions over a
record, innermost first), the calls with their lists, and the tree that puts bytes together
to numbers (`Updated`). `DecoderDatabase` has the two boxes and the tree of the database.

### AutomationDocument, AutomationItems

`AutomationDocument` is the document manager with the automation page: its operations stop
where a dialog is open (`Answer`, `PickFile`, `PickName`) while devices come and go;
`stamp` stands for the content. `AutomationItems` has the content: item types, parameters,
JSON, clipboard.

### FunctionMapping

`Stored` and `Base` spread a row over 20 variables on two pages; the editors take a cell
apart and put it together; files are read and written with switches of the page in between.

### FileSharing

The listening servers, a session per peer, the received chunks, the questions as a stack
of modal dialogs, the user's answers, and restarts. Peers connect, offer, send, send
nonsense and leave (external).

### Proof modules

`Z21ClientProofs`, `Z21ProgrammingProofs`, `VariableControlProofs`, `Lp2DeviceProofs`,
`Mx1DeviceProofs`, `StudioProofs` and `DevicesProofs` hold the theorems (section 5).

## 3. The runs

| Run | Instance | Shows |
|---|---|---|
| `z21_session` | two connects, a command, a foreign change, a loss, an early resend | `TimersFollowTheSession`, `NoRequestOutlivesItsSession`, `TrackStatusFollows`, `ConnectedIsSubscribed` |
| `z21_answers` | one connect, a command, two losses; fair | `PendingIsAnswered` |
| `extended_page` | one read of a RailCom variable | `OwnPageOnly` is **violated** |
| `pom_programming` | main track; a read and a write of one variable, a loss of each kind, an error, an early resend | `ValuesAreFresh`, `ReportedOnce` |
| `direct_programming` | programming track; two reads of two variables, a lost answer, an error; fair | `CallsEnd` |
| `power_loop` | one app, a handset used twice in a row; fair | `Settles` is **violated** |
| `lokprogrammer` | a list of two variables and a single one, two bits each; three of connect, disconnect, switching, error, misread; fair | `ReadValueIsRight`, `ProgramsInServiceMode`, `StateFollows`, `ReadsEnd` |
| `serial` | parts: MX1, framing, messages; fair | `StationAgrees`, `KeepsPromises` (refinement of `RequestQueue`), `NothingHangs`; `FramesAreFound`; `MessagesAreUnderstood` |
| `lmrstudio` | parts: power, sharing, document, throttle, functions, selection, variables, database, items; fair | power: `ControlsAgree`, `Settles`; sharing: `NeverPartial`, `TransfersEnd`; document: `EditsAreKept`, `EventsHearOnce`; throttle: `VehiclesDoAsAsked`, `NoVehicleForgotten`; functions, items: `FilesAreKept`, `EditsTouchTheirCell`; selection: `SelectionAgrees`; variables, database: `VariablesAgree` |
| `stopped_sharing` | one peer | `AcceptedIsNotAborted` is **violated** |
| `devices` | parts: paged access, CAN detectors, speed meter, ESU programmer, views of turnouts, reports, table of detectors, track plan; fair | `OwnPageOnly`, `ResultsInOrder`, `TasksEnd`; `DetectorsFollow`; `SpeedIsOfThisSession`; `CommandsAreDone`; `LayoutAgrees`; `ReportsAgree` |

Each pass run also checks one type invariant of what it instantiates, except those of
`Z21Programming`, `Lp2Device`, `Mx1Device` and `FrameStream`, which their other properties
would fail without.

Some properties join what several modules say of one matter: `FilesAreKept` is
`SavedIsOnDisk` of the document and `FilesKeepMappings` of function mappings with
`PlanIsKept` and `DetectorIsNamed` of plans; `EditsTouchTheirCell` adds `PastedAsCopied`,
`ReportsAgree` adds `TableShowsDetectors` and `AddressesAreTold` of the table of detectors,
`LayoutAgrees` adds `PlanIsShown`.

### Bounds

All bounds are constants, and apply to what the environment does (connects, commands,
changes, losses, errors, early resends, acts) or to how much is under way
(`MaxInFlight`). Nothing the client does by itself is bounded, except that a resend of
a request that is not lost costs a budget: it may be repeated as long as the station
is slow.

* *Z21 client.* Two sessions are enough for anything left over by a session to meet the next;
  the state of a session holds nothing that counts sessions. One loss hits any datagram or
  message of either session, two hit a request and its resent copy. A datagram of two
  requests makes the requests of the handshake and of the device info split over datagrams
  at different places.
* *Programming.* Two tasks share the one programming timeout, one observer list and one
  decoder; a third adds no new kind of meeting. `RetryLimit = 1` has a first, a repeated and
  a final failure; the code's limit is 3.
* *Paged access.* Three tasks overlap pairwise and all at once, on pages that differ.
* *LokProgrammer.* Two bits have a first and a last one, and two reads overlap at every
  step; the events (`MaxEvents`) share one bound, so that any three combine. The two
  variables hold different values: a mixed up or silent one is seen.
* *Serial.* Three events of lost frames, sessions and requests; chunks of one frame or two;
  one damaged byte in three frames whose payloads begin or end with a marker. Messages: the
  addresses 127 and 830 (short and long), functions 0, 5, 12, 20 and 68 (one of each group),
  four speeds, two changes, one exchange before.
* *Power.* Two apps and a handset are the smallest group in which a broadcast has an
  uninvolved receiver with controls of its own; three acts, two connects each.
* *Sharing.* Two peers, two names, files of three units in chunks of two: a first, a last
  and a short chunk; four units sent at most, so that one is too many; two switches.
* *Document.* Two names and two devices, one recent file, two rows, two edits, two changes
  of the devices. *Items.* All seven types, two events with two actions, two edits, two plans
  of others with items and values nobody knows, one file of another format.
* *Throttle.* Three vehicles with two slots of queries: the round robin wraps within a
  round; one of them moves at first, no vehicle or one has been subscribed to, the first or the
  second is in the box, none or all have names; three acts. *Functions.* 17 rows, so that
  there is a second page; one edit, one click and one file cut short; the first and the last
  row, a condition behind the unused one, a filter that hides all others. *Selection.* Two devices at once and
  in all, one Z21 host and one port, one lock, two pages with different needs. *Variables.*
  Definitions of every kind there is, numbers of two and of four bytes, variables on a SUSI and
  a RailCom page, two acts, two calls under way, from an identified decoder, which can be cleared.
* *CAN detectors.* Trains of none, two and three vehicles: the third needs a second message;
  two moves, a query, a loss. *Table.* Two ports of one module and one of another with a zero
  byte, vehicles of every direction, the words of free, occupied and overloaded, four
  occupancies of an R-Bus group by its first and last port; two controls with two reports: news,
  a repetition, or one for each control.
* *Speed meter.* A ring of four with a window of two, eight lines over three sessions: it
  wraps in every session. *ESU programmer.* Two commands per list, five clicks, one refusal.
* *Turnouts.* A point, a Y, a three-way point and a signal on two addresses that two symbols
  share, two acts, a foreign change, a loss. *Reports.* Five scenes of subjects that share
  their kind or an address; one change, query and loss, two sessions.
* *Track plan.* One layout of three pages (every kind of symbol that is treated apart, roofs
  around a corner and side by side, an empty page) in a good file, in one with the database
  in another place, and in one of another format; all presets; four steps, which are enough
  to open, attach, detach, and be told.

`CHECK_DEADLOCK FALSE` stands where the system rests once all tasks are done and the
environment has used its budget. `Z21Client` cannot rest: a user may always disconnect.

### Fairness

Weak fairness, and only for what the event loop or the outside does by itself: timers that are
running fire (Qt's repeating timers), arrived datagrams and chunks are read, the station and
the decoder's device work off what they received, a peer whose file was accepted sends it.
Nobody has to connect, to command, to disconnect or to answer a question, and no timeout has to
win a race. The connect timeout of the Z21 is a single shot that is running
(`WF(ConnectTimeout)`): it fires unless the handshake is answered before.
`WF(ResendStarved(k))` is for each kind, since each pending entry has its own age. Losses are
finite, which is stated by their bound: with infinitely many no repetition helps.

Assumptions about people: `Settles` is checked with people who wait for the last change to
arrive (`power_loop` shows what happens otherwise). `VehiclesDoAsAsked` assumes nothing of when
people act for the speed and direction a vehicle may have; only that it does what was asked
*last* is said of vehicles nobody acted on while something about them was under way.

## 4. What was found

* **CV32 is written after the access** (`extended_page`). `selectPage()` for an extended page
  passes the result of writing CV31 to the caller's callback, which accesses the variable,
  and then writes CV32 and calls back again. The first access goes to the page an
  earlier access left. SUSI pages, selected by one variable, are not affected (`devices`).
* **Endless power toggling** (`power_loop`). Two status changes within a round trip are
  enough: each echo finds the app in the other state.
  `issues/open/0001-freakloop-z21.txt` reports it. With people who wait for the
  last change to arrive, the echo dies out (`lmrstudio`).
* **Leaving the page aborts transfers** (`stopped_sharing`). `stopListening()` keeps the
  sessions of accepted transfers, as its comment says, but deletes the server their sockets
  are children of.

### Observations

Not counted as findings, as nothing in the repository promises otherwise, or as only a
comment does; the properties are worded around them, and the modules behave as the code.

*Z21 client and programming.*
* A timed-out read leaves its observer behind. If its answer is late and the retry's
  answer follows, the second one may be attributed to a later read of the same variable.
  `ValuesAreFresh` therefore allows stale values where a variable was requested while
  an answer to it was due.
* After direct programming, a lost `enableTrackPower` is taken as answered by the broadcast
  of an earlier one, and the station may be left in programming mode;
  `CallsEnd` allows it where a request was lost.
* Attributes are not reset when connecting (a FIXME in the code says so), so that a device is
  `Connected` again before the station has answered at all:
  `ConnectedIsSubscribed` speaks of sessions whose handshake was answered.
* `subscribe()` has no observer and is never repeated. It is not lost alone, as it leaves in the
  datagram of the handshake, and the connect timeout ends a session before a lost handshake
  would be repeated without it: with a longer timeout (the slip `ConnectsPatiently`) a device
  would show `Connecting` for ever. `issues/open/0002-endless-connect.txt` logs that symptom; its
  cause is not in what is modelled here.

*Reports of the Z21.*
* Queries for vehicles, turnouts and accessories are resolved by reports about another
  address: the callback of a vehicle is told of another vehicle, the one of an accessory is
  not called, and an own answer that is lost then is not asked for again. An empty RailCom
  answer resolves any RailCom query (a FIXME). Infos that answer a query are signalled twice.
* All 80 ports of an R-Bus group carry the group's address, so that the detector cache and
  the table keep the last port only, and one that is occupied may be shown as `Free`:
  `ReportsAgree` takes "Occupied" at its word, and "Free" to say nothing of the group. RailCom of an unknown vehicle emits an empty
  `VehicleInfo`. Attributes, cache and known vehicles outlive sessions.
* `setSpeed14()` and `setSpeed28()` encode otherwise than `VehicleInfo::speed()` reads; the
  RailCom request is big-endian, its answer little-endian; `tst_z21client.cpp` mocks CAN queries
  in the other byte order than the code sends. LocoNet reports are read from address bytes
  and merged nowhere.

*Detectors.*
* A CAN section that is occupied without a decoder, or a port that never reports vehicles,
  keeps its whole network from being passed on. States survive a reconnect; a table attached
  late misses what is cached, also when it is reported again (`m_infoCache` passes on
  changes only), and keeps its rows when its control changes.

*Serial devices.*
* A lost MX1 answer stops the queue, over reconnects too; two frames in one chunk leave the
  second to the next signal; a session that reconnects connects `readyRead` twice and is
  `Connected` before the station answered. `NothingHangs` therefore speaks of a line that
  behaves.
* `framestream.cpp:142` says a frame without its end is skipped; it runs into the next one.
  `hasValidChecksum()` is only logged, a damaged frame is dispatched.
* `Request::hasExtendedAddress()` tests 0xc0 (`dccrequest.cpp:65`), so that basic addresses from
  64 to 127 read back as extended ones. Step 1 of 126 and of 28 is the emergency stop, and the
  conversions reach it. `UfmReceiveRequest` is declared with the identifier of `SendUfm`. The MX1
  carries F0 to F28 only. The first functions of an unknown vehicle also command speed 0.
  `Lp2Device::readDeviceInformation()` dereferences an empty optional when it logs an answer
  of the wrong form.
* Reads by two views at once disturb each other on the LokProgrammer: one switches the
  power off under the other. The verification of the byte makes the disturbed read fail rather
  than report a wrong value, unless a pulse is misread as well (`ReadValueIsRight`).
* After one failed `open()` the ESU programmer stays in `Error`, as `errorString` is never
  cleared; the power mode it believes and its pending requests outlive the session.
* The speed meter's window ends before the newest sample, so that the first samples of a
  session are filtered with unset or old ones; a well-formed line without a number stops the
  timeout and leaves the meter `Connecting`.

*Devices and pages of lmrstudio.*
* After a device was picked in the box of the tool bar, the list of the connection page still
  has its old row, and beside it the form of that device's state, until a device reports a
  change or another row is chosen; choosing the row it has does nothing. `SelectionAgrees`
  speaks of the device of the connection page, the box and the main window.
* The vehicle page sends what it shows: choosing an address nothing is known of while the dial
  is turned up commands speed 0 and clears the function, and an answer that was overtaken
  sets the dial back and is sent as a command, which undoes what was asked last. Both are
  within `VehiclesDoAsAsked`, which excepts such vehicles (`rash`) from what was asked last.
* A Z21 is identified by its serial number, which is 0 until it was told: connecting twice to
  a known station makes a twin, an unanswered one is found for every host. A device whose
  first connect failed can neither be reconnected nor removed. Disconnecting from a
  page whose box drops the device as it closes deletes its neighbour instead
  (`ShownDeviceGoes` excepts it).
* The views ask a new device for controls before it told what it can do; `controlsChanged`
  comes with the lock state only and does not reach the track plan; capabilities that follow it
  leave the page disabled. `oldControl->disconnect(this)` does not match the connections,
  whose receiver is `d`, so that views hear controls they gave up.
* `dccconstants.h:345`, `accessorytablemodel.cpp:34` and `symbolictrackplanview.cpp:760`
  disagree about which state of a turnout is green.
* The variable editor's Read and Write use the last vehicle addressed on the main track, "Read
  All" and "Identify" the box; results set the value box whatever is selected by then; values
  above 255 are cut to a byte. `VariableTreeModel` describes a row by what was known when it
  was inserted, and puts a four-byte number together only when its first byte is told last.
  The tree does not show the flags of fields right, which are left out here. `DecoderInfo::hasRailcom()` is read by nobody.

*Track plan.*
* Only symbols with a single address follow infos or can be clicked; three-way points,
  double slips and signals with three or four lights read from a layout have two. A single slip stays
  at `Branched` when clicked, as the state after it says nothing of the turnout.
* Detector symbols are found for R-Bus ports, and no device reports those. Their label has
  room for the module's number only.
* "New" replaces the current page and keeps the others; a layout without pages leaves a
  notebook without tabs, whose index -1 then reads out of the vector (left out by
  `FilesAssumption`). Routes and signals of a layout are not read.

*Documents.*
* Nobody marks a function mapping as modified: it is never saved by itself nor asked for. A
  file cut short counts as saved, and reads without an error; empty rows at its end go.
  A click in a filtered list changes the row of the same number in the unfiltered one.
* In an automation plan, cutting and pasting loses the actions; the current index is not
  moved when events go, so that a paste after cutting the last one is ignored once.
  `vehicles` and `functions` are no parameters and are lost in files; what cannot be read is
  dropped silently. The editor of choices never shows or sets one.

## 5. What is proved

From the assumptions named in the modules, for every value of the constants:

| Module | Theorem | States | Argument |
|---|---|---|---|
| `Z21ClientProofs` | `TypeCorrect` | `Spec => []TypeOK` | inductive by itself, with lemmas on what ending a session, splitting the buffer and answering do to sequences |
| | `HandshakeIsGuarded` | `[]HandshakeGuarded` | inductive as the device never queries the handshake itself: only `Connect` adds it, only its answer or the end of the session removes it |
| | `PollsWhileConnected` | `[]PollingWhileConnected` | `connected()` is emitted only while the timeout runs, so that a duplicate answer cannot restart the polling |
| | `TimersFollow` | `[]TimersFollowTheSession` | the two before together |
| | `RequestsStayInSession` | `[]NoRequestOutlivesItsSession` | not inductive: what is under way comes from the buffer, and the buffer from pending entries. `IssuedInv` adds that buffer and pending entries were issued in the session |
| | `ConnectedMeansSubscribed` | `[]ConnectedIsSubscribed` | `SubscribedInv`: until the station has the subscription, everything of the session on its way begins with it (`Begins`, `Led`), so that nothing the station answers precedes it; no query is repeated before the handshake was answered (`Starved`) |
| | `TrackStatusIsRight` | `[]TrackStatusFollows` | `StatusInv`: the subscription precedes every query of the session on its way through buffer, line and inbox (`SubscribesFirst`); once subscribed, the last status under way, or else the one shown, is the station's unless a query is still to be answered (`StatusIsTold`) |
| `Z21ProgrammingProofs` | `TypeCorrect` | `[]TypeOK` | `TypeInv` adds that calls belong to tasks that were started and that requests to write carry values |
| | `ReportsOnce` | `[]ReportedOnce` | `OnceInv`: what was reported to a task, its calls that are pending and its checks to come are together one and its timeouts at most (`Share`). A message resolves a call or keeps it, so that showing it to the observers moves the share of a task but never adds to it |
| | `ReportedValuesAreFresh` | `[]ValuesAreFresh` | `FreshInv`: unless a variable was requested while its answer was due, every answer under way, and every one the decoder may yet give, is one that each waiting task may take (`Knows`) |
| `VariableControlProofs` | `TypeCorrect` | `[]TypeOK` | `TypeInv` adds that steps that select a page belong to variables that have one, and that what is queued belongs to tasks that were started |
| | `ResultsAreInOrder` | `OneNumberSelects => []ResultsInOrder` | `ChainInv`: each task has one operation in the queue at most (`OneEach`); what was delivered, that operation and what is left of the list make up the list, and its retries are the failures in a row (`GoesOn`) |
| | `OwnPagesOnly` | `OneNumberSelects => []OwnPageOnly` | `PageInv`: who has the device for itself has the only operation in the queue, and accesses the variable only after its page was selected |
| `Lp2DeviceProofs` | `TypeCorrect` | `[]TypeOK` | `TypeInv` (what a request carries fits its chain and how deep in it was sent) with `LineInv`: a read has one request under way, a closed line is empty; while callers keep out of each other's way there is one chain on the line |
| | `ProgrammingIsInServiceMode` | `[]ProgramsInServiceMode` | `ModeInv`: requests past the step that switches the power find the programmer in the mode they count on, and what is sent behind a switch is sent by its answer |
| | `StateFollowsMode` | `[]StateFollows` | `StateInv`: without a chain, state and mode agree; within one, the last answer or the request under way settles them |
| | `ReadValuesAreRight` | `[]ReadValueIsRight` | `BitsInv`: the bits gathered so far are the decoder's, unless a pulse was misread; `VerifyInv`: a byte that passed its verification is the decoder's even then |
| `Mx1DeviceProofs` | `StationIsRight` | `[]StationAgrees` | `LineInv`: whatever is lost, there is one request or one primary response between device and station, and it is that of the head. `PowerShown`: the power that is shown is the station's, unless a query of it is queued or the response to the head will settle it. `SpeedInv`: the last speed that was set is that of the last request for it in the queue, or the station's |
| | `PromisesAreKept` | `KeepsPromises`: every step is one of `RequestQueue` | the same invariant with `NumberInv` (the numbers in the queue are the last that were given; what was sent is all that was answered, and the head) and `ObserverInv` (observers belong to requests that were sent, and nobody who got a result has one) |
| `StudioProofs` | `PowerTypes` | `[]TypeOK` of `PowerEcho` | inductive |
| | `ControlsDoNotDriftApart` | `[]ControlsAgree` | `ToldInv`: the last status told to an app is the station's; `IdleInv`: apps without a session have nothing under way; `ControlInv`: slider and action show what was received last |
| | `SharingTypes` | `[]TypeOK` of `FileSharing` | part of the next |
| | `FilesAreWhole` | `[]NeverPartial` | `TransferInv`: an offer is asked about once and before anything came (`OfferInv`); an accepted transfer lacks something, and what is kept is whole (`ReceivedInv`) |
| | `ThrottleTypes` | `[]TypeOK` of `VehicleThrottle` | part of the next |
| | `DoneAsAsked` | `[]VehiclesDoAsAsked` | `AskedInv`, vehicle by vehicle: every speed and direction that is ordered, told, shown or done was once asked of it, or is the stop of one nothing was known of (`Dials`; `LineInv`, `LaidInv`, `ShownInv`); one nobody was rash with does what was asked last, or an order under way will see to it (`DoneInv`), and its row shows that unless something about it is under way |
| | `NoneForgotten` | `[]NoVehicleForgotten` | `TurnInv`: the number of polls a vehicle has waited for and those until the pointer reaches it make up one round at most; what the scan of one poll passes over is counted as sets of places, whose sizes bound it for any number of slots |
| | `HeardOnce` | `[]EventsHearOnce` | `HeardInv`: the control of the model is the one its device offers, and each row is linked to that once and to no other, through edits, moves, plans that are read and devices that change |
| | `SavedIsKept` | `[]SavedIsOnDisk` | `Saved`: of an unmodified plan, the file of its name is gone, damaged, or holds it. Every chain of dialogs starts and ends so, also when it fails or is cancelled |
| | `NoEditIsLost` | `EditsAreKept`, an action property | the same invariant with `KnownInv` (what is unmodified was written, or is new); a step that replaces the content was agreed to, or the content is on disk |
| | `SelectionTypes` | `[]TypeOK` of `DeviceSelection` | part of the next |
| | `SelectionIsKept` | `SelectionAgrees`, an invariant and an action property | `SelectionInv`: list, rows and boxes name devices of the list only (`Framed`); a box names what its view shows and has (`BoxNames`); the connection page and the main window have the same device (`Coherent`), and none while one is about to leave. Each function of the signal chain keeps that, also when signals nest |
| | `ControlsAgreeInStudio`, `FilesAreWholeInStudio`, `EventsHearOnceInStudio`, `EditsAreKeptInStudio`, `VehiclesDoAsAskedInStudio`, `NoVehicleForgottenInStudio`, `SelectionAgreesInStudio` | `StudioSpec => []ControlsAgree` and so on | `PartsAlone`: each part behaves in `Studio` as it does alone, as the others leave its variables unchanged |
| `DevicesProofs` | `SpeedIsMeasured` | `[]SpeedIsOfThisSession` of `SpeedCat` | `SpeedInv`: the last samples of the session lie behind the position, around the ring (`RingInv`), for any size and window |
| | `CommandsDone` | `[]CommandsAreDone` of `EsuProgrammer` | `AwaitInv`: of a frame that is disabled there is exactly one request or answer on the line, of one that may be pressed none; `ChainInv`: without overlaps there is nothing under way, one request or answer, or the two requests that lead to the service mode, and each says what the believed and the actual mode are then |
| | `DetectorsAreFollowed` | `[]DetectorsFollow` of `CanDetectors` | `DetectorInv`: unless a message was lost since the last query, the line of a port ends with the report of what stands there, or with what is left of it while the rest was collected (`Due`); while none was lost at all, its messages are a succession of whole reports, in which occupancy and vehicles of the port are of the same train or of two that follow each other (`InReports`). Of two, `IsComplete` accepts only what one of them would show (`CompleteIsWhole`) |
| | `SpeedIsMeasuredInDevices`, `CommandsDoneInDevices`, `DetectorsAreFollowedInDevices` | `DevicesSpec => []SpeedIsOfThisSession` and so on | `PartsAlone` |

The invariants are proved inductive by one lemma per action or group of actions, cited by
the step of the theorem. Most strengthenings were checked with TLC before they were proved.

`OneNumberSelects` says that no variable lives on a page of CV31 and CV32. Where one does, the
code accesses it before the page is complete, and tells its caller twice: both properties are
wrong there, the run `extended_page` shows the first of them. For SUSI banks and basic
variables the theorems hold with any number of tasks, however they overlap and whatever fails.
`ProgramsInServiceMode` was first stated for undisturbed programmers only (no failed switching,
no session that ended); the proof showed that this is not needed, and it was dropped.

`parseDatagrams()` shows a message to all observers, which is a fold over a sequence. The
induction theorems of the library are about operators, which the provers cannot instantiate;
`LeastNatural` derives the least number principle from the well-foundedness of the strict
subsets, and `Induction` and `ShownToAll` follow: what holds of the record of an event, and is
kept by each observer, holds of it when all have seen the message. The proof of `FreshInv` also
showed that an answer that is shown to two observers of one variable is harmless; an exception
for it in `duplicated` was dropped. `readyRead` of the MX1 is treated alike: after *n* sessions
one chunk calls the slot *n* times, each of which takes a frame; that some of them find the
buffer empty, or a later request already on the line, breaks neither property. That needs
no bound on lost frames, and no assumption on how many frames a chunk completes.

Two statements changed on the way to their proofs. `NoVehicleForgotten` got the sharper bound
that its inductive invariant gives: a vehicle waits for the other ones only, of which each poll
serves `QuerySlots - 1` beside the current vehicle. That a disabled frame of the ESU programmer
waits for exactly one request was counted with `SelectSeq`, a recursive function; `CommandsAreDone`
says the same by the places of both queues (`Awaited`), which the provers can reason about.
`DocumentAssumption` had to say that no file, device or dialog is `None`, and that no plan looks
like a damaged file: the code tells them by their types. `ThrottleAssumption` says that there are
finitely many vehicles, which the scan of a poll counts. `DeviceSelection` picked rows from a list
that was filtered by `SelectSeq`, too: `Top` and `Above` now name them by their places in the list,
and `SelectionAssumption` says that `None` is no device, no instance and no box. `CanDetectors`
flattened the vehicle sets of a port by a recursive function, which is now a list of the places
that hold a vehicle (`Taken`, `Place`): that a whole report gives back the train it was made from
needs no induction then.

Only model-checked: everything temporal (liveness under fairness and `ENABLED` are beyond the
proof system: `PendingIsAnswered`, `CallsEnd`, `ReadsEnd`, `TasksEnd`, `Settles`,
`TransfersEnd`, `NothingHangs`); framing, message layouts and the variable editor, whose modules
use `Bitwise` and recursive operators (`FramesAreFound`, `MessagesAreUnderstood`,
`VariablesAgree`); what is a matter of tables and layouts rather than of steps, where the finite
tables of the code are the statement (`FilesAreKept` but for `SavedIsOnDisk`,
`EditsTouchTheirCell`, `LayoutAgrees`, `ReportsAgree`); and `TypesOK` of the parts that are
proved nothing else of, of `AutomationDocument`, whose list of recent files is filtered by
`SelectSeq`, a recursive function, and of `CanDetectors`, where the list made of sets that lost
some of their messages is well formed by a count of places, an induction.

## 6. What is not modelled

Texts, units and icons; drawing and geometry; settings; the parsers of XML and
file formats behind the documents (pure I/O, read as "intact" or not); the tables of
decoders, except examples of every kind of entry; the viewer of sound packages; the list of
serial ports. Of the Z21 client: feedback module programming, and LocoNet reports, which the
code does not merge; in `Z21Programming` a disconnect during programming. Of the serial
devices: raw frames of the debug control, and the sequence numbers of the LokProgrammer,
which `Lp2Device` takes to be unambiguous. What the code has not implemented (writing on the
LokProgrammer, the accessory control of the MX1, the control handlers of the automation, writers of
layouts) has no model. The hazards these leave uncovered carry a note in `PROJECT.json`.

## 7. Plan

Done in the order of what matters to a layout in operation: the client, programming, paged
access and power first, the serial devices, the sharing, then views and documents. Left, in
this order:

1. A resent power command that was only late (`z21client.cpp:1325`): the intention of the user
   as a history of `Z21Client`, and a property on the last command.
2. Sequence numbers of the LokProgrammer with their wrap after 256 requests, in `Lp2Device`.
3. Proofs: queries, observers and caches of `Z21Reports` (`ReportsAgree`).
4. An abstract *session* (disconnected, waiting, answered) that `Z21Client`, `Lp2Device` and
   `SpeedCat` implement alike.
5. The programming of feedback modules, once a second caller of the client exists.
