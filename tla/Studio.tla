------------------------------- MODULE Studio -------------------------------
(* The parts of lmrstudio that people use side by side: the track power      *)
(* controls (PowerEcho), the files received from the Z21 app (FileSharing),  *)
(* the automation plan (AutomationDocument), the driving of vehicles         *)
(* (VehicleThrottle) and the choice of the device (DeviceSelection).  They   *)
(* live in one event loop and share no state but the device they talk to,    *)
(* which each part has in its own way: a step of the whole is a step of one  *)
(* of them.                                                                  *)
EXTENDS PowerEcho

CONSTANTS
    None,           \* no file, no device, no dialog, no vehicle
    FileNames,      \* of shared files and of plans
    Peers, FileSize, ChunkSize, MaxSent, MaxSwitches,           \* see FileSharing
    Devices, Damaged, MaxRecent, MaxRows, MaxEdits, MaxChanges, \* see AutomationDocument
    Vehicles, MaxSpeed, QuerySlots,                             \* see VehicleThrottle
    MaxDrives,      \* bound: how often people drive
    MaxDevices, MaxCreated, MaxLocks, TargetsOf, Pages, Needs   \* see DeviceSelection

VARIABLES
    listening, remembered, socket, session, fileName, received, sent, questions,
    files, plan, switches,
    doc, disk, agreed, written, latest, changes,
    box, dial, button, rows, heard, subscriptions, current, pointer, waits,
    requests, answers, layout, asked, drives, wished, rash,
    device, list, ui, leaving, spent

sharing  == <<listening, remembered, socket, session, fileName, received, sent,
              questions, files, plan, switches>>
document == <<doc, disk, agreed, written, latest, changes>>
throttle == <<box, dial, button, rows, heard, subscriptions, current, pointer, waits,
              requests, answers, layout, asked, drives, wished, rash>>
selection == <<device, list, ui, leaving, spent>>

Sharing  == INSTANCE FileSharing WITH NoFile <- None
Document == INSTANCE AutomationDocument
Throttle == INSTANCE VehicleThrottle WITH MaxActs <- MaxDrives
Selection == INSTANCE DeviceSelection

ASSUME StudioAssumption ==
    /\ Sharing!SharingAssumption
    /\ Document!DocumentAssumption
    /\ Throttle!ThrottleAssumption
    /\ Selection!SelectionAssumption

StudioInit == Init /\ Sharing!Init /\ Document!Init /\ Throttle!Init /\ Selection!Init

StudioNext ==
    \/ Next           /\ UNCHANGED <<sharing, document, throttle, selection>>
    \/ Sharing!Next   /\ UNCHANGED <<vars, document, throttle, selection>>
    \/ Document!Next  /\ UNCHANGED <<vars, sharing, throttle, selection>>
    \/ Throttle!Next  /\ UNCHANGED <<vars, sharing, document, selection>>
    \/ Selection!Next /\ UNCHANGED <<vars, sharing, document, throttle>>

StudioSpec ==
    StudioInit /\ [][StudioNext]_<<vars, sharing, document, throttle, selection>>

-----------------------------------------------------------------------------
(* What is promised of the parts.                                            *)

\* See NeverPartial in FileSharing: receiveFile() and reportError().
NeverPartial == Sharing!NeverPartial

\* See EditsAreKept in AutomationDocument: maybeSaveChanges() and insertEvent().
EditsAreKept == Document!EditsAreKept

\* See EventsHearOnce in AutomationDocument: setControl() of the model.
EventsHearOnce == Document!EventsHearOnce

\* See VehiclesDoAsAsked in VehicleThrottle: setValue() and updateFromVehicleInfo().
VehiclesDoAsAsked == Throttle!VehiclesDoAsAsked

\* See NoVehicleForgotten in VehicleThrottle: onVehicleInqueryInterval().
NoVehicleForgotten == Throttle!NoVehicleForgotten

\* See OneDevice and what follows it in DeviceSelection: setCurrentDevice(),
\* onCurrentViewChanged() and onDisconnectButtonClicked().
SelectionAgrees == Selection!SelectionAgrees
=============================================================================
