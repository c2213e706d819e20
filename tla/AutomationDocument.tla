------------------------- MODULE AutomationDocument -------------------------
(* The automation plan of lmrstudio as a document: DocumentManager and       *)
(* RecentFileMenu (lmrs/widgets), AutomationView (apps/lmrstudio), and the   *)
(* part of AutomationModel (lmrs/core) that tells of changes and connects    *)
(* its events to the controls of a device.                                   *)
(*                                                                           *)
(* An operation of the manager runs until it asks the user something; the    *)
(* message boxes and file dialogs are modal, so that the user can do nothing *)
(* but answer, while devices come and go.                                    *)
(*                                                                           *)
(* Abstractions.  What is in the events and actions is a number, "stamp",    *)
(* which every edit makes a new one.  A device has one control.  Warnings    *)
(* have no effect.                                                           *)
EXTENDS Integers, SequencesExt

CONSTANTS
    FileNames, Devices,
    None,           \* no file name, no device, no file, no dialog
    Damaged,        \* what is left of a file when writing it failed
    MaxRecent,      \* m_maximumSize of the menu
    MaxRows,        \* bound: events
    MaxEdits,       \* bound: edits
    MaxChanges      \* bound: what happens to devices and files by themselves


VARIABLES
    doc,            \* the manager, its model and its dialog
    disk,           \* file name -> the plan in it
    agreed,         \* the user has discarded changes in this operation
    written,        \* history: the plans that have been on disk
    latest, changes

vars == <<doc, disk, agreed, written, latest, changes>>

(* An event of the model: does the model observe it; its action, if it has   *)
(* one, and whether that is observed; how often it is connected to the       *)
(* control of each device.                                                   *)
Row == [observed : BOOLEAN, action : {"none", "observed", "unobserved"},
        links : [Devices -> 0..2]]

(* A plan in a file: which of its events have an action, and the contents.   *)
Plan == [events : UNION {[1..n -> BOOLEAN] : n \in 0..MaxRows}, stamp : Nat]

Operations == {"new", "open", "save", "saveAs"}

(* A dialog, the operation that waits for it, the name of the file it is     *)
(* about and the name saveAs() restores.                                     *)
Dialog(kind, op, name, old) == [kind |-> kind, op |-> op, name |-> name, old |-> old]
Dialogs == [kind : {"ask", "pickOpen", "pickSave"}, op : Operations,
            name : FileNames \union {None}, old : FileNames \union {None}]

DocumentAssumption ==
    /\ MaxRecent \in Nat \ {0} /\ {MaxRows, MaxEdits, MaxChanges} \subseteq Nat
    /\ None \notin FileNames \union Devices \union Dialogs
    /\ {None, Damaged} \intersect Plan = {}

Init ==
    /\ doc = [fileName |-> None, modified |-> FALSE,
              rows |-> <<>>, stamp |-> 0, recent |-> <<>>, dialog |-> None,
              device |-> None, available |-> FALSE, control |-> None]
    /\ disk = [n \in FileNames |-> None]
    /\ agreed = FALSE /\ written = {0} /\ latest = 0 /\ changes = 0

-----------------------------------------------------------------------------
(* The model.                                                                *)

Linked(row, control) ==
    IF control = None THEN row ELSE [row EXCEPT !.links[control] = @ + 1]
Unlinked(row, control) ==
    IF control = None THEN row ELSE [row EXCEPT !.links[control] = 0]

\* A slip: the event is not observed.
NewRowUnseen(hasAction, control) ==
    Linked([observed |-> FALSE, action |-> IF hasAction THEN "observed" ELSE "none",
            links |-> [d \in Devices |-> 0]], control)
\* insertEvent(): the event and its actions are observed and it is connected.
NewRow(hasAction, control) ==
    Linked([observed |-> TRUE, action |-> IF hasAction THEN "observed" ELSE "none",
            links |-> [d \in Devices |-> 0]], control)

\* A slip: setControl() does not look whether the control is the one it has.
ControlSetAgain(w, control) ==
    [w EXCEPT !.control = control,
              !.rows = [i \in DOMAIN w.rows |-> Linked(w.rows[i], control)]]
\* setControl() of the model, for all events.
ControlSet(w, control) ==
    IF w.control = control THEN w
    ELSE [w EXCEPT !.control = control,
                   !.rows = [i \in DOMAIN w.rows |->
                                 Linked(Unlinked(w.rows[i], w.control), control)]]

\* What control<T>() of the model's device returns.
Offered(w) == IF w.available THEN w.device ELSE None

\* setDevice(): the old device is disconnected, the new one asked for controls.
DeviceSet(w, d, available) ==
    LET left == IF w.device \notin {None, d} THEN ControlSet(w, None) ELSE w
        v    == [left EXCEPT !.device = d, !.available = available]
    IN  IF d = None THEN v ELSE ControlSet(v, Offered(v))

\* AutomationView::updateControls(), and controlsChanged() of the device.
DeviceChanges ==
    /\ changes < MaxChanges /\ changes' = changes + 1
    /\ \E d \in Devices \union {None}, a \in BOOLEAN :
           /\ d = None => ~a
           /\ doc' = DeviceSet(doc, d, a)
    /\ UNCHANGED <<disk, agreed, latest>>

\* An edit makes the plan a new one; markModified() is called by the signal of
\* the model, if it comes.
Edit(rows, told) ==
    /\ doc.dialog = None /\ latest < MaxEdits
    /\ latest' = latest + 1
    /\ doc' = [doc EXCEPT !.rows = rows, !.stamp = latest + 1,
                          !.modified = @ \/ told]
    /\ agreed' = FALSE
    /\ UNCHANGED <<disk, changes>>

\* createEventItem(), onEditPaste(): rowsInserted(); neither gives the event actions.
InsertEvent ==
    \E i \in 1..Len(doc.rows) + 1 :
        /\ Len(doc.rows) < MaxRows
        /\ Edit(InsertAt(doc.rows, i, NewRow(FALSE, Offered(doc))), TRUE)

\* onEditDelete(): rowsRemoved()
RemoveEvent == \E i \in DOMAIN doc.rows : Edit(RemoveAt(doc.rows, i), TRUE)

\* createActionItem(): actionInserted() makes the model observe it, and
\* actionsChanged() is a change of the event.
AppendAction ==
    \E i \in DOMAIN doc.rows :
        /\ doc.rows[i].action = "none"
        /\ Edit([doc.rows EXCEPT ![i].action = "observed"], doc.rows[i].observed)

\* A parameter of an event is changed: eventChanged()
ChangeEvent == \E i \in DOMAIN doc.rows : Edit(doc.rows, doc.rows[i].observed)

\* A parameter of an action is changed: actionChanged()
ChangeAction ==
    \E i \in DOMAIN doc.rows :
        /\ doc.rows[i].action # "none"
        /\ Edit(doc.rows, doc.rows[i].action = "observed")

-----------------------------------------------------------------------------
(* The manager.  Its steps take the manager w and the disk f and yield the   *)
(* pairs they may become.                                                    *)

Both(w, f)    == [w |-> w, f |-> f]
Closed(w)     == [w EXCEPT !.dialog = None]
Opened(w, dialog) == [w EXCEPT !.dialog = dialog]

\* The files that can be read.
Intact(f) == {n \in FileNames : f[n] \notin {None, Damaged}}

\* RecentFileMenu::addFileInfo(): files that do not exist any more are dropped.
AddRecent(recent, name, f) ==
    LET all == <<name>> \o SelectSeq(recent, LAMBDA n : n # name /\ f[n] # None)
    IN  SubSeq(all, 1, Min({Len(all), MaxRecent}))

\* resetWithModel() with resetModel(): the model is cleared.
Reset(w) ==
    [Closed(w) EXCEPT !.fileName = None, !.modified = FALSE, !.rows = <<>>, !.stamp = 0]

\* readFile(): setModel() with the new model, which has no device yet.
ReadModel(w, plan) ==
    [w EXCEPT !.rows = [i \in DOMAIN plan.events |-> NewRow(plan.events[i], None)],
              !.stamp = plan.stamp, !.modified = FALSE,
              !.device = None, !.available = FALSE, !.control = None]

\* openWithFileName(): a file that cannot be read changes nothing.
Read(w, f, name) ==
    IF name \notin Intact(f) THEN {Both(Closed(w), f)}
    ELSE {Both([Closed(ReadModel(w, f[name])) EXCEPT
                    !.fileName = name, !.recent = AddRecent(w.recent, name, f)], f)}

\* What maybeSaveChanges() let through goes on.
GoOn(w, f, op, name) ==
    IF op = "new" THEN {Both(Reset(w), f)}
    ELSE IF op \in {"save", "saveAs"} THEN {Both(Closed(w), f)}
    ELSE IF name = None THEN {Both(Opened(w, Dialog("pickOpen", op, None, None)), f)}
    ELSE Read(w, f, name)

\* A slip of saveChanges(): resetModified() whatever came of it.
GiveUpAsSaved(w, f, dialog) ==
    {Both([Closed(w) EXCEPT !.modified = FALSE,
                            !.fileName = IF dialog.op = "saveAs" THEN dialog.old ELSE @], f)}
\* saveChanges() was Rejected: the operation ends; saveAs() restores the name.
GiveUp(w, f, dialog) ==
    {Both([Closed(w) EXCEPT !.fileName = IF dialog.op = "saveAs" THEN dialog.old ELSE @], f)}

\* saveChanges(), once there is a name: the plan is written, or that fails and
\* may leave a damaged file.
Write(w, f, name, dialog) ==
    LET v     == [w EXCEPT !.fileName = name]
        plan  == [events |-> [i \in DOMAIN w.rows |-> w.rows[i].action # "none"],
                  stamp |-> w.stamp]
        saved == [f EXCEPT ![name] = plan]
    IN  GoOn([v EXCEPT !.modified = FALSE, !.recent = AddRecent(w.recent, name, saved)],
             saved, dialog.op, dialog.name)
        \union UNION {GiveUp(v, [f EXCEPT ![name] = left], dialog) : left \in {f[name], Damaged}}

\* saveChanges()
SaveChanges(w, f, dialog) ==
    IF w.fileName # None THEN Write(w, f, w.fileName, dialog)
    ELSE {Both(Opened(w, [dialog EXCEPT !.kind = "pickSave"]), f)}

\* maybeSaveChanges() asks.
Unsaved(w) == w.modified

-----------------------------------------------------------------------------
(* What the user does.                                                       *)

Becomes(results) == \E r \in results : doc' = r.w /\ disk' = r.f

Start == doc.dialog = None /\ agreed' = FALSE /\ UNCHANGED <<latest, changes>>

\* reset(), open() and the files of the menu
NewOrOpen(op, name) ==
    /\ Start
    /\ IF Unsaved(doc) THEN Becomes({Both(Opened(doc, Dialog("ask", op, name, None)), disk)})
       ELSE Becomes(GoOn(doc, disk, op, name))

NewDocument  == NewOrOpen("new", None)
OpenDocument == NewOrOpen("open", None)
OpenRecent   == \E name \in ToSet(doc.recent) : NewOrOpen("open", name)

\* save(): its action is enabled for a modified plan.
Save ==
    /\ doc.modified /\ Start
    /\ Becomes(SaveChanges(doc, disk, Dialog("none", "save", None, None)))

\* saveAs(): the name is cleared before one is asked for.
SaveAs ==
    /\ Start
    /\ Becomes(SaveChanges([doc EXCEPT !.fileName = None], disk,
                           Dialog("none", "saveAs", None, doc.fileName)))

Answering(kind) ==
    doc.dialog # None /\ doc.dialog.kind = kind /\ UNCHANGED <<latest, changes>>

\* The question of maybeSaveChanges().
Answer ==
    /\ Answering("ask")
    /\ LET asked == doc.dialog
       IN  \/ Becomes({Both(Closed(doc), disk)}) /\ UNCHANGED agreed
           \/ Becomes(GoOn(doc, disk, asked.op, asked.name)) /\ agreed' = TRUE
           \/ Becomes(SaveChanges(doc, disk, asked)) /\ UNCHANGED agreed

\* getOpenFileName()
PickFile ==
    /\ Answering("pickOpen")
    /\ \/ Becomes({Both(Closed(doc), disk)})
       \/ \E name \in FileNames : Becomes(Read(doc, disk, name))
    /\ UNCHANGED agreed

\* getSaveFileName()
PickName ==
    /\ Answering("pickSave")
    /\ \/ Becomes(GiveUp(doc, disk, doc.dialog))
       \/ \E name \in FileNames : Becomes(Write(doc, disk, name, doc.dialog))
    /\ UNCHANGED agreed

\* Somebody removes a file.
FileGoes ==
    /\ changes < MaxChanges /\ changes' = changes + 1
    /\ \E name \in FileNames : disk[name] # None /\ disk' = [disk EXCEPT ![name] = None]
    /\ UNCHANGED <<doc, agreed, latest>>

Next ==
    /\ \/ InsertEvent \/ RemoveEvent \/ AppendAction \/ ChangeEvent \/ ChangeAction
       \/ NewDocument \/ OpenDocument \/ OpenRecent \/ Save \/ SaveAs
       \/ Answer \/ PickFile \/ PickName
       \/ DeviceChanges \/ FileGoes
    /\ written' = written \union {disk'[n].stamp : n \in Intact(disk')}

Spec == Init /\ [][Next]_vars

-----------------------------------------------------------------------------
(* Properties.                                                               *)

\* Every variable has its type.
TypeOK ==
    /\ doc.fileName \in FileNames \union {None}
    /\ {doc.modified, doc.available, agreed} \subseteq BOOLEAN
    /\ doc.rows \in Seq(Row) /\ Len(doc.rows) <= MaxRows
    /\ doc.recent \in Seq(FileNames) /\ Len(doc.recent) <= MaxRecent
    /\ {doc.device, doc.control} \subseteq Devices \union {None}
    /\ doc.dialog \in {None} \union Dialogs
    /\ \A n \in FileNames : disk[n] \in Plan \union {None, Damaged}
    /\ written \union {doc.stamp, latest} \subseteq 0..MaxEdits
    /\ changes \in 0..MaxChanges

\* A plan with unsaved changes is replaced by another only if the user agreed to
\* that, through any sequence of questions, failures and cancelled dialogs; an
\* edit that was not noticed would be lost as well (maybeSaveChanges(),
\* AutomationView::setModel(), AutomationModel::insertEvent()).
EditsAreKept ==
    [][doc'.stamp # doc.stamp /\ latest' = latest
           => agreed' \/ doc.stamp \in written']_vars

\* A plan that counts as saved is what is in its file, unless that was removed or
\* writing it failed, of which the user was told (saveChanges(), setModel()).
SavedIsOnDisk ==
    doc.dialog = None /\ ~doc.modified =>
        /\ doc.fileName = None => doc.stamp = 0
        /\ doc.fileName \in Intact(disk) => disk[doc.fileName].stamp = doc.stamp

\* However devices, their controls and the events come and go, each event hears
\* of each change once: it is connected to the control of the device the model
\* has, and to no other (AutomationModel::setControl(), insertEvent()).
EventsHearOnce ==
    /\ doc.control = Offered(doc)
    /\ \A i \in DOMAIN doc.rows, d \in Devices :
           doc.rows[i].links[d] = IF d = doc.control THEN 1 ELSE 0
=============================================================================
