--------------------------- MODULE AutomationItems ---------------------------
(* What is in an automation plan (lmrs/core/automationmodel.cpp and          *)
(* parameters.cpp): the types of events and actions, their parameters, the   *)
(* JSON they are written as in files and in the clipboard, and how           *)
(* AutomationView (apps/lmrstudio) creates, cuts, copies and pastes events.  *)
(* Whether the user is asked before a plan goes is in AutomationDocument.    *)
(*                                                                           *)
(* Abstractions.  A parameter's value is a number or Unset, an empty text is *)
(* 0.  What QML does between an editor and the property it edits is          *)
(* external; the editor of choices is written for lists and does nothing     *)
(* with a ChoiceListModel, so that choices only come from files.             *)
EXTENDS DetectorAddresses

CONSTANTS
    Foreign,        \* plans written by somebody else, as JSON
    NoFile,
    MaxRows,        \* bound: events, and actions of one event
    MaxActs         \* bound: edits

VARIABLES
    sheet,          \* the plan, its current index, the clipboard and the file's state
    file,           \* the plan on disk, as JSON
    copied,         \* history: the events that have been copied last
    acts

vars == <<sheet, file, copied, acts>>

-----------------------------------------------------------------------------
(* Types.                                                                    *)

Unset == -1

\* The names of enumerations, in the order in which they are declared; the first of
\* those for one value is written.
Enums ==
    [TurnoutState |-> << <<"Unknown", 0>>, <<"Branched", 1>>, <<"Straight", 2>>,
                         <<"Invalid", 3>>, <<"Green", 2>>, <<"Red", 1>> >>,
     Direction    |-> << <<"Unknown", 0>>, <<"Forward", 1>>, <<"Reverse", 2>> >>,
     Type         |-> << <<"Any", 0>>, <<"Entering", 1>>, <<"Leaving", 2>> >>]

\* A parameter: its kind is Number, with the first and the last value, Text, or the
\* enumeration of its choices.
Param(key, kind, range, optional) ==
    [key |-> key, kind |-> kind, range |-> range, optional |-> optional]
OptionalNumber(key, range) == Param(key, "Number", range, TRUE)
OptionalChoice(key, enum)  == Param(key, enum, <<>>, TRUE)

AccessoryAddresses == <<1, 16383>>
VehicleAddresses   == <<1, 10239>>

\* A class: its base, its properties without and with has... and reset..., and its
\* parameters.
Class(base, plain, resettable, params) ==
    [base |-> base, plain |-> plain, resettable |-> resettable, params |-> params]

TurnoutEvent ==
    Class("Event", {}, {"primaryAddress", "primaryState", "secondaryAddress", "secondaryState"},
          {OptionalNumber("primaryAddress", AccessoryAddresses),
           OptionalChoice("primaryState", "TurnoutState"),
           OptionalNumber("secondaryAddress", AccessoryAddresses),
           OptionalChoice("secondaryState", "TurnoutState")})

DetectorEvent ==
    Class("Event", {"detector", "vehicles", "type"}, {}, {Param("type", "Type", <<>>, FALSE)})

CanDetectorEvent ==
    Class("DetectorEvent", {}, {"network", "module", "port"},
          {OptionalNumber("network", <<0, 65535>>), OptionalNumber("module", <<0, 65535>>),
           OptionalNumber("port", <<0, 255>>)} \union DetectorEvent.params)

\* The group can be reset and is unset at first, but is not an optional parameter.
RBusDetectorGroupEvent ==
    Class("DetectorEvent", {}, {"group"},
          {Param("group", "Number", <<0, 1>>, FALSE)} \union DetectorEvent.params)

RBusDetectorEvent ==
    Class("DetectorEvent", {}, {"module", "port"},
          {OptionalNumber("module", <<1, 20>>),
           OptionalNumber("port", <<1, 8>>)} \union DetectorEvent.params)

TurnoutAction ==
    Class("Action", {}, {"address", "state"},
          {OptionalNumber("address", AccessoryAddresses),
           OptionalChoice("state", "TurnoutState")})

\* Functions are a property and no parameter.
VehicleAction ==
    Class("Action", {}, {"address", "speed", "direction", "functions"},
          {OptionalNumber("address", VehicleAddresses), OptionalNumber("speed", <<0, 127>>),
           OptionalChoice("direction", "Direction")})

MessageAction == Class("Action", {"message"}, {}, {Param("message", "Text", <<>>, FALSE)})

ClassOf(class) ==
    CASE class = "TurnoutEvent"           -> TurnoutEvent
      [] class = "CanDetectorEvent"       -> CanDetectorEvent
      [] class = "RBusDetectorGroupEvent" -> RBusDetectorGroupEvent
      [] class = "RBusDetectorEvent"      -> RBusDetectorEvent
      [] class = "DetectorEvent"          -> DetectorEvent
      [] class = "TurnoutAction"          -> TurnoutAction
      [] class = "VehicleAction"          -> VehicleAction
      [] class = "MessageAction"          -> MessageAction
      [] class = "Event"                  -> Class("Item", {"actions"}, {}, {})
      [] class = "Action"                 -> Class("Item", {}, {}, {})
      [] class = "Item"                   -> Class("Item", {"name"}, {}, {})

\* A class and the classes it inherits.
Ancestors(class) ==
    LET base  == ClassOf(class).base
        above == IF base = "DetectorEvent" THEN {"Event"} ELSE {}
    IN  {class, base, "Item"} \union above

\* The rows of the model of types; the headings cannot be activated.
EventTypes  == <<"TurnoutEvent", "CanDetectorEvent", "RBusDetectorGroupEvent",
                 "RBusDetectorEvent">>
ActionTypes == <<"MessageAction", "TurnoutAction", "VehicleAction">>
Registered  == ToSet(EventTypes) \union ToSet(ActionTypes)

Resettable(class) == UNION {ClassOf(c).resettable : c \in Ancestors(class)}
Properties(class) == Resettable(class) \union UNION {ClassOf(c).plain : c \in Ancestors(class)}

KeysOf(class)     == {p.key : p \in ClassOf(class).params}
ParamOf(class, k) == CHOOSE p \in ClassOf(class).params : p.key = k

\* verifyProperty(): parameters are properties, and optional ones can be without value.
Verified(class) ==
    \A p \in ClassOf(class).params :
        p.key \in Properties(class) /\ (p.optional => p.key \in Resettable(class))

ItemsAssumption ==
    /\ {MaxRows, MaxActs} \subseteq Nat
    /\ \A class \in Registered : Verified(class)

\* observeItem(): the properties that an observer of the class hears of, which are
\* those that are declared from the base type on.
Observed(class, base) ==
    LET below == Ancestors(class) \ (Ancestors(base) \ {base})
    IN  UNION {ClassOf(c).plain \union ClassOf(c).resettable : c \in below}

-----------------------------------------------------------------------------
(* Items and their JSON.                                                     *)

\* fromMetaType(): what the factory of a type makes.
NewItem(class) ==
    [class |-> class, actions |-> <<>>,
     values |-> [k \in KeysOf(class) |-> IF k \in Resettable(class) THEN Unset ELSE 0]]

Null == <<"null", 0>>

\* Parameter::toJson()
ValueToJson(p, value) ==
    IF p.kind \in {"Number", "Text"} THEN <<p.kind, value>>
    ELSE LET entries == Enums[p.kind]
             i == SelectInSeq(entries, LAMBDA e : e[2] = value)
         IN  <<"Text", IF i = 0 THEN "" ELSE entries[i][1]>>

\* Parameter::fromJson() and setProperty(): what is no number is 0, an unknown
\* name of a choice leaves the property as it is.
ValueFromJson(p, old, json) ==
    IF p.kind \in {"Number", "Text"} THEN (IF json[1] = p.kind THEN json[2] ELSE 0)
    ELSE LET entries == Enums[p.kind]
             i == IF json[1] = "Text" THEN SelectInSeq(entries, LAMBDA e : e[1] = json[2])
                  ELSE 0
         IN  IF i = 0 THEN old ELSE entries[i][2]

\* Item::toJsonObject(): null if has... says that there is no value.
ItemToJson(item) ==
    [schema |-> item.class, actions |-> <<>>,
     values |-> [k \in KeysOf(item.class) |->
                    IF k \in Resettable(item.class) /\ item.values[k] = Unset THEN Null
                    ELSE ValueToJson(ParamOf(item.class, k), item.values[k])]]

\* Event::toJsonObject()
EventToJson(event) ==
    [ItemToJson(event) EXCEPT
        !.actions = [i \in DOMAIN event.actions |-> ItemToJson(event.actions[i])]]

\* fromJsonObject(): one item or none; keys with a dollar sign are skipped, and with
\* them the actions, and keys that are no parameters.
FromJsonObject(base, json) ==
    LET class == json.schema
        fresh == NewItem(class)
        Read(k) ==
            IF k \notin DOMAIN json.values THEN fresh.values[k]
            ELSE IF json.values[k][1] = "null"
            THEN IF k \in Resettable(class) THEN Unset ELSE fresh.values[k]
            ELSE ValueFromJson(ParamOf(class, k), fresh.values[k], json.values[k])
    IN  IF class \notin Registered THEN <<>>
        ELSE IF base \notin Ancestors(class) THEN <<>>
        ELSE << [fresh EXCEPT !.values = [k \in KeysOf(class) |-> Read(k)]] >>

\* JsonFileReader::read(): events and actions that cannot be read are left out.
ReadModel(json) ==
    LET Actions(list) == FlattenSeq([i \in DOMAIN list |-> FromJsonObject("Action", list[i])])
        Events(e) == LET read == FromJsonObject("Event", e)
                     IN  [n \in DOMAIN read |-> [read[n] EXCEPT !.actions = Actions(e.actions)]]
    IN  FlattenSeq([i \in DOMAIN json.events |-> Events(json.events[i])])

\* JsonFileWriter::write()
WriteModel(plan) ==
    [schema |-> "AutomationModel", events |-> [i \in DOMAIN plan |-> EventToJson(plan[i])]]

-----------------------------------------------------------------------------
(* Detectors.                                                                *)

DetectorTypes == {"CanDetectorEvent", "RBusDetectorGroupEvent", "RBusDetectorEvent"}

\* CanDetectorEvent::detector(): the port is not used.
CanDetector(v) ==
    IF v.network = Unset THEN Invalid
    ELSE IF v.module = Unset THEN AddressFor("CanNetwork", <<v.network>>)
    ELSE AddressFor("CanModule", <<v.network, v.module>>)

\* RBusDetectorGroupEvent::detector()
RBusGroupDetector(v) ==
    IF v.group = Unset THEN Invalid ELSE AddressFor("RBusGroup", <<v.group>>)

\* RBusDetectorEvent::detector(): without a port, the group of the module.
RBusDetector(v) ==
    IF v.module = Unset THEN Invalid
    ELSE IF v.port = Unset THEN AddressFor("RBusGroup", <<Group(v.module)>>)
    ELSE AddressFor("RBusPort", <<v.module, v.port>>)

Detector(event) ==
    CASE event.class = "CanDetectorEvent"       -> CanDetector(event.values)
      [] event.class = "RBusDetectorGroupEvent" -> RBusGroupDetector(event.values)
      [] event.class = "RBusDetectorEvent"      -> RBusDetector(event.values)

\* hasDetector()
HasDetector(event) ==
    CASE event.class = "CanDetectorEvent"       -> event.values.network # Unset
      [] event.class = "RBusDetectorGroupEvent" -> event.values.group # Unset
      [] event.class = "RBusDetectorEvent"      -> event.values.module # Unset

-----------------------------------------------------------------------------
(* The view.  Indices count from 0, as in the code.                          *)

Init ==
    /\ sheet = [plan |-> <<>>, current |-> -1, clipboard |-> <<>>,
                modified |-> FALSE, named |-> FALSE]
    /\ file \in Foreign \union {NoFile}
    /\ copied = <<>> /\ acts = 0

Valid(i) == i + 1 \in DOMAIN sheet.plan

\* The plan becomes another one; the document is modified if the view is told.
Edit(plan, current, told) ==
    /\ acts < MaxActs /\ acts' = acts + 1
    /\ sheet' = [sheet EXCEPT !.plan = plan, !.current = current, !.modified = @ \/ told]
    /\ UNCHANGED file

\* createEventItem()
CreateEvent ==
    \E class \in ToSet(EventTypes) :
        /\ Len(sheet.plan) < MaxRows
        /\ Edit(Append(sheet.plan, NewItem(class)), Len(sheet.plan), TRUE)
        /\ UNCHANGED copied

\* createActionItem(): the types of actions are enabled while an event is current.
CreateAction ==
    \E class \in ToSet(ActionTypes) :
        LET i == sheet.current + 1
        IN  /\ Valid(sheet.current) /\ Len(sheet.plan[i].actions) < MaxRows
            /\ Edit([sheet.plan EXCEPT ![i].actions = Append(@, NewItem(class))],
                    sheet.current, "actions" \in Observed(sheet.plan[i].class, "Event"))
            /\ UNCHANGED copied

\* The values an editor offers: the text of a text field; of the numbers, the lowest
\* ones, below which is "any" for optional parameters.
Entered(p) ==
    IF p.kind = "Text" THEN {0, 1}
    ELSE IF p.kind # "Number" THEN {}
    ELSE {p.range[1], p.range[1] + 1} \union (IF p.optional THEN {Unset} ELSE {})

\* A value is entered into the editor of an event's parameter: setPrimaryAddress(),
\* resetPrimaryAddress() and their like, and onEventChanged().
ChangeEvent ==
    \E i \in DOMAIN sheet.plan :
        \E p \in ClassOf(sheet.plan[i].class).params : \E value \in Entered(p) :
            /\ value # sheet.plan[i].values[p.key]
            /\ Edit([sheet.plan EXCEPT ![i].values[p.key] = value], sheet.current,
                    p.key \in Observed(sheet.plan[i].class, "Event"))
            /\ UNCHANGED copied

\* The same for a parameter of an action: onActionChanged()
ChangeAction ==
    \E i \in DOMAIN sheet.plan : \E n \in DOMAIN sheet.plan[i].actions :
        LET action == sheet.plan[i].actions[n]
        IN  \E p \in ClassOf(action.class).params : \E value \in Entered(p) :
                /\ value # action.values[p.key]
                /\ Edit([sheet.plan EXCEPT ![i].actions[n].values[p.key] = value],
                        sheet.current, p.key \in Observed(action.class, "Action"))
                /\ UNCHANGED copied

\* An item gets the focus, or the canvas is clicked.
Select ==
    /\ \E i \in -1..Len(sheet.plan) - 1 : sheet' = [sheet EXCEPT !.current = i]
    /\ UNCHANGED <<file, copied, acts>>

\* onEditCopy() puts the current event into the clipboard.
Clipped(w) ==
    IF Valid(w.current) THEN <<EventToJson(w.plan[w.current + 1])>> ELSE w.clipboard
CopiedNow == IF Valid(sheet.current) THEN <<sheet.plan[sheet.current + 1]>> ELSE copied

Copy ==
    /\ sheet.current >= 0
    /\ sheet' = [sheet EXCEPT !.clipboard = Clipped(sheet)]
    /\ copied' = CopiedNow
    /\ UNCHANGED <<file, acts>>

\* onEditDelete(): a row that is not there is not removed; the current index stays.
Delete ==
    /\ Valid(sheet.current)
    /\ Edit(RemoveAt(sheet.plan, sheet.current + 1), sheet.current, TRUE)
    /\ UNCHANGED copied

\* onEditCut()
Cut ==
    /\ Valid(sheet.current) /\ acts < MaxActs /\ acts' = acts + 1
    /\ sheet' = [sheet EXCEPT !.clipboard = Clipped(sheet), !.modified = TRUE,
                              !.plan = RemoveAt(@, sheet.current + 1)]
    /\ copied' = CopiedNow
    /\ UNCHANGED file

\* onEditPaste(): behind the current event; insertEvent() refuses an index behind the
\* end, and then there is no current event.
Paste ==
    /\ sheet.clipboard # <<>> /\ Len(sheet.plan) < MaxRows
    /\ LET event == FromJsonObject("Event", Head(sheet.clipboard))
           index == sheet.current + 1
       IN  IF index <= Len(sheet.plan)
           THEN Edit(InsertAt(sheet.plan, index + 1, Head(event)), index, TRUE)
           ELSE Edit(sheet.plan, -1, FALSE)
    /\ UNCHANGED copied

\* writeFile() and resetModified()
Save ==
    /\ sheet.modified
    /\ file' = WriteModel(sheet.plan)
    /\ sheet' = [sheet EXCEPT !.modified = FALSE, !.named = TRUE]
    /\ UNCHANGED <<copied, acts>>

\* readFile() and setModel(): a file of another format changes nothing.
Open ==
    /\ file # NoFile
    /\ sheet' = IF file.schema = "AutomationModel"
                THEN [sheet EXCEPT !.plan = ReadModel(file), !.modified = FALSE, !.named = TRUE]
                ELSE sheet
    /\ UNCHANGED <<file, copied, acts>>

\* reset() and clear()
NewPlan ==
    /\ sheet' = [sheet EXCEPT !.plan = <<>>, !.modified = FALSE, !.named = FALSE]
    /\ UNCHANGED <<file, copied, acts>>

Next ==
    \/ CreateEvent \/ CreateAction \/ ChangeEvent \/ ChangeAction
    \/ Select \/ Copy \/ Cut \/ Delete \/ Paste
    \/ Save \/ Open \/ NewPlan

-----------------------------------------------------------------------------
(* Properties.                                                               *)

\* A plan that counts as saved is what is read from its file, whatever parameters of
\* whatever items were changed, set to "any" or never set: nothing is lost in the
\* JSON, and no edit goes unnoticed (toJsonObject(), fromJsonObject(), observeItem()).
PlanIsKept ==
    ~sheet.modified => sheet.plan = IF sheet.named THEN ReadModel(file) ELSE <<>>

\* An event that is pasted is the one that was copied, as it was then, but without
\* its actions; no other event changes (onEditCopy(), onEditPaste()).
PastedAsCopied ==
    [][acts' # acts /\ Len(sheet'.plan) > Len(sheet.plan) =>
           \E i \in DOMAIN sheet'.plan :
               /\ RemoveAt(sheet'.plan, i) = sheet.plan
               /\ \/ \E n \in DOMAIN copied :
                        sheet'.plan[i] = [copied[n] EXCEPT !.actions = <<>>]
                  \/ sheet'.plan[i] = NewItem(sheet'.plan[i].class)]_vars

\* An event has a detector exactly if its parameters lead to one that the command
\* station can be asked about (detector(), hasDetector()).
DetectorIsNamed ==
    \A i \in DOMAIN sheet.plan :
        sheet.plan[i].class \in DetectorTypes =>
            (HasDetector(sheet.plan[i]) <=> Query(Detector(sheet.plan[i])) # NoQuery)
=============================================================================
