------------------------------ MODULE MCStudio ------------------------------
(* A small instance for TLC of the parts of lmrstudio that people use, each  *)
(* on its own: those of Studio with the track power controls of two apps,    *)
(* the sharing of files with two peers, an automation plan with two files    *)
(* and two devices, the driving of three vehicles and the choice among two   *)
(* devices; and what is in an automation plan, a function mapping with one   *)
(* file, the variables of one decoder, and the database of five definitions. *)
EXTENDS Studio

CONSTANTS a1, a2, p1, p2, f1, f2, d1, d2, v1, v2, v3

MCApps     == {a1, a2}
MCPeers    == {p1, p2}
MCNames    == {f1, f2}
MCDevices  == {d1, d2}
MCVehicles == {v1, v2, v3}

\* One Z21 and one port; the page of a locked Z21 misses what its box may offer.
MCTargets  == [z21 |-> {p1}, mx1 |-> {f1}]
MCViews    == {"drive", "signals"}
MCNeeds    == [drive |-> "vehicle", signals |-> "accessory"]

VARIABLES
    part,       \* what this behaviour is about
    mapping, editor, mapDisk, saved, clicked, edits, shortened,
    boxes, varControl, readings, readCalls, memory, told, entered,
    vendorBox, decoderBox, shownTree,
    sheet, itemFile, copied, itemActs

functions == <<mapping, editor, mapDisk, saved, clicked, edits, shortened>>
variables == <<boxes, varControl, readings, readCalls, memory, told, entered>>
database  == <<vendorBox, decoderBox, shownTree>>
items     == <<sheet, itemFile, copied, itemActs>>

\* A file of somebody else: it switches half of the page at a time, and counts
\* variables from the start of the page.
MCForeign ==
    << [cv31 |-> 16, cv32 |-> 3, values |-> (257 :> {0, 1}) @@ (265 :> {6}) @@ (266 :> {0})],
       [cv31 |-> None, cv32 |-> 8, values |-> (257 :> {2}) @@ (262 :> {7})],
       [cv31 |-> None, cv32 |-> None, values |-> (8 :> {0})] >>

Functions == INSTANCE FunctionMapping WITH
    disk <- mapDisk,
    MaximumCount <- 17, FileNames <- {f1}, None <- None, Broken <- Damaged,
    Foreign <- {MCForeign}, UsedPresets <- {6}, EditableRows <- {1, 17},
    EditableConditions <- {36}, EditableFlags <- {7}, Filters <- {<<36>>},
    MaxEdits <- 1, MaxClicks <- 1, MaxShort <- 1

\* Definitions of each kind there is: the base types, a decoder with bytes that make one
\* number, fields with flags and a page of its own, and an alias.
MCVariable(type, flags, fields) == [type |-> type, flags |-> flags, fields |-> fields]
MCDefinition(extends, unsupported, known) ==
    [extends |-> extends, unsupported |-> unsupported, variables |-> known]

MCVehicle  == <<"NMRA", "Vehicle">>
MCIdentity == <<"NMRA", "Identity">>
MCRailcom  == <<"RCN", "217:RailCom">>

MCWord == (<<"rc0", 4>> :> MCVariable("U32A", 0, <<>>)) @@ (<<"rc0", 5>> :> MCVariable("U32B", 0, <<>>))
          @@ (<<"rc0", 6>> :> MCVariable("U32C", 0, <<>>)) @@ (<<"rc0", 7>> :> MCVariable("U32D", 0, <<>>))
MCFields == <<[width |-> 2, flags |-> 0], [width |-> 1, flags |-> 2]>>

MCDefinitions ==
    (MCIdentity :> MCDefinition(<<"", "">>, {},
        (<<"", 7>> :> MCVariable("U16H", 0, <<>>)) @@ (<<"", 8>> :> MCVariable("U16L", 0, <<>>))))
    @@ (MCVehicle :> MCDefinition(MCIdentity, {},
        (<<"", 29>> :> MCVariable("", 8, <<>>)) @@ (<<"", 31>> :> MCVariable("U16H", 0, <<>>))
        @@ (<<"", 32>> :> MCVariable("U16L", 0, <<>>))))
    @@ (MCRailcom :> MCDefinition(<<"", "">>, {}, MCWord))
    @@ (<<"85", "8">> :> MCDefinition(MCVehicle, {29, 31, 32},
        MCWord @@ (<<"", 54>> :> MCVariable("", 0, MCFields))))
    @@ (<<"162", "32">> :> MCDefinition(MCVehicle, {}, <<>>))

MCPages     == ("rc0" :> <<0, 255>>) @@ ("cv0" :> <<0, 0>>)
MCMemory    == (7 :> 8) @@ (8 :> 85) @@ (29 :> 6) @@ (54 :> 6) @@ (31 :> 0) @@ (32 :> 255)
MCWideTypes == (31 :> 16) @@ (32 :> 16) @@ (1045765 :> 32)

Editor == INSTANCE VariableEditor WITH
    control <- varControl, rows <- readings, calls <- readCalls, acts <- entered,
    Definitions <- MCDefinitions, PageDefs <- MCPages,
    Railcom <- MCRailcom, Vehicle <- MCVehicle, Identity <- MCIdentity,
    Selectable <- {8, 261, 900}, Addresses <- {1, 3}, Bytes <- {0, 255},
    Memories <- {MCMemory}, WideTypes <- MCWideTypes, MaxActs <- 2, MaxCalls <- 2

Database == INSTANCE DecoderDatabase WITH
    Definitions <- MCDefinitions, PageDefs <- MCPages,
    Railcom <- MCRailcom, None <- None

\* Plans of somebody else, with items and values nobody knows here, and a file of
\* another format.
MCObject(class, values, actions) == [schema |-> class, values |-> values, actions |-> actions]
MCFile(schema, events) == [schema |-> schema, events |-> events]

MCPlan ==
    MCFile("AutomationModel",
      << MCObject("RBusDetectorEvent",
            [module |-> <<"Number", 11>>, type |-> <<"Text", "Leaving">>,
             colour |-> <<"Text", "blue">>],
            << MCObject("SoundAction", [address |-> <<"Number", 3>>], <<>>),
               MCObject("TurnoutAction", [address |-> <<"Text", "x">>,
                                          state |-> <<"Text", "Green">>], <<>>) >>) >>)
MCOtherPlan ==
    MCFile("AutomationModel",
      << MCObject("MessageAction", [message |-> <<"Text", 1>>], <<>>),
         MCObject("TurnoutEvent", [primaryState |-> <<"Text", "Red">>,
                                   primaryAddress |-> <<"null", 0>>,
                                   secondaryAddress |-> <<"Number", 7>>],
            << MCObject("VehicleAction", [address |-> <<"Number", 3>>, speed |-> <<"null", 0>>,
                                          direction |-> <<"Text", "Sideways">>], <<>>) >>) >>)

Items == INSTANCE AutomationItems WITH
    file <- itemFile, acts <- itemActs, NoFile <- None,
    Foreign <- {MCPlan, MCOtherPlan, MCFile("TrackPlan", <<>>)}, MaxRows <- 2, MaxActs <- 2

ASSUME /\ Functions!MappingAssumption
       /\ Items!ItemsAssumption

Standing == [v \in MCVehicles |-> Throttle!DefaultInfo]
Running  == [speed |-> 1, direction |-> "Reverse", function |-> TRUE]

(* A part that is not the one of a behaviour stays in one initial state.  Of *)
(* the vehicles, one moves at first, and it has a name or none has; nothing  *)
(* tells the other two apart.  The decoder has been identified.              *)
PartsInit ==
    /\ part \in {"power", "sharing", "document", "throttle", "functions", "selection",
                "variables", "database", "items"}
    /\ Init /\ (part # "power" => power = "Off")
    /\ Sharing!Init
    /\ part # "sharing" => ~listening /\ \A p \in MCPeers : fileName[p] = f1
    /\ Document!Init
    /\ Throttle!Init
    /\ subscriptions \in {<<>>, <<v2>>} /\ box \in {v1, v2}
    /\ layout = [Standing EXCEPT ![v2] = Running]
    /\ Functions!Init /\ (part # "functions" => mapDisk[f1] = None)
    /\ Selection!Init
    /\ Editor!Init /\ told # <<>>
    /\ Database!Init /\ (part # "database" => decoderBox = MCVehicle)
    /\ Items!Init /\ (part # "items" => itemFile = None)
    /\ part # "throttle" => box = v1 /\ subscriptions = <<>>

PartsNext ==
    /\ \/ part = "power" /\ Next
          /\ UNCHANGED <<sharing, document, throttle, functions, selection, variables, database,
                         items>>
       \/ part = "sharing" /\ Sharing!Next
          /\ UNCHANGED <<vars, document, throttle, functions, selection, variables, database,
                         items>>
       \/ part = "document" /\ Document!Next
          /\ UNCHANGED <<vars, sharing, throttle, functions, selection, variables, database,
                         items>>
       \/ part = "throttle" /\ Throttle!Next
          /\ UNCHANGED <<vars, sharing, document, functions, selection, variables, database,
                         items>>
       \/ part = "functions" /\ Functions!Next
          /\ UNCHANGED <<vars, sharing, document, throttle, selection, variables, database,
                         items>>
       \/ part = "selection" /\ Selection!Next
          /\ UNCHANGED <<vars, sharing, document, throttle, functions, variables, database,
                         items>>
       \/ part = "variables" /\ Editor!Next
          /\ UNCHANGED <<vars, sharing, document, throttle, functions, selection, database,
                         items>>
       \/ part = "database" /\ Database!Next
          /\ UNCHANGED <<vars, sharing, document, throttle, functions, selection, variables,
                         items>>
       \/ part = "items" /\ Items!Next
          /\ UNCHANGED <<vars, sharing, document, throttle, functions, selection, variables,
                         database>>
    /\ UNCHANGED part

PartsSpec ==
    /\ PartsInit /\ [][PartsNext]_<<vars, sharing, document, throttle, functions,
                                      selection, variables, database, items, part>>
    /\ Fairness /\ Sharing!Fairness

\* The types of all parts; a part that a behaviour is not about stays as it is.
TypesOK ==
    /\ part = "power" => TypeOK
    /\ part = "sharing" => Sharing!TypeOK
    /\ part = "document" => Document!TypeOK
    /\ part = "throttle" => Throttle!TypeOK
    /\ part = "functions" => Functions!TypeOK
    /\ part = "selection" => Selection!TypeOK
    /\ part = "variables" => Editor!TypeOK

\* See TransfersEnd in FileSharing: receiveFile().
TransfersEnd == Sharing!TransfersEnd

\* See SavedIsOnDisk in AutomationDocument, saveChanges() and setModel(), PlanIsKept in
\* AutomationItems, toJsonObject() and fromJsonObject(), DetectorIsNamed there, detector()
\* and hasDetector(), and FilesKeepMappings in FunctionMapping, variablesFromMappings() and
\* readVariable().
FilesAreKept ==
    /\ part = "document" => Document!SavedIsOnDisk
    /\ part = "functions" => Functions!FilesKeepMappings
    /\ part = "items" => Items!PlanIsKept /\ Items!DetectorIsNamed

\* See EditsTouchTheirCell in FunctionMapping, reset() and store() of the editors, and
\* PastedAsCopied in AutomationItems, onEditCopy() and onEditPaste().
EditsTouchTheirCell == Functions!EditsTouchTheirCell /\ Items!PastedAsCopied

\* See EditorAgrees in VariableEditor, updateVariable() and onExtendedPageBoxChanged(),
\* DecoderIsShown in DecoderDatabase, and ListedIsFound and SupportedIsDescribed in
\* DecoderInfo, variable() and variableIds().
VariablesAgree ==
    /\ part = "variables" => Editor!EditorAgrees
    /\ part = "database" =>
          Database!DecoderIsShown /\ Database!ListedIsFound /\ Database!SupportedIsDescribed
=============================================================================
