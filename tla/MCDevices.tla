------------------------------ MODULE MCDevices ------------------------------
(* A small instance for TLC of parts that each talk to one device: those of  *)
(* Devices, with a decoder of three variables, a speed meter, an ESU         *)
(* programmer and two CAN detectors; and the views of turnouts, the reports  *)
(* of a Z21, the table of detectors, the track plan.                         *)
EXTENDS Devices

CONSTANTS v1, v2, v3, c1, c2

MCPage == [v \in {v1, v2, v3} |->
              CASE v = v1 -> [space |-> "Basic", numbers |-> <<>>]
                [] v = v2 -> [space |-> "Susi", numbers |-> <<1>>]
                [] v = v3 -> [space |-> "Susi", numbers |-> <<2>>]]

\* "Read all" with its retries, a task that collects, one that aborts: on
\* variables of two SUSI banks and a basic one.
SusiTasks     == {"list", "bulk", "abort"}
SusiVariables == [list |-> <<v2, v3, v1>>, bulk |-> <<v3, v1>>, abort |-> <<v2, v1>>]
SusiPolicy    == [list |-> "retry", bulk |-> "collect", abort |-> "first"]

\* Two sections; an even and an odd number of vehicles, one of both in either.
MCSections     == {c1, c2}
MCCompositions == {<<>>, <<1, 2>>, <<2, 3, 1>>}
MCDecoderless  == <<0>>

\* Two points and a signal with two lights on two addresses, and a three-way point.
MCCells     == 1..4
MCTypeOf    == <<"LeftHandPoint", "YPoint", "TwoLightsSignal", "ThreeWayPoint">>
MCAddressOf == <<1, 2, 1, 2>>

\* Subjects that share their kind, or an address, are at stake together.
MCSubject(kind, address) == [kind |-> kind, address |-> address]

MCScenes == {
    {MCSubject("vehicle", 3), MCSubject("vehicle", 1000), MCSubject("railcom", 1000),
     MCSubject("library", 3)},
    {MCSubject("turnout", 1), MCSubject("turnout", 2048), MCSubject("accessory", 7)},
    {MCSubject("rbus", 0), MCSubject("rbus", 1)},
    {MCSubject("system", 0), MCSubject("serial", 0), MCSubject("lock", 0)},
    {MCSubject("hardware", 0), MCSubject("firmware", 0), MCSubject("xbus", 0)}}

MCVehicles ==
    <<[protocol |-> 4, speed |-> 0, direction |-> "Forward", functions |-> {0, 5, 28}],
      [protocol |-> 2, speed |-> 20, direction |-> "Reverse", functions |-> {1}]>>

MCValues ==
    [vehicle |-> MCVehicles, railcom |-> <<"none", "seven">>, library |-> <<"Ae 6/6">>,
     turnout |-> <<0, 2>>, accessory |-> <<5, 16>>, rbus |-> <<{}, {1, 80}>>,
     system |-> <<-5, 300>>, serial |-> <<101234>>, lock |-> <<0, 2>>, hardware |-> <<512>>,
     firmware |-> <<<<1, 42>>, <<1, 39>>>>, xbus |-> <<<<4, 0>>>>]

VARIABLES
    part,       \* what this behaviour is about
    turnout, signal, commands, infos, device, capable, unlocked, page, address, button,
    signalBox, tableRows, planOpen, plan, shown, stale, wish, viewSpent,
    scene, truth, queries, messages, pending, session, signalled, known, infoRows, answered,
    asked, heard, lost, reportSpent,
    tableControl, detectorRows, infoCache, lastTold, unseen, tableReports,
    planPages, tab, planAttached, planHears, planOrigin, planTold, planActs

views     == <<turnout, signal, commands, infos, device, capable, unlocked, page, address,
               button, signalBox, tableRows, planOpen, plan, shown, stale, wish, viewSpent>>
station   == <<scene, truth, queries, messages, pending, session, signalled, known, infoRows,
               answered, asked, heard, lost, reportSpent>>
table     == <<tableControl, detectorRows, infoCache, lastTold, unseen, tableReports>>
trackPlan == <<planPages, tab, planAttached, planHears, planOrigin, planTold, planActs>>

Layout == INSTANCE TurnoutViews WITH
    rows <- tableRows, open <- planOpen, spent <- viewSpent,
    Addresses <- {1, 2}, Aspects <- {"5"}, Cells <- MCCells, TypeOf <- MCTypeOf,
    AddressOf <- MCAddressOf, MaxActs <- 2, MaxChanges <- 1, MaxLosses <- 1

Reports == INSTANCE Z21Reports WITH
    requests <- queries, reports <- messages, open <- session,
    shown <- signalled, rows <- infoRows, told <- answered, missed <- lost, spent <- reportSpent,
    Scenes <- MCScenes, Values <- MCValues,
    MaxChanges <- 1, MaxSessions <- 2

\* Ports of one module, and one of another with a byte that is zero; vehicles of all
\* directions, one without an address, one with the largest one; free without power,
\* occupied, overloaded.
MCPorts  == {<<53249, 1, 0>>, <<53249, 1, 7>>, <<53504, 256, 0>>}
MCTellings == {[word |-> 0, train |-> <<>>], [word |-> 4352, train |-> <<3, 33768>>],
               [word |-> 4609, train |-> <<59391, 7, 32771>>]}

Table == INSTANCE DetectorTable WITH
    control <- tableControl, rows <- detectorRows, measured <- lastTold, missed <- unseen,
    count <- tableReports, Ports <- MCPorts, Tellings <- MCTellings,
    None <- "none", Controls <- {"first", "second"}, MaxReports <- 2

\* A layout: four platforms around a corner, two roofs side by side, switches, signals and
\* a light, of which some share an address; one control without a symbol; notes of known
\* types and of another, two detectors of one module, and a route outside of them all.
\* Its second page has one control, its third one nothing.
MCControl(x, y, type, number) ==
    [x |-> x, y |-> y, angle |-> 90, type |-> type, address1 |-> number, address2 |-> number + 1]
MCNote(x, y, type)   == [x |-> x, y |-> y, angle |-> 0, type |-> type]
MCModule(x, y, m, n) == [x |-> x, y |-> y, angle |-> 0, address |-> m, aspect |-> n]

MCLayoutPage ==
    [readable |-> TRUE,
     controls |-> <<MCControl(3, 5, 29, 0), MCControl(3, 6, 29, 0), MCControl(3, 7, 29, 0),
                    MCControl(4, 7, 29, 0), MCControl(5, 6, 30, 0), MCControl(6, 6, 30, 0),
                    MCControl(5, 7, 29, 0), MCControl(6, 5, 1, 1), MCControl(7, 5, 4, 2),
                    MCControl(8, 5, 11, 2), MCControl(8, 6, 18, 17), MCControl(9, 6, 9, 33),
                    MCControl(9, 7, 3, 33), MCControl(7, 7, 40, 0), MCControl(8, 8, 10, 1),
                    MCControl(8, 7, 12, 2), MCControl(7, 8, 7, 17)>>,
     notes    |-> <<MCNote(3, 8, 1), MCNote(4, 8, 2), MCNote(5, 8, 3)>>,
     modules  |-> <<MCModule(4, 5, 1, 2), MCModule(5, 5, 1, 3)>>,
     others   |-> {<<2, 9>>, <<11, 10>>}]
MCSmallPage ==
    [MCLayoutPage EXCEPT !.controls = <<MCControl(1, 1, 34, 0)>>, !.notes = <<>>,
                         !.modules = <<>>, !.others = {}]
MCLayout ==
    [format |-> "z21", extracted |-> TRUE, opened |-> TRUE,
     entries |-> {<<"export", "some", "Loco.sqlite">>, <<"export", "Loco.sqlite">>},
     pages |-> <<MCLayoutPage, MCSmallPage, [MCSmallPage EXCEPT !.controls = <<>>]>>]

Plan == INSTANCE TrackPlan WITH
    pages <- planPages, current <- tab, attached <- planAttached, hears <- planHears,
    origin <- planOrigin, told <- planTold, acts <- planActs,
    Files <- {MCLayout, [MCLayout EXCEPT !.entries = {<<"export", "Loco.sqlite">>}],
              [MCLayout EXCEPT !.format = "csv"]},
    Addresses <- {1, 2, 17, 33}, MaxActs <- 4,
    Sensors <- {[type |-> "RBusPort", numbers |-> <<1, 2>>],
                [type |-> "RBusPort", numbers |-> <<1, 3>>],
                [type |-> "RBusModule", numbers |-> <<1>>]}

ASSUME /\ Layout!ViewsAssumption
       /\ Reports!ReportsAssumption
       /\ Plan!FilesAssumption

(* A part that is not the one of a behaviour stays in one initial state.  The *)
(* first turnout was never switched or lies straight, the second one lies     *)
(* straight.                                                                  *)
PartsInit ==
    /\ part \in {"paged", "detectors", "meter", "esu", "views", "reports", "table",
                "plan"}
    /\ Init /\ Detectors!Init /\ Meter!Init /\ Esu!Init /\ Layout!Init /\ Reports!Init
    /\ Table!Init /\ Plan!Init
    /\ section[c2] = <<>> /\ (part # "detectors" => section[c1] = <<>>)
    /\ turnout[1] \in {"Unknown", "Straight"} /\ turnout[2] = "Straight"
    /\ part # "views" => turnout[1] = "Straight"
    /\ part # "reports" => scene = CHOOSE s \in MCScenes : TRUE
    /\ part # "reports" => truth = [s \in scene |-> MCValues[s.kind][1]]

PartsNext ==
    /\ \/ part = "paged" /\ Next
          /\ UNCHANGED <<detectors, meter, esu, views, station, table, trackPlan>>
       \/ part = "detectors" /\ Detectors!Next
          /\ UNCHANGED <<vars, meter, esu, views, station, table, trackPlan>>
       \/ part = "meter" /\ Meter!Next
          /\ UNCHANGED <<vars, detectors, esu, views, station, table, trackPlan>>
       \/ part = "esu" /\ Esu!Next
          /\ UNCHANGED <<vars, detectors, meter, views, station, table, trackPlan>>
       \/ part = "views" /\ Layout!Next
          /\ UNCHANGED <<vars, detectors, meter, esu, station, table, trackPlan>>
       \/ part = "reports" /\ Reports!Next
          /\ UNCHANGED <<vars, detectors, meter, esu, views, table, trackPlan>>
       \/ part = "table" /\ Table!Next
          /\ UNCHANGED <<vars, detectors, meter, esu, views, station, trackPlan>>
       \/ part = "plan" /\ Plan!Next
          /\ UNCHANGED <<vars, detectors, meter, esu, views, station, table>>
    /\ UNCHANGED part

PartsSpec ==
    /\ PartsInit
    /\ [][PartsNext]_<<vars, detectors, meter, esu, views, station, table, trackPlan, part>>
    /\ Fairness

\* The types of all parts; a part that a behaviour is not about stays as it is.
TypesOK ==
    /\ part = "paged" => TypeOK
    /\ part = "detectors" => Detectors!TypeOK
    /\ part = "meter" => Meter!TypeOK
    /\ part = "esu" => Esu!TypeOK
    /\ part = "views" => Layout!TypeOK
    /\ part = "reports" => Reports!TypeOK
    /\ part = "plan" => Plan!TypeOK

\* See LayoutAgrees in TurnoutViews: onTurnoutInfoChanged() and cellAction(); and in
\* TrackPlan, PlanIsShown: what the reader of layouts, the presets, infos and clicks make of
\* a page is drawn, joined, labelled and numbered as it should be, and follows the infos.
LayoutAgrees ==
    /\ part = "views" => Layout!LayoutAgrees
    /\ part = "plan" => Plan!PlanIsShown

\* See ReportsAgree in Z21Reports: parseDatagrams() and the controls of the device; and in
\* DetectorTable, TableShowsDetectors, onDetectorInfoChanged() and merge(), and
\* AddressesAreTold, moduleName() and queryDetectorInfo().
ReportsAgree ==
    /\ part = "reports" => Reports!ReportsAgree
    /\ part = "table" => Table!TableShowsDetectors /\ Table!AddressesAreTold
=============================================================================
