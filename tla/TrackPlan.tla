----------------------------- MODULE TrackPlan ------------------------------
(* The track plan page of lmrstudio: its presets                             *)
(* (lmrs/core/symbolictrackplanmodel.cpp), the layouts of the Z21 app it     *)
(* opens (lmrs/roco/z21appfileformats.cpp), and how its symbols follow infos *)
(* and clicks (lmrs/widgets/symbolictrackplanview.cpp,                       *)
(* apps/lmrstudio/trackplanview.cpp).                                        *)
(*                                                                           *)
(* Abstractions.  The archive and the database of a layout are what the      *)
(* reader asks of them; no two records of a page share a place, and a layout *)
(* has a page.  Texts, font sizes and the geometry of the drawing are left   *)
(* out.  What a click commands while a device is selected, and when the      *)
(* views get its controls, is in TurnoutViews; here the controls are there   *)
(* or not.  A view disconnects itself from controls it gives up, but the     *)
(* object connected to them is its private one: it hears them on for as long *)
(* as there is their device.                                                 *)
EXTENDS TrackSymbols

CONSTANTS
    Files,          \* files that may be opened, see FilesAssumption
    Addresses,      \* accessory addresses, numbers
    Sensors,        \* detector addresses: [type, numbers]
    MaxActs         \* bound: what the user does and what is told

VARIABLES
    pages,          \* layout->pages: [columns, cells]
    current,        \* currentIndex() of the notebook
    attached,       \* the views have the controls of a device
    hears,          \* pages whose views are connected to controls
    origin,         \* history: what each page was made from
    told,           \* history: what each page was told of since: [turnouts, detectors]
    acts            \* history: number of steps

vars == <<pages, current, attached, hears, origin, told, acts>>

Presets == {"Empty", "SymbolGallery", "Loops", "Roofs"}

FilesAssumption ==
    \A f \in Files :
        /\ f.pages # <<>>
        /\ \A i \in DOMAIN f.pages :
            LET p == f.pages[i]
                all == p.controls \o p.notes \o p.modules
            IN  \A j, k \in DOMAIN all :
                    j # k => <<all[j].x, all[j].y>> # <<all[k].x, all[k].y>>

(***************************************************************************)
(* Symbols and pages.                                                      *)
(***************************************************************************)

NoDetail     == [kind |-> "none", numbers |-> <<>>]
Address(a)   == [kind |-> "address", numbers |-> <<a>>]
List(a)      == [kind |-> "list", numbers |-> a]
Label        == [kind |-> "text", numbers |-> <<>>]

Instance(type, state, orientation, detail) ==
    [type |-> type, mode |-> "Normal", state |-> state, links |-> {},
     orientation |-> orientation, detail |-> detail]

Blank == Instance("Empty", "Undefined", 0, NoDetail)
Text  == Instance("Text", "Undefined", 0, Label)

\* resize() fills the page with blanks, row by row; then some cells are set.
Resized(rowCount, columns, placed) ==
    [columns |-> columns,
     cells |-> [o \in 0..(rowCount * columns - 1) |->
                    IF o \in DOMAIN placed THEN placed[o] ELSE Blank]]

NoPage == Resized(0, 0, <<>>)

\* rowCount(), offset(), row(), column(), and cells that exist, hasIndex().
RowCount(page) ==
    IF page.columns <= 0 THEN 0 ELSE Cardinality(DOMAIN page.cells) \div page.columns
OffsetOf(columns, row, column) == row * columns + column
RowOf(page, o)    == IF page.columns > 0 THEN o \div page.columns ELSE 0
ColumnOf(page, o) == IF page.columns > 0 THEN o % page.columns ELSE 0
HasIndex(page, row, column) == row \in 0..(RowCount(page) - 1) /\ column \in 0..(page.columns - 1)

\* typeAt(): nothing outside the page.
TypeAt(page, row, column) ==
    IF HasIndex(page, row, column)
    THEN page.cells[OffsetOf(page.columns, row, column)].type ELSE "Empty"

\* drawLabels(): the numbers in their order, as long as there are places.
ShownNumbers(cell) ==
    SubSeq(cell.detail.numbers, 1, Min({Len(cell.detail.numbers), LabelPlaces(cell.type)}))

(***************************************************************************)
(* The presets, reset().                                                   *)
(***************************************************************************)

\* generateSymbolGallery(): a column for each type and a row for each orientation, with
\* texts at the top, at the left, and below each symbol.
StatesInOrder(type) == SelectSeq(StateOrder, LAMBDA s : s \in States(type))

GallerySymbol(i, t) ==
    LET type   == SymbolTypes[t + 1]
        states == StatesInOrder(type)
    IN  [type |-> type, mode |-> Modes[(i % 3) + 1], state |-> states[(i % Len(states)) + 1],
         links |-> IF HasLinks(type) THEN Center ELSE {}, orientation |-> Orientations[i + 1],
         detail |-> List(<<3 * i + 1, 3 * i + 2, 3 * i + 3>>)]

Gallery ==
    LET rowCount == 2 * Len(Orientations) + 1
        columns  == 2 * Len(SymbolTypes) + 1
        Cell(row, column) ==
            CASE row % 2 = 1 /\ column % 2 = 1 -> GallerySymbol(row \div 2, column \div 2)
              [] row % 2 = 1 /\ column = 0     -> Text
              [] row % 2 = 0 /\ column % 2 = 1 -> Text
              [] OTHER -> Blank
    IN  Resized(rowCount, columns, [o \in 0..(rowCount * columns - 1) |->
                                    Cell(o \div columns, o % columns)])

\* The pieces of a closed loop: curves, or switches, turn by an angle from a first
\* orientation on, and straight pieces prolong the sides.
Pieces(curve, first, angle, side) ==
    [i \in 1..(side * (360 \div angle)) |->
        Instance(IF (i - 1) % side = 0 THEN curve ELSE "Straight", "Undefined",
                 (first + angle * ((i - 1) \div side)) % 360, NoDetail)]

\* The same with an address, or two, for each piece.
Addressed(pieces, first) ==
    [i \in DOMAIN pieces |-> [pieces[i] EXCEPT !.detail = Address(first + i - 1)]]
Paired(pieces, first) ==
    [i \in DOMAIN pieces |->
        [pieces[i] EXCEPT !.detail = List(<<first + 2 * (i - 1), first + 2 * i - 1>>)]]

\* Each piece lies where the one before it points to; the way over a switch is its
\* orientation turned by some angle.  Heading() is the step southwards.
Heading(degrees) ==
    CASE degrees \in {315, 0, 45} -> -1 [] degrees \in {135, 180, 225} -> 1 [] OTHER -> 0

Loop(row, column, turn, pieces) ==
    LET At[i \in DOMAIN pieces] ==
            IF i = 1 THEN <<row, column>>
            ELSE LET last == At[i - 1]
                     way  == (pieces[i - 1].orientation + turn) % 360
                 IN  <<last[1] + Heading(way), last[2] + Heading((way + 90) % 360)>>
        Offsets == [i \in DOMAIN pieces |-> OffsetOf(24, At[i][1], At[i][2])]
    IN  [o \in ToSet(Offsets) |-> pieces[CHOOSE i \in DOMAIN pieces : Offsets[i] = o]]

\* generateLoops().
Loops ==
    Resized(16, 24,
           Loop(2, 10, 0, Pieces("NarrowCurve", 90, 90, 1))
        @@ Loop(3, 4, 0, Pieces("NarrowCurve", 135, 90, 1))
        @@ Loop(2, 4, 0, Pieces("NarrowCurve", 135, 90, 2))
        @@ Loop(6, 9, 0, Pieces("NarrowCurve", 90, 90, 2))
        @@ Loop(1, 3, 0, Pieces("WideCurve", 90, 45, 2))
        @@ Loop(1, 10, 0, Pieces("WideCurve", 90, 45, 1))
        @@ Loop(1, 15, 180, Addressed(Pieces("LeftHandPoint", 270, 45, 1), 1))
        @@ Loop(1, 20, 45, Addressed(Pieces("RightHandPoint", 45, 45, 1), 9))
        @@ Loop(6, 15, 180, Addressed(Pieces("YPoint", 270, 45, 1), 17))
        @@ Loop(6, 20, 45, Addressed(Pieces("ThreeWayPoint", 45, 45, 1), 25))
        @@ Loop(11, 10, 180, Pieces("Cross", 270, 45, 1))
        @@ Loop(11, 15, 180, Addressed(Pieces("SingleCrossPoint", 270, 45, 1), 33))
        @@ Loop(11, 20, 180, Paired(Pieces("DoubleCrossPoint", 270, 45, 1), 41)))

\* generateRoofs(): the same pieces four times; EndNorth has its joint in the south, the
\* tees and the corners are named for the sides that are closed.
RoofPieces ==
    <<<<1, 1, {}>>, <<1, 2, Sides>>, <<1, 4, {"South"}>>,
      <<2, 1, {"East"}>>, <<2, 2, {"East", "West"}>>, <<2, 3, {"East", "West", "South"}>>,
      <<2, 4, {"North", "South", "West"}>>,
      <<3, 1, {"East", "South"}>>, <<3, 2, {"West", "South"}>>,
      <<3, 3, {"North", "South", "East"}>>, <<3, 4, {"East", "West", "North"}>>,
      <<3, 5, {"West"}>>,
      <<4, 1, {"East", "North"}>>, <<4, 2, {"West", "North"}>>, <<4, 3, {"North"}>>>>

Roofs ==
    LET types == <<"RedRoof", "BlackRoof", "BrownRoof", "Platform">>
        Base(i) == OffsetOf(13, (i \div 2) * 5, (i % 2) * 6)
        placed == {<<i, k>> : i \in 0..3, k \in DOMAIN RoofPieces}
        Offset(p) == OffsetOf(13, RoofPieces[p[2]][1], RoofPieces[p[2]][2]) + Base(p[1])
        Piece(p) == [Instance(types[p[1] + 1], "Undefined", 0, NoDetail)
                        EXCEPT !.links = Center \cup RoofPieces[p[2]][3]]
    IN  Resized(11, 13, [o \in {Offset(p) : p \in placed} |->
                        Piece(CHOOSE p \in placed : Offset(p) = o)])

PresetPage(preset) ==
    CASE preset = "Empty"         -> NoPage
      [] preset = "SymbolGallery" -> Gallery
      [] preset = "Loops"         -> Loops
      [] preset = "Roofs"         -> Roofs

(***************************************************************************)
(* Layouts of the Z21 app, LayoutReader::read().                           *)
(***************************************************************************)

\* typeMap of readControls(); other numbers are not supported.
ControlTypes ==
    <<"Straight", "RightHandPoint", "LeftHandPoint", "DoubleCrossPoint", "ThreeWayPoint", "Empty",
      "Empty", "YPoint", "Decoupler", "SingleCrossPoint", "Light", "TwoLightsSignal",
      "ThreeLightsSignal", "FourLightsSignal", "Terminal", "Empty", "Empty", "ShuntingSignal",
      "SemaphoreSignal", "Empty", "Switch", "Empty", "Empty", "DoubleCrossPoint", "NarrowCurve",
      "Empty", "Button", "Trees", "WideCurve", "Platform", "RedRoof", "BlackRoof", "BrownRoof",
      "BridgeStraight", "BridgeEntry", "Empty", "LevelCrossing", "TunnelCurve", "TunnelEntry",
      "TunnelStraight", "Empty", "Empty", "Cross">>

ControlType(number) ==
    IF number + 1 \in DOMAIN ControlTypes THEN ControlTypes[number + 1] ELSE "Empty"

WithOneAddress == {"LeftHandPoint", "RightHandPoint", "YPoint", "SingleCrossPoint",
                   "DoubleCrossPointSimple", "TwoLightsSignal", "ShuntingSignal",
                   "SemaphoreSignal", "Button", "Decoupler", "Light", "Switch"}
WithTwoAddresses == {"ThreeWayPoint", "DoubleCrossPoint", "ThreeLightsSignal", "FourLightsSignal"}

ControlCell(r) ==
    LET type == ControlType(r.type)
    IN  IF type = "Empty" THEN Text
        ELSE Instance(type, DefaultState(type), r.angle,
                CASE type \in WithOneAddress   -> Address(r.address1)
                  [] type \in WithTwoAddresses -> List(<<r.address1, r.address2>>)
                  [] OTHER -> NoDetail)

\* readNotes(), readResponseModules(): a text, a straight piece with a name, a detector.
NoteCell(r) ==
    CASE r.type = 1 -> [Text EXCEPT !.orientation = r.angle]
      [] r.type = 2 -> Instance("Straight", DefaultState("Straight"), r.angle, Label)
      [] OTHER      -> Text

ModuleCell(r) ==
    Instance("Detector", DefaultState("Detector"), r.angle, List(<<r.address, r.aspect>>))

\* s_query_pageLimits: all places of the page, those of routes and signals too.
Places(p) == {<<r.x, r.y>> : r \in ToSet(p.controls \o p.notes \o p.modules)} \cup p.others

\* readPageBounds(): the places and one more in each direction.
Bounds(p) ==
    LET xs == IF Places(p) = {} THEN {0} ELSE {q[1] : q \in Places(p)}
        ys == IF Places(p) = {} THEN {0} ELSE {q[2] : q \in Places(p)}
    IN  [left |-> Min(xs) - 1, top |-> Min(ys) - 1,
         columns |-> Max(xs) - Min(xs) + 3, rows |-> Max(ys) - Min(ys) + 3]

\* setData() with CellRole, for a record of a table.
Put(page, bounds, r, cell) ==
    LET row    == r.y - bounds.top
        column == r.x - bounds.left
    IN  IF HasIndex(page, row, column)
        THEN [page EXCEPT !.cells[OffsetOf(page.columns, row, column)] = cell] ELSE page

\* The end of readControls(): roofs are linked with those of the same type around them.
\* A piece that has only joints to the north and the south is turned.
Linked(page) ==
    LET Neighbour(o, s) ==
            CASE s = "North" -> <<RowOf(page, o) - 1, ColumnOf(page, o)>>
              [] s = "South" -> <<RowOf(page, o) + 1, ColumnOf(page, o)>>
              [] s = "West"  -> <<RowOf(page, o), ColumnOf(page, o) - 1>>
              [] s = "East"  -> <<RowOf(page, o), ColumnOf(page, o) + 1>>
        Links(o) == Center \cup {s \in Sides : TypeAt(page, Neighbour(o, s)[1], Neighbour(o, s)[2])
                                                    = page.cells[o].type}
    IN  [page EXCEPT !.cells =
            [o \in DOMAIN @ |->
                IF HasLinks(@[o].type)
                THEN [@[o] EXCEPT !.links = Links(o),
                                  !.orientation = IF Links(o) = Vertical THEN 270 ELSE 0]
                ELSE @[o]]]

ReadPage(p) ==
    LET bounds == Bounds(p)
        empty  == Resized(bounds.rows, bounds.columns, <<>>)
        linked == Linked(FoldLeft(LAMBDA q, r : Put(q, bounds, r, ControlCell(r)),
                                  empty, p.controls))
        noted  == FoldLeft(LAMBDA q, r : Put(q, bounds, r, NoteCell(r)), linked, p.notes)
    IN  FoldLeft(LAMBDA q, r : Put(q, bounds, r, ModuleCell(r)), noted, p.modules)

\* findFile(): export/<any directory>/Loco.sqlite, the path as a sequence of names.
IsDatabase(path) == Len(path) = 3 /\ path[1] = "export" /\ path[3] = "Loco.sqlite"

\* The layout is found, extracted and opened, and all queries of all pages succeed.
\* Readers for separated values are registered but not implemented.
IsRead(f) ==
    /\ f.format = "z21"
    /\ \E path \in f.entries : IsDatabase(path)
    /\ f.extracted /\ f.opened
    /\ \A i \in DOMAIN f.pages : f.pages[i].readable

(***************************************************************************)
(* The page of lmrstudio.                                                  *)
(***************************************************************************)

FromPreset(preset) == [kind |-> "preset", preset |-> preset]
FromPage(p)        == [kind |-> "page", page |-> p]

Untold == [turnouts |-> [a \in Addresses |-> "none"], detectors |-> [d \in Sensors |-> "none"]]

Act == acts < MaxActs /\ acts' = acts + 1

Init ==
    /\ pages = <<NoPage>> /\ current = 1 /\ attached = FALSE /\ hears = {}
    /\ origin = <<FromPreset("Empty")>> /\ told = <<Untold>> /\ acts = 0

\* resetModel(): only the current page is reset.
New(preset) ==
    /\ Act
    /\ pages' = [pages EXCEPT ![current] = PresetPage(preset)]
    /\ origin' = [origin EXCEPT ![current] = FromPreset(preset)]
    /\ told' = [told EXCEPT ![current] = Untold]
    /\ UNCHANGED <<current, attached, hears>>

\* readFile(): all pages are replaced, or none; new views are attached as they are made.
Open(f) ==
    /\ Act
    /\ IF IsRead(f)
       THEN /\ pages' = [i \in DOMAIN f.pages |-> ReadPage(f.pages[i])]
            /\ origin' = [i \in DOMAIN f.pages |-> FromPage(f.pages[i])]
            /\ told' = [i \in DOMAIN f.pages |-> Untold]
            /\ current' = 1
            /\ hears' = IF attached THEN DOMAIN f.pages ELSE {}
       ELSE UNCHANGED <<pages, origin, told, current, hears>>
    /\ UNCHANGED attached

\* The user chooses another tab.
ShowPage(i) ==
    /\ i # current /\ Act
    /\ current' = i
    /\ UNCHANGED <<pages, attached, hears, origin, told>>

\* attachCurrentDevice(): nothing is asked for, the symbols stay as they are.
Attach ==
    /\ ~attached /\ Act
    /\ attached' = TRUE /\ hears' = DOMAIN pages
    /\ UNCHANGED <<pages, current, origin, told>>

\* The device is deleted, or another one without such controls is selected.
Detach ==
    /\ attached /\ Act
    /\ attached' = FALSE /\ hears' \in {{}, hears}
    /\ UNCHANGED <<pages, current, origin, told>>

\* findAccessories(): symbols with a single address.
IsAccessory(cell, a) == cell.detail = Address(a)

\* findDetectors(): only ports of the R-Bus are found.
IsDetector(cell, d) ==
    d.type = "RBusPort" /\ cell.type = "Detector" /\ cell.detail = List(d.numbers)

ForEachCell(page, Changed(_)) == [page EXCEPT !.cells = [o \in DOMAIN @ |-> Changed(@[o])]]

\* onTurnoutInfoChanged(), by the view of every page that hears it.
TellTurnout(a, lie) ==
    LET Changed(cell) ==
            IF IsAccessory(cell, a)
            THEN [cell EXCEPT !.state = StateFor(cell.type, lie, cell.state)] ELSE cell
    IN  /\ hears # {} /\ Act
        /\ pages' = [i \in DOMAIN pages |->
                        IF i \in hears THEN ForEachCell(pages[i], Changed) ELSE pages[i]]
        /\ told' = [i \in DOMAIN told |->
                        IF lie = "Unknown" \/ i \notin hears THEN told[i]
                        ELSE [told[i] EXCEPT !.turnouts[a] = lie]]
        /\ UNCHANGED <<current, attached, hears, origin>>

\* onDetectorInfoChanged(), by the view of every page that hears it.
TellDetector(d, occupancy) ==
    LET state == IF occupancy = "Occupied" THEN "Active" ELSE "Undefined"
        Changed(cell) == IF IsDetector(cell, d) THEN [cell EXCEPT !.state = state] ELSE cell
    IN  /\ hears # {} /\ Act
        /\ pages' = [i \in DOMAIN pages |->
                        IF i \in hears THEN ForEachCell(pages[i], Changed) ELSE pages[i]]
        /\ told' = [i \in DOMAIN told |->
                        IF i \notin hears THEN told[i]
                        ELSE [told[i] EXCEPT !.detectors[d] = occupancy]]
        /\ UNCHANGED <<current, attached, hears, origin>>

\* cellAction() without a control: the symbol itself is switched.
Click(a) ==
    \E o \in DOMAIN pages[current].cells :
        LET cell == pages[current].cells[o]
        IN  /\ IsAccessory(cell, a) /\ ValidStates(cell.type) # {}
            /\ LET new == NextState(cell.state, ValidStates(cell.type))
               IN  /\ TurnoutState(new) # "Unknown"
                   /\ pages' = [pages EXCEPT ![current].cells[o].state = new]
            /\ ~attached /\ Act
            /\ told' = [told EXCEPT ![current].turnouts[a] = "none"]
            /\ UNCHANGED <<current, attached, hears, origin>>

Next ==
    \/ \E preset \in Presets : New(preset)
    \/ \E f \in Files : Open(f)
    \/ \E i \in DOMAIN pages : ShowPage(i)
    \/ Attach
    \/ Detach
    \/ \E a \in Addresses, lie \in {"Straight", "Branched", "Unknown"} : TellTurnout(a, lie)
    \/ \E d \in Sensors, occupancy \in {"Free", "Occupied"} : TellDetector(d, occupancy)
    \/ \E a \in Addresses : Click(a)

Spec == Init /\ [][Next]_vars

-----------------------------------------------------------------------------

TypeOK ==
    /\ current \in DOMAIN pages /\ DOMAIN origin = DOMAIN pages /\ DOMAIN told = DOMAIN pages
    /\ hears \subseteq DOMAIN pages
    /\ \A i \in DOMAIN pages :
        /\ Cardinality(DOMAIN pages[i].cells) = RowCount(pages[i]) * pages[i].columns
        /\ \A o \in DOMAIN pages[i].cells : pages[i].cells[o].orientation \in ToSet(Orientations)

EveryCell(P(_, _)) ==
    \A i \in DOMAIN pages : \A o \in DOMAIN pages[i].cells : P(i, pages[i].cells[o])

\* There is a picture for whatever symbol a page has come to show, however it was read,
\* linked, clicked or informed; drawSymbol() has a warning for those that have none.
SymbolsAreDrawn == EveryCell(LAMBDA i, cell : cell.type # "Text" => HasPicture(cell))

\* Each record of a layout is shown, where it lies relative to the others, with the
\* margin around all of them free: readPageBounds(), setData() and offset().
Rim(page, o) == RowOf(page, o) \in {0, RowCount(page) - 1}
                    \/ ColumnOf(page, o) \in {0, page.columns - 1}

RecordsAreShown ==
    \A i \in DOMAIN pages : origin[i].kind = "page" =>
        LET p == origin[i].page
            records == p.controls \o p.notes \o p.modules
            used == {o \in DOMAIN pages[i].cells : pages[i].cells[o].type # "Empty"}
        IN  /\ Cardinality(used) = Len(records)
            /\ \A o \in used : ~Rim(pages[i], o)
            /\ used # {} =>
                LET one == CHOOSE o \in used :
                            \A q \in used : RowOf(pages[i], o) <= RowOf(pages[i], q)
                    first == CHOOSE r \in ToSet(records) :
                            /\ \A s \in ToSet(records) : r.y <= s.y
                            /\ \A s \in ToSet(records) : s.y = r.y => r.x <= s.x
                    row    == RowOf(pages[i], one)
                    column == Min({ColumnOf(pages[i], q) : q \in {q \in used : RowOf(pages[i], q) = row}})
                IN  used = {OffsetOf(pages[i].columns, row + r.y - first.y, column + r.x - first.x) :
                                r \in ToSet(records)}

\* The picture of a roof, turned as it is drawn, joins exactly those sides where the
\* layout has more of the same roof; in the preset each joint meets another, but for the
\* piece that shows all four.
SideAt(r, s) ==
    CASE s = "North" -> <<r.x, r.y - 1>> [] s = "South" -> <<r.x, r.y + 1>>
      [] s = "West"  -> <<r.x - 1, r.y>> [] s = "East"  -> <<r.x + 1, r.y>>

DrawnSides(cell) == Turned(LinkPicture(cell.links) \ Center, cell.orientation)

RoofsOf(p) == {r \in ToSet(p.controls) : HasLinks(ControlType(r.type))}

RoofsJoin ==
    \A i \in DOMAIN pages :
        LET page == pages[i]
        IN  IF origin[i].kind = "page"
            THEN LET p == origin[i].page
                     b == Bounds(p)
                 IN  \A r \in RoofsOf(p) :
                        DrawnSides(page.cells[OffsetOf(b.columns, r.y - b.top, r.x - b.left)])
                            = {s \in Sides : \E q \in RoofsOf(p) :
                                    q.type = r.type /\ <<q.x, q.y>> = SideAt(r, s)}
            ELSE origin[i].preset = "Roofs" =>
                 \A o \in DOMAIN page.cells :
                    /\ page.cells[o].links # CrossLink
                    => \A s \in DrawnSides(page.cells[o]) :
                        LET next == SideAt([x |-> ColumnOf(page, o), y |-> RowOf(page, o)], s)
                            other == page.cells[OffsetOf(page.columns, next[2], next[1])]
                        IN  /\ other.type = page.cells[o].type
                            /\ Turned({s}, 180) \subseteq DrawnSides(other)

\* A symbol shows each of its addresses; only detectors show the first of two numbers,
\* and the gallery counts beyond what its symbols have: drawLabels(), labels().
AddressesHaveLabels ==
    EveryCell(LAMBDA i, cell :
        /\ cell.type # "Detector" /\ origin[i] # FromPreset("SymbolGallery")
        => ShownNumbers(cell) = cell.detail.numbers)

\* The preset with loops numbers its symbols without a gap, and no address twice: a click
\* or an info means one symbol, and none lies over another.
AddressesAreDistinct ==
    \A i \in DOMAIN pages : origin[i] = FromPreset("Loops") =>
        LET with == {o \in DOMAIN pages[i].cells : pages[i].cells[o].detail.numbers # <<>>}
            all  == UNION {ToSet(pages[i].cells[o].detail.numbers) : o \in with}
        IN  /\ MapThenSumSet(LAMBDA o : Len(pages[i].cells[o].detail.numbers), with)
                    = Cardinality(all)
            /\ all = 1..Cardinality(all)

\* A symbol with one address shows what the page was told last of its turnout, unless it
\* was clicked since; a detector is active if and only if its port was told occupied
\* last, whatever is told of other addresses of the bus.
SymbolsFollow ==
    EveryCell(LAMBDA i, cell :
        /\ \A a \in Addresses :
            /\ IsAccessory(cell, a) /\ told[i].turnouts[a] # "none"
            => /\ cell.type \in Switchable => TurnoutState(cell.state) = told[i].turnouts[a]
               /\ cell.type \in Signals =>
                    (told[i].turnouts[a] = "Straight" <=> cell.state \in {"Red", "Stop"})
        /\ cell.type = "Detector" /\ Len(cell.detail.numbers) = 2 =>
            (cell.state = "Active" <=>
                \E d \in Sensors : /\ d.type = "RBusPort" /\ d.numbers = cell.detail.numbers
                                     /\ told[i].detectors[d] = "Occupied"))

\* What the page shows is the layout.
PlanIsShown ==
    /\ SymbolsAreDrawn /\ RecordsAreShown /\ RoofsJoin
    /\ AddressesHaveLabels /\ AddressesAreDistinct /\ SymbolsFollow
=============================================================================
