----------------------------- MODULE DetectorTable -----------------------------
(* The table of detectors on the accessory page of lmrstudio                 *)
(* (apps/lmrstudio/detectorinfotablemodel.cpp), and the way of a report to   *)
(* it: a station measures, its messages are read, what they say is put       *)
(* together, the device's control passes on what it did not know already     *)
(* (lmrs/roco/z21device.cpp), and a row is replaced or added.                *)
(*                                                                           *)
(* Abstractions.  A text is the name of its form with the numbers in it; the *)
(* headers, the alignment and the user data of the cells are left out.  The  *)
(* messages of a report arrive together; CanDetectors says what happens if   *)
(* they do not.                                                              *)
EXTENDS DetectorAddresses

CONSTANTS
    Ports,          \* CAN ports in use: <<network, module, port>>
    Tellings,       \* what a port may tell: a word of occupancy and power, and a train,
                    \* a sequence of vehicle words
    None,           \* no control
    Controls,       \* detector controls, each of a device with a station of its own
    MaxReports      \* bound: reports

VARIABLES
    control,        \* m_control
    rows,           \* m_rows
    infoCache,      \* m_infoCache of each control: address -> info
    measured,       \* history: for each control, address -> what was last told of it
    missed,         \* history: for each control, the addresses the table shows nothing
                    \* of, or what another control told
    count

vars == <<control, rows, infoCache, measured, missed, count>>

Init ==
    /\ control = None /\ rows = <<>> /\ count = 0
    /\ infoCache = [c \in Controls |-> <<>>]
    /\ measured = [c \in Controls |-> <<>>]
    /\ missed = [c \in Controls |-> {}]

\* setDetectorControl(): the rows stay.
SetDetectorControl ==
    /\ \E c \in Controls \union {None} : c # control /\ control' = c
    /\ UNCHANGED <<rows, infoCache, measured, missed, count>>

-----------------------------------------------------------------------------
(* What the station sends.                                                   *)

Bytes(value) == <<value % 256, value \div 256>>

CanMessage(port, type, value1, value2) ==
    Bytes(port[1]) \o Bytes(port[2]) \o <<port[3], type>> \o Bytes(value1) \o Bytes(value2)

\* The occupancy, then pairs of vehicles up to one that is not full.
WordAt(train, i) == IF i <= Len(train) THEN train[i] ELSE 0
CanReport(port, word, train) ==
    <<CanMessage(port, CanOccupancy, word, 0)>>
    \o [n \in 1..(Len(train) \div 2 + 1) |->
           CanMessage(port, 16 + n, WordAt(train, 2 * n - 1), WordAt(train, 2 * n))]

-----------------------------------------------------------------------------
(* The table.                                                                *)

\* onDetectorInfoChanged()
Shown(list, info) ==
    LET i == SelectInSeq(list, LAMBDA row : SameAddress(row.address, info.address))
    IN  IF i = 0 THEN Append(list, info) ELSE [list EXCEPT ![i] = info]

\* onDetectorInfoReceived(): an info replaces the cached one of its address, and is
\* passed on if it differs.
Noticed(at, info) ==
    IF info.address \in DOMAIN at.cached /\ at.cached[info.address] = info THEN at
    ELSE [cached |-> (info.address :> info) @@ at.cached, news |-> Append(at.news, info)]

\* A station tells what it has measured, whether or not the table listens.
Report(c, infos, told) ==
    LET noticed == FoldLeft(Noticed, [cached |-> infoCache[c], news |-> <<>>], infos)
        news    == {noticed.news[i].address : i \in DOMAIN noticed.news}
    IN  /\ count < MaxReports /\ count' = count + 1
        /\ infoCache' = [infoCache EXCEPT ![c] = noticed.cached]
        /\ rows' = IF c = control THEN FoldLeft(Shown, rows, noticed.news) ELSE rows
        /\ measured' = [measured EXCEPT ![c] = told @@ @]
        /\ missed' = IF c = control
                     THEN [d \in Controls |-> IF d = c THEN missed[d] \ news
                                              ELSE missed[d] \union news]
                     ELSE [missed EXCEPT ![c] = @ \union news]
        /\ UNCHANGED control

\* A port tells what it sees, for several ports in one list.
CanReports ==
    \E c \in Controls, p \in Ports, q \in Ports, t \in Tellings :
        LET told(port) == [address |-> Address("CanPort", port), word |-> t.word, train |-> t.train]
            both       == IF p = q THEN CanReport(p, t.word, t.train)
                          ELSE CanReport(p, t.word, t.train) \o CanReport(q, t.word, t.train)
        IN  Report(c, FoldLeft(Merged, <<>>, both),
                   [a \in {told(p).address, told(q).address} |-> told(a.numbers)])

\* RBusDetectorInfo as a list: an info for each of 80 ports, all with the address of the
\* group.  Ports 3 to 79 are as free as port 2 here, and an info that repeats the one
\* before it changes nothing.
RBusInfos(group, occupied) ==
    LET ports == <<1, 2, 80>>
    IN  [i \in DOMAIN ports |->
            [NewInfo(AddressFor("RBusGroup", <<group>>)) EXCEPT
                !.occupancy = IF ports[i] \in occupied THEN "Occupied" ELSE "Free"]]

RBusReports ==
    \E c \in Controls, group \in RBusGroups, occupied \in {{}, {1}, {80}, {1, 80}} :
        LET a == Address("RBusGroup", <<group>>)
        IN  Report(c, RBusInfos(group, occupied), a :> [address |-> a, occupied |-> occupied])

Next == SetDetectorControl \/ CanReports \/ RBusReports

Spec == Init /\ [][Next]_vars

-----------------------------------------------------------------------------
(* Cells.                                                                    *)

Text(form, numbers) == [form |-> form, numbers |-> numbers]
Empty == Text("empty", <<>>)

TypeText(type) ==
    CASE type \in CanTypes                        -> "CAN"
      [] type \in RBusTypes                       -> "RBus"
      [] type \in {"LoconetSIC", "LoconetModule"} -> "LocoNet"
      [] type = "LissyModule"                     -> "Lissy"
      [] OTHER                                    -> ""

\* moduleName()
ModuleText(a) ==
    CASE a.type \in {"CanModule", "CanPort"}   -> Text("hex/number", <<CanNetwork(a), CanModule(a)>>)
      [] a.type = "CanNetwork"                 -> Text("hex", <<CanNetwork(a)>>)
      [] a.type = "RBusGroup"                  -> Text("Group #", <<RBusGroup(a)>>)
      [] a.type \in {"RBusModule", "RBusPort"} -> Text("Module #", <<RBusModule(a)>>)
      [] a.type = "LoconetSIC"                 -> Text("SIC", <<>>)
      [] a.type = "LoconetModule"              -> Text("number", <<LoconetModule(a)>>)
      [] a.type = "LissyModule"                -> Text("number", <<LissyModule(a)>>)
      [] OTHER                                 -> Empty

\* portNumber() and portName()
PortText(a) ==
    CASE a.type = "CanPort"  -> Text("number", <<CanPort(a)>>)
      [] a.type = "RBusPort" -> Text("number", <<RBusPort(a)>>)
      [] OTHER               -> Empty

\* vehicleDescription(): vehicles without address are left out.
VehiclesText(info) ==
    LET known == SelectSeq([i \in DOMAIN info.vehicles |-> i],
                           LAMBDA i : info.vehicles[i] # 0)
    IN  [k \in DOMAIN known |->
            [vehicle |-> info.vehicles[known[k]],
             arrow   |-> IF known[k] <= Len(info.directions)
                         THEN info.directions[known[k]] ELSE "Unknown"]]

\* data() of the columns that tell rows apart, and of the others
AddressCells(a) == <<TypeText(a.type), ModuleText(a), PortText(a)>>
StateCells(row) == [occupancy |-> row.occupancy, power |-> row.power,
                    vehicles |-> VehiclesText(row)]

-----------------------------------------------------------------------------
(* Properties.                                                               *)

\* Addresses of all types.
Samples ==
    {Address("CanNetwork", <<p[1]>>) : p \in Ports}
    \union {Address("CanModule", <<p[1], p[2]>>) : p \in Ports}
    \union {Address("CanPort", p) : p \in Ports}
    \union {Address("LissyModule", <<n>>) : n \in {0, 8}}
    \union {Address("LoconetSIC", <<>>)}
    \union {Address("LoconetModule", <<n>>) : n \in {0, 8}}
    \union {Address("RBusGroup", <<n>>) : n \in RBusGroups}
    \union {Address("RBusModule", <<n>>) : n \in RBusModules}
    \union {Address("RBusPort", <<m, p>>) : m \in RBusModules, p \in RBusPorts}

\* No two detectors have the same cells, and a question about one reaches the group of
\* ten modules, or the network, that it is in (moduleName(), queryDetectorInfo()).
AddressesAreTold ==
    /\ \A a \in Samples : AddressFor(a.type, a.numbers) = a
    /\ Cardinality({AddressCells(a) : a \in Samples}) = Cardinality(Samples)
    /\ \A g \in RBusGroups :
           Cardinality({RBusModule(a) : a \in {s \in Samples : s.type # "RBusGroup"
                                                   /\ Query(s) = <<"RBus", g>>}}) = 10
    /\ \A p \in Ports : Query(Address("CanPort", p)) = Query(Address("CanNetwork", <<p[1]>>))

\* What the words of a CAN port mean.
Meaning(m) ==
    [occupancy |-> IF m.word >= 4096 THEN "Occupied" ELSE "Free",
     power     |-> CASE m.word % 4096 < 256 -> "Off"
                     [] m.word % 4096 \in 256..511 -> "On"
                     [] m.word % 4096 >= 512 -> "Overload",
     vehicles  |-> [i \in DOMAIN m.train |->
                       [vehicle |-> m.train[i] % 16384,
                        arrow   |-> CASE m.train[i] >= 49152 -> "Reverse"
                                      [] m.train[i] \in 32768..49151 -> "Forward"
                                      [] OTHER -> "Unknown"]]]

\* What a row says of a detector is so.  The row of a group of R-Bus detectors that says
\* "Free" says nothing of the group: it is about the last of its ports only.
Fits(cells, m) ==
    IF m.address.type = "RBusGroup"
    THEN /\ cells.occupancy = "Occupied" => m.occupied # {}
         /\ cells.power = "Unknown" /\ cells.vehicles = <<>>
    ELSE cells = Meaning(m)

\* Each row can be told from the others, and each detector that has told the attached
\* control something new since that control was attached has a row, which shows what was
\* measured last, whatever other ports, modules and devices reported with it or since: a
\* report the control leaves out as old never is news to the table, and one it passes on
\* never undoes a later one (onDetectorInfoReceived(), onDetectorInfoChanged(), merge()).
TableShowsDetectors ==
    /\ Len(rows) = Cardinality({AddressCells(rows[i].address) : i \in DOMAIN rows})
    /\ {rows[i].address : i \in DOMAIN rows} \subseteq UNION {DOMAIN measured[c] : c \in Controls}
    /\ control # None =>
           \A a \in DOMAIN measured[control] \ missed[control] :
               \E i \in DOMAIN rows :
                   rows[i].address = a /\ Fits(StateCells(rows[i]), measured[control][a])
=============================================================================
