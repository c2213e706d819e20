---------------------------- MODULE CanDetectors ----------------------------
(* How the Z21 client puts the reports of CAN detectors together             *)
(* (lmrs/roco/z21client.cpp): a port tells that it is occupied and by which  *)
(* vehicles in several messages, with two vehicles in each, and the ports of *)
(* a network are passed on together once the reports of all are complete.    *)
(*                                                                           *)
(* Abstractions.  One network.  The messages of a port arrive in order, the  *)
(* ones of different ports in any.  Power states and directions are left     *)
(* out, as are the callbacks of queries, which no caller passes.             *)
EXTENDS Integers, FiniteSets, Sequences

CONSTANTS
    Ports,          \* keys of the detectors: module and port
    Trains,         \* what may stand on a section: sequences of vehicle addresses
    Decoderless,    \* a vehicle without decoder, which nobody can identify
    MaxMoves,       \* bound: how often trains move
    MaxQueries,     \* bound: queryCanDetectorInfo(), with each session
    MaxLost         \* bound: messages that are lost

NoVehicle == 0

CanAssumption ==
    /\ \A t \in Trains : t \in Seq(Nat \ {NoVehicle})
    /\ Decoderless \notin Trains /\ <<>> \in Trains
    /\ {MaxMoves, MaxQueries, MaxLost} \subseteq Nat

VARIABLES
    section,    \* what stands on the section of each port
    line,       \* messages under way, of each port
    states,     \* m_canDetectorStates: occupancy and vehicle sets, of the ports known
    cache,      \* DetectorControl::m_infoCache
    attached,   \* DetectorInfoTableModel::m_control is set
    rows,       \* DetectorInfoTableModel::m_rows, by port
    told,       \* history: what each port has reported so far
    early,      \* history: ports whose last news came before the table was attached
    missed,     \* history: ports of which a message was lost since the last query
    spent       \* history: <<moves, queries, losses>>

views == <<cache, attached, rows, early>>
vars == <<section, line, states, views, told, missed, spent>>

OneMore(i, bound) == spent[i] < bound /\ spent' = [spent EXCEPT ![i] = @ + 1]

Occupied(train) == train # <<>>
Vehicles(train) == IF train = Decoderless THEN <<>> ELSE train

\* The messages of a report: the occupancy, then pairs of vehicles up to one that ends
\* with no vehicle.
At(list, i) == IF i <= Len(list) THEN list[i] ELSE NoVehicle

SetsOf(train) ==
    LET list == Vehicles(train)
    IN  [n \in 1..((Len(list) \div 2) + 1) |->
             [type |-> n, vehicle1 |-> At(list, 2 * n - 1), vehicle2 |-> At(list, 2 * n)]]

Report(train) == <<[type |-> 0, occupied |-> Occupied(train)]>> \o SetsOf(train)

Empty == [occupancy |-> "invalid", sets |-> <<>>]

Init ==
    /\ section \in [Ports -> {<<>>, Decoderless}]
    /\ line = [p \in Ports |-> <<>>]
    /\ states = <<>> /\ cache = <<>> /\ attached = FALSE /\ rows = <<>> /\ early = {}
    /\ told = [p \in Ports |-> {}]
    /\ missed = Ports /\ spent = <<0, 0, 0>>

\* CanDetectorState::hasVehicles() and isComplete().
LastSet(s)     == s.sets[Len(s.sets)]
HasVehicles(s) == s.sets # <<>> /\ (LastSet(s).type # 1 \/ LastSet(s).vehicle1 # NoVehicle)

\* A slip of isComplete(): it does not look for the end of the list.
CompleteEarly(s) ==
    s.occupancy # "invalid" /\ s.sets # <<>> /\ HasVehicles(s) = (s.occupancy = "occupied")

IsComplete(s) ==
    /\ s.occupancy # "invalid" /\ s.sets # <<>> /\ LastSet(s).vehicle2 = NoVehicle
    /\ HasVehicles(s) = (s.occupancy = "occupied")

\* CanDetectorInfo::vehicles(): the two places of each set, of which the second counts
\* after a first one only.
SetAt(sets, place)     == sets[(place + 1) \div 2]
VehicleAt(sets, place) ==
    IF place % 2 = 1 THEN SetAt(sets, place).vehicle1 ELSE SetAt(sets, place).vehicle2
Taken(sets) ==
    {place \in 1..2 * Len(sets) : /\ SetAt(sets, place).vehicle1 # NoVehicle
                                  /\ VehicleAt(sets, place) # NoVehicle}

\* CanDetectorInfo::merge(): the vehicles of all sets, in the order of their places.
Place(sets, nth) ==
    CHOOSE place \in Taken(sets) : Cardinality({other \in Taken(sets) : other <= place}) = nth
Merge(s) ==
    [occupied |-> s.occupancy = "occupied",
     vehicles |-> [nth \in 1..Cardinality(Taken(s.sets)) |-> VehicleAt(s.sets, Place(s.sets, nth))]]

\* mergeCanDetectorInfo(): the first set begins a new list, others are appended.
With(s, m) ==
    CASE m.type = 0 -> [s EXCEPT !.occupancy = IF m.occupied THEN "occupied" ELSE "free"]
      [] m.type = 1 -> [s EXCEPT !.sets = <<m>>]
      [] OTHER      -> [s EXCEPT !.sets = Append(@, m)]

\* A map of ports in which some values were replaced or added.
Replaced(map, new) ==
    [p \in DOMAIN map \cup DOMAIN new |-> IF p \in DOMAIN new THEN new[p] ELSE map[p]]

\* maybeEmitCanDetectorInfo(), onDetectorInfoReceived(): all ports or none are passed on,
\* and of them what is new.
Emit(all) ==
    LET complete == \A p \in DOMAIN all : IsComplete(all[p])
        news == {p \in DOMAIN all : complete /\ (p \notin DOMAIN cache \/ cache[p] # Merge(all[p]))}
        infos == [p \in news |-> Merge(all[p])]
    IN  /\ cache' = Replaced(cache, infos)
        /\ rows' = IF attached THEN Replaced(rows, infos) ELSE rows
        /\ early' = IF attached THEN early \ news ELSE early \cup news

\* setDetectorControl(): the table is not told what is known already.
Attach ==
    /\ ~attached /\ attached' = TRUE
    /\ UNCHANGED <<section, line, states, cache, rows, early, told, missed, spent>>

Arrive(p) ==
    /\ line[p] # <<>>
    /\ line' = [line EXCEPT ![p] = Tail(@)]
    /\ LET old == IF p \in DOMAIN states THEN states[p] ELSE Empty
       IN  states' = Replaced(states, [known \in {p} |-> With(old, Head(line[p]))])
    /\ Emit(states')
    /\ UNCHANGED <<section, attached, told, missed, spent>>

Lose(p) ==
    /\ line[p] # <<>> /\ OneMore(3, MaxLost)
    /\ line' = [line EXCEPT ![p] = Tail(@)]
    /\ missed' = missed \cup {p}
    /\ UNCHANGED <<section, states, views, told>>

Move(p, train) ==
    /\ train # section[p] /\ OneMore(1, MaxMoves)
    /\ section' = [section EXCEPT ![p] = train]
    /\ line' = [line EXCEPT ![p] = @ \o Report(train)]
    /\ told' = [told EXCEPT ![p] = @ \cup {train}]
    /\ UNCHANGED <<states, views, missed>>

\* connectToHost() asks all networks; what was merged in the last session is kept.
Query ==
    /\ OneMore(2, MaxQueries)
    /\ line' = [p \in Ports |-> line[p] \o Report(section[p])]
    /\ told' = [p \in Ports |-> told[p] \cup {section[p]}]
    /\ missed' = {}
    /\ UNCHANGED <<section, states, views>>

Next ==
    \/ \E p \in Ports : Arrive(p) \/ Lose(p)
    \/ \E p \in Ports, train \in Trains \cup {Decoderless} : Move(p, train)
    \/ Query \/ Attach

Spec == Init /\ [][Next]_vars

-----------------------------------------------------------------------------

VehicleSet == [type : Nat \ {0}, vehicle1 : Nat, vehicle2 : Nat]
Message    == [type : {0}, occupied : BOOLEAN] \cup VehicleSet

AllTrains == Trains \cup {Decoderless}

TypeOK ==
    /\ section \in [Ports -> AllTrains]
    /\ line \in [Ports -> Seq(Message)] /\ told \in [Ports -> SUBSET AllTrains]
    /\ early \subseteq Ports /\ missed \subseteq Ports /\ attached \in BOOLEAN
    /\ DOMAIN rows \subseteq DOMAIN cache /\ DOMAIN cache \subseteq Ports
    /\ DOMAIN states \subseteq Ports /\ spent \in [1..3 -> Nat]
    /\ \A p \in DOMAIN states :
           states[p] \in [occupancy : {"invalid", "occupied", "free"}, sets : Seq(VehicleSet)]
    /\ \A p \in DOMAIN cache :
           cache[p].occupied \in BOOLEAN /\ cache[p].vehicles \in Seq(Nat \ {NoVehicle})

Info(train) == [occupied |-> Occupied(train), vehicles |-> Vehicles(train)]

\* What the table shows of a port is a train that stood there as a whole: never the
\* vehicles of two trains or some of one, unless a message was lost.  When all messages
\* have arrived, it is what stands there now, unless one was lost since the last query,
\* a vehicle has no decoder, which blocks its network, or the last news came before the
\* table was attached.  See mergeCanDetectorInfo().
DetectorsFollow ==
    /\ spent[3] = 0 =>
          \A p \in DOMAIN rows : \E train \in told[p] : rows[p] = Info(train)
    /\ missed = {} /\ (\A p \in Ports : line[p] = <<>> /\ section[p] # Decoderless) =>
          \A p \in Ports \ early : p \in DOMAIN rows /\ rows[p].vehicles = section[p]
=============================================================================
