------------------------- MODULE DetectorAddresses -------------------------
(* Detectors of vehicles: their addresses (lmrs/core/detectors.cpp), what a  *)
(* Z21 is asked about them, and what the bytes of its messages about CAN     *)
(* detectors say (lmrs/roco/z21client.cpp).                                  *)
EXTENDS Integers, SequencesExt

-----------------------------------------------------------------------------
(* Addresses: a type, and the numbers that lead to the detector.             *)

Address(type, numbers) == [type |-> type, numbers |-> numbers]
Invalid == Address("Invalid", <<>>)

RBusGroups  == 0..1
RBusModules == 1..20
RBusPorts   == 1..8

\* The numbers in the addresses of each type, and their ranges.
Ranges ==
    LET quint8  == 0..255
        quint16 == 0..65535
    IN  [CanNetwork    |-> <<quint16>>,
         CanModule     |-> <<quint16, quint16>>,
         CanPort       |-> <<quint16, quint16, quint8>>,
         LissyModule   |-> <<quint16>>,
         LoconetSIC    |-> <<>>,
         LoconetModule |-> <<quint16>>,
         RBusGroup     |-> <<RBusGroups>>,
         RBusModule    |-> <<RBusModules>>,
         RBusPort      |-> <<RBusModules, RBusPorts>>]

CanTypes  == {"CanNetwork", "CanModule", "CanPort"}
RBusTypes == {"RBusGroup", "RBusModule", "RBusPort"}

\* forCanNetwork(), forCanModule() and their like
AddressFor(type, numbers) ==
    IF \A i \in DOMAIN numbers : numbers[i] \in Ranges[type][i]
    THEN Address(type, numbers) ELSE Invalid

\* operator==()
SameAddress(a, b) == a.type = b.type /\ a.numbers = b.numbers

\* What the getters return for addresses of other types is 0.
NumberIf(holds, a, i) == IF holds THEN a.numbers[i] ELSE 0

CanNetwork(a) == NumberIf(a.type \in CanTypes, a, 1)
CanModule(a)  == NumberIf(a.type \in {"CanModule", "CanPort"}, a, 2)
CanPort(a)    == NumberIf(a.type = "CanPort", a, 3)

LissyModule(a)   == NumberIf(a.type = "LissyModule", a, 1)
LoconetModule(a) == NumberIf(a.type = "LoconetModule", a, 1)

\* rbus::group()
Group(module) == (module - 1) \div 10

RBusGroup(a) ==
    CASE a.type = "RBusGroup"                  -> a.numbers[1]
      [] a.type \in {"RBusModule", "RBusPort"} -> Group(a.numbers[1])
      [] OTHER                                 -> 0
RBusModule(a) == NumberIf(a.type \in {"RBusModule", "RBusPort"}, a, 1)
RBusPort(a)   == NumberIf(a.type = "RBusPort", a, 2)

-----------------------------------------------------------------------------
(* Questions.                                                                *)

NoQuery == <<"none", 0>>

\* Client::queryDetectorInfo(): the bus and the number on it that is asked about;
\* the questions about LocoNet are not implemented.
Query(a) ==
    CASE a.type \in RBusTypes -> <<"RBus", RBusGroup(a)>>
      [] a.type \in CanTypes  -> <<"CAN", CanNetwork(a)>>
      [] OTHER                -> NoQuery

\* LoconetDetectorInfo::address(), with which the answers are told apart
LoconetQuery(a) ==
    CASE a.type = "LoconetSIC"    -> <<"SIC", 0>>
      [] a.type = "LoconetModule" -> <<"Report", LoconetModule(a)>>
      [] a.type = "LissyModule"   -> <<"Lissy", LissyModule(a)>>
      [] OTHER                    -> NoQuery

-----------------------------------------------------------------------------
(* The bytes of messages.                                                    *)

LittleEndian(data, i) == data[i] + 256 * data[i + 1]
Bits(value, from, count) == (value \div 2 ^ from) % 2 ^ count

CanOccupancy   == 1
CanVehicleSets == 17..31

\* The parts of a CanDetectorInfo.
CanFields(data) ==
    [network |-> LittleEndian(data, 1), module |-> LittleEndian(data, 3), port |-> data[5],
     type |-> data[6], value1 |-> LittleEndian(data, 7), value2 |-> LittleEndian(data, 9)]

CanOccupancyOf(value) == IF Bits(value, 12, 1) = 1 THEN "Occupied" ELSE "Free"
CanPowerOf(value) ==
    CASE Bits(value, 8, 3) = 0 -> "Off"
      [] Bits(value, 8, 3) = 1 -> "On"
      [] Bits(value, 8, 3) = 2 -> "Overload"
      [] OTHER                 -> "Unknown"

\* vehicle() and direction()
CanVehicle(value) == Bits(value, 0, 14)
CanDirection(value) ==
    CASE Bits(value, 14, 2) = 3 -> "Reverse"
      [] Bits(value, 14, 2) = 2 -> "Forward"
      [] OTHER                  -> "Unknown"

\* The values of a message that name vehicles: vehicles() and directions()
CanVehicleValues(f) ==
    IF f.type \notin CanVehicleSets \/ f.value1 = 0 THEN <<>>
    ELSE IF f.value2 = 0 THEN <<f.value1>> ELSE <<f.value1, f.value2>>

NewInfo(address) == [address |-> address, occupancy |-> "Unknown", power |-> "Unknown",
                     vehicles |-> <<>>, directions |-> <<>>]

\* One message more of the list that CanDetectorInfo::merge() puts together.
Merged(infos, data) ==
    LET f == CanFields(data)
        a == AddressFor("CanPort", <<f.network, f.module, f.port>>)
        i == SelectInSeq(infos, LAMBDA info : SameAddress(info.address, a))
        list  == IF i = 0 THEN Append(infos, NewInfo(a)) ELSE infos
        k     == IF i = 0 THEN Len(list) ELSE i
        words == CanVehicleValues(f)
    IN  IF f.type = CanOccupancy
        THEN [list EXCEPT ![k].occupancy = CanOccupancyOf(f.value1),
                          ![k].power = CanPowerOf(f.value1)]
        ELSE [list EXCEPT ![k].vehicles = @ \o [n \in DOMAIN words |-> CanVehicle(words[n])],
                          ![k].directions = @ \o [n \in DOMAIN words |-> CanDirection(words[n])]]
=============================================================================
