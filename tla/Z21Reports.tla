----------------------------- MODULE Z21Reports -----------------------------
(* What the Z21 client makes of the reports of its command station           *)
(* (lmrs/roco/z21client.cpp), and what the device and its controls pass on   *)
(* (lmrs/roco/z21device.cpp, lmrs/core/device.cpp).  A message is offered to *)
(* the broadcast observer and to the observer of every pending query.        *)
(*                                                                           *)
(* Abstractions.  Numbers that need no conversion, names and the counters of *)
(* RailCom are plain values; a bit field is the set of its bits.  The track  *)
(* status and the subscriptions are in Z21Client, the CAN detectors in       *)
(* CanDetectors.  Messages of LocoNet detectors change nothing.              *)
EXTENDS Integers, FiniteSets, SequencesExt, Functions

CONSTANTS
    Scenes,         \* sets of subjects, of which one is at stake
    Values,         \* for each kind what may be true of its subjects: one or two values
    MaxChanges,     \* bound: changes at the station
    MaxQueries,     \* bound: queries of the application
    MaxLost,        \* bound: messages that are lost
    MaxSessions     \* bound: sessions

Attributes  == {"system", "serial", "hardware", "firmware", "xbus", "lock"}
Accessories == {"turnout", "accessory"}
Kinds       == Attributes \union Accessories \union {"vehicle", "railcom", "library", "rbus"}

\* The subjects of attributes, asked for in this order when a session begins.
Attribute(kind) == [kind |-> kind, address |-> 0]
Asked == <<"xbus", "firmware", "hardware", "serial", "system", "lock">>

ReportsAssumption ==
    /\ \A s \in Scenes : s \subseteq [kind : Kinds, address : Nat]
    /\ {MaxChanges, MaxQueries, MaxLost, MaxSessions} \subseteq Nat

VARIABLES
    scene,      \* the subjects at stake
    truth,      \* what is true of each
    requests,   \* queries under way to the station
    reports,    \* messages under way to the client
    pending,    \* m_pendingRequests: queries whose observer waits
    open,       \* a session is open
    shown,      \* last info signalled to the application, of the subjects known
    known,      \* VehicleControl::m_knownVehicles
    rows,       \* DeviceInfoModel::m_rows, once it has a device
    told,       \* history: what callbacks were told, with what was asked
    asked,      \* history: subjects queried in this session
    heard,      \* history: subjects reported in this session
    missed,     \* history: subjects whose last report was lost
    spent       \* history: <<changes, queries, losses, sessions>>

client == <<pending, open, shown, known, rows, told, asked, heard>>
vars == <<scene, truth, requests, reports, client, missed, spent>>

OneMore(i, bound) == spent[i] < bound /\ spent' = [spent EXCEPT ![i] = @ + 1]

(***************************************************************************)
(* The messages of the station.                                            *)
(***************************************************************************)
\* A number in two decimal digits, and a vehicle address as it is transmitted.
Decimal(n)  == 16 * (n \div 10) + (n % 10)
LongAddress(address) == IF address < 128 THEN address ELSE 49152 + address

Bits(functions) ==
    {f + 3 : f \in functions \ 0..4} \union {f - 1 : f \in functions \intersect 1..4}
        \union {4 : f \in functions \intersect {0}}

Report(s) ==
    LET v == truth[s] IN
    CASE s.kind = "vehicle" ->
            [id |-> "VehicleInfo", length |-> 14, address |-> LongAddress(s.address),
             protocol |-> v.protocol, functions |-> Bits(v.functions),
             speed |-> v.speed + IF v.direction = "Forward" THEN 128 ELSE 0]
      [] s.kind = "turnout" ->
            [id |-> "TurnoutInfo", length |-> 9, address |-> s.address - 1, state |-> v]
      [] s.kind = "accessory" ->
            [id |-> "AccessoryInfo", length |-> 10, address |-> s.address - 1, state |-> v]
      [] s.kind = "library" ->
            [id |-> "LibraryInfo", length |-> 16, address |-> s.address, name |-> v]
      [] s.kind = "rbus" ->
            [id |-> "RBusDetectorDataChanged", length |-> 15, group |-> s.address, ports |-> v]
      [] s.kind = "railcom" ->
            IF v = "none" THEN [id |-> "RailcomDataChanged", length |-> 4]
            ELSE [id |-> "RailcomDataChanged", length |-> 17, address |-> s.address, counter |-> v]
      [] s.kind = "system" ->
            [id |-> "SystemStateDataChanged", length |-> 20, current |-> v % 65536]
      [] s.kind = "serial" -> [id |-> "GetSerialNumber", length |-> 8, number |-> v]
      [] s.kind = "lock" -> [id |-> "GetLockState", length |-> 5, lock |-> v]
      [] s.kind = "xbus" ->
            [id |-> "GetVersionReply", length |-> 9, version |-> 16 * v[1] + v[2]]
      [] s.kind = "firmware" ->
            [id |-> "GetFirmwareVersionReply", length |-> 9,
             major |-> Decimal(v[1]), minor |-> Decimal(v[2])]
      [] s.kind = "hardware" ->
            LET version == truth[Attribute("firmware")]
            IN  [id |-> "GetHardwareInfo", length |-> 12, type |-> v,
                 major |-> Decimal(version[1]), minor |-> Decimal(version[2])]

(***************************************************************************)
(* What the client reads from a message.                                   *)
(***************************************************************************)
MinLength ==
    [VehicleInfo |-> 11, AccessoryInfo |-> 10, TurnoutInfo |-> 9, LibraryInfo |-> 16,
     RBusDetectorDataChanged |-> 11, RailcomDataChanged |-> 11, SystemStateDataChanged |-> 20,
     GetSerialNumber |-> 8, GetFirmwareVersionReply |-> 9, GetVersionReply |-> 9,
     GetHardwareInfo |-> 12, GetLockState |-> 5]

Parsed(m) == m.length >= MinLength[m.id]

\* The bits of F0, F1, F2 and so on.
FunctionBits == <<4, 0, 1, 2, 3>> \o [n \in 1..24 |-> n + 7]

FunctionsOf(bits) == {f \in 0..28 : FunctionBits[f + 1] \in bits}

SpeedType == (0 :> "Speed14") @@ (2 :> "Speed28") @@ (4 :> "Speed126")

VehicleInfo(m) ==
    [speed |-> <<SpeedType[m.protocol], m.speed % 128>>, functions |-> FunctionsOf(m.functions),
     direction |-> IF m.speed >= 128 THEN "Forward" ELSE "Reverse"]

\* VehicleInfo{address, {}, {}}: nothing is known but the address.
Blank == [speed |-> <<"none", 0>>, functions |-> {}, direction |-> "Unknown"]

FromBCD(byte) == 10 * (byte \div 16) + (byte % 16)
Version(m) == <<FromBCD(m.major), FromBCD(m.minor)>>
Signed(word) == IF word >= 32768 THEN word - 65536 ELSE word

Of(kind, address) == [kind |-> kind, address |-> address]

\* The detector infos of all 80 ports carry the address of their group, so that the
\* cache of the control keeps what the last port tells.
CachedOccupancy(ports) == IF 80 \in ports THEN "Occupied" ELSE "Free"

\* Accessories have numbers from one, but for the messages.
AccessoryAddress(m) == (m.address % 2048) + 1

Decoded(m) ==
    CASE m.id = "VehicleInfo" -> Of("vehicle", m.address % 16384) :> VehicleInfo(m)
      [] m.id = "TurnoutInfo" -> Of("turnout", AccessoryAddress(m)) :> m.state % 4
      [] m.id = "AccessoryInfo" -> Of("accessory", AccessoryAddress(m)) :> m.state
      [] m.id = "LibraryInfo" -> Of("library", m.address) :> m.name
      [] m.id = "RBusDetectorDataChanged" -> Of("rbus", m.group) :> CachedOccupancy(m.ports)
      [] m.id = "RailcomDataChanged" -> Of("railcom", m.address) :> m.counter
      [] m.id = "SystemStateDataChanged" -> Attribute("system") :> Signed(m.current)
      [] m.id = "GetSerialNumber" -> Attribute("serial") :> m.number
      [] m.id = "GetLockState" -> Attribute("lock") :> m.lock
      [] m.id = "GetVersionReply" -> Attribute("xbus") :> <<m.version \div 16, m.version % 16>>
      [] m.id = "GetFirmwareVersionReply" -> Attribute("firmware") :> Version(m)
      [] m.id = "GetHardwareInfo" ->
            Attribute("hardware") :> m.type @@ Attribute("firmware") :> Version(m)

\* parseBroadcasts(): a message is looked at by its length.
ByLength ==
    (9 :> "TurnoutInfo") @@ (10 :> "AccessoryInfo") @@ (11 :> "RailcomDataChanged")
        @@ (15 :> "RBusDetectorDataChanged") @@ (16 :> "LibraryInfo")
        @@ (17 :> "RailcomDataChanged") @@ (20 :> "SystemStateDataChanged")

Broadcast(m) ==
    /\ Parsed(m)
    /\ \/ m.id = "VehicleInfo"
       \/ m.length \in DOMAIN ByLength /\ ByLength[m.length] = m.id

\* What the observer of a query takes for its answer.
Replies ==
    [vehicle |-> "VehicleInfo", turnout |-> "TurnoutInfo", accessory |-> "AccessoryInfo",
     rbus |-> "RBusDetectorDataChanged", railcom |-> "RailcomDataChanged",
     system |-> "SystemStateDataChanged", serial |-> "GetSerialNumber", lock |-> "GetLockState",
     xbus |-> "GetVersionReply", firmware |-> "GetFirmwareVersionReply",
     hardware |-> "GetHardwareInfo"]

\* The empty answer to a query for RailCom does not tell which query it is for.
EmptyAnswer(q, m) == q.kind = "railcom" /\ ~Parsed(m)

\* A slip of queryRBusDetectorInfo(): the report of any group is the answer.
AnyAnswers(q, m) == m.id = Replies[q.kind]

Answers(q, m) ==
    /\ m.id = Replies[q.kind]
    /\ \/ EmptyAnswer(q, m)
       \/ Parsed(m) /\ (q.kind \in {"rbus", "railcom"} => q \in DOMAIN Decoded(m))

\* The callbacks of turnouts and accessories are not called for another address.
ToldOf(q, m) ==
    {[asked |-> q, got |-> s] : s \in {i \in DOMAIN Decoded(m) :
        i.kind = q.kind /\ (q.kind \in Accessories => i = q)}}

(***************************************************************************)
(* The station: things change, queries are answered, messages are lost.    *)
(***************************************************************************)
Init ==
    /\ scene \in Scenes
    /\ \E pick \in [scene -> 1..2] :
          /\ \A s \in scene : pick[s] \in DOMAIN Values[s.kind]
          /\ truth = [s \in scene |-> Values[s.kind][pick[s]]]
    /\ requests = <<>> /\ reports = <<>> /\ pending = <<>> /\ open = FALSE
    /\ shown = <<>> /\ known = {} /\ rows = <<>> /\ told = {} /\ asked = {} /\ heard = {}
    /\ missed = scene /\ spent = <<0, 0, 0, 0>>

\* What the station does not announce changes between sessions only.
Change(s) ==
    /\ OneMore(1, MaxChanges)
    /\ s.kind \in Attributes \ {"system"} => ~open
    /\ \E v \in ToSet(Values[s.kind]) : v # truth[s] /\ truth' = [truth EXCEPT ![s] = v]
    /\ IF open /\ Parsed(Report(s)')
         THEN reports' = Append(reports, Report(s)') /\ UNCHANGED missed
         ELSE missed' = missed \union {s} /\ UNCHANGED reports
    /\ UNCHANGED <<scene, requests, client>>

\* Accessories have numbers from zero in requests.
SubjectOf(r) == Of(r.kind, IF r.kind \in Accessories THEN r.address + 1 ELSE r.address)

Respond ==
    /\ requests # <<>>
    /\ requests' = Tail(requests)
    /\ reports' = IF SubjectOf(Head(requests)) \in scene
                   THEN Append(reports, Report(SubjectOf(Head(requests)))) ELSE reports
    /\ UNCHANGED <<scene, truth, client, missed, spent>>

LoseRequest ==
    /\ requests # <<>> /\ OneMore(3, MaxLost)
    /\ requests' = Tail(requests)
    /\ UNCHANGED <<scene, truth, reports, client, missed>>

LoseReport ==
    /\ reports # <<>> /\ OneMore(3, MaxLost)
    /\ reports' = Tail(reports)
    /\ missed' = missed \union IF Parsed(Head(reports)) THEN DOMAIN Decoded(Head(reports)) ELSE {}
    /\ UNCHANGED <<scene, truth, requests, client>>

(***************************************************************************)
(* The client.                                                             *)
(***************************************************************************)
Request(s) ==
    Of(s.kind, CASE s.kind \in Accessories -> (s.address - 1) % 16384
                 [] s.kind \in {"vehicle", "railcom"} -> s.address % 16384
                 [] OTHER -> s.address)

RequestsOf(queries) == [i \in 1..Len(queries) |-> Request(queries[i])]

\* Connecting forgets the observers, but nothing of what was told before; the device
\* then asks for its attributes.
Connect ==
    /\ ~open /\ OneMore(4, MaxSessions)
    /\ open' = TRUE
    /\ LET here(kind) == Attribute(kind) \in scene
           queries == SelectSeq(Asked, here)
       IN  /\ pending' = [i \in 1..Len(queries) |-> Attribute(queries[i])]
           /\ requests' = RequestsOf(pending')
           /\ asked' = ToSet(pending')
    /\ heard' = {}
    /\ UNCHANGED <<scene, truth, reports, shown, known, rows, told, missed>>

Disconnect ==
    /\ open /\ open' = FALSE
    /\ pending' = <<>> /\ requests' = <<>> /\ reports' = <<>> /\ missed' = scene
    /\ UNCHANGED <<scene, truth, shown, known, rows, told, asked, heard, spent>>

Query(s) ==
    /\ open /\ OneMore(2, MaxQueries)
    /\ s.kind \in {"vehicle", "railcom", "rbus"} \union Accessories
    /\ pending' = Append(pending, s)
    /\ requests' = Append(requests, Request(s))
    /\ asked' = asked \union {s}
    /\ UNCHANGED <<scene, truth, reports, open, shown, known, rows, told, heard, missed>>

\* Requests that wait too long for their answer are sent again.
ResendStarvedRequests ==
    /\ open /\ requests = <<>> /\ reports = <<>> /\ pending # <<>>
    /\ requests' = RequestsOf(pending)
    /\ UNCHANGED <<scene, truth, reports, client, missed, spent>>

\* RailCom tells of a vehicle, of which the application hears with nothing but its
\* address, unless it has been known before.
BlanksOf(infos) ==
    [v \in {Of("vehicle", s.address) : s \in {i \in DOMAIN infos :
                i.kind = "railcom" /\ i.address \notin known}} |-> Blank]

\* The attributes of the client, as the device tells them.
DeviceInfo == [s \in {i \in DOMAIN shown : i.kind \in Attributes} |-> shown[s]]

\* Attributes only tell of changes.
Changed(infos) ==
    {s \in DOMAIN infos : s.kind \in Attributes /\ (s \in DOMAIN shown => infos[s] # shown[s])}

\* DeviceInfoModel::onDeviceInfoChanged().
RowsAfter(infos) ==
    IF rows = <<>> THEN rows
    ELSE [rows EXCEPT !.attached = [s \in Changed(infos) |-> infos[s]] @@ @]

Receive ==
    /\ reports # <<>> /\ reports' = Tail(reports)
    /\ LET m == Head(reports)
           answered(q) == Answers(q, m)
           waits(q) == ~Answers(q, m)
           resolved == ToSet(SelectSeq(pending, answered))
           infos == IF Parsed(m) /\ (Broadcast(m) \/ resolved # {}) THEN Decoded(m) ELSE <<>>
       IN  /\ pending' = SelectSeq(pending, waits)
           /\ shown' = infos @@ BlanksOf(infos) @@ shown
           /\ known' = known \union {s.address : s \in {i \in DOMAIN infos :
                                        i.kind \in {"vehicle", "railcom", "library"}}}
           /\ rows' = RowsAfter(infos)
           /\ told' = IF Parsed(m) THEN told \union UNION {ToldOf(q, m) : q \in resolved} ELSE told
           /\ heard' = heard \union DOMAIN infos
           /\ missed' = missed \ DOMAIN infos
    /\ UNCHANGED <<scene, truth, requests, open, asked, spent>>

\* DeviceInfoModel::setDevice().
AttachModel ==
    /\ rows = <<>>
    /\ rows' = [attached |-> DeviceInfo]
    /\ UNCHANGED <<scene, truth, requests, reports, pending, open, shown, known, told, asked, heard,
                    missed, spent>>

Next ==
    \/ \E s \in scene : Change(s) \/ Query(s)
    \/ Respond \/ LoseRequest \/ LoseReport \/ Connect \/ Disconnect
    \/ ResendStarvedRequests \/ Receive \/ AttachModel
-----------------------------------------------------------------------------
TypeOK ==
    /\ scene \in Scenes /\ open \in BOOLEAN
    /\ ToSet(pending) \subseteq scene /\ asked \subseteq scene /\ missed \subseteq scene
    /\ DOMAIN shown \subseteq [kind : Kinds, address : Nat]

Expected(s) ==
    LET v == truth[s] IN
    CASE s.kind = "vehicle" -> [speed |-> <<SpeedType[v.protocol], v.speed>>,
                                functions |-> v.functions, direction |-> v.direction]
      [] OTHER -> v

\* What is shown of a group of R-Bus detectors is the state of its last port, so that
\* only "Occupied" says something of the group.
IsTrue(s) ==
    IF s.kind = "rbus" THEN shown[s] = "Occupied" => truth[s] # {}
    ELSE shown[s] = Expected(s)

\* What the application was told last of a subject is true of it as soon as no message
\* is under way, unless its last report was lost or it was silent.
ShownIsTrue ==
    open /\ requests = <<>> /\ reports = <<>> =>
        \A s \in scene \ missed :
            (s.kind = "railcom" => truth[s] # "none") =>
                s \in DOMAIN shown /\ IsTrue(s)

\* Once no query for attributes or for R-Bus detectors waits any more, each of them has
\* been answered in this session, whatever was lost.
AskedIsHeard ==
    open /\ pending = <<>> =>
        \A s \in asked : s.kind \in Attributes \union {"rbus"} => s \in heard

\* Callbacks are told of what was asked.  The one for vehicles may be told of another.
AnswersFit == \A t \in told : t.asked.kind # "vehicle" => t.asked = t.got

\* The reports of the station reach the application: parseDatagrams() with its observers,
\* the readers of each message, and the controls and the model that pass them on.
ReportsAgree ==
    /\ ShownIsTrue /\ AskedIsHeard /\ AnswersFit
    /\ rows # <<>> => rows.attached = DeviceInfo
=============================================================================
