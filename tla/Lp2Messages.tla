---------------------------- MODULE Lp2Messages ----------------------------
(* The messages of the LokProgrammer: lmrs/esu/lp2message.cpp with the       *)
(* requests of lp2request.cpp and the responses of lp2response.cpp.          *)
(*                                                                           *)
(* A message is its type, the sequence number that pairs a response with its *)
(* request, an identifier and data.  Data is only taken for what its         *)
(* identifier and its length allow (Request::get(), Response::get()), and a  *)
(* value is only understood together with the request it answers.            *)
EXTENDS DccRequests

HeaderSize == 3
MessageType == [Request |-> 1, Response |-> 2]

Identifier ==
    [Reset |-> 0, GetInterfaceFlags |-> 1, GetInterfaceInfo |-> 2, SetInterfaceInfo |-> 3,
     SetPower |-> 16, SetAcknowledgeMode |-> 20, SendUfm |-> 42, ReceiveUfm |-> 43,
     SendDcc |-> 52, SetLedState |-> 76,
     DeviceFlagsResponse |-> 1, ValueResponse |-> 5, DccResponse |-> 7]

\* Data<identifier, minimumSize, maximumSize>.  UfmReceiveRequest is declared with
\* the identifier of UfmSendRequest.
Data ==
    [GetInterfaceInfoRequest |-> [identifier |-> "GetInterfaceInfo", sizes |-> 1..1],
     SetInterfaceInfoRequest |-> [identifier |-> "SetInterfaceInfo", sizes |-> 5..5],
     PowerSettings           |-> [identifier |-> "SetPower", sizes |-> 4..4],
     AcknowledgeSettings     |-> [identifier |-> "SetAcknowledgeMode", sizes |-> 3..3],
     DccRequest              |-> [identifier |-> "SendDcc", sizes |-> 9..256],
     UfmSendRequest          |-> [identifier |-> "SendUfm", sizes |-> 2..256],
     UfmReceiveRequest       |-> [identifier |-> "SendUfm", sizes |-> 2..256],
     SetLedStateRequest      |-> [identifier |-> "SetLedState", sizes |-> 3..3],
     InterfaceFlagsResponse  |-> [identifier |-> "DeviceFlagsResponse", sizes |-> 1..1],
     ValueResponse           |-> [identifier |-> "ValueResponse", sizes |-> 1..5],
     InterfaceInfoResponse   |-> [identifier |-> "ValueResponse", sizes |-> 1..5],
     DccResponse             |-> [identifier |-> "DccResponse", sizes |-> 1..256]]

\* makeMessageData()
Message(type, sequence, identifier, data) ==
    <<MessageType[type], sequence, Identifier[identifier]>> \o data
MessageData(message) == SubSeq(message, HeaderSize + 1, Len(message))

\* Message::isValid(), and the conditions of get().
Holds(message, type, dataType) ==
    /\ Len(message) >= HeaderSize
    /\ message[1] = MessageType[type]
    /\ message[3] = Identifier[Data[dataType].identifier]
    /\ Len(message) - HeaderSize \in Data[dataType].sizes

-----------------------------------------------------------------------------
(* Requests.                                                                 *)

InterfaceInfo ==
    [ManufacturerId |-> 0, ProductId |-> 1, SerialNumber |-> 2, ProductionDate |-> 3,
     BootloaderCode |-> 4, BootloaderDate |-> 5, ApplicationCode |-> 6,
     ApplicationDate |-> 7, ApplicationType |-> 8]

PowerMode == [Disabled |-> 0, Enabled |-> 1, Service |-> 2]
PowerSettings ==
    [Disabled |-> <<PowerMode.Disabled, 0, 0, 0>>, Enabled |-> <<PowerMode.Enabled, 0, 45, 25>>,
     Service  |-> <<PowerMode.Service, 0, 40, 25>>]

\* shortPulse, longPulse, preambleBits, stopBits, repeatCount, extCount
Nack == <<58, 100, 18, 2, 1, 0>>
Ack  == <<58, 100, 18, 2, 5, 5>>

\* The packets for vehicles want no answer, those for variables want the decoder's
\* acknowledgement.
DccRequest(settings, packet) == settings \o packet

InterfaceInfoOf(info, sequence) ==
    Message("Request", sequence, "GetInterfaceInfo", <<InterfaceInfo[info]>>)
SetPower(mode, sequence) == Message("Request", sequence, "SetPower", PowerSettings[mode])
SendDcc(request, sequence) == Message("Request", sequence, "SendDcc", request)

\* How a LokProgrammer powers the track for a request, and what it puts on the
\* rails: external.
Powered(message) ==
    IF Holds(message, "Request", "PowerSettings")
    THEN {mode \in DOMAIN PowerMode : PowerMode[mode] = MessageData(message)[1]} ELSE {}
OnTheRails(message) ==
    IF Holds(message, "Request", "DccRequest")
    THEN SubSeq(message, HeaderSize + 7, Len(message)) ELSE <<>>

-----------------------------------------------------------------------------
(* Responses.  Numbers come with their lowest byte first.                    *)

Status == [Success |-> 0, UnknownError |-> 1, OperationFailed |-> 4, Overcurrent |-> 8]

Unset == <<>>       \* a null QVariant
Four(data) == <<data[2], data[3], data[4], data[5]>>
InvalidValue == <<255, 255, 255, 255>>

\* InterfaceInfoResponse::value().  Numbers are sequences of their bytes, dates
\* the seconds since 2000 as such a number, versions <<major, minor, build>>.
InfoValue(info, data) ==
    LET missing == Len(data) < 5
        bytes   == IF missing THEN <<0, 0, 0, 0>> ELSE Four(data)
    IN  CASE info \in {"ManufacturerId", "ProductId"} -> bytes
          [] info = "SerialNumber" -> IF bytes = InvalidValue THEN Unset ELSE bytes
          [] info \in {"BootloaderCode", "ApplicationCode"} ->
                IF missing \/ bytes = InvalidValue THEN Unset
                ELSE <<bytes[4], bytes[3], bytes[1] + (256 * bytes[2])>>
          [] info \in {"ProductionDate", "BootloaderDate", "ApplicationDate"} ->
                IF missing \/ bytes = InvalidValue THEN Unset ELSE bytes
          [] info = "ApplicationType" -> <<bytes[1]>>

\* Response::create() of an InterfaceInfoResponse looks into the request.
InfoOf(request) ==
    IF Holds(request, "Request", "GetInterfaceInfoRequest")
    THEN {i \in DOMAIN InterfaceInfo : InterfaceInfo[i] = MessageData(request)[1]} ELSE {}

\* The callback of readDeviceInformation(): what it notes for info.
NotedInfo(request, response) ==
    LET data == MessageData(response)
    IN  IF ~Holds(response, "Response", "InterfaceInfoResponse")
           \/ InfoOf(request) = {} \/ data[1] # Status.Success THEN Unset
        ELSE InfoValue(CHOOSE i \in InfoOf(request) : TRUE, data)

\* DccResponse::acknowledge()
Acknowledge(data) ==
    IF Len(data) < 2 THEN "None" ELSE IF data[2] # 0 THEN "Positive" ELSE "Negative"

\* readVariable()'s closure: what a response to a verification tells.
Verified(response) ==
    IF ~Holds(response, "Response", "DccResponse")
       \/ MessageData(response)[1] # Status.Success THEN "failed"
    ELSE Acknowledge(MessageData(response))
=============================================================================
