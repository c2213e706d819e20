---------------------------- MODULE Mx1Messages ----------------------------
(* The messages of the ZIMO MX1: lmrs/zimo/mx1message.cpp and mx1message.h.  *)
(*                                                                           *)
(* A frame is a sequence number, flags, a code, data and a checksum of one   *)
(* byte in the short format or of two in the long one.  A response repeats   *)
(* code and sequence number of its request; where they are, and where its    *)
(* data begins, is a matter of the format.                                   *)
(*                                                                           *)
(* Positions are the code's offsets plus one.                                *)
EXTENDS DccRequests

Format == [Short |-> 0, Long |-> 128]
Type   == [Request |-> 0, PrimaryResponse |-> 64, SecondaryResponse |-> 32,
           SecondaryAcknowledgement |-> 96]
Host   == 16    \* Source::Host; the command station is 0, as a target as well
Code   == [Reset |-> 0, PowerControl |-> 2, VehicleControl |-> 3, QueryVehicle |-> 8,
           QueryStationStatus |-> 11, QueryStationEquipment |-> 13,
           SerialToolInfo |-> 17, VariableControl |-> 19]
PowerControl == [EmergencyStop |-> 0, PowerOff |-> 1, PowerOn |-> 2, Query |-> 3]

IsLong(flags) == (flags & 128) # 0

-----------------------------------------------------------------------------
(* Checksums.                                                                *)

RECURSIVE Repeated(_, _, _)
Repeated(Step(_), times, value) ==
    IF times = 0 THEN value ELSE Repeated(Step, times - 1, Step(value))

\* The look-up tables of checksum8() and checksum16().
Crc8Table == [byte \in 0..255 |->
    Repeated(LAMBDA c : IF c % 2 = 1 THEN (c \div 2) ^^ 140 ELSE c \div 2, 8, byte)]
Crc16Table == [byte \in 0..255 |->
    Repeated(LAMBDA c : IF c >= 32768 THEN ((2 * c) % 65536) ^^ 4129 ELSE 2 * c,
             8, byte * 256)]

Checksum8(data) == FoldLeft(LAMBDA crc, b : Crc8Table[crc ^^ b], 255, data)
Checksum16(data) ==
    FoldLeft(LAMBDA crc, b : ((crc * 256) % 65536) ^^ Crc16Table[(crc \div 256) ^^ b],
             65535, data)

Checksum(data) ==
    IF IsLong(data[2]) THEN <<Checksum16(data) \div 256, Checksum16(data) % 256>>
                       ELSE <<Checksum8(data)>>

\* Message::fromData(), which is only meant for 3 to 15 bytes.
FromData(sequence, data) == (<<sequence>> \o data) \o Checksum(<<sequence>> \o data)

ChecksumSize(frame) == IF IsLong(frame[2]) THEN 2 ELSE 1
HasValidChecksum(frame) ==
    LET data == SubSeq(frame, 1, Len(frame) - ChecksumSize(frame))
    IN  SubSeq(frame, Len(data) + 1, Len(frame)) = Checksum(data)

-----------------------------------------------------------------------------
(* Requests.                                                                 *)

CommandStationRequest == Type.Request + Format.Short + Host

RequestOf(sequence, code, data) ==
    FromData(sequence, <<CommandStationRequest, Code[code]>> \o data)

\* AddressType::DCC, and 14 bits of the address.
AddressOf(address) == <<((address \div 256) & 63) | 128, address % 256>>

\* vehicleControl(): only Speed14 and Speed28 have a speed system of their own.
SpeedSystem(speed) ==
    CASE speed.type = "Speed14" -> [bits |-> 4, count |-> speed.count]
      [] speed.type = "Speed28" -> [bits |-> 8, count |-> speed.count]
      [] OTHER -> [bits |-> 12, count |-> SpeedCast("Speed126", speed).count]

MaskFrom(first, count, functions) ==
    SumSet({2 ^ (fn - first) : fn \in functions \cap (first..(first + count - 1))})

VehicleControl(sequence, address, vehicle) ==
    LET fn == vehicle.functions
    IN  RequestOf(sequence, "VehicleControl",
            AddressOf(address)
                \o <<SpeedSystem(vehicle.speed).count,
                     (IF vehicle.direction = "Reverse" THEN 32 ELSE 0)
                        + (IF 0 \in fn THEN 16 ELSE 0) + SpeedSystem(vehicle.speed).bits,
                     MaskFrom(1, 8, fn), MaskFrom(9, 4, fn),
                     MaskFrom(13, 8, fn), MaskFrom(21, 8, fn)>>)

\* readVariable(), and writeVariable() with a byte more.
VariableControl(sequence, address, variable, values) ==
    RequestOf(sequence, "VariableControl",
              (AddressOf(address) \o <<variable \div 256, variable % 256>>) \o values)

\* powerControl(), queryStationStatus() and queryStationEquipment().
ControlPower(sequence, control) == RequestOf(sequence, "PowerControl", <<PowerControl[control]>>)
QueryStation(sequence, code) == RequestOf(sequence, code, <<0>>)

-----------------------------------------------------------------------------
(* The station, which reads the requests as mx1message.cpp lists them.       *)

FunctionsIn(frame) ==
    (IF (frame[7] & 16) # 0 THEN {0} ELSE {})
        \cup BitsOf(frame[8], 1) \cup BitsOf(frame[9], 9)
        \cup BitsOf(frame[10], 13) \cup BitsOf(frame[11], 21)

HeardVehicleControl(decoders, frame) ==
    LET address == (256 * (frame[4] % 64)) + frame[5]
    IN  IF ~HasValidChecksum(frame) \/ frame[3] # Code.VehicleControl
           \/ frame[4] < 128 \/ address \notin DOMAIN decoders THEN decoders
        ELSE [decoders EXCEPT ![address] =
                 [@ EXCEPT !.count = frame[6], !.functions = FunctionsIn(frame),
                           !.direction = IF (frame[7] & 32) # 0 THEN "Reverse" ELSE "Forward"]]

HeardPowerControl(frame) ==
    {c \in DOMAIN PowerControl : /\ HasValidChecksum(frame) /\ frame[3] = Code.PowerControl
                                  /\ PowerControl[c] = frame[4]}

HeardVariableControl(frame) ==
    IF ~HasValidChecksum(frame) \/ frame[3] # Code.VariableControl THEN [kind |-> "none"]
    ELSE [kind |-> IF Len(frame) = 8 THEN "read" ELSE "write",
          address |-> (256 * (frame[4] % 64)) + frame[5],
          variable |-> (256 * frame[6]) + frame[7],
          value |-> IF Len(frame) = 8 THEN 0 ELSE frame[8]]

-----------------------------------------------------------------------------
(* Responses.                                                                *)

RequestCode(frame)     == frame[3]
RequestSequence(frame) == IF IsLong(frame[2]) THEN frame[5] ELSE frame[4]
DataSize(frame)        == Len(frame) - (IF IsLong(frame[2]) THEN 6 ELSE 5)
\* Response::status(): a frame of any other length has none.
StatusOf(frame)        == IF Len(frame) = 6 THEN frame[5] ELSE -1

Word(frame, i) == (256 * frame[i]) + frame[i + 1]

\* PowerControl::updateState(), from the flags of a PowerControlResponse.
PowerState(frame) ==
    IF (frame[5] & 1) # 0 THEN "EmergencyStop"
    ELSE IF (frame[5] & 2) # 0 THEN "PowerOn" ELSE "PowerOff"

\* StationStatusReponse: milliamperes and millivolts of both tracks.
StationStatus(frame) ==
    <<10 * Word(frame, 6), 100 * frame[8], 10 * Word(frame, 9), 100 * frame[11]>>

\* StationEquipmentReponse: CAN address, device, versions of hardware and firmware,
\* date, and the serial number, which only the longer frames have: optionalData()
\* looks for it and one byte of checksum.
StationEquipment(frame) ==
    <<Word(frame, 6), frame[8], frame[11], frame[12], frame[13], frame[14], frame[20],
      (100 * frame[17]) + frame[18], frame[16], frame[15]>>
        \o (IF Len(frame) > 28 THEN SubSeq(frame, 25, 28) ELSE <<>>)

\* The callbacks of readVariable() and writeVariable(): what comes of a response.
VariableOutcome(frame) ==
    CASE StatusOf(frame) = -1 -> [outcome |-> "value", value |-> frame[9]]
      [] StatusOf(frame) > 0  -> [outcome |-> "failed", value |-> 0]
      [] OTHER                -> [outcome |-> "waiting", value |-> 0]
=============================================================================
