-------------------------- MODULE StationMessages --------------------------
(* What the serial stations make of the messages of their devices, and the   *)
(* devices of the answers: the vehicle and variable controls of the          *)
(* LokProgrammer (esu/lp2device.cpp) and of the MX1 (zimo/mx1device.cpp)     *)
(* above the layouts of Lp2Messages and Mx1Messages.                         *)
(*                                                                           *)
(* The MX1 takes speed and functions of a vehicle at once.  The LokProgrammer *)
(* is sent packets, eleven whenever a timer fires, for the vehicle last      *)
(* touched; decoders put its state together from them.                       *)
(*                                                                           *)
(* Abstractions.  Nothing is lost or reordered here, see Lp2Device and       *)
(* Mx1Device.  A decoder is configured for the speed steps it is driven with. *)
EXTENDS Integers, SequencesExt, FiniteSetsExt, TLC

CONSTANTS
    Addresses,      \* of the vehicles
    Touched,        \* functions that are switched
    Driven,         \* speeds that are set
    Accesses,       \* variables verified, read or written
    Stated,         \* what a station says of itself: [protocol, info, data, value]
    Sequences,      \* numbers nextSequence may be at, the counter all messages share
    MaxChanges      \* bound: calls of setSpeed() and setFunction()

Dcc == INSTANCE DccRequests
Lp2 == INSTANCE Lp2Messages
Mx1 == INSTANCE Mx1Messages

MessageAssumption ==
    /\ Addresses \subseteq 1..10239 /\ Touched \subseteq Dcc!Functions
    /\ Driven \subseteq Dcc!Speeds /\ Sequences \subseteq 0..255 /\ MaxChanges \in Nat

VARIABLES
    protocol,   \* "lp2" or "mx1"
    vehicles,   \* VehicleControl::vehicles: address -> [speed, direction, functions]
    current,    \* VehicleControl::currentAddress of the LokProgrammer, 0 initially
    decoders,   \* address -> [count, direction, functions]
    told,       \* history: what the decoders were meant to do
    exchanges,  \* the requests answered so far: [asked, heard, answer, outcome]
    unnoticed,  \* a frame of one damaged byte passed for a valid one
    changes

vars == <<protocol, vehicles, current, decoders, told, exchanges, unnoticed, changes>>

Init ==
    /\ protocol \in {"lp2", "mx1"}
    /\ vehicles = [a \in Addresses |->
           [speed |-> Dcc!NoSpeed, functions |-> {},
            direction |-> IF protocol = "lp2" THEN "Forward" ELSE "Unknown"]]
    /\ current = 0 /\ changes = 0 /\ unnoticed = FALSE
    /\ decoders = [a \in Addresses |-> [count |-> 0, direction |-> "Forward", functions |-> {}]]
    /\ told = decoders
    /\ exchanges = {}

\* What Request::nextSequence() gives i calls after n.
SequenceAfter(n, i) == (n + i) % 256

-----------------------------------------------------------------------------
(* Vehicles.                                                                 *)

\* What a vehicle is meant to do: of a speed in percent or of none, the step out
\* of 127 that is nearest.
Meant(vehicle, functions) ==
    LET speed == vehicle.speed
        nearest == {c \in 0..127 : LET off == 2 * ((c * Dcc!Scale[speed.type]) - (speed.count * 127))
                                   IN  off \in (1 - Dcc!Scale[speed.type])..Dcc!Scale[speed.type]}
    IN  [functions |-> vehicle.functions \cap functions,
         direction |-> IF vehicle.direction = "Reverse" THEN "Reverse" ELSE "Forward",
         count |-> CASE speed.type = "none" -> 0
                     [] speed.type = "SpeedPercentil" -> CHOOSE c \in nearest : TRUE
                     [] OTHER -> speed.count]

Steps(vehicle) ==
    IF vehicle.speed.type \in {"Speed14", "Speed28"} THEN Dcc!Scale[vehicle.speed.type] ELSE 127

\* The packets of VehicleControl::timerEvent(), those for the groups in their order.
Packets(address, vehicle) ==
    LET speed == vehicle.speed
        drive == CASE speed.type = "Speed14" ->
                          Dcc!SetSpeed14(address, speed.count, vehicle.direction, 0 \in vehicle.functions)
                   [] speed.type = "Speed28" ->
                          Dcc!SetSpeed28(address, speed.count, vehicle.direction)
                   [] OTHER -> Dcc!SetSpeed126(address, Dcc!SpeedCast("Speed126", speed).count,
                                               vehicle.direction)
    IN  <<drive>> \o [g \in 1..10 |-> Dcc!SetFunctions(address, g,
                          Dcc!FunctionMask(Dcc!FunctionGroups[g], vehicle.functions))]

\* VehicleControl::timerEvent() of the LokProgrammer, while the track is powered.
TimerEvent ==
    /\ protocol = "lp2" /\ current # 0
    /\ \E n \in Sequences :
           LET packets == Packets(current, vehicles[current])
               rails   == [i \in DOMAIN packets |->
                              Lp2!OnTheRails(Lp2!SendDcc(Lp2!DccRequest(Lp2!Nack, packets[i]),
                                                         SequenceAfter(n, i - 1)))]
           IN  decoders' = FoldLeft(LAMBDA d, p : Dcc!Heard(d, p, Steps(vehicles[current])),
                                    decoders, rails)
    /\ told' = [told EXCEPT ![current] = Meant(vehicles[current], Dcc!Functions)]
    /\ UNCHANGED <<protocol, vehicles, current, exchanges, unnoticed, changes>>

\* A frame in which the byte at i turned into another one.  Damaged flags may
\* change the format, and the checksum is looked for elsewhere then.
Damage(frame, i) == [frame EXCEPT ![i] = (@ + 1) % 256]

\* setSpeed() and setFunction(): the LokProgrammer waits for the timer, the MX1
\* is told at once (updateVehicleState()).
Touch(address, vehicle) ==
    /\ changes < MaxChanges /\ exchanges = {}
    /\ changes' = changes + 1
    /\ vehicles' = [vehicles EXCEPT ![address] = vehicle]
    /\ \/ /\ protocol = "lp2"
          /\ current' = address
          /\ UNCHANGED <<decoders, told, unnoticed>>
       \/ /\ protocol = "mx1"
          /\ \E n \in Sequences :
                 LET frame == Mx1!VehicleControl(n, address, vehicle)
                 IN  /\ decoders' = Mx1!HeardVehicleControl(decoders, frame)
                     /\ unnoticed' = (\E i \in DOMAIN frame \ {2} : Mx1!HasValidChecksum(Damage(frame, i)))
          /\ told' = [told EXCEPT ![address] = Meant(vehicle, 0..28)]
          /\ UNCHANGED current
    /\ UNCHANGED <<protocol, exchanges>>

SetSpeed(address, speed, direction) ==
    Touch(address, [vehicles[address] EXCEPT !.speed = speed, !.direction = direction])

SetFunction(address, function, enabled) ==
    Touch(address, [vehicles[address] EXCEPT
                       !.functions = IF enabled THEN @ \cup {function} ELSE @ \ {function}])

-----------------------------------------------------------------------------
(* Variables.                                                                *)

\* readVariable() of the LokProgrammer asks for bits and then for the byte: the
\* decoder acknowledges, which its programmer answers.
Verify(sequence, asked, answer) ==
    LET packet == IF asked.kind = "verifyBit"
                  THEN Dcc!VerifyBit(asked.variable, asked.value, asked.position)
                  ELSE Dcc!VerifyByte(asked.variable, asked.value)
        request  == Lp2!SendDcc(Lp2!DccRequest(Lp2!Ack, packet), sequence)
        response == Lp2!Message("Response", sequence, "DccResponse",
                        CASE answer = "Positive" -> <<Lp2!Status.Success, 255>>
                          [] answer = "Negative" -> <<Lp2!Status.Success, 0>>
                          [] OTHER -> <<Lp2!Status.OperationFailed>>)
    IN  [asked |-> asked, heard |-> Dcc!HeardOfVariable(Lp2!OnTheRails(request)),
         answer |-> [acknowledge |-> answer], outcome |-> [acknowledge |-> Lp2!Verified(response)]]

VerifyVariable(sequence, asked, answer) ==
    /\ protocol = "lp2" /\ asked.kind \in {"verifyBit", "verifyByte"}
    /\ exchanges' = {Verify(sequence, asked, answer)}
    /\ UNCHANGED <<protocol, vehicles, current, decoders, told, unnoticed, changes>>

\* The index the views pass on, which names the page as well.
Coded(asked) ==
    CASE asked.space = "Extended" -> Dcc!ExtendedVariable(asked.variable, asked.page)
      [] asked.space = "Susi"     -> Dcc!SusiVariable(asked.variable, asked.page)
      [] OTHER                    -> asked.variable

\* The space an index names.
SpaceOf(variable) ==
    CASE Dcc!HasExtendedPage(variable) -> "Extended"
      [] Dcc!HasSusiPage(variable)     -> "Susi"
      [] OTHER                         -> "Basic"

\* The variables that select the page, see VariableControl, which does not look
\* for the space but for the number.
Selection(variable) ==
    LET number == Dcc!VariableIndex(variable)
    IN  CASE number \in Dcc!SpaceRange.Extended ->
                <<<<31, Dcc!Cv31(variable)>>, <<32, Dcc!Cv32(variable)>>>>
          [] number \in Dcc!SpaceRange.Susi -> <<<<1021, Dcc!SusiPage(variable)>>>>
          [] OTHER -> <<>>

\* What the station hears of an access to a variable: the page is what the
\* selection before it names.
HeardAccess(sequence, asked) ==
    LET variable == Coded(asked)
        request(index, values) == Mx1!VariableControl(sequence, asked.address, index, values)
        selected == [i \in DOMAIN Selection(variable) |-> Mx1!HeardVariableControl(
                        request(Selection(variable)[i][1], <<Selection(variable)[i][2]>>))]
    IN  Mx1!HeardVariableControl(request(Dcc!VariableIndex(variable),
                                         IF asked.kind = "write" THEN <<asked.value>> ELSE <<>>))
          @@ [space |-> IF selected = <<>> THEN "Basic"
                        ELSE IF selected[1].variable = 31 THEN "Extended" ELSE "Susi",
              page |-> FoldLeft(LAMBDA page, s : (256 * page) + s.value, 0, selected)]

\* readVariable() and writeVariable() of the MX1.  The station answers with the
\* value, or with a status: succeeded (0) if the value is still to come.
Exchange(sequence, asked, status, result) ==
    LET request == Mx1!VariableControl(sequence, asked.address, asked.variable, <<>>)
        answer  == Mx1!FromData(0, <<Mx1!Type.SecondaryResponse, request[3], request[1]>>
                       \o (IF status # -1 THEN <<status>>
                           ELSE Append(SubSeq(request, 4, 7), result)))
    IN  [asked |-> asked, heard |-> HeardAccess(sequence, asked),
         answer  |-> [to |-> sequence, space |-> asked.space,
                      outcome |-> CASE status = -1 -> "value" [] status = 0 -> "waiting"
                                    [] OTHER -> "failed",
                      value |-> IF status = -1 THEN result ELSE 0],
         outcome |-> Mx1!VariableOutcome(answer)
                         @@ [to |-> Mx1!RequestSequence(answer), space |-> SpaceOf(Coded(asked))]]

AccessVariable(sequence, asked, status, result) ==
    /\ protocol = "mx1" /\ asked.kind \in {"read", "write"}
    /\ exchanges' = {Exchange(sequence, asked, status, result)}
    /\ UNCHANGED <<protocol, vehicles, current, decoders, told, unnoticed, changes>>

-----------------------------------------------------------------------------
(* The track power, and what the station says of itself.                     *)

\* Power control: the LokProgrammer is told how to power the track, the MX1 what
\* to do, or asked; it answers with flags.
Switch(sequence, control, flags) ==
    LET request == Mx1!ControlPower(sequence, control)
        answer  == Mx1!FromData(0, <<Mx1!Type.PrimaryResponse, request[3], request[1], flags>>)
    IN  IF protocol = "lp2"
        THEN [asked  |-> [power |-> {control}],
              heard  |-> [power |-> Lp2!Powered(Lp2!SetPower(control, sequence))],
              answer |-> [state |-> control], outcome |-> [state |-> control]]
        ELSE [asked  |-> [power |-> {control}],
              heard  |-> [power |-> Mx1!HeardPowerControl(request)],
              answer |-> [state |-> CASE flags % 2 = 1 -> "EmergencyStop"
                                      [] flags % 4 = 2 -> "PowerOn" [] OTHER -> "PowerOff"],
              outcome |-> [state |-> Mx1!PowerState(answer)]]

SwitchPower(sequence, control, flags) ==
    /\ control \in IF protocol = "lp2" THEN {"Disabled", "Enabled", "Service"}
                                       ELSE {"PowerOff", "PowerOn", "Query"}
    /\ exchanges' = {Switch(sequence, control, flags)}
    /\ UNCHANGED <<protocol, vehicles, current, decoders, told, unnoticed, changes>>

\* readDeviceInformation() of the LokProgrammer for one value.
NoteInfo(sequence, stated) ==
    Lp2!NotedInfo(Lp2!InterfaceInfoOf(stated.info, sequence),
                  Lp2!Message("Response", sequence, "ValueResponse", stated.data))

\* queryStationStatus() and queryStationEquipment() of the MX1; a short response
\* to the latter is not the answer yet.
NoteStation(sequence, stated) ==
    LET request == Mx1!QueryStation(sequence, stated.info)
        long    == Len(stated.data) > 13
        frame   == Mx1!FromData(0, IF long
                       THEN <<Mx1!Format.Long + Mx1!Type.SecondaryResponse, request[3], 5,
                              request[1]>> \o stated.data
                       ELSE <<Mx1!Type.SecondaryResponse, request[3], request[1]>> \o stated.data)
    IN  IF Mx1!RequestSequence(frame) # sequence \/ ~Mx1!HasValidChecksum(frame) THEN <<-1>>
        ELSE IF stated.info = "QueryStationStatus" THEN Mx1!StationStatus(frame)
        ELSE IF Mx1!DataSize(frame) > 1 THEN Mx1!StationEquipment(frame) ELSE <<>>

Note(sequence, stated) ==
    /\ stated.protocol = protocol
    /\ exchanges' = {[asked |-> [info |-> stated.info], heard |-> [info |-> stated.info],
                      answer |-> [info |-> stated.value],
                      outcome |-> [info |-> IF protocol = "lp2" THEN NoteInfo(sequence, stated)
                                            ELSE NoteStation(sequence, stated)]]}
    /\ UNCHANGED <<protocol, vehicles, current, decoders, told, unnoticed, changes>>

-----------------------------------------------------------------------------

Next ==
    \/ TimerEvent
    \/ \E a \in Addresses : \/ \E s \in Driven, d \in {"Forward", "Reverse"} : SetSpeed(a, s, d)
                            \/ \E f \in Touched :
                                  SetFunction(a, f, f \notin vehicles[a].functions)
    \* Bound: one exchanges, before anything is driven, with which exchanges share
    \* nothing but the counter.
    \/ /\ changes = 0 /\ exchanges = {}
       /\ \E n \in Sequences :
             \/ \E asked \in Accesses :
                   \/ \E answer \in {"Positive", "Negative", "failed"} :
                         VerifyVariable(n, asked, answer)
                   \/ \E status \in {-1, 0, 7}, result \in {1, 254} :
                         AccessVariable(n, asked, status, result)
             \/ \E stated \in Stated : Note(n, stated)
             \/ \E control \in {"Disabled", "Enabled", "Service", "PowerOff", "PowerOn", "Query"},
                  flags \in {0, 2, 131} : SwitchPower(n, control, flags)

-----------------------------------------------------------------------------
(* Properties.                                                               *)

\* What is told is what is heard: the packets of the LokProgrammer and the
\* requests of the MX1 leave every decoder with the speed, direction and functions
\* of its vehicle and every other decoder alone (DccRequest, vehicleControl());
\* variables keep their number on the way, an answer is taken for what it says
\* and by the request it is for, and no damaged byte goes unnoticed
\* (hasValidChecksum()).
MessagesAreUnderstood ==
    /\ decoders = told
    /\ \A e \in exchanges : e.heard = e.asked /\ e.outcome = e.answer
    /\ ~unnoticed
=============================================================================
