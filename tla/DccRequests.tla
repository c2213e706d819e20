---------------------------- MODULE DccRequests ----------------------------
(* What travels over the rails, and the numbers it is made of:               *)
(* lmrs::core::dcc (lmrs/core/dccconstants.h, dccrequest.cpp) and the        *)
(* conversions of lmrs/core/quantities.h.                                    *)
(*                                                                           *)
(* Packets are the sequences of bytes the code composes.  Heard is how a    *)
(* decoder reads them, after the tables of the DCC standard: the reference   *)
(* the packets are compared with.                                            *)
(*                                                                           *)
(* Abstractions.  A function state is the set of functions that are on, a    *)
(* speed a count of one of the four scales; texts and names are left out.    *)
EXTENDS Integers, SequencesExt, FiniteSetsExt, Bitwise

-----------------------------------------------------------------------------
(* Speeds.  A quantity of type SpeedQuantity<Steps> counts 1/Steps.          *)

Scale == [Speed14 |-> 15, Speed28 |-> 31, Speed126 |-> 127, SpeedPercentil |-> 100]

\* Speed: std::variant, whose monostate is a speed never told.
NoSpeed == [type |-> "none", count |-> 0]
Speeds  == {NoSpeed} \cup UNION {[type: {t}, count: 0..Scale[t]] : t \in DOMAIN Scale}

\* quantityCastHelper() of integers; the quotient is rounded to the nearest.
QuantityCast(type, speed) ==
    ((speed.count * Scale[type]) + (Scale[speed.type] \div 2)) \div Scale[speed.type]

SpeedCast(type, speed) ==
    [type |-> type,
     count |-> IF speed.type = "none" THEN 0 ELSE QuantityCast(type, speed)]

-----------------------------------------------------------------------------
(* Functions, in the groups of the packets.                                  *)

Functions == 0..68

FunctionGroups ==
    <<0..4, 5..8, 9..12, 13..20, 21..28, 29..36, 37..44, 45..52, 53..60, 61..68>>

\* A slip: the light gets the lowest bit of its group, as functions of others do.
MaskInOrder(group, state) == SumSet({2 ^ (fn - Min(group)) : fn \in group \cap state})

FunctionMask(group, state) ==
    LET bit(fn) == IF fn = 0 THEN 4 ELSE IF fn \in 1..4 THEN fn - 1 ELSE fn - Min(group)
    IN  SumSet({2 ^ bit(fn) : fn \in group \cap state})

-----------------------------------------------------------------------------
(* Variables.  An extended index has the number of the variable in its low   *)
(* bits, whether it lives on a page, and the page above them.                *)

SpaceRange == [Extended |-> 257..512, Susi |-> 900..1019]

ExtendedVariable(variable, page) ==
    LET index == IF variable < 256 THEN variable + 257 ELSE variable
    IN  (page * 4096) + ((index % 1024) | 1024)

SusiVariable(variable, page) == (page * 4096) + ((variable % 1024) | 2048)

VariableIndex(variable) == ((variable - 1) % 1024) + 1

HasPage(space, flag, variable) ==
    (variable & flag) # 0 /\ VariableIndex(variable) \in SpaceRange[space]
HasExtendedPage(variable) == HasPage("Extended", 1024, variable)
HasSusiPage(variable)     == HasPage("Susi", 2048, variable)

PageOf(space, pages, variable) ==
    IF VariableIndex(variable) \in SpaceRange[space]
    THEN (variable \div 4096) % pages ELSE 0
ExtendedPage(variable) == PageOf("Extended", 65536, variable)
SusiPage(variable)     == PageOf("Susi", 256, variable)

Cv31(variable) == ExtendedPage(variable) \div 256
Cv32(variable) == ExtendedPage(variable) % 256

-----------------------------------------------------------------------------
(* Packets.  <<>> is the invalid Request{}.                                  *)

\* updateChecksum()
WithChecksum(bytes) == Append(bytes, FoldLeft(LAMBDA sum, b : sum ^^ b, 0, bytes))

MultiFunctionPacket(address, command) ==
    WithChecksum((IF address < 128 THEN <<address>>
                  ELSE <<(address \div 256) | 192, address % 256>>) \o command)

SetSpeed14(address, speed, direction, light) ==
    IF speed > 15 \/ direction = "Unknown" THEN <<>>
    ELSE MultiFunctionPacket(address,
             <<64 + (IF direction = "Forward" THEN 32 ELSE 0)
                  + (IF light THEN 16 ELSE 0) + speed>>)

SetSpeed28(address, speed, direction) ==
    IF speed > 31 THEN <<>>
    ELSE SetSpeed14(address, speed \div 2, direction, speed % 2 = 1)

SetSpeed126(address, speed, direction) ==
    IF speed > 127 \/ direction = "Unknown" THEN <<>>
    ELSE MultiFunctionPacket(address,
             <<63, speed + (IF direction = "Forward" THEN 128 ELSE 0)>>)

\* The commands of the groups.  The mask of a group that has a byte of its own
\* may be anything, the others must be below 32.
GroupCommand ==
    <<<<128>>, <<176>>, <<160>>, <<222, 0>>, <<223, 0>>, <<216, 0>>, <<217, 0>>,
      <<218, 0>>, <<219, 0>>, <<220, 0>>>>

SetFunctions(address, group, functions) ==
    LET command == GroupCommand[group]
    IN  IF Len(command) = 1 /\ functions > 31 THEN <<>>
        ELSE MultiFunctionPacket(address, [command EXCEPT ![Len(command)] = @ | functions])

VariablePacket(code, variable, data) ==
    WithChecksum(<<code | ((variable - 1) \div 256), (variable - 1) % 256, data>>)

VerifyBit(variable, value, position) ==
    VariablePacket(120, variable, 224 + (IF value THEN 8 ELSE 0) + position)
VerifyByte(variable, value) == VariablePacket(116, variable, value)

-----------------------------------------------------------------------------
(* The decoder.                                                              *)

BitsOf(byte, first) == {first + bit : bit \in {i \in 0..7 : (byte \div (2 ^ i)) % 2 = 1}}

\* What an instruction does with the state of a decoder: steps is the number of
\* speed steps it is configured for.
Obeyed(state, command, steps) ==
    LET first    == command[1]
        forward(byte, flag) == IF (byte & flag) # 0 THEN "Forward" ELSE "Reverse"
        set(group, on) == [state EXCEPT !.functions = (@ \ group) \cup on]
        paged    == [c \in {222, 223} \cup (216..220) |->
                        IF c = 222 THEN 13 ELSE IF c = 223 THEN 21 ELSE 29 + (8 * (c - 216))]
    IN  CASE first \div 64 = 1 /\ steps # 127 ->
                [state EXCEPT !.direction = forward(first, 32),
                              !.count = IF steps = 15 THEN first % 16
                                        ELSE (2 * (first % 16)) + ((first \div 16) % 2),
                              !.functions = IF steps = 31 THEN @
                                            ELSE IF (first & 16) # 0 THEN @ \cup {0}
                                            ELSE @ \ {0}]
          [] first = 63 /\ Len(command) = 2 ->
                [state EXCEPT !.direction = forward(command[2], 128), !.count = command[2] % 128]
          [] first \div 32 = 4 ->
                set(0..4, BitsOf(first % 16, 1) \cup (IF (first & 16) # 0 THEN {0} ELSE {}))
          [] first \div 16 = 11 -> set(5..8, BitsOf(first % 16, 5))
          [] first \div 16 = 10 -> set(9..12, BitsOf(first % 16, 9))
          [] first \in DOMAIN paged /\ Len(command) = 2 ->
                set(paged[first]..(paged[first] + 7), BitsOf(command[2], paged[first]))
          [] OTHER -> state

Undamaged(packet) ==
    Len(packet) >= 3 /\ FoldLeft(LAMBDA sum, b : sum ^^ b, 0, packet) = 0

\* The decoders on the track, of any address, after a packet.
Heard(decoders, packet, steps) ==
    LET long    == packet[1] \in 192..231
        address == IF long THEN ((packet[1] - 192) * 256) + packet[2] ELSE packet[1]
        command == SubSeq(packet, IF long THEN 3 ELSE 2, Len(packet) - 1)
    IN  IF ~Undamaged(packet) \/ packet[1] \in 128..191 \/ packet[1] > 231
           \/ address \notin DOMAIN decoders THEN decoders
        ELSE [decoders EXCEPT ![address] = Obeyed(@, command, steps)]

\* What a decoder on the programming track is asked: whether a bit, or a variable,
\* has that value.
HeardOfVariable(packet) ==
    LET variable == ((packet[1] % 4) * 256) + packet[2] + 1
        kind     == CASE (packet[1] & 12) = 8 -> "verifyBit"
                      [] (packet[1] & 12) = 4 -> "verifyByte"
                      [] OTHER -> "other"
    IN  IF ~Undamaged(packet) \/ packet[1] \div 16 # 7 THEN [kind |-> "none"]
        ELSE IF kind = "verifyBit"
        THEN [kind |-> kind, variable |-> variable,
              value |-> (packet[3] & 8) # 0, position |-> packet[3] % 8]
        ELSE [kind |-> kind, variable |-> variable, value |-> packet[3]]
=============================================================================
