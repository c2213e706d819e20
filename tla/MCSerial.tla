------------------------------ MODULE MCSerial ------------------------------
(* A small instance for TLC of the serial devices' parts, each on its own:   *)
(* the MX1 over chunks that complete one frame or two, the framing of bytes  *)
(* below it with three frames whose payloads begin or end with a marker, and *)
(* the messages in the frames.                                               *)
EXTENDS Mx1Device

MCBursts   == {1, 2}
MCPayloads == {<<"S", "a">>, <<"a", "X">>, <<"X", "E">>}
MCErrors   == {"S", "E", "X"}

\* Two addresses, of which one is long, the speeds of all scales, functions of
\* five groups, the borders of the variables' spaces, and what a station says of
\* itself in full, in part and not at all.
MCAddresses == {127, 830}
MCSequences == {250}
MCTouched == {0, 5, 12, 20, 68}
SpeedOf(t, c) == [type |-> t, count |-> c]
MCDriven == {SpeedOf("Speed14", 9), SpeedOf("Speed28", 31), SpeedOf("Speed126", 64), SpeedOf("SpeedPercentil", 50)}
MCAccesses ==
    {[kind |-> "verifyBit", variable |-> v, value |-> b, position |-> p] :
         v \in {1, 257, 1024}, b \in BOOLEAN, p \in {0, 7}}
      \cup [kind: {"verifyByte"}, variable: {1, 257, 1024}, value: {0, 255}]
      \cup {[kind |-> k, address |-> a, space |-> p.space, variable |-> p.variable,
             page |-> p.page, value |-> IF k = "read" THEN 0 ELSE 200] :
               k \in {"read", "write"}, a \in {0, 830},
               p \in [space: {"Basic"}, variable: {1, 1024}, page: {0}]
                     \cup [space: {"Extended"}, variable: {257, 512}, page: {0, 255, 4099}]
                     \cup [space: {"Susi"}, variable: {900, 1019}, page: {0, 254}]}
Info(i, data, value) == [protocol |-> "lp2", info |-> i, data |-> data, value |-> value]
Station(i, data, value) == [protocol |-> "mx1", info |-> i, data |-> data, value |-> value]
MCStated ==
    {Info("ProductId", <<0, 87, 0, 0, 1>>, <<87, 0, 0, 1>>),
     Info("ProductId", <<1>>, <<>>),
     Info("SerialNumber", <<0, 255, 255, 255, 255>>, <<>>),
     Info("ApplicationCode", <<0, 66, 1, 2, 3>>, <<3, 2, 322>>),
     Info("BootloaderDate", <<0, 1, 0, 0, 0>>, <<1, 0, 0, 0>>),
     Info("ApplicationType", <<0, 3, 0, 0, 0>>, <<3>>),
     Station("QueryStationStatus", <<0, 1, 4, 160, 0, 50, 150>>,
             <<2600, 16000, 500, 15000>>),
     Station("QueryStationEquipment", <<0>>, <<>>),
     Station("QueryStationEquipment", 
             <<0, 0, 4, 0, 0, 1, 0, 0, 84, 9, 11, 20, 22, 0, 39, 0, 0, 0, 0, 0, 1, 146, 177>>,
             <<0, 4, 1, 0, 0, 84, 39, 2022, 11, 9, 0, 1, 146, 177>>),
     Station("QueryStationEquipment", 
             <<1, 2, 1, 0, 0, 1, 0, 0, 84, 9, 11, 20, 22, 0, 39, 0, 0, 0, 0>>,
             <<258, 1, 1, 0, 0, 84, 39, 2022, 11, 9>>)}

VARIABLES
    part,       \* what this behaviour is about
    masking, written, line, buffer, frames, damaged, damages, idle,
    protocol, vehicles, current, decoders, told, exchanges, unnoticed, changes

framing == <<masking, written, line, buffer, frames, damaged, damages, idle>>
messages == <<protocol, vehicles, current, decoders, told, exchanges, unnoticed, changes>>

Framing == INSTANCE FrameStream WITH
    Payloads <- MCPayloads, MinimumSize <- 2, Errors <- MCErrors, MaxDamage <- 1

Messages == INSTANCE StationMessages WITH
    Addresses <- MCAddresses, Touched <- MCTouched, Driven <- MCDriven,
    Accesses <- MCAccesses, Stated <- MCStated, Sequences <- MCSequences, MaxChanges <- 2

ASSUME Framing!FrameAssumption
ASSUME Messages!MessageAssumption

PartsInit ==
    /\ Init /\ Framing!Init /\ Messages!Init
    /\ \/ part = "mx1" /\ masking /\ protocol = "mx1"
       \/ part = "framing" /\ power = "PowerOff" /\ burst = 1 /\ protocol = "mx1"
       \/ part = "messages" /\ masking /\ power = "PowerOff" /\ burst = 1

PartsNext ==
    /\ \/ part = "mx1" /\ Next /\ UNCHANGED <<framing, messages>>
       \/ part = "framing" /\ Framing!Next /\ UNCHANGED <<vars, messages>>
       \/ part = "messages" /\ Messages!Next /\ UNCHANGED <<vars, framing>>
    /\ UNCHANGED part

PartsSpec ==
    /\ PartsInit /\ [][PartsNext]_<<vars, framing, messages, part>>
    /\ Fairness

\* See FramesSurviveChunks and Resynchronises in FrameStream: readNext(), with and
\* without damage.
FramesAreFound == Framing!FramesSurviveChunks /\ Framing!Resynchronises

\* See MessagesAreUnderstood in StationMessages: what the layouts of requests and
\* responses (lp2message.cpp, mx1message.cpp) say is what is heard.
MessagesAreUnderstood == Messages!MessagesAreUnderstood
=============================================================================
