------------------------------ MODULE Devices -------------------------------
(* What the apps do with one device each, side by side: the paged access to  *)
(* the variables of a decoder (VariableControl), the speed meter (SpeedCat), *)
(* the commands through an ESU LokProgrammer (EsuProgrammer) and the table   *)
(* of the detectors of a Z21 (CanDetectors).  They run in apps of their own, *)
(* or on ports of their own, and share no state: a step of the whole is a    *)
(* step of one of them.                                                      *)
EXTENDS VariableControl

CONSTANTS
    Size, Window, MaxLines, MaxSessions,    \* see SpeedCat
    ListSize, MaxClicks, MaxRefusals,       \* see EsuProgrammer
    Ports, Trains, Decoderless,
    MaxMoves, MaxQueries, MaxLost           \* see CanDetectors

VARIABLES
    meterOpen, connectTimeoutId, timers, sampleCount, currentSample, samples, meterLine,
    sessions, measured,
    port, failed, powerMode, enabled, programming, requests, answers, actual, misled,
    spoiled, esuSpent,
    section, canLine, states, cache, attached, canRows, told, early, missed, canSpent

meter == <<meterOpen, connectTimeoutId, timers, sampleCount, currentSample, samples,
           meterLine, sessions, measured>>
esu   == <<port, failed, powerMode, enabled, programming, requests, answers, actual,
           misled, spoiled, esuSpent>>
detectors == <<section, canLine, states, cache, attached, canRows, told, early, missed,
               canSpent>>

Meter == INSTANCE SpeedCat WITH open <- meterOpen, line <- meterLine
Esu   == INSTANCE EsuProgrammer WITH spent <- esuSpent
Detectors == INSTANCE CanDetectors WITH line <- canLine, rows <- canRows, spent <- canSpent

ASSUME DevicesAssumption ==
    /\ Meter!SpeedCatAssumption
    /\ Esu!ProgrammerAssumption
    /\ Detectors!CanAssumption

DevicesInit == Init /\ Meter!Init /\ Esu!Init /\ Detectors!Init

DevicesNext ==
    \/ Next           /\ UNCHANGED <<meter, esu, detectors>>
    \/ Meter!Next     /\ UNCHANGED <<vars, esu, detectors>>
    \/ Esu!Next       /\ UNCHANGED <<vars, meter, detectors>>
    \/ Detectors!Next /\ UNCHANGED <<vars, meter, esu>>

DevicesSpec == DevicesInit /\ [][DevicesNext]_<<vars, meter, esu, detectors>>

-----------------------------------------------------------------------------
(* What is promised of the parts.                                            *)

\* See SpeedIsOfThisSession in SpeedCat: addMeasurement() and filteredSpeed().
SpeedIsOfThisSession == Meter!SpeedIsOfThisSession

\* See CommandsAreDone in EsuProgrammer: powerOn() and powerOff().
CommandsAreDone == Esu!CommandsAreDone

\* See DetectorsFollow in CanDetectors: mergeCanDetectorInfo() and isComplete().
DetectorsFollow == Detectors!DetectorsFollow
=============================================================================
