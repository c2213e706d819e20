------------------------------ MODULE SpeedCat ------------------------------
(* The speed measurement of the KPF-Zeller Speed Cat (lmrs/kpfzeller/        *)
(* scdevice.cpp): a serial device that reports pulses line by line, a ring   *)
(* of samples with a filtered speed over a window of them, and a session     *)
(* that is guarded by a timeout until the first line.                        *)
(*                                                                           *)
(* Abstractions.  A sample is the number of the line it came with; lines     *)
(* are well formed, well formed but without a number, or something else that *)
(* is ignored.  Opening the port fails or not.  The factors between pulses   *)
(* and speed are left out: the filtered speed is the samples it is the mean  *)
(* of.                                                                       *)
EXTENDS Integers, SequencesExt

CONSTANTS
    Size,           \* samples.size(): 50
    Window,         \* the window of filteredSpeed(): 5
    MaxLines,       \* bound: lines that are received
    MaxSessions     \* bound: calls of connectToDevice()

SpeedCatAssumption ==
    Window \in Nat \ {0} /\ Size \in Nat /\ Size > Window /\ {MaxLines, MaxSessions} \subseteq Nat

NoTimer == 0
Unset   == 0

VARIABLES
    open,               \* serialPort->isOpen()
    connectTimeoutId,   \* Private::connectTimeoutId
    timers,             \* ids of the timers that run
    sampleCount, currentSample, samples,    \* members of SpeedMeter
    line,               \* history: number of the last line with a sample
    sessions,           \* history: calls of connectToDevice()
    measured            \* history: the samples of this session

ring == <<sampleCount, currentSample, samples>>
vars == <<open, connectTimeoutId, timers, ring, line, sessions, measured>>

Init ==
    /\ open = FALSE /\ connectTimeoutId = NoTimer /\ timers = {}
    /\ sampleCount = 0 /\ currentSample = 0 /\ samples = [i \in 0..(Size - 1) |-> Unset]
    /\ line = 0 /\ sessions = 0 /\ measured = <<>>

State == IF ~open THEN "Disconnected" ELSE IF sampleCount = 0 THEN "Connecting" ELSE "Connected"

\* disconnectFromDevice(): neither the ring's position nor the timer is reset.
Close == open' = FALSE /\ sampleCount' = 0 /\ measured' = <<>>

\* connectToDevice(): a session has a timer of its own; on an error of the port
\* reportError() closes it.
ConnectToDevice ==
    /\ ~open /\ sessions < MaxSessions /\ sessions' = sessions + 1
    /\ \/ /\ open' = TRUE
          /\ connectTimeoutId' = sessions' /\ timers' = timers \cup {sessions'}
          /\ UNCHANGED <<sampleCount, measured>>
       \/ Close /\ UNCHANGED <<connectTimeoutId, timers>>
    /\ UNCHANGED <<currentSample, samples, line>>

DisconnectFromDevice ==
    /\ open /\ Close
    /\ UNCHANGED <<connectTimeoutId, timers, currentSample, samples, line, sessions>>

CancelConnectTimeout ==
    /\ connectTimeoutId' = NoTimer /\ timers' = timers \ {connectTimeoutId}

\* A slip of addMeasurement(): the ring does not begin anew.
AddWithoutWrap(pulses) ==
    /\ sampleCount' = IF sampleCount < Size THEN sampleCount + 1 ELSE sampleCount
    /\ currentSample' = sampleCount' - 1
    /\ samples' = [samples EXCEPT ![currentSample'] = pulses]
    /\ measured' = Append(measured, pulses)

\* addMeasurement()
AddMeasurement(pulses) ==
    /\ currentSample' = IF sampleCount > 0 THEN (currentSample + 1) % Size ELSE currentSample
    /\ sampleCount' = IF sampleCount < Size THEN sampleCount + 1 ELSE sampleCount
    /\ samples' = [samples EXCEPT ![currentSample'] = pulses]
    /\ measured' = Append(measured, pulses)

\* onReadyRead(): a well formed line ends the waiting, with a number or without.
ReadLine ==
    /\ open /\ line < MaxLines
    /\ CancelConnectTimeout
    /\ \/ line' = line + 1 /\ AddMeasurement(line')
       \/ UNCHANGED <<ring, line, measured>>
    /\ UNCHANGED <<open, sessions>>

\* timerEvent(): timers of earlier sessions are not ours any more.
TimerEvent(id) ==
    /\ id \in timers
    /\ IF id = connectTimeoutId
       THEN CancelConnectTimeout /\ Close
       ELSE UNCHANGED <<open, connectTimeoutId, timers, sampleCount, measured>>
    /\ UNCHANGED <<currentSample, samples, line, sessions>>

Next ==
    \/ ConnectToDevice \/ DisconnectFromDevice \/ ReadLine
    \/ \E id \in 1..MaxSessions : TimerEvent(id)

Spec == Init /\ [][Next]_vars

-----------------------------------------------------------------------------

TypeOK ==
    /\ open \in BOOLEAN /\ connectTimeoutId \in 0..MaxSessions /\ timers \subseteq 1..MaxSessions
    /\ sampleCount \in 0..Size /\ currentSample \in 0..(Size - 1)
    /\ samples \in [0..(Size - 1) -> 0..MaxLines]

\* filteredSpeed(): the samples whose mean it is, of a window that ends before the
\* latest sample.
Smallest(a, b) == IF a < b THEN a ELSE b

Filtered ==
    LET windowSize == Smallest(sampleCount, Window)
        first == currentSample + Size - windowSize
    IN  [i \in 1..windowSize |-> samples[(first + i - 1) % Size]]

\* As soon as the window is full and has a predecessor of the latest sample for each
\* place, the filtered speed is that of the samples before the latest, in this session
\* and over the end of the ring; and the session is never closed by a timer once the
\* device was heard.  See addMeasurement(), filteredSpeed() and timerEvent().
SpeedIsOfThisSession ==
    /\ Len(measured) > Window =>
          Filtered = SubSeq(measured, Len(measured) - Window, Len(measured) - 1)
    /\ State = "Connected" => connectTimeoutId = NoTimer \/ connectTimeoutId \notin timers
=============================================================================
